\* One tick per second; a token takes 60/2 = 30 and 60/3 = 20 seconds.
\* The clock passes the 30 after which an idle bucket would overflow.
\* One key: keys share nothing but the clock.
SPECIFICATION LimiterSpec
CONSTANTS
  Keys = {"k"}
  Rates = {2, 3}
  Second = 1
  MaxClock = 32
INVARIANTS
  NoCreditMinted
  RetryAfterHonoured
  RetryAfterTight
