\* Two exchanges, of which one may have lost its connection while the other
\* holds the close back; two migrations and images with none, one or both of
\* them; two boots of the gateway and of the seed.
SPECIFICATION Spec
CONSTANTS
  Migrations = 2
  Exchanges = {e1, e2}
  MaxBoots = 2
CHECK_DEADLOCK FALSE
INVARIANTS
  MigrationsRunOnce
  AbortEndsRetries
  ExitZeroIsDurable
PROPERTY ShutdownEnds
