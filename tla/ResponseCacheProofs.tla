------------------------ MODULE ResponseCacheProofs ------------------------
(* What holds of ResponseCache for any calls, bodies and lifetime.         *)
EXTENDS ResponseCache, FiniteSetTheorems, TLAPS

USE CacheConstants

Answers == Calls \cup {Legacy}

Rows == [answer : Answers, usage : BOOLEAN, readable : BOOLEAN,
         created : Nat, expires : Nat, hits : Nat]

CallStates ==
  {NotMade, Done}
  \cup [phase : {"calling"}, req : Requests]
  \cup [phase : {"replayed"}, req : Requests, at : Nat, answer : Answers, seen : Nat]

Types ==
  /\ clock \in Nat
  /\ DOMAIN entries \subseteq Bodies /\ \A b \in DOMAIN entries : entries[b] \in Rows
  /\ writes \in [Bodies -> Seq(Rows)]
  /\ call \in [Calls -> CallStates]

LastWrite(b) == writes[b][Len(writes[b])]

Stores(row, w) ==
  /\ row.answer = w.answer /\ row.usage = w.usage /\ row.readable = w.readable
  /\ row.expires = w.expires

(* A row is what was stored last, but for its hit count.                   *)
RowsAreLastWrites ==
  \A b \in DOMAIN entries : writes[b] # <<>> /\ Stores(entries[b], LastWrite(b))

(* Nothing but its own expiry removes a row.                               *)
LiveWritesAreKept ==
  \A b \in Bodies : writes[b] # <<>> /\ LastWrite(b).expires > clock => b \in DOMAIN entries

(* A call that has not ended has stored nothing, so nobody replayed it.    *)
UnderWay(c) == call[c].phase \in {"not_made", "calling"}

StoredByEnded ==
  \A c \in Calls : UnderWay(c) =>
    /\ \A b \in DOMAIN entries : entries[b].answer # c
    /\ \A d \in Replayed : call[d].answer # c

ReplaySound ==
  \A c \in Replayed :
    LET w == writes[call[c].req.body]
    IN /\ call[c].seen \in 1 .. Len(w)
       /\ call[c].answer = w[call[c].seen].answer
       /\ w[call[c].seen].readable
       /\ call[c].at < w[call[c].seen].expires
       /\ call[c].req.stream => w[call[c].seen].usage

Inv ==
  /\ Types
  /\ RowsAreLastWrites
  /\ LiveWritesAreKept
  /\ StoredByEnded
  /\ ReplaySound
  /\ HitsAreCounted

-----------------------------------------------------------------------------
(* An empty table, or the rows of an earlier run, satisfy the invariant. *)
LEMMA InitInv == Init => Inv
<1> SUFFICES ASSUME Init PROVE Inv
  OBVIOUS
<1>1. PICK held \in SUBSET Bodies, usage \in BOOLEAN, readable \in BOOLEAN, expires \in 1 .. TTL :
        /\ entries = [b \in held |-> LegacyRow(usage, readable, expires)]
        /\ writes = [b \in Bodies |-> IF b \in held THEN <<entries[b]>> ELSE <<>>]
  BY DEF Init
<1>2. clock = 0 /\ call = [c \in Calls |-> NotMade]
  BY DEF Init
<1>3. LegacyRow(usage, readable, expires) \in Rows
  BY DEF LegacyRow, Rows, Answers
<1>4. Types
  BY <1>1, <1>2, <1>3 DEF Types, CallStates
<1>5. \A b \in DOMAIN entries : writes[b] = <<entries[b]>>
  BY <1>1
<1>6. RowsAreLastWrites
  <2> SUFFICES ASSUME NEW b \in DOMAIN entries
               PROVE  writes[b] # <<>> /\ Stores(entries[b], LastWrite(b))
    BY DEF RowsAreLastWrites
  <2>1. writes[b] = <<entries[b]>>
    BY <1>5
  <2>2. LastWrite(b) = entries[b]
    BY <2>1 DEF LastWrite
  <2> QED
    BY <2>1, <2>2 DEF Stores
<1>7. LiveWritesAreKept
  BY <1>1 DEF LiveWritesAreKept
<1>8. Replayed = {}
  BY <1>2 DEF Replayed, NotMade
<1>9. StoredByEnded
  BY <1>1, <1>8 DEF StoredByEnded, LegacyRow
<1>10. ReplaySound
  BY <1>8 DEF ReplaySound
<1>11. HitsAreCounted
  <2> SUFFICES ASSUME NEW b \in DOMAIN entries
               PROVE  entries[b].hits = Cardinality(ReplaysOf(b, entries[b].answer))
    BY DEF HitsAreCounted
  <2>1. ReplaysOf(b, entries[b].answer) = {}
    BY <1>8 DEF ReplaysOf
  <2> QED
    BY <2>1, <1>1, FS_EmptySet DEF LegacyRow
<1> QED
  BY <1>4, <1>6, <1>7, <1>9, <1>10, <1>11 DEF Inv

-----------------------------------------------------------------------------
(* Replays are finitely many, and one more counts one more.                *)
LEMMA ReplaysFinite ==
  ASSUME NEW b, NEW answer
  PROVE  IsFiniteSet(ReplaysOf(b, answer))
<1>1. ReplaysOf(b, answer) \in SUBSET Calls
  BY DEF ReplaysOf, Replayed
<1> QED
  BY <1>1, FS_Subset

(* UPDATE ... hit_count + 1 leaves what the row stores alone.            *)
LEMMA CountedRow ==
  ASSUME NEW row \in Rows
  PROVE  /\ Counted(row) \in Rows
         /\ Stores(Counted(row), row)
         /\ Counted(row).hits = row.hits + 1 /\ Counted(row).created = row.created
BY DEF Counted, Rows, Stores

(* findAndRecordCacheHit: the replay is of the last write, and is counted.*)
LEMMA HitKeepsInv ==
  ASSUME Inv, NEW c \in Calls, NEW req \in Requests, NEW then \in Moments, Hit(c, req, then)
  PROVE  Inv'
<1> DEFINE h == req.body
<1>1. /\ h \in Bodies /\ CacheKeyOf(req) = h /\ clock \in Nat /\ then \in Nat /\ then >= clock
      /\ req.stream \in BOOLEAN
  BY DEF Requests, CacheKeyOf, Inv, Types, Moments
<1>2. /\ h \in DOMAIN entries /\ entries[h].expires > then /\ entries[h].readable
      /\ req.stream => entries[h].usage
      /\ call[c] = NotMade
  BY <1>1 DEF Hit, Claims, Live, Usable, Start
<1>3. /\ entries' = [entries EXCEPT ![h] = Counted(@)]
      /\ call' = [call EXCEPT ![c] = [phase |-> "replayed", req |-> req, at |-> then,
                     answer |-> entries[h].answer, seen |-> Len(writes[h])]]
      /\ writes' = writes /\ clock' = then
  BY <1>1 DEF Hit, Start
<1>4. entries[h] \in Rows /\ writes[h] \in Seq(Rows) /\ writes[h] # <<>>
      /\ Len(writes[h]) \in Nat /\ Len(writes[h]) >= 1
  BY <1>1, <1>2 DEF Inv, Types, RowsAreLastWrites
<1>5. LastWrite(h) \in Rows
  BY <1>4 DEF LastWrite
<1>6. /\ LastWrite(h).answer = entries[h].answer /\ LastWrite(h).expires = entries[h].expires
      /\ LastWrite(h).readable = entries[h].readable /\ LastWrite(h).usage = entries[h].usage
  BY <1>2 DEF Inv, RowsAreLastWrites, Stores
<1>7. /\ DOMAIN entries' = DOMAIN entries
      /\ \A b \in DOMAIN entries : b # h => entries'[b] = entries[b]
      /\ entries'[h] = Counted(entries[h])
  BY <1>2, <1>3
<1>7a. /\ entries'[h] \in Rows /\ Stores(entries'[h], entries[h])
       /\ entries'[h].hits = entries[h].hits + 1
  BY <1>4, <1>7, CountedRow
<1>8. call'[c] = [phase |-> "replayed", req |-> req, at |-> then,
                  answer |-> entries[h].answer, seen |-> Len(writes[h])]
      /\ \A d \in Calls : d # c => call'[d] = call[d]
  BY <1>3 DEF Inv, Types
<1>9. Replayed' = Replayed \cup {c} /\ c \notin Replayed
  BY <1>2, <1>8 DEF Replayed, NotMade
<1>10. Types'
  <2>1. call'[c] \in CallStates
    BY <1>1, <1>4, <1>8 DEF CallStates, Rows
  <2>2. entries'[h] \in Rows
    BY <1>4, <1>7, <1>7a
  <2> QED
    BY <1>1, <1>3, <1>7, <1>8, <2>1, <2>2 DEF Inv, Types
<1>11. RowsAreLastWrites'
  <2> SUFFICES ASSUME NEW b \in DOMAIN entries
               PROVE  writes[b] # <<>>
                      /\ Stores(entries'[b], LastWrite(b))
    BY <1>3, <1>7 DEF RowsAreLastWrites, LastWrite, Stores
  <2>1. CASE b = h
    BY <2>1, <1>4, <1>6, <1>7, <1>7a DEF Stores
  <2>2. CASE b # h
    BY <2>2, <1>7 DEF Inv, RowsAreLastWrites
  <2> QED
    BY <2>1, <2>2
<1>12. LiveWritesAreKept'
  <2> SUFFICES ASSUME NEW b \in Bodies, writes[b] # <<>>, LastWrite(b).expires > then
               PROVE  b \in DOMAIN entries
    BY <1>3, <1>7 DEF LiveWritesAreKept, LastWrite
  <2>1. LastWrite(b) \in Rows
    BY DEF LastWrite, Inv, Types
  <2>2. LastWrite(b).expires > clock
    BY <2>1, <1>1 DEF Rows
  <2> QED
    BY <2>2 DEF Inv, LiveWritesAreKept
<1>13. StoredByEnded'
  <2> SUFFICES ASSUME NEW e \in Calls, UnderWay(e)'
               PROVE  /\ \A b \in DOMAIN entries : entries'[b].answer # e
                      /\ \A d \in Replayed \cup {c} : call'[d].answer # e
    BY <1>7, <1>9 DEF StoredByEnded
  <2>1. e # c /\ UnderWay(e)
    BY <1>8 DEF UnderWay
  <2>2. \A b \in DOMAIN entries : entries[b].answer # e
    BY <2>1 DEF Inv, StoredByEnded
  <2>3. \A b \in DOMAIN entries : entries'[b].answer = entries[b].answer
    BY <1>4, <1>7, <1>7a DEF Stores
  <2>4. \A d \in Replayed : d # c /\ call'[d] = call[d] /\ call[d].answer # e
    BY <2>1, <1>8, <1>9 DEF Inv, StoredByEnded, Replayed
  <2> QED
    BY <2>2, <2>3, <2>4, <1>2, <1>8
<1>14. ReplaySound'
  <2> SUFFICES ASSUME NEW d \in Replayed \cup {c}
               PROVE  LET w == writes[call'[d].req.body]
                      IN /\ call'[d].seen \in 1 .. Len(w)
                         /\ call'[d].answer = w[call'[d].seen].answer
                         /\ w[call'[d].seen].readable
                         /\ call'[d].at < w[call'[d].seen].expires
                         /\ call'[d].req.stream => w[call'[d].seen].usage
    BY <1>3, <1>9 DEF ReplaySound
  <2>1. CASE d = c
    <3>1. /\ call'[d].req = req /\ call'[d].seen = Len(writes[h]) /\ call'[d].at = then
          /\ call'[d].answer = entries[h].answer
      BY <2>1, <1>8
    <3> QED
      BY <3>1, <1>1, <1>2, <1>4, <1>6 DEF LastWrite
  <2>2. CASE d # c
    BY <2>2, <1>8 DEF Inv, ReplaySound, Replayed
  <2> QED
    BY <2>1, <2>2
<1>15. HitsAreCounted'
  <2> DEFINE After(b) ==
        {d \in Replayed' : call'[d].req.body = b /\ call'[d].answer = entries'[b].answer}
  <2> SUFFICES ASSUME NEW b \in DOMAIN entries
               PROVE  entries'[b].hits = Cardinality(After(b))
    BY <1>7 DEF HitsAreCounted, ReplaysOf
  <2>1. entries'[b].answer = entries[b].answer
    BY <1>4, <1>7, <1>7a DEF Stores
  <2>2. entries[b].hits = Cardinality(ReplaysOf(b, entries[b].answer))
    BY DEF Inv, HitsAreCounted
  <2>3. \A d \in Replayed : d \in Calls /\ d # c /\ call'[d] = call[d]
    BY <1>8, <1>9 DEF Replayed
  <2>4. /\ call'[c].req.body = h /\ call'[c].answer = entries[h].answer
    BY <1>8
  <2>5. CASE b = h
    <3>1. After(b) = ReplaysOf(b, entries[b].answer) \cup {c}
      BY <2>1, <2>3, <2>4, <2>5, <1>9 DEF ReplaysOf
    <3>2. c \notin ReplaysOf(b, entries[b].answer)
      BY <1>9 DEF ReplaysOf
    <3>3. Cardinality(ReplaysOf(b, entries[b].answer) \cup {c})
            = Cardinality(ReplaysOf(b, entries[b].answer)) + 1
      BY <3>2, ReplaysFinite, FS_AddElement
    <3>4. entries'[b].hits = entries[b].hits + 1
      BY <2>5, <1>4, <1>7, <1>7a
    <3> QED
      BY <2>2, <3>1, <3>3, <3>4
  <2>6. CASE b # h
    <3>1. After(b) = ReplaysOf(b, entries[b].answer)
      BY <2>1, <2>3, <2>4, <2>6, <1>9 DEF ReplaysOf
    <3> QED
      BY <2>2, <2>6, <3>1, <1>7
  <2> QED
    BY <2>5, <2>6
<1> QED
  BY <1>10, <1>11, <1>12, <1>13, <1>14, <1>15 DEF Inv

(* upsertCacheEntry: the new row has the new answer and no hits yet.     *)
LEMMA StoreKeepsInv ==
  ASSUME Inv, NEW c \in Calls, NEW usage \in BOOLEAN, Store(c, usage)
  PROVE  Inv'
<1> DEFINE h == call[c].req.body
           row == NewRow(c, usage)
<1>1. /\ call[c].phase = "calling" /\ h \in Bodies /\ CacheKeyOf(call[c].req) = h
      /\ UnderWay(c)
  <2>1. call[c] \in CallStates /\ call[c].phase = "calling"
    BY DEF Store, Inv, Types
  <2>2. call[c].req \in Requests
    BY <2>1 DEF CallStates, NotMade, Done
  <2> QED
    BY <2>1, <2>2 DEF Requests, CacheKeyOf, UnderWay
<1>2. /\ row \in Rows /\ row.answer = c /\ row.hits = 0 /\ row.expires = clock + TTL
  BY DEF NewRow, Rows, Answers, Inv, Types
<1> HIDE DEF row
<1>3. /\ DOMAIN entries' = DOMAIN entries \cup {h}
      /\ entries'[h] = row
      /\ \A b \in DOMAIN entries : b # h => entries'[b] = entries[b]
  BY <1>1 DEF Store, Upsert, Replacement, row
<1>4. /\ call' = [call EXCEPT ![c] = Done]
      /\ writes' = [writes EXCEPT ![h] = Append(@, row)]
      /\ clock' = clock
  BY DEF Store, row
<1>5. /\ call'[c] = Done /\ \A d \in Calls : d # c => call'[d] = call[d]
      /\ writes'[h] = Append(writes[h], row)
      /\ \A b \in Bodies : b # h => writes'[b] = writes[b]
  BY <1>1, <1>4 DEF Inv, Types
<1>6. Replayed' = Replayed /\ \A d \in Replayed : d \in Calls /\ d # c /\ call'[d] = call[d]
  BY <1>1, <1>5 DEF Replayed, Done
<1>7. /\ writes[h] \in Seq(Rows) /\ Len(writes'[h]) = Len(writes[h]) + 1
      /\ writes'[h] # <<>> /\ writes'[h][Len(writes'[h])] = row
      /\ \A n \in 1 .. Len(writes[h]) : writes'[h][n] = writes[h][n]
  <2>1. writes[h] \in Seq(Rows)
    BY <1>1 DEF Inv, Types
  <2> QED
    BY <2>1, <1>2, <1>5
<1>8. Types'
  <2>1. writes' \in [Bodies -> Seq(Rows)]
    BY <1>2, <1>4, <1>7 DEF Inv, Types
  <2>2. call' \in [Calls -> CallStates]
    BY <1>4 DEF Inv, Types, CallStates
  <2>3. DOMAIN entries' \subseteq Bodies /\ \A b \in DOMAIN entries' : entries'[b] \in Rows
    BY <1>1, <1>2, <1>3 DEF Inv, Types
  <2> QED
    BY <2>1, <2>2, <2>3, <1>4 DEF Inv, Types
<1>9. RowsAreLastWrites'
  <2> SUFFICES ASSUME NEW b \in DOMAIN entries'
               PROVE  writes'[b] # <<>> /\ Stores(entries'[b], writes'[b][Len(writes'[b])])
    BY DEF RowsAreLastWrites, LastWrite, Stores
  <2>1. CASE b = h
    BY <2>1, <1>3, <1>7 DEF Stores
  <2>2. CASE b # h
    BY <2>2, <1>3, <1>5 DEF Inv, Types, RowsAreLastWrites, LastWrite
  <2> QED
    BY <2>1, <2>2
<1>10. LiveWritesAreKept'
  <2> SUFFICES ASSUME NEW b \in Bodies, writes'[b] # <<>>,
                      writes'[b][Len(writes'[b])].expires > clock
               PROVE  b \in DOMAIN entries'
    BY <1>4 DEF LiveWritesAreKept, LastWrite
  <2>1. CASE b = h
    BY <2>1, <1>3
  <2>2. CASE b # h
    BY <2>2, <1>3, <1>5 DEF Inv, LiveWritesAreKept, LastWrite
  <2> QED
    BY <2>1, <2>2
<1>11. StoredByEnded'
  <2> SUFFICES ASSUME NEW e \in Calls, UnderWay(e)'
               PROVE  /\ \A b \in DOMAIN entries' : entries'[b].answer # e
                      /\ \A d \in Replayed : call'[d].answer # e
    BY <1>6 DEF StoredByEnded
  <2>1. e # c /\ UnderWay(e)
    BY <1>5 DEF UnderWay, Done
  <2>2. /\ \A b \in DOMAIN entries : entries[b].answer # e
        /\ \A d \in Replayed : call[d].answer # e
    BY <2>1 DEF Inv, StoredByEnded
  <2> QED
    BY <2>1, <2>2, <1>2, <1>3, <1>6
<1>12. ReplaySound'
  <2> SUFFICES ASSUME NEW d \in Replayed
               PROVE  LET w == writes'[call[d].req.body]
                      IN /\ call[d].seen \in 1 .. Len(w)
                         /\ call[d].answer = w[call[d].seen].answer
                         /\ w[call[d].seen].readable
                         /\ call[d].at < w[call[d].seen].expires
                         /\ call[d].req.stream => w[call[d].seen].usage
    BY <1>6 DEF ReplaySound
  <2>1. call[d].req.body \in Bodies
    <3>1. call[d] \in CallStates /\ call[d].phase = "replayed"
      BY DEF Inv, Types, Replayed
    <3>2. call[d].req \in Requests
      BY <3>1 DEF CallStates, NotMade, Done
    <3> QED
      BY <3>2 DEF Requests
  <2>2. CASE call[d].req.body = h
    <3>1. LET w == writes[h]
          IN /\ call[d].seen \in 1 .. Len(w)
             /\ call[d].answer = w[call[d].seen].answer
             /\ w[call[d].seen].readable
             /\ call[d].at < w[call[d].seen].expires
             /\ call[d].req.stream => w[call[d].seen].usage
      BY <2>2 DEF Inv, ReplaySound
    <3>2. PICK n \in 1 .. Len(writes[h]) : n = call[d].seen
      BY <3>1
    <3>3. n \in 1 .. Len(writes'[h]) /\ writes'[h][n] = writes[h][n]
      <4>1. Len(writes[h]) \in Nat /\ Len(writes'[h]) = Len(writes[h]) + 1
        BY <1>7
      <4> QED
        BY <4>1, <1>7
    <3> QED
      BY <2>2, <3>1, <3>2, <3>3
  <2>3. CASE call[d].req.body # h
    BY <2>1, <2>3, <1>5 DEF Inv, ReplaySound
  <2> QED
    BY <2>2, <2>3
<1>13. HitsAreCounted'
  <2> DEFINE After(b) ==
        {d \in Replayed' : call'[d].req.body = b /\ call'[d].answer = entries'[b].answer}
  <2> SUFFICES ASSUME NEW b \in DOMAIN entries'
               PROVE  entries'[b].hits = Cardinality(After(b))
    BY DEF HitsAreCounted, ReplaysOf
  <2>1. CASE b = h
    <3>1. After(b) = {}
      BY <2>1, <1>1, <1>2, <1>3, <1>6 DEF Inv, StoredByEnded
    <3> QED
      BY <3>1, <2>1, <1>2, <1>3, FS_EmptySet
  <2>2. CASE b # h
    <3>1. b \in DOMAIN entries /\ entries'[b] = entries[b]
      BY <2>2, <1>3
    <3>2. After(b) = ReplaysOf(b, entries[b].answer)
      BY <3>1, <1>6 DEF ReplaysOf
    <3> QED
      BY <3>1, <3>2 DEF Inv, HitsAreCounted
  <2> QED
    BY <2>1, <2>2
<1> QED
  BY <1>8, <1>9, <1>10, <1>11, <1>12, <1>13 DEF Inv

(* The steps that end calls, drop expired rows or let time pass: no call   *)
(* comes under way that was not, and no replay is added.                   *)
LEMMA QuietStepKeepsInv ==
  ASSUME Inv,
         DOMAIN entries' \subseteq DOMAIN entries,
         \A b \in DOMAIN entries' : entries'[b] = entries[b],
         \A b \in DOMAIN entries \ DOMAIN entries' : entries[b].expires <= clock',
         clock' \in Nat, clock' >= clock,
         writes' = writes,
         call' \in [Calls -> CallStates],
         \A c \in Calls : UnderWay(c)' => UnderWay(c),
         \A c \in Calls : call[c].phase = "replayed" \/ call'[c].phase = "replayed"
                            => call'[c] = call[c]
  PROVE  Inv'
<1>1. Types'
  BY DEF Inv, Types
<1>2. RowsAreLastWrites'
  BY DEF Inv, RowsAreLastWrites, LastWrite, Stores
<1>3. LiveWritesAreKept'
  <2> SUFFICES ASSUME NEW b \in Bodies, writes[b] # <<>>, LastWrite(b).expires > clock'
               PROVE  b \in DOMAIN entries'
    BY DEF LiveWritesAreKept, LastWrite
  <2>1. LastWrite(b) \in Rows
    BY DEF LastWrite, Inv, Types
  <2>2. LastWrite(b).expires > clock
    BY <2>1 DEF Rows, Inv, Types
  <2>3. b \in DOMAIN entries /\ entries[b].expires = LastWrite(b).expires
    BY <2>2 DEF Inv, LiveWritesAreKept, RowsAreLastWrites, Stores
  <2> QED
    BY <2>1, <2>3 DEF Rows
<1>4. Replayed' = Replayed /\ \A d \in Replayed : call'[d] = call[d]
  BY DEF Replayed
<1>5. StoredByEnded'
  BY <1>4 DEF Inv, StoredByEnded
<1>6. ReplaySound'
  BY <1>4 DEF Inv, ReplaySound
<1>7. HitsAreCounted'
  <2> SUFFICES ASSUME NEW b \in DOMAIN entries'
               PROVE  entries[b].hits
                        = Cardinality({d \in Replayed : /\ call'[d].req.body = b
                                                        /\ call'[d].answer = entries[b].answer})
    BY <1>4 DEF HitsAreCounted, ReplaysOf
  <2>1. {d \in Replayed : call'[d].req.body = b /\ call'[d].answer = entries[b].answer}
          = ReplaysOf(b, entries[b].answer)
    BY <1>4 DEF ReplaysOf
  <2> QED
    BY <2>1 DEF Inv, HitsAreCounted
<1> QED
  BY <1>1, <1>2, <1>3, <1>5, <1>6, <1>7 DEF Inv

-----------------------------------------------------------------------------
(* Every step keeps the invariant.                                       *)
LEMMA NextKeepsInv == Inv /\ [Next]_vars => Inv'
<1> SUFFICES ASSUME Inv, [Next]_vars PROVE Inv'
  OBVIOUS
<1>0. clock \in Nat /\ call \in [Calls -> CallStates]
  BY DEF Inv, Types
<1>1. ASSUME NEW c \in Calls, NEW req \in Requests, NEW then \in Moments, Hit(c, req, then)
      PROVE  Inv'
  BY <1>1, HitKeepsInv
<1>2. ASSUME NEW c \in Calls, NEW req \in Requests, NEW then \in Moments, Miss(c, req, then)
      PROVE  Inv'
  <2>1. /\ call[c] = NotMade
        /\ call' = [call EXCEPT ![c] = [phase |-> "calling", req |-> req]]
        /\ entries' = entries /\ writes' = writes /\ clock' = then
        /\ then \in Nat /\ then >= clock
    BY <1>0, <1>2 DEF Miss, Start, Moments
  <2>2. /\ call'[c] = [phase |-> "calling", req |-> req]
        /\ \A d \in Calls : d # c => call'[d] = call[d]
    BY <1>0, <2>1
  <2>3. call' \in [Calls -> CallStates]
    BY <1>0, <2>1 DEF CallStates
  <2>4. \A d \in Calls : UnderWay(d)' => UnderWay(d)
    BY <2>1, <2>2 DEF UnderWay, NotMade
  <2>5. \A d \in Calls : call[d].phase = "replayed" \/ call'[d].phase = "replayed"
                            => call'[d] = call[d]
    BY <2>1, <2>2 DEF NotMade
  <2> QED
    BY <2>1, <2>3, <2>4, <2>5, QuietStepKeepsInv
<1>3. ASSUME NEW c \in Calls, NEW usage \in BOOLEAN, Store(c, usage)
      PROVE  Inv'
  BY <1>3, StoreKeepsInv
<1>4. ASSUME NEW c \in Calls, EndUncached(c)
      PROVE  Inv'
  <2>1. /\ call[c].phase = "calling" /\ call' = [call EXCEPT ![c] = Done]
        /\ entries' = entries /\ writes' = writes /\ clock' = clock
    BY <1>4 DEF EndUncached
  <2>2. call'[c] = Done /\ \A d \in Calls : d # c => call'[d] = call[d]
    BY <1>0, <2>1
  <2>3. call' \in [Calls -> CallStates]
    BY <1>0, <2>1 DEF CallStates
  <2>4. \A d \in Calls : UnderWay(d)' => UnderWay(d)
    BY <2>1, <2>2 DEF UnderWay, Done
  <2>5. \A d \in Calls : call[d].phase = "replayed" \/ call'[d].phase = "replayed"
                            => call'[d] = call[d]
    BY <2>1, <2>2 DEF Done
  <2> QED
    BY <1>0, <2>1, <2>3, <2>4, <2>5, QuietStepKeepsInv
<1>5. CASE Sweep
  <2>1. /\ DOMAIN entries' = {h \in DOMAIN entries : entries[h].expires > clock}
        /\ \A h \in DOMAIN entries' : entries'[h] = entries[h]
        /\ clock' = clock /\ call' = call /\ writes' = writes
    BY <1>5 DEF Sweep, Restrict, Live
  <2>2. \A h \in DOMAIN entries \ DOMAIN entries' : entries[h].expires <= clock'
    BY <1>0, <2>1 DEF Inv, Types, Rows
  <2> QED
    BY <1>0, <2>1, <2>2, QuietStepKeepsInv DEF UnderWay
<1>6. CASE Tick
  <2>1. /\ clock' = clock + 1 /\ entries' = entries /\ call' = call /\ writes' = writes
    BY <1>6 DEF Tick
  <2> QED
    BY <1>0, <2>1, QuietStepKeepsInv DEF UnderWay
<1>7. CASE Restart
  <2>1. /\ call' = [d \in Calls |-> IF call[d].phase = "calling" THEN Done ELSE call[d]]
        /\ entries' = entries /\ writes' = writes /\ clock' = clock
    BY <1>7 DEF Restart
  <2>2. \A d \in Calls : call'[d] = IF call[d].phase = "calling" THEN Done ELSE call[d]
    BY <2>1
  <2>3. call' \in [Calls -> CallStates]
    BY <1>0, <2>1 DEF CallStates
  <2>4. \A d \in Calls : UnderWay(d)' => UnderWay(d)
    BY <2>2 DEF UnderWay, Done
  <2>5. \A d \in Calls : call[d].phase = "replayed" \/ call'[d].phase = "replayed"
                            => call'[d] = call[d]
    BY <2>2 DEF Done
  <2> QED
    BY <1>0, <2>1, <2>3, <2>4, <2>5, QuietStepKeepsInv
<1>8. CASE UNCHANGED vars
  <2>1. entries' = entries /\ call' = call /\ writes' = writes /\ clock' = clock
    BY <1>8 DEF vars
  <2> QED
    BY <1>0, <2>1, QuietStepKeepsInv DEF UnderWay
<1> QED
  BY <1>1, <1>2, <1>3, <1>4, <1>5, <1>6, <1>7, <1>8 DEF Next

(* The conjunction above is inductive.                                     *)
THEOREM Invariant == Spec => []Inv
<1>1. Init => Inv
  BY InitInv
<1>2. Inv /\ [Next]_vars => Inv'
  BY NextKeepsInv
<1> QED
  BY <1>1, <1>2, PTL DEF Spec

(* A hit replays the answer stored last for the body that was asked, and   *)
(* only before its expiry.                                                 *)
THEOREM ReplayIsExact == Spec => []ReplayIsLatestLive
<1>1. Inv => ReplayIsLatestLive
  <2> SUFFICES ASSUME Inv, NEW c \in Replayed
               PROVE  /\ call[c].seen > 0
                      /\ LET last == writes[call[c].req.body][call[c].seen]
                         IN call[c].answer = last.answer /\ last.readable
                            /\ call[c].at < last.expires
    BY DEF ReplayIsLatestLive
  <2> QED
    BY DEF Inv, ReplaySound
<1> QED
  BY <1>1, Invariant, PTL

(* hit_count is the number of replays of the row's answer: a replacement   *)
(* starts from zero and no hit is lost or counted for a later answer.      *)
THEOREM HitCountExact == Spec => []HitsAreCounted
<1>1. Inv => HitsAreCounted
  BY DEF Inv
<1> QED
  BY <1>1, Invariant, PTL

(* A streamed replay ends with usage the provider reported.                *)
THEOREM StreamedReplaySound == Spec => []StreamedReplayIsMetered
<1>1. Inv => StreamedReplayIsMetered
  BY DEF Inv, ReplaySound, StreamedReplayIsMetered
<1> QED
  BY <1>1, Invariant, PTL

(* A request that reaches the provider had no answer to replay: none was   *)
(* stored, it had run out, or a stream asked for usage it lacks.           *)
THEOREM CallIsNeeded == Spec => NoNeedlessCall
<1> DEFINE Needed(c) ==
      LET w == writes[call'[c].req.body]
          kept == w[Len(w)]
      IN call[c] = NotMade /\ call'[c].phase = "calling" /\ ~call'[c].req.noCache /\ w # <<>> =>
           kept.expires <= clock' \/ ~kept.readable \/ (call'[c].req.stream /\ ~kept.usage)
<1>1. ASSUME Inv, NEW c \in Calls, NEW d \in Calls, NEW req \in Requests,
             NEW then \in Moments, Miss(d, req, then)
      PROVE  Needed(c)
  <2>1. /\ call' = [call EXCEPT ![d] = [phase |-> "calling", req |-> req]]
        /\ call \in [Calls -> CallStates] /\ clock \in Nat /\ clock' = then
        /\ req.body \in Bodies /\ CacheKeyOf(req) = req.body
        /\ req.noCache \/ ~Claims(req, clock, then)
        /\ then \in Nat /\ then >= clock
    BY <1>1 DEF Miss, Start, Inv, Types, Moments, Requests, CacheKeyOf
  <2>2. CASE c = d
    <3> SUFFICES ASSUME ~req.noCache, writes[req.body] # <<>>,
                        LastWrite(req.body).readable,
                        req.stream => LastWrite(req.body).usage,
                        ~(LastWrite(req.body).expires <= then)
                 PROVE  FALSE
      <4>1. call'[c] = [phase |-> "calling", req |-> req]
        BY <2>1, <2>2
      <4> QED
        BY <4>1, <2>1 DEF LastWrite
    <3>1. LastWrite(req.body) \in Rows
      BY <2>1, <1>1 DEF LastWrite, Inv, Types
    <3>2. LastWrite(req.body).expires > then /\ LastWrite(req.body).expires > clock
      BY <2>1, <3>1 DEF Rows
    <3>3. req.body \in DOMAIN entries /\ Stores(entries[req.body], LastWrite(req.body))
      BY <1>1, <2>1, <3>2 DEF Inv, LiveWritesAreKept, RowsAreLastWrites
    <3>4. Claims(req, clock, then)
      BY <2>1, <3>2, <3>3 DEF Claims, Live, Usable, Stores
    <3> QED
      BY <2>1, <3>4
  <2>3. CASE c # d
    <3>1. call'[c] = call[c]
      BY <2>1, <2>3
    <3> QED
      BY <3>1 DEF NotMade
  <2> QED
    BY <2>2, <2>3
<1>2. ASSUME Inv, NEW c \in Calls, [Next]_vars,
             call[c] = NotMade, call'[c].phase = "calling"
      PROVE  \E d \in Calls, req \in Requests, then \in Moments : Miss(d, req, then)
  <2>0. call \in [Calls -> CallStates] /\ call'[c] # NotMade /\ call'[c] # Done
    BY <1>2 DEF Inv, Types, NotMade, Done
  <2>1. ASSUME NEW d \in Calls, NEW req \in Requests, NEW then \in Moments, Hit(d, req, then)
        PROVE  FALSE
    <3> DEFINE replay == [phase |-> "replayed", req |-> req, at |-> then,
                          answer |-> entries[CacheKeyOf(req)].answer,
                          seen |-> Len(writes[req.body])]
    <3>1. call' = [call EXCEPT ![d] = replay]
      BY <2>1 DEF Hit
    <3>2. call'[c] \in {call[c], replay}
      BY <3>1, <2>0
    <3> QED
      BY <3>2, <1>2, <2>0
  <2>2. ASSUME NEW d \in Calls, NEW usage \in BOOLEAN, Store(d, usage)
        PROVE  FALSE
    BY <2>0, <2>2, <1>2 DEF Store
  <2>3. ASSUME NEW d \in Calls, EndUncached(d)
        PROVE  FALSE
    BY <2>0, <2>3, <1>2 DEF EndUncached
  <2>4. call' # call
    BY <1>2, <2>0
  <2>5. ~Sweep /\ ~Tick /\ ~UNCHANGED vars
    BY <2>4 DEF Sweep, Tick, vars
  <2>6. ~Restart
    BY <2>0, <1>2 DEF Restart
  <2> QED
    BY <1>2, <2>1, <2>2, <2>3, <2>5, <2>6 DEF Next
<1>3. ASSUME Inv, [Next]_vars, NEW c \in Calls
      PROVE  Needed(c)
  <2>1. CASE call[c] = NotMade /\ call'[c].phase = "calling"
    BY <1>1, <1>2, <1>3, <2>1
  <2>2. CASE ~(call[c] = NotMade /\ call'[c].phase = "calling")
    BY <2>2
  <2> QED
    BY <2>1, <2>2
<1>4. Inv /\ [Next]_vars =>
        [\A c \in Calls :
           call[c] = NotMade /\ call'[c].phase = "calling" /\ ~call'[c].req.noCache
           /\ writes[call'[c].req.body] # <<>> =>
             LET kept == writes[call'[c].req.body][Len(writes[call'[c].req.body])]
             IN kept.expires <= clock' \/ ~kept.readable
                \/ (call'[c].req.stream /\ ~kept.usage)]_vars
  BY <1>3
<1> QED
  BY <1>4, Invariant, PTL DEF Spec, NoNeedlessCall

(* The table and the calls keep their types: no row outlives its lifetime  *)
(* or expires before it was written.                                       *)
THEOREM TypeCorrect == Spec => []TypeOK
<1> DEFINE Lifetimes ==
      /\ clock \in 0 .. MaxClock
      /\ \A b \in DOMAIN entries :
           /\ entries[b].created \in 0 .. clock
           /\ entries[b].expires \in entries[b].created + 1 .. entries[b].created + TTL
<1>1. Init => Lifetimes
  <2> SUFFICES ASSUME Init PROVE Lifetimes
    OBVIOUS
  <2>1. clock = 0
    BY DEF Init
  <2>2. \A b \in DOMAIN entries : entries[b].created = 0 /\ entries[b].expires \in 1 .. TTL
    BY DEF Init, LegacyRow
  <2> QED
    BY <2>1, <2>2
<1>2. Inv /\ Lifetimes /\ [Next]_vars => Lifetimes'
  <2> SUFFICES ASSUME Inv, Lifetimes, [Next]_vars PROVE Lifetimes'
    OBVIOUS
  <2>1. ASSUME NEW c \in Calls, NEW req \in Requests, NEW then \in Moments, Hit(c, req, then)
        PROVE  Lifetimes'
    <3>1. /\ then \in 0 .. MaxClock /\ then >= clock /\ clock' = then
          /\ entries' = [entries EXCEPT ![req.body] = Counted(@)]
          /\ req.body \in DOMAIN entries
      BY <2>1 DEF Hit, Start, Moments, Claims, CacheKeyOf
    <3>2. /\ Counted(entries[req.body]).created = entries[req.body].created
          /\ Counted(entries[req.body]).expires = entries[req.body].expires
      BY <3>1, CountedRow DEF Inv, Types, Stores
    <3>3. DOMAIN entries' = DOMAIN entries
      BY <3>1
    <3>4. \A b \in DOMAIN entries : /\ entries'[b].created = entries[b].created
                                    /\ entries'[b].expires = entries[b].expires
      BY <3>1, <3>2
    <3> QED
      BY <3>1, <3>3, <3>4
  <2>2. ASSUME NEW c \in Calls, NEW req \in Requests, NEW then \in Moments, Miss(c, req, then)
        PROVE  Lifetimes'
    BY <2>2 DEF Miss, Start, Moments
  <2>3. ASSUME NEW c \in Calls, NEW usage \in BOOLEAN, Store(c, usage)
        PROVE  Lifetimes'
    <3> DEFINE row == NewRow(c, usage)
               h == CacheKeyOf(call[c].req)
    <3>1. row.created = clock /\ row.expires = clock + TTL
      BY DEF NewRow
    <3>2. /\ DOMAIN entries' = DOMAIN entries \cup {h} /\ clock' = clock
          /\ entries'[h] = row
          /\ \A b \in DOMAIN entries : b # h => entries'[b] = entries[b]
      BY <2>3 DEF Store, Upsert, Replacement
    <3> HIDE DEF row, h
    <3> QED
      BY <3>1, <3>2
  <2>4. ASSUME NEW c \in Calls, EndUncached(c)
        PROVE  Lifetimes'
    BY <2>4 DEF EndUncached
  <2>5. CASE Sweep
    BY <2>5 DEF Sweep, Restrict
  <2>6. CASE Tick
    BY <2>6 DEF Tick
  <2>7. CASE Restart \/ UNCHANGED vars
    BY <2>7 DEF Restart, vars
  <2> QED
    BY <2>1, <2>2, <2>3, <2>4, <2>5, <2>6, <2>7 DEF Next
<1>3. Inv /\ Lifetimes => TypeOK
  <2> SUFFICES ASSUME Inv, Lifetimes PROVE TypeOK
    OBVIOUS
  <2>1. \A c \in Calls : call[c].phase \in {"not_made", "calling", "replayed", "done"}
    BY DEF Inv, Types, CallStates, NotMade, Done
  <2> QED
    BY <2>1 DEF TypeOK, Inv, Types, Rows, Answers
<1> QED
  BY <1>1, <1>2, <1>3, Invariant, PTL DEF Spec
=============================================================================
