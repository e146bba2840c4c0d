------------------------ MODULE StreamAssemblyProofs ------------------------
(***************************************************************************)
(* A live stream for every set of chunks and every text, however long:     *)
(* what its adapter promises, what its assembler makes of the chunks, and  *)
(* what the SSE parsers make of the text they come in.                     *)
(*                                                                         *)
(* The adapter: its types, and that it implements the stream contract.     *)
(*                                                                         *)
(* The assembler: it reads a chunk at a time and keeps a running state;    *)
(* the properties read the whole transcript by positions.  AssemblyInv     *)
(* joins them: the assembler is eligible just as long as the transcript    *)
(* Fits one response, and then HoldsChunks, that is its fields are the     *)
(* views of the transcript.  For each view a lemma says what one more      *)
(* element adds to it (OneToolMore, CallsObserved, ChoiceMore,             *)
(* ChunkObserved), from the tool entries of a choice up to the chunks of a *)
(* transcript.                                                             *)
(*                                                                         *)
(* The parsers: they take the lines of a text read by read; the properties *)
(* find lines and events in the whole text by positions.  FramingInv joins *)
(* them: the buffer is what no complete line has taken yet, and the locals *)
(* are what the complete lines leave pending.  Restart is the heart of it: *)
(* what follows a complete part of a text is read as if the rest of that   *)
(* part started it.                                                        *)
(***************************************************************************)
EXTENDS StreamAssembly, SseFraming, FiniteSetTheorems, SequenceTheorems, WellFoundedInduction,
        TLAPS

-----------------------------------------------------------------------------
(* The adapter.                                                            *)

Metered == \E i \in 1 .. Count : Carries(delivered[i])

AdapterTypeOK ==
  /\ phase \in {"connecting", "streaming", "done", "failed"}
  /\ sawUsage \in BOOLEAN /\ sawDone \in BOOLEAN
  /\ delivered \in Seq(Chunks \cup {Done})

(* The locals of the generator know what was yielded: sawUsage says        *)
(* whether a usage chunk was, sawDone is only set after one, and nothing   *)
(* is yielded before the upstream answered.                                *)
AdapterInv ==
  /\ AdapterTypeOK
  /\ phase = "connecting" => delivered = <<>> /\ ~sawUsage
  /\ sawUsage <=> Metered
  /\ sawDone => sawUsage
  /\ phase = "done" => Len(delivered) > 0 /\ sawDone

(* What one step of the composed system is for the adapter.                *)
LEMMA AdapterStep ==
  ASSUME [Next]_vars
  PROVE  \/ \E c \in Chunks : ReceiveChunk(c)
         \/ EndOfBytes
         \/ AdapterSilent
         \/ UNCHANGED adapter
BY DEF Next, ForwardChunk, End, Conclude, ClientReset, Silent, AdapterSilent, vars

(* A delivered chunk comes last, and the transcript before it stays.       *)
LEMMA Delivery ==
  ASSUME AdapterInv, NEW c \in Chunks, ReceiveChunk(c)
  PROVE  /\ delivered' \in Seq(Chunks \cup {Done})
         /\ Count' = Count + 1 /\ Count \in Nat
         /\ Metered' = Carries(c) /\ sawUsage' = Carries(c)
<1>1. /\ delivered \in Seq(Chunks \cup {Done})
      /\ Count = Len(delivered) /\ Len(delivered) \in Nat
      /\ ~Metered /\ phase = "streaming"
  BY DEF AdapterInv, AdapterTypeOK, ReceiveChunk, Forwardable, Count
<1>2. /\ delivered' = Append(delivered, c) /\ sawUsage' = Carries(c)
      /\ phase' = phase
  BY DEF ReceiveChunk
<1>3. /\ delivered' \in Seq(Chunks \cup {Done})
      /\ Len(delivered') = Len(delivered) + 1
      /\ \A i \in 1 .. Len(delivered) : delivered'[i] = delivered[i]
      /\ delivered'[Len(delivered) + 1] = c
  BY <1>1, <1>2
<1>4. Count' = Count + 1
  BY <1>1, <1>2, <1>3 DEF Count
<1>5. Metered' = (\E i \in 1 .. Len(delivered) + 1 : Carries(delivered'[i]))
  BY <1>1, <1>4 DEF Metered, Carries
<1>6. \A i \in 1 .. Len(delivered) : ~Carries(delivered[i])
  BY <1>1 DEF Metered
<1>7. Metered' = Carries(c)
  <2> DEFINE last == Len(delivered) + 1
  <2>1. \A i \in 1 .. last : i \in 1 .. Len(delivered) \/ i = last
    BY <1>1
  <2>2. \A i \in 1 .. last : i # last => ~Carries(delivered'[i])
    BY <2>1, <1>3, <1>6 DEF Carries
  <2>3. last \in 1 .. last /\ (Carries(delivered'[last]) <=> Carries(c))
    BY <1>1, <1>3 DEF Carries
  <2>4. Metered' <=> \E i \in 1 .. last : Carries(delivered'[i])
    BY <1>5
  <2> HIDE DEF last
  <2>5. Metered' <=> Carries(c)
    BY <2>2, <2>3, <2>4
  <2>6. Metered' \in BOOLEAN /\ Carries(c) \in BOOLEAN
    BY DEF Metered, Carries
  <2> QED
    BY <2>5, <2>6
<1> QED
  BY <1>1, <1>2, <1>3, <1>4, <1>7

(* [DONE] is not counted as a chunk.                                       *)
LEMMA Termination ==
  ASSUME AdapterInv, phase = "streaming", phase' = "done",
         delivered' = Append(delivered, Done)
  PROVE  /\ delivered' \in Seq(Chunks \cup {Done}) /\ Len(delivered') > 0
         /\ Count' = Count
         /\ Metered' = Metered
<1>1. /\ delivered \in Seq(Chunks \cup {Done})
      /\ Count = Len(delivered) /\ Len(delivered) \in Nat
  BY DEF AdapterInv, AdapterTypeOK, Count
<1>2. /\ delivered' \in Seq(Chunks \cup {Done})
      /\ Len(delivered') = Len(delivered) + 1
      /\ \A i \in 1 .. Len(delivered) : delivered'[i] = delivered[i]
  BY <1>1
<1>3. Count' = Len(delivered)
  BY <1>1, <1>2 DEF Count
<1>4. Metered' = (\E i \in 1 .. Len(delivered) : Carries(delivered'[i]))
  BY <1>3 DEF Metered, Carries
<1>5. Metered' = Metered
  BY <1>1, <1>2, <1>4 DEF Metered, Carries
<1> QED
  BY <1>1, <1>2, <1>3, <1>5

(* Steps that deliver nothing leave the count and the usage alone.         *)
LEMMA Quiet ==
  ASSUME AdapterInv, UNCHANGED delivered, phase # "done", phase' # "done"
  PROVE  Count' = Count /\ Metered' = Metered
<1>1. Count' = Count
  BY DEF Count
<1> QED
  BY <1>1 DEF Metered, Carries

LEMMA AdapterInvariant == Spec => []AdapterInv
<1>1. Init => AdapterInv
  <2> SUFFICES ASSUME Init
               PROVE  AdapterInv
    OBVIOUS
  <2>1. delivered = <<>> /\ phase = "connecting" /\ ~sawUsage /\ ~sawDone
    BY DEF Init, AdapterInit
  <2>2. Count = 0 /\ delivered \in Seq(Chunks \cup {Done})
    BY <2>1 DEF Count
  <2>3. ~Metered
    BY <2>2 DEF Metered
  <2>4. sawUsage \in BOOLEAN /\ sawDone \in BOOLEAN
    BY DEF Init, AdapterInit
  <2> QED
    BY <2>1, <2>2, <2>3, <2>4 DEF AdapterInv, AdapterTypeOK
<1>2. AdapterInv /\ [Next]_vars => AdapterInv'
  <2> SUFFICES ASSUME AdapterInv, [Next]_vars
               PROVE  AdapterInv'
    OBVIOUS
  <2>1. ASSUME NEW c \in Chunks, ReceiveChunk(c)
        PROVE  AdapterInv'
    <3>1. delivered' \in Seq(Chunks \cup {Done}) /\ Metered' = Carries(c) /\ sawUsage' = Carries(c)
      BY <2>1, Delivery
    <3>2. phase' = "streaming" /\ sawDone' = FALSE
      BY <2>1 DEF ReceiveChunk, Forwardable, AdapterInv, AdapterTypeOK
    <3>3. Carries(c) \in BOOLEAN
      BY DEF Carries
    <3> QED
      BY <3>1, <3>2, <3>3, Zenon DEF AdapterInv, AdapterTypeOK
  <2>2. CASE EndOfBytes /\ sawDone
    BY <2>2, Termination DEF EndOfBytes, AdapterInv, AdapterTypeOK
  <2>3. CASE EndOfBytes /\ ~sawDone
    BY <2>3, Quiet DEF EndOfBytes, AdapterInv, AdapterTypeOK
  <2>4. CASE AdapterSilent
    <3>1. UNCHANGED <<sawUsage, delivered>> /\ phase # "done" /\ phase' \in {"streaming", "failed"}
      BY <2>4 DEF AdapterSilent, Connect, RefuseUpstream, ReceiveDone, ReceiveIllegal, Interrupt
    <3>2. (sawUsage /\ sawDone' = TRUE) \/ sawDone' = sawDone
      BY <2>4 DEF AdapterSilent, Connect, RefuseUpstream, ReceiveDone, ReceiveIllegal, Interrupt
    <3>3. Metered' = Metered
      BY <3>1, Quiet
    <3>4. AdapterTypeOK'
      BY <3>1, <3>2 DEF AdapterInv, AdapterTypeOK
    <3>5. sawDone' => sawUsage'
      BY <3>1, <3>2 DEF AdapterInv
    <3>6. phase' # "connecting" /\ phase' # "done"
      BY <3>1
    <3> QED
      BY <3>1, <3>3, <3>4, <3>5, <3>6, Zenon DEF AdapterInv
  <2>5. CASE UNCHANGED adapter
    BY <2>5 DEF adapter, AdapterInv, AdapterTypeOK, Metered, Count, Carries
  <2> QED
    BY <2>1, <2>2, <2>3, <2>4, <2>5, AdapterStep
<1> QED
  BY <1>1, <1>2, PTL DEF Spec

(* For every set of chunks and usages: a client of streamOpenAiCompatible  *)
(* sees usage at most once and last, [DONE] once and after it, and never   *)
(* an error after [DONE].                                                  *)
THEOREM ContractImplemented == Spec => ImplementsContract
<1>1. Init => Contract!StreamInit
  <2> SUFFICES ASSUME Init
               PROVE  Contract!StreamInit
    OBVIOUS
  <2>1. delivered = <<>> /\ phase = "connecting"
    BY DEF Init, AdapterInit
  <2>2. Count = 0
    BY <2>1 DEF Count
  <2> QED
    BY <2>1, <2>2 DEF Contract!StreamInit
<1>2. AdapterInv /\ AdapterInv' /\ [Next]_vars => [Contract!StreamNext]_Contract!stream
  <2> SUFFICES ASSUME AdapterInv, AdapterInv', [Next]_vars
               PROVE  [Contract!StreamNext]_Contract!stream
    OBVIOUS
  <2> USE DEF Contract!StreamNext, Contract!stream
  <2>1. ASSUME NEW c \in Chunks, ReceiveChunk(c)
        PROVE  Contract!Deliver(Carries(c))
    BY <2>1, Delivery DEF Contract!Deliver, AdapterInv, ReceiveChunk, Forwardable, Metered
  <2>2. CASE EndOfBytes /\ sawDone
    BY <2>2, Termination DEF EndOfBytes, Contract!DeliverDone, AdapterInv, Metered
  <2>3. CASE EndOfBytes /\ ~sawDone
    BY <2>3, Quiet DEF EndOfBytes, Contract!Fail, Metered
  <2>4. CASE AdapterSilent
    BY <2>4, Quiet DEF AdapterSilent, Connect, RefuseUpstream, ReceiveDone, ReceiveIllegal,
                       Interrupt, Contract!Fail, Metered
  <2>5. CASE UNCHANGED adapter
    BY <2>5 DEF adapter, Count, Carries
  <2>6. ASSUME NEW c \in Chunks, ReceiveChunk(c)
        PROVE  Contract!StreamNext
    BY <2>1, <2>6 DEF Carries
  <2> QED
    BY <2>2, <2>3, <2>4, <2>5, <2>6, AdapterStep
<1> QED
  BY <1>1, <1>2, AdapterInvariant, PTL DEF Spec, ImplementsContract, Contract!StreamSpec

-----------------------------------------------------------------------------
(* Lists.                                                                  *)

(* Of the numbers of a set, one is least.                                  *)
LEMMA LeastNumber ==
  ASSUME NEW T, T \subseteq Nat, T # {}
  PROVE  \E m \in T : \A k \in T : m <= k
<1> DEFINE R == OpToRel(<, Nat)
<1>1. PICK m \in T : \A k \in T : <<k, m>> \notin R
  <2> HIDE DEF R
  <2> QED BY NatLessThanWellFounded, WFMin DEF R
<1>2. \A k \in T : ~(k < m) BY <1>1 DEF OpToRel
<1> QED BY <1>2

-----------------------------------------------------------------------------
(* FlattenSeq is a recursive function of positions: it exists, and there   *)
(* is one, by a smallest counterexample.                                   *)

IsFlat(f, s, n) == f = [i \in 1 .. n |-> IF i = 1 THEN s[i] ELSE f[i - 1] \o s[i]]

LEMMA FlattenDef ==
  ASSUME NEW s
  PROVE  FlattenSeq(s) = IF Len(s) = 0 THEN s ELSE (CHOOSE f : IsFlat(f, s, Len(s)))[Len(s)]
BY Zenon DEF FlattenSeq, IsFlat

LEMMA FlatExtends ==
  ASSUME NEW n \in Nat, NEW s, NEW g, IsFlat(g, s, n)
  PROVE  \E h : IsFlat(h, s, n + 1)
<1> DEFINE more == IF n = 0 THEN s[1] ELSE g[n] \o s[n + 1]
           h == [i \in 1 .. n + 1 |-> IF i = n + 1 THEN more ELSE g[i]]
<1> HIDE DEF more
<1>1. ASSUME NEW i \in 1 .. n + 1
      PROVE  h[i] = IF i = 1 THEN s[i] ELSE h[i - 1] \o s[i]
  <2>1. CASE i = n + 1
    <3>1. CASE n = 0 BY <2>1, <3>1 DEF more
    <3>2. CASE n # 0
      <4>1. i - 1 = n /\ n \in 1 .. n + 1 /\ n # n + 1 /\ i # 1 BY <2>1, <3>2
      <4>2. h[i - 1] = g[n] BY <4>1
      <4>3. h[i] = more BY <2>1
      <4> QED BY <2>1, <3>2, <4>1, <4>2, <4>3 DEF more
    <3> QED BY <3>1, <3>2
  <2>2. CASE i # n + 1
    <3>1. i \in 1 .. n /\ h[i] = g[i] BY <2>2
    <3>2. g[i] = IF i = 1 THEN s[i] ELSE g[i - 1] \o s[i] BY <3>1 DEF IsFlat
    <3>3. i # 1 => i - 1 \in 1 .. n + 1 /\ i - 1 # n + 1 BY <3>1
    <3>4. i # 1 => h[i - 1] = g[i - 1] BY <3>3
    <3> QED BY <3>1, <3>2, <3>4
  <2> QED BY <2>1, <2>2
<1>2. h = [i \in 1 .. n + 1 |-> h[i]] OBVIOUS
<1> HIDE DEF h
<1>3. IsFlat(h, s, n + 1) BY <1>1, <1>2, Zenon DEF IsFlat
<1> QED BY <1>3

LEMMA FlatExists ==
  ASSUME NEW n \in Nat, NEW s
  PROVE  \E f : IsFlat(f, s, n)
<1> DEFINE Bad == {m \in Nat : ~ \E f : IsFlat(f, s, m)}
<1> SUFFICES ASSUME Bad # {} PROVE FALSE
  OBVIOUS
<1>1. PICK m \in Bad : \A k \in Bad : m <= k
  <2>1. Bad \subseteq Nat OBVIOUS
  <2> HIDE DEF Bad
  <2> QED BY <2>1, LeastNumber
<1>2. CASE m = 0
  <2> DEFINE h == [i \in 1 .. 0 |-> IF i = 1 THEN s[i] ELSE s]
  <2>1. \A i \in 1 .. 0 : FALSE OBVIOUS
  <2>2. IsFlat(h, s, 0) BY <2>1 DEF IsFlat
  <2> QED BY <1>1, <1>2, <2>2
<1>3. CASE m # 0
  <2>1. m - 1 \in Nat /\ ~(m <= m - 1) /\ (m - 1) + 1 = m BY <1>3
  <2>2. PICK g : IsFlat(g, s, m - 1) BY <1>1, <2>1
  <2>3. \E h : IsFlat(h, s, (m - 1) + 1) BY <2>1, <2>2, FlatExtends
  <2>4. \E h : IsFlat(h, s, m) BY <2>1, <2>3
  <2> QED BY <1>1, <2>4
<1> QED BY <1>2, <1>3

LEMMA FlatUnique ==
  ASSUME NEW n \in Nat, NEW s, NEW q, NEW g, NEW h, IsFlat(g, s, n), IsFlat(h, q, n),
         \A i \in 1 .. n : s[i] = q[i]
  PROVE  g = h
<1> DEFINE Bad == {i \in 1 .. n : g[i] # h[i]}
<1>1. CASE Bad = {}
  <2>1. \A i \in 1 .. n : g[i] = h[i] BY <1>1
  <2> QED BY <2>1 DEF IsFlat
<1>2. CASE Bad # {}
  <2>1. PICK m \in Bad : \A k \in Bad : m <= k
    <3>1. Bad \subseteq Nat OBVIOUS
    <3> HIDE DEF Bad
    <3> QED BY <1>2, <3>1, LeastNumber
  <2>2. m # 1 BY <2>1 DEF IsFlat
  <2>3. m - 1 \in 1 .. n /\ ~(m <= m - 1) BY <2>1, <2>2
  <2>4. g[m - 1] = h[m - 1] BY <2>1, <2>3
  <2>5. g[m] = g[m - 1] \o s[m] /\ h[m] = h[m - 1] \o q[m] BY <2>1, <2>2 DEF IsFlat
  <2> QED BY <2>1, <2>4, <2>5
<1> QED BY <1>1, <1>2

LEMMA FlattenIs ==
  ASSUME NEW s, NEW n \in Nat, n # 0, Len(s) = n, NEW f, IsFlat(f, s, n)
  PROVE  FlattenSeq(s) = f[n]
<1> DEFINE g == CHOOSE h : IsFlat(h, s, n)
<1>1. IsFlat(g, s, n) OBVIOUS
<1> HIDE DEF g
<1>2. g = f BY <1>1, FlatUnique
<1> QED BY <1>2, FlattenDef DEF g

LEMMA FlattenNothing == FlattenSeq(<<>>) = <<>>
BY FlattenDef

(* The flattening of one sequence more.                                    *)
LEMMA FlattenAppend ==
  ASSUME NEW X, NEW s \in Seq(Seq(X)), FlattenSeq(s) \in Seq(X), NEW e \in Seq(X)
  PROVE  FlattenSeq(Append(s, e)) = FlattenSeq(s) \o e
<1> DEFINE n == Len(s)
           q == Append(s, e)
<1>1. n \in Nat /\ Len(q) = n + 1 /\ q[n + 1] = e /\ \A i \in 1 .. n : s[i] = q[i]
  BY AppendProperties
<1>2. PICK f : IsFlat(f, q, n + 1)
  <2> HIDE DEF n, q
  <2>1. n + 1 \in Nat BY <1>1
  <2> QED BY <2>1, FlatExists
<1>3. FlattenSeq(q) = f[n + 1]
  <2> HIDE DEF n, q
  <2>1. n + 1 \in Nat /\ n + 1 # 0 BY <1>1
  <2> QED BY <1>1, <1>2, <2>1, FlattenIs
<1>4. CASE n = 0
  <2>1. FlattenSeq(s) = <<>> BY <1>4, FlattenNothing, EmptySeq
  <2>2. f[1] = q[1] BY <1>2, <1>4 DEF IsFlat
  <2>3. <<>> \o e = e BY ConcatEmptySeq
  <2>4. FlattenSeq(q) = e BY <1>1, <1>3, <1>4, <2>2
  <2> QED BY <2>1, <2>3, <2>4
<1>5. CASE n # 0
  <2> HIDE DEF q
  <2>1. PICK g : IsFlat(g, s, n) BY <1>1, FlatExists
  <2>2. FlattenSeq(s) = g[n]
    <3> HIDE DEF n
    <3> QED BY <1>1, <1>5, <2>1, FlattenIs DEF n
  <2> DEFINE h == [i \in 1 .. n |-> f[i]]
  <2>3. IsFlat(h, q, n)
    <3>1. \A i \in 1 .. n : i \in 1 .. n + 1 /\ (i # 1 => i - 1 \in 1 .. n) BY <1>1
    <3>2. \A i \in 1 .. n : f[i] = IF i = 1 THEN q[i] ELSE f[i - 1] \o q[i]
      BY <1>2, <3>1 DEF IsFlat
    <3>3. \A i \in 1 .. n : h[i] = IF i = 1 THEN q[i] ELSE h[i - 1] \o q[i]
      BY <3>1, <3>2
    <3>4. h = [i \in 1 .. n |-> h[i]] OBVIOUS
    <3> HIDE DEF h
    <3> QED BY <3>3, <3>4, Zenon DEF IsFlat
  <2>4. g = h
    <3> HIDE DEF h, n
    <3> QED BY <1>1, <2>1, <2>3, FlatUnique
  <2>5. h[n] = f[n] /\ n + 1 # 1 /\ n + 1 \in 1 .. n + 1 /\ (n + 1) - 1 = n BY <1>1, <1>5
  <2>6. f[n + 1] = f[n] \o q[n + 1]
    <3> HIDE DEF n, h
    <3>1. f[n + 1] = f[(n + 1) - 1] \o q[n + 1] BY <1>2, <2>5, Zenon DEF IsFlat
    <3> QED BY <2>5, <3>1
  <2>7. f[n] = FlattenSeq(s) BY <2>2, <2>4, <2>5
  <2>8. FlattenSeq(q) = FlattenSeq(s) \o e BY <1>1, <1>3, <2>6, <2>7
  <2> QED BY <2>8 DEF q
<1> QED BY <1>4, <1>5

LEMMA FlattenType ==
  ASSUME NEW X, NEW s \in Seq(Seq(X))
  PROVE  FlattenSeq(s) \in Seq(X)
<1> DEFINE Bad == {m \in Nat : \E q \in Seq(Seq(X)) : Len(q) = m /\ FlattenSeq(q) \notin Seq(X)}
<1> SUFFICES ASSUME Bad # {} PROVE FALSE
  <2>1. Len(s) \in Nat OBVIOUS
  <2> QED BY <2>1
<1>1. PICK m \in Bad : \A k \in Bad : m <= k
  <2>1. Bad \subseteq Nat OBVIOUS
  <2> HIDE DEF Bad
  <2> QED BY <2>1, LeastNumber
<1>2. PICK q \in Seq(Seq(X)) : Len(q) = m /\ FlattenSeq(q) \notin Seq(X) BY <1>1
<1>3. q # <<>> BY <1>2, FlattenNothing, EmptySeq
<1>4. PICK front \in Seq(Seq(X)), e \in Seq(X) : q = Append(front, e)
  BY <1>3, SequenceEmptyOrAppend
<1>5. Len(front) \in Nat /\ m = Len(front) + 1 BY <1>2, <1>4, AppendProperties
<1>6. FlattenSeq(front) \in Seq(X)
  <2>1. ~(m <= Len(front)) BY <1>5
  <2>2. Len(front) \notin Bad BY <1>1, <2>1
  <2> QED BY <1>5, <2>2
<1>7. FlattenSeq(q) = FlattenSeq(front) \o e BY <1>4, <1>6, FlattenAppend
<1>8. FlattenSeq(q) \in Seq(X) BY <1>6, <1>7, ConcatProperties
<1> QED BY <1>2, <1>8

(* The form the views of a transcript take: one more element adds its      *)
(* piece.                                                                  *)
OneMore(q, s, e) ==
  /\ q = [n \in DOMAIN q |-> q[n]] /\ DOMAIN q = 1 .. Len(s) + 1
  /\ q[Len(s) + 1] = e /\ \A n \in DOMAIN s : q[n] = s[n]

LEMMA FlattenMore ==
  ASSUME NEW X, NEW s \in Seq(Seq(X)), NEW e \in Seq(X),
         NEW q, OneMore(q, s, e)
  PROVE  FlattenSeq(q) = FlattenSeq(s) \o e /\ FlattenSeq(s) \in Seq(X)
<1> DEFINE p == Append(s, e)
<1>1. /\ Len(s) \in Nat /\ DOMAIN s = 1 .. Len(s)
      /\ p \in Seq(Seq(X)) /\ Len(p) = Len(s) + 1 /\ DOMAIN p = 1 .. Len(s) + 1
      /\ p[Len(s) + 1] = e /\ \A n \in DOMAIN s : p[n] = s[n]
  BY AppendProperties
<1>2. \A n \in 1 .. Len(s) + 1 : n \in DOMAIN s \/ n = Len(s) + 1 BY <1>1
<1> HIDE DEF p
<1>3. p = [n \in DOMAIN p |-> p[n]] BY <1>1
<1>4. \A n \in DOMAIN q : q[n] = p[n] BY <1>1, <1>2 DEF OneMore
<1>5. q = p BY <1>1, <1>3, <1>4 DEF OneMore
<1>6. FlattenSeq(s) \in Seq(X) BY FlattenType
<1>7. FlattenSeq(p) = FlattenSeq(s) \o e BY <1>6, FlattenAppend DEF p
<1> QED BY <1>5, <1>6, <1>7

-----------------------------------------------------------------------------
(* The views of a transcript, each a flattening of what P finds in an      *)
(* element.                                                                *)

Views(P, s) == FlattenSeq([n \in DOMAIN s |-> P[s[n]]])

LEMMA FunctionIsSeq ==
  ASSUME NEW n \in Nat, NEW S, NEW f \in [1 .. n -> S]
  PROVE  f \in Seq(S)
BY SeqDef

LEMMA NoViews == ASSUME NEW P PROVE Views(P, <<>>) = <<>>
<1>1. [n \in DOMAIN <<>> |-> P[<<>>[n]]] = <<>>
  <2> DEFINE f == [n \in DOMAIN <<>> |-> P[<<>>[n]]]
  <2>1. DOMAIN f = 1 .. 0 OBVIOUS
  <2>2. f \in [1 .. 0 -> {}] BY <2>1
  <2>3. f \in Seq({}) /\ Len(f) = 0
    <3> HIDE DEF f
    <3> QED BY <2>2, IsASeq
  <2> HIDE DEF f
  <2>4. f = <<>> BY <2>3, EmptySeq
  <2> QED BY <2>4 DEF f
<1> QED BY <1>1, FlattenNothing DEF Views

LEMMA MoreViews ==
  ASSUME NEW X, NEW Y, NEW P \in [X -> Seq(Y)], NEW s \in Seq(X), NEW e \in X
  PROVE  /\ Views(P, Append(s, e)) = Views(P, s) \o P[e]
         /\ Views(P, s) \in Seq(Y)
<1> DEFINE t == Append(s, e)
           m == [n \in DOMAIN s |-> P[s[n]]]
           q == [n \in DOMAIN t |-> P[t[n]]]
<1>1. /\ Len(s) \in Nat /\ DOMAIN s = 1 .. Len(s) /\ \A n \in DOMAIN s : s[n] \in X
      /\ DOMAIN t = 1 .. Len(s) + 1
      /\ t[Len(s) + 1] = e /\ \A n \in DOMAIN s : t[n] = s[n]
  BY AppendProperties
<1>2. m \in Seq(Seq(Y)) /\ Len(m) = Len(s) /\ DOMAIN m = DOMAIN s
  <2>1. m \in [1 .. Len(s) -> Seq(Y)] BY <1>1
  <2> HIDE DEF m
  <2>2. m \in Seq(Seq(Y)) BY <1>1, <2>1, FunctionIsSeq
  <2>3. DOMAIN m = 1 .. Len(s) BY <2>1
  <2> QED BY <1>1, <2>2, <2>3, LenProperties
<1> HIDE DEF t
<1>3. /\ q = [n \in DOMAIN q |-> q[n]] /\ DOMAIN q = 1 .. Len(m) + 1
      /\ q[Len(m) + 1] = P[e] /\ \A n \in DOMAIN m : q[n] = m[n]
  <2>1. DOMAIN q = DOMAIN t OBVIOUS
  <2>2. Len(s) + 1 \in DOMAIN t BY <1>1
  <2>3. \A n \in DOMAIN s : n \in DOMAIN t BY <1>1
  <2> QED BY <1>1, <1>2, <2>1, <2>2, <2>3
<1>4. P[e] \in Seq(Y) OBVIOUS
<1>6. OneMore(q, m, P[e]) BY <1>3 DEF OneMore
<1> HIDE DEF m, q
<1> DEFINE piece == P[e]
<1> HIDE DEF piece
<1>5. FlattenSeq(q) = FlattenSeq(m) \o piece /\ FlattenSeq(m) \in Seq(Y)
  BY <1>2, <1>4, <1>6, FlattenMore DEF piece
<1> QED BY <1>5 DEF Views, m, q, t, piece

LEMMA ViewsType ==
  ASSUME NEW X, NEW Y, NEW P \in [X -> Seq(Y)], NEW s \in Seq(X)
  PROVE  Views(P, s) \in Seq(Y)
<1> DEFINE m == [n \in DOMAIN s |-> P[s[n]]]
<1>1. m \in Seq(Seq(Y))
  <2>1. Len(s) \in Nat /\ m \in [1 .. Len(s) -> Seq(Y)] OBVIOUS
  <2> HIDE DEF m
  <2>2. m \in Seq(Seq(Y)) BY <2>1, FunctionIsSeq
  <2> QED BY <2>2
<1> HIDE DEF m
<1> QED BY <1>1, FlattenType DEF Views, m

(* The elements of a list that name an index.                              *)
Named(X, index) == [e \in X |-> IF e.index = index THEN <<e>> ELSE <<>>]

LEMMA OfIsViews ==
  ASSUME NEW X, NEW s \in Seq(X), NEW index
  PROVE  Of(s, index) = Views(Named(X, index), s) /\ Named(X, index) \in [X -> Seq(X)]
<1>1. \A n \in DOMAIN s : Named(X, index)[s[n]] = IF s[n].index = index THEN <<s[n]>> ELSE <<>>
  BY DEF Named
<1>2. \A e \in X : <<e>> \in Seq(X) /\ <<>> \in Seq(X) OBVIOUS
<1>3. Named(X, index) \in [X -> Seq(X)] BY <1>2 DEF Named
<1> QED BY <1>1, <1>3 DEF Of, Views

LEMMA OfNothing == ASSUME NEW index PROVE Of(<<>>, index) = <<>>
<1>1. <<>> \in Seq({}) OBVIOUS
<1> QED BY <1>1, OfIsViews, NoViews

LEMMA OfMore ==
  ASSUME NEW X, NEW s \in Seq(X), NEW e \in X, NEW index
  PROVE  /\ Of(s, index) \in Seq(X)
         /\ e.index = index => Of(Append(s, e), index) = Append(Of(s, index), e)
         /\ e.index # index => Of(Append(s, e), index) = Of(s, index)
<1> DEFINE P == Named(X, index)
           t == Append(s, e)
<1>1. t \in Seq(X) BY AppendProperties
<1>2. Of(s, index) = Views(P, s) /\ Of(t, index) = Views(P, t) /\ P \in [X -> Seq(X)]
  <2> HIDE DEF t
  <2> QED BY <1>1, OfIsViews
<1>3. P[e] = IF e.index = index THEN <<e>> ELSE <<>> BY DEF Named
<1> HIDE DEF P
<1>4. Views(P, t) = Views(P, s) \o P[e] /\ Views(P, s) \in Seq(X) BY <1>2, MoreViews
<1>5. /\ Views(P, s) \o <<e>> = Append(Views(P, s), e)
      /\ Views(P, s) \o <<>> = Views(P, s)
  BY <1>4, AppendIsConcat, ConcatEmptySeq
<1> QED BY <1>2, <1>3, <1>4, <1>5 DEF t

LEMMA OfType ==
  ASSUME NEW X, NEW s \in Seq(X), NEW index
  PROVE  Of(s, index) \in Seq(X)
BY OfIsViews, ViewsType

(* None of them, if no element names it; the one that does, if one does.   *)
Absent(s, index) == \A n \in DOMAIN s : s[n].index # index
Alone(s, index, e) ==
  \E i \in DOMAIN s : s[i] = e /\ e.index = index /\ \A n \in DOMAIN s : s[n].index = index => n = i

LEMMA OfAbsent ==
  ASSUME NEW X, NEW s \in Seq(X), NEW index, Absent(s, index)
  PROVE  Of(s, index) = <<>>
<1> DEFINE Bad == {m \in Nat : \E q \in Seq(X) :
                     Len(q) = m /\ Absent(q, index) /\ Of(q, index) # <<>>}
<1> SUFFICES ASSUME Bad # {} PROVE FALSE
  <2>1. Len(s) \in Nat OBVIOUS
  <2> QED BY <2>1
<1>1. PICK m \in Bad : \A k \in Bad : m <= k
  <2>1. Bad \subseteq Nat OBVIOUS
  <2> HIDE DEF Bad
  <2> QED BY <2>1, LeastNumber
<1>2. PICK q \in Seq(X) : Len(q) = m /\ Absent(q, index) /\ Of(q, index) # <<>> BY <1>1
<1>3. q # <<>> BY <1>2, OfNothing
<1>4. PICK front \in Seq(X), e \in X : q = Append(front, e) BY <1>3, SequenceEmptyOrAppend
<1>5. /\ Len(front) \in Nat /\ m = Len(front) + 1 /\ DOMAIN front = 1 .. Len(front)
      /\ DOMAIN q = 1 .. m /\ q[m] = e /\ \A n \in DOMAIN front : q[n] = front[n]
  BY <1>2, <1>4, AppendProperties
<1>6. Absent(front, index) /\ e.index # index
  <2>1. m \in DOMAIN q /\ \A n \in DOMAIN front : n \in DOMAIN q BY <1>5
  <2>2. \A n \in DOMAIN q : q[n].index # index BY <1>2 DEF Absent
  <2>3. e.index # index BY <1>5, <2>1, <2>2
  <2>4. \A n \in DOMAIN front : front[n].index # index BY <1>5, <2>1, <2>2
  <2> QED BY <2>3, <2>4 DEF Absent
<1>7. Of(front, index) = <<>>
  <2>1. ~(m <= Len(front)) BY <1>5
  <2>2. Len(front) \notin Bad BY <1>1, <2>1
  <2> QED BY <1>5, <1>6, <2>2
<1>8. Of(q, index) = Of(front, index) BY <1>4, <1>6, OfMore
<1> QED BY <1>2, <1>7, <1>8

LEMMA OfAlone ==
  ASSUME NEW X, NEW s \in Seq(X), NEW index, NEW x, Alone(s, index, x)
  PROVE  Of(s, index) = <<x>>
<1> DEFINE Bad == {m \in Nat : \E q \in Seq(X) :
                     Len(q) = m /\ Alone(q, index, x) /\ Of(q, index) # <<x>>}
<1> SUFFICES ASSUME Bad # {} PROVE FALSE
  <2>1. Len(s) \in Nat OBVIOUS
  <2> QED BY <2>1
<1>1. PICK m \in Bad : \A k \in Bad : m <= k
  <2>1. Bad \subseteq Nat OBVIOUS
  <2> HIDE DEF Bad
  <2> QED BY <2>1, LeastNumber
<1>2. PICK q \in Seq(X) : Len(q) = m /\ Alone(q, index, x) /\ Of(q, index) # <<x>> BY <1>1
<1>3. PICK i \in DOMAIN q : /\ q[i] = x /\ x.index = index
                            /\ \A n \in DOMAIN q : q[n].index = index => n = i
  BY <1>2 DEF Alone
<1>4. q # <<>> BY <1>3
<1>5. PICK front \in Seq(X), e \in X : q = Append(front, e) BY <1>4, SequenceEmptyOrAppend
<1>6. /\ Len(front) \in Nat /\ m = Len(front) + 1 /\ DOMAIN front = 1 .. Len(front)
      /\ DOMAIN q = 1 .. m /\ q[m] = e /\ \A n \in DOMAIN front : q[n] = front[n]
  BY <1>2, <1>5, AppendProperties
<1>7. CASE i = m
  <2>1. e = x /\ Absent(front, index) BY <1>3, <1>6, <1>7 DEF Absent
  <2>2. Of(front, index) = <<>> BY <2>1, OfAbsent
  <2>3. Of(q, index) = Append(<<>>, x)
    <3>1. e.index = index /\ e = x BY <1>3, <2>1
    <3>2. Of(Append(front, e), index) = Append(Of(front, index), e) BY <3>1, OfMore, SMTT(30)
    <3> QED BY <1>5, <2>2, <3>1, <3>2
  <2>4. Append(<<>>, x) = <<x>> OBVIOUS
  <2> QED BY <1>2, <2>3, <2>4
<1>8. CASE i # m
  <2>1. i \in DOMAIN front /\ e.index # index
    <3>1. m \in DOMAIN q BY <1>6
    <3>2. q[m].index # index BY <1>3, <1>8, <3>1
    <3> QED BY <1>3, <1>6, <1>8, <3>2
  <2>2. Alone(front, index, x) BY <1>3, <1>6, <2>1 DEF Alone
  <2>3. Of(front, index) = <<x>>
    <3>1. ~(m <= Len(front)) BY <1>6
    <3>2. Len(front) \notin Bad BY <1>1, <3>1
    <3> QED BY <1>6, <2>2, <3>2
  <2>4. Of(q, index) = Of(front, index) BY <1>5, <2>1, OfMore
  <2> QED BY <1>2, <2>3, <2>4
<1> QED BY <1>7, <1>8

-----------------------------------------------------------------------------
(* What chunks are made of: entries of choices, in them texts of pieces    *)
(* and tool entries with their fragments.                                  *)

Entry == UNION {Range(c.choices) : c \in Chunks}
Piece == UNION {Range(e.delta.content) \cup Range(e.delta.reasoning) : e \in Entry}
ToolEntry == UNION {Range(e.delta.tools) : e \in Entry}
Fragment == UNION {Range(t.args) : t \in ToolEntry}

LEMMA EntryOf ==
  ASSUME NEW e \in Entry
  PROVE  \E c \in Chunks : \E i \in DOMAIN c.choices : c.choices[i] = e
<1>1. PICK c \in Chunks : e \in Range(c.choices) BY DEF Entry
<1>2. PICK i \in DOMAIN c.choices : c.choices[i] = e BY <1>1 DEF Range
<1> QED BY <1>2

LEMMA EntryShape ==
  ASSUME NEW e \in Entry
  PROVE  /\ e.delta.content \in Seq(Piece) /\ e.delta.reasoning \in Seq(Piece)
         /\ e.delta.tools \in Seq(ToolEntry)
         /\ \A n \in DOMAIN e.delta.tools : e.delta.tools[n].args \in Seq(Fragment)
<1>1. PICK c \in Chunks : \E i \in DOMAIN c.choices : c.choices[i] = e BY EntryOf
<1>2. /\ e.delta.content \in Seq(Range(e.delta.content))
      /\ e.delta.reasoning \in Seq(Range(e.delta.reasoning))
      /\ e.delta.tools \in Seq(Range(e.delta.tools))
      /\ \A n \in DOMAIN e.delta.tools : e.delta.tools[n].args \in Seq(Range(e.delta.tools[n].args))
  BY <1>1, ChunkShapes
<1>3. Range(e.delta.content) \subseteq Piece /\ Range(e.delta.reasoning) \subseteq Piece
  BY DEF Piece
<1>4. Range(e.delta.tools) \subseteq ToolEntry BY DEF ToolEntry
<1>5. \A n \in DOMAIN e.delta.tools : Range(e.delta.tools[n].args) \subseteq Fragment
  <2>1. \A n \in DOMAIN e.delta.tools : e.delta.tools[n] \in ToolEntry BY <1>4 DEF Range
  <2> QED BY <2>1 DEF Fragment
<1> QED BY <1>2, <1>3, <1>4, <1>5, SeqMonotonic

LEMMA ChunkShape ==
  ASSUME NEW c \in Chunks
  PROVE  c.choices \in Seq(Entry) /\ c.id # "none" /\ c.usage \in Usages \cup {NoUsage}
<1>1. c.choices \in Seq(Range(c.choices)) /\ c.id # "none" BY ChunkShapes
<1>2. Range(c.choices) \subseteq Entry BY DEF Entry
<1> QED BY <1>1, <1>2, SeqMonotonic, StreamConstants

LEMMA ToolShape ==
  ASSUME NEW t \in ToolEntry
  PROVE  t.args \in Seq(Fragment)
<1>1. PICK e \in Entry : t \in Range(e.delta.tools) BY DEF ToolEntry
<1>2. PICK n \in DOMAIN e.delta.tools : t = e.delta.tools[n] BY <1>1 DEF Range
<1> QED BY <1>2, EntryShape

(* What each view finds in one element.                                    *)
Content == [e \in Entry |-> e.delta.content]
Thought == [e \in Entry |-> e.delta.reasoning]
Tools   == [e \in Entry |-> e.delta.tools]
Args    == [t \in ToolEntry |-> t.args]
Naming(index) == [c \in Chunks |-> Of(c.choices, index)]

LEMMA Finders ==
  /\ Content \in [Entry -> Seq(Piece)] /\ Thought \in [Entry -> Seq(Piece)]
  /\ Tools \in [Entry -> Seq(ToolEntry)] /\ Args \in [ToolEntry -> Seq(Fragment)]
  /\ \A index : Naming(index) \in [Chunks -> Seq(Entry)]
<1>1. Content \in [Entry -> Seq(Piece)] BY EntryShape DEF Content
<1>2. Thought \in [Entry -> Seq(Piece)] BY EntryShape DEF Thought
<1>3. Tools \in [Entry -> Seq(ToolEntry)] BY EntryShape DEF Tools
<1>4. Args \in [ToolEntry -> Seq(Fragment)] BY ToolShape DEF Args
<1>5. ASSUME NEW index PROVE Naming(index) \in [Chunks -> Seq(Entry)]
  <2>1. \A c \in Chunks : Of(c.choices, index) \in Seq(Entry) BY ChunkShape, OfType
  <2> QED BY <2>1 DEF Naming
<1> QED BY <1>1, <1>2, <1>3, <1>4, <1>5

LEMMA ViewsOfEntries ==
  ASSUME NEW es \in Seq(Entry)
  PROVE  /\ Text(es) = Views(Content, es) /\ Reasoning(es) = Views(Thought, es)
         /\ ToolEntries(es) = Views(Tools, es)
<1>1. \A n \in DOMAIN es : es[n] \in Entry OBVIOUS
<1>2. \A n \in DOMAIN es : Content[es[n]] = es[n].delta.content BY <1>1 DEF Content
<1>3. \A n \in DOMAIN es : Thought[es[n]] = es[n].delta.reasoning BY <1>1 DEF Thought
<1>4. \A n \in DOMAIN es : Tools[es[n]] = es[n].delta.tools BY <1>1 DEF Tools
<1>5. Text(es) = Views(Content, es) BY <1>2 DEF Text, Views
<1>6. Reasoning(es) = Views(Thought, es) BY <1>3 DEF Reasoning, Views
<1>7. ToolEntries(es) = Views(Tools, es) BY <1>4 DEF ToolEntries, Views
<1> QED BY <1>5, <1>6, <1>7

LEMMA ArgumentsAreViews ==
  ASSUME NEW fs \in Seq(ToolEntry)
  PROVE  Arguments(fs) = Views(Args, fs)
<1>1. \A n \in DOMAIN fs : Args[fs[n]] = fs[n].args BY DEF Args
<1> QED BY <1>1 DEF Arguments, Views

LEMMA EntriesAreViews ==
  ASSUME NEW d \in Seq(Chunks), NEW index
  PROVE  Entries(d, index) = Views(Naming(index), d)
<1>1. \A n \in DOMAIN d : Naming(index)[d[n]] = Of(d[n].choices, index) BY DEF Naming
<1> QED BY <1>1 DEF Entries, Views

(* Nothing is seen of nothing.                                             *)
LEMMA ViewsOfNothing ==
  /\ Text(<<>>) = <<>> /\ Reasoning(<<>>) = <<>> /\ ToolEntries(<<>>) = <<>>
  /\ Arguments(<<>>) = <<>> /\ \A index : Entries(<<>>, index) = <<>>
<1>1. <<>> \in Seq(Entry) /\ <<>> \in Seq(ToolEntry) /\ <<>> \in Seq(Chunks) OBVIOUS
<1>2. Text(<<>>) = <<>> /\ Reasoning(<<>>) = <<>> /\ ToolEntries(<<>>) = <<>>
  BY <1>1, ViewsOfEntries, NoViews
<1>3. Arguments(<<>>) = <<>> BY <1>1, ArgumentsAreViews, NoViews
<1>4. \A index : Entries(<<>>, index) = <<>> BY <1>1, EntriesAreViews, NoViews
<1> QED BY <1>2, <1>3, <1>4

(* One entry more.                                                         *)
LEMMA OneEntryMore ==
  ASSUME NEW es \in Seq(Entry), NEW e \in Entry
  PROVE  /\ Text(Append(es, e)) = Text(es) \o e.delta.content
         /\ Reasoning(Append(es, e)) = Reasoning(es) \o e.delta.reasoning
         /\ ToolEntries(Append(es, e)) = ToolEntries(es) \o e.delta.tools
         /\ Text(es) \in Seq(Piece) /\ Reasoning(es) \in Seq(Piece)
         /\ ToolEntries(es) \in Seq(ToolEntry)
<1>1. Append(es, e) \in Seq(Entry) BY AppendProperties
<1>2. /\ Content[e] = e.delta.content /\ Thought[e] = e.delta.reasoning
      /\ Tools[e] = e.delta.tools
  BY DEF Content, Thought, Tools
<1>3. /\ Views(Content, Append(es, e)) = Views(Content, es) \o Content[e]
      /\ Views(Content, es) \in Seq(Piece)
  BY Finders, MoreViews
<1>4. /\ Views(Thought, Append(es, e)) = Views(Thought, es) \o Thought[e]
      /\ Views(Thought, es) \in Seq(Piece)
  BY Finders, MoreViews
<1>5. /\ Views(Tools, Append(es, e)) = Views(Tools, es) \o Tools[e]
      /\ Views(Tools, es) \in Seq(ToolEntry)
  BY Finders, MoreViews
<1> DEFINE q == Append(es, e)
<1>6. q \in Seq(Entry) BY <1>1
<1> HIDE DEF q
<1>7. /\ Text(q) = Views(Content, q) /\ Reasoning(q) = Views(Thought, q)
      /\ ToolEntries(q) = Views(Tools, q)
  BY <1>6, ViewsOfEntries
<1>8. /\ Text(es) = Views(Content, es) /\ Reasoning(es) = Views(Thought, es)
      /\ ToolEntries(es) = Views(Tools, es)
  BY ViewsOfEntries
<1> QED BY <1>2, <1>3, <1>4, <1>5, <1>7, <1>8 DEF q

LEMMA OneFragmentMore ==
  ASSUME NEW fs \in Seq(ToolEntry), NEW t \in ToolEntry
  PROVE  Arguments(Append(fs, t)) = Arguments(fs) \o t.args /\ Arguments(fs) \in Seq(Fragment)
<1> DEFINE q == Append(fs, t)
<1>1. q \in Seq(ToolEntry) BY AppendProperties
<1>2. Args[t] = t.args BY DEF Args
<1>3. Views(Args, q) = Views(Args, fs) \o Args[t] /\ Views(Args, fs) \in Seq(Fragment)
  BY Finders, MoreViews
<1> HIDE DEF q
<1>4. Arguments(q) = Views(Args, q) /\ Arguments(fs) = Views(Args, fs)
  BY <1>1, ArgumentsAreViews
<1> QED BY <1>2, <1>3, <1>4 DEF q

LEMMA OneChunkMore ==
  ASSUME NEW d \in Seq(Chunks), NEW c \in Chunks, NEW index
  PROVE  /\ Entries(Append(d, c), index) = Entries(d, index) \o Of(c.choices, index)
         /\ Entries(d, index) \in Seq(Entry)
<1> DEFINE q == Append(d, c)
           P == Naming(index)
<1>1. q \in Seq(Chunks) BY AppendProperties
<1>2. P[c] = Of(c.choices, index) BY DEF Naming
<1>3. P \in [Chunks -> Seq(Entry)] BY Finders
<1> HIDE DEF P
<1>4. Views(P, q) = Views(P, d) \o P[c] /\ Views(P, d) \in Seq(Entry) BY <1>3, MoreViews
<1> HIDE DEF q
<1>5. Entries(q, index) = Views(P, q) /\ Entries(d, index) = Views(P, d)
  BY <1>1, EntriesAreViews DEF P
<1> QED BY <1>2, <1>4, <1>5 DEF q

LEMMA EntriesType ==
  ASSUME NEW d \in Seq(Chunks), NEW index
  PROVE  Entries(d, index) \in Seq(Entry)
<1> DEFINE P == Naming(index)
<1>1. P \in [Chunks -> Seq(Entry)] BY Finders
<1>2. Entries(d, index) = Views(P, d) BY EntriesAreViews
<1> HIDE DEF P
<1> QED BY <1>1, <1>2, ViewsType

LEMMA ToolEntriesType ==
  ASSUME NEW es \in Seq(Entry)
  PROVE  ToolEntries(es) \in Seq(ToolEntry)
<1>1. Tools \in [Entry -> Seq(ToolEntry)] BY Finders
<1>2. ToolEntries(es) = Views(Tools, es) BY ViewsOfEntries
<1> QED BY <1>1, <1>2, ViewsType

(* A chunk whose choices differ has at most one entry for each.            *)
Distinct(c) == \A i, j \in DOMAIN c.choices : c.choices[i].index = c.choices[j].index => i = j

LEMMA EntryOfChunk ==
  ASSUME NEW c \in Chunks, Distinct(c), NEW i \in DOMAIN c.choices
  PROVE  Of(c.choices, c.choices[i].index) = <<c.choices[i]>> /\ c.choices[i] \in Entry
<1>1. c.choices \in Seq(Entry) BY ChunkShape
<1>2. Alone(c.choices, c.choices[i].index, c.choices[i]) BY DEF Alone, Distinct
<1> QED BY <1>1, <1>2, OfAlone

LEMMA NoEntryInChunk ==
  ASSUME NEW c \in Chunks, NEW index, index \notin Assembler!Indexes(c)
  PROVE  Of(c.choices, index) = <<>>
<1>1. c.choices \in Seq(Entry) BY ChunkShape
<1>2. Absent(c.choices, index) BY DEF Absent, Assembler!Indexes
<1> QED BY <1>1, <1>2, OfAbsent

-----------------------------------------------------------------------------
(* The folds of the models, of tool entries, of pieces and of lines, and   *)
(* what one element more does to them.  A fold is a recursive function of  *)
(* sets of positions: it exists, and there is one, by a smallest           *)
(* counterexample.                                                         *)

(* A set of positions has a last one.                                      *)
Top(t) == CHOOSE x \in t : \A y \in t : x >= y

LEMMA TopIsLast ==
  ASSUME NEW n \in Nat, NEW t \in SUBSET (1 .. n), t # {}
  PROVE  Top(t) \in t /\ \A y \in t : Top(t) >= y
<1> DEFINE T == {m \in Nat : n - m \in t}
           R == OpToRel(<, Nat)
<1>1. T \subseteq Nat /\ T # {}
  <2>1. PICK j \in t : TRUE OBVIOUS
  <2>2. n - j \in Nat /\ n - (n - j) = j OBVIOUS
  <2> QED BY <2>1, <2>2
<1>2. PICK m \in T : \A k \in T : <<k, m>> \notin R
  <2> HIDE DEF T, R
  <2> QED BY <1>1, NatLessThanWellFounded, WFMin DEF R
<1>3. \A k \in T : ~(k < m) BY <1>1, <1>2 DEF OpToRel
<1>4. \A y \in t : n - m >= y
  <2>1. ASSUME NEW y \in t PROVE n - m >= y
    <3>1. n - y \in T BY n - (n - y) = y
    <3> QED BY <1>3, <3>1
  <2> QED BY <2>1
<1> QED BY <1>2, <1>4 DEF Top

(* A fold as the community modules take it: a function of the sets of      *)
(* positions, each observed from its first to its last.                    *)
Unread(tools) == [ok |-> TRUE, tools |-> tools]
Unscanned == [lines |-> <<>>, line |-> <<>>, afterCR |-> FALSE]

ReadLines(p, ls) == FoldLeft(ProcessLine, p, ls)

Step(kind, acc, x) ==
  CASE kind = "piece" -> TakePiece(acc, x)
    [] kind = "line"  -> ProcessLine(acc, x)
    [] OTHER          -> Assembler!ObserveTool(acc, x)

IsFold(g, kind, base, s, S) ==
  g = [t \in SUBSET S |-> IF t = {} THEN base
                          ELSE Step(kind, g[t \ {Top(t)}], s[Top(t)])]

(* Of the subsets of a finite set, one is smallest.                        *)
LEMMA SmallestSet ==
  ASSUME NEW S, IsFiniteSet(S), NEW T, T \subseteq SUBSET S, T # {}
  PROVE  \E m \in T : \A t \in T : t \subseteq m => t = m
<1>1. IsWellFoundedOn(StrictSubsetOrdering(S), SUBSET S)
  BY FS_StrictSubsetOrderingWellFounded, FS_FiniteSubsetsOfFinite
<1>2. \E m \in T : \A t \in T : <<t, m>> \notin StrictSubsetOrdering(S) BY <1>1, WFMin
<1> QED BY <1>2 DEF StrictSubsetOrdering

(* There is one such function.                                             *)
LEMMA FoldUnique ==
  ASSUME NEW kind, NEW base, NEW n \in Nat, NEW s,
         NEW g, IsFold(g, kind, base, s, 1 .. n), NEW h, IsFold(h, kind, base, s, 1 .. n)
  PROVE  g = h
<1> DEFINE Bad == {t \in SUBSET (1 .. n) : g[t] # h[t]}
<1>1. CASE Bad = {} BY <1>1 DEF IsFold
<1>2. CASE Bad # {}
  <2>1. \E m \in Bad : \A t \in Bad : t \subseteq m => t = m
    <3> DEFINE P == 1 .. n
    <3>1. Bad \subseteq SUBSET P /\ IsFiniteSet(P) BY FS_Interval
    <3> HIDE DEF Bad, P
    <3> QED BY <1>2, <3>1, SmallestSet
  <2>2. PICK m \in Bad : \A t \in Bad : t \subseteq m => t = m BY <2>1
  <2>3. m # {} BY <2>2 DEF IsFold
  <2> DEFINE r == m \ {Top(m)}
  <2>4. r \subseteq m /\ r # m /\ r \in SUBSET (1 .. n) BY <2>2, <2>3, TopIsLast
  <2>5. g[r] = h[r] BY <2>2, <2>4
  <2>6. g[m] = Step(kind, g[r], s[Top(m)]) /\ h[m] = Step(kind, h[r], s[Top(m)])
    BY <2>2, <2>3 DEF IsFold
  <2> QED BY <2>2, <2>5, <2>6
<1> QED BY <1>1, <1>2

(* A fold of a sequence is one of a beginning of it.                       *)
SameAt(s, q, M) == \A i \in M : q[i] = s[i]
HasTops(M) == \A t \in SUBSET M : t # {} => Top(t) \in t

LEMMA FoldRestricts ==
  ASSUME NEW kind, NEW base, NEW N, NEW M, M \subseteq N, HasTops(M),
         NEW s, NEW q, NEW g, IsFold(g, kind, base, s, N), SameAt(s, q, M)
  PROVE  \E h : IsFold(h, kind, base, q, M) /\ SameAt(g, h, SUBSET M)
<1> DEFINE h == [t \in SUBSET M |-> g[t]]
<1>1. ASSUME NEW t \in SUBSET M
      PROVE  h[t] = IF t = {} THEN base
                    ELSE Step(kind, h[t \ {Top(t)}], q[Top(t)])
  <2>1. t \in SUBSET N /\ t \ {Top(t)} \in SUBSET M OBVIOUS
  <2>2. g[t] = IF t = {} THEN base ELSE Step(kind, g[t \ {Top(t)}], s[Top(t)])
    BY <2>1 DEF IsFold
  <2>3. t # {} => q[Top(t)] = s[Top(t)] BY DEF SameAt, HasTops
  <2> QED BY <2>1, <2>2, <2>3
<1>2. h = [t \in SUBSET M |-> h[t]] /\ \A t \in SUBSET M : h[t] = g[t] OBVIOUS
<1> HIDE DEF h
<1>3. IsFold(h, kind, base, q, M) BY <1>1, <1>2, Zenon DEF IsFold
<1> QED BY <1>2, <1>3 DEF SameAt

(* One element more.                                                       *)
LEMMA FoldExtends ==
  ASSUME NEW kind, NEW base, NEW n \in Nat, NEW s, NEW g, IsFold(g, kind, base, s, 1 .. n)
  PROVE  \E h : IsFold(h, kind, base, s, 1 .. n + 1)
<1> DEFINE N == n + 1
           low(t) == t \ {N}
           h == [t \in SUBSET (1 .. N) |-> IF N \in t THEN Step(kind, g[low(t)], s[N]) ELSE g[t]]
<1>1. ASSUME NEW t \in SUBSET (1 .. N), N \in t
      PROVE  Top(t) = N /\ low(t) \in SUBSET (1 .. n)
  <2>1. N \in Nat /\ t # {} /\ t \subseteq 1 .. N BY <1>1
  <2>2. Top(t) \in t /\ Top(t) >= N BY <1>1, <2>1, TopIsLast
  <2>3. Top(t) \in 1 .. N BY <2>1, <2>2
  <2>4. Top(t) = N BY <2>1, <2>2, <2>3
  <2>5. \A x \in low(t) : x \in 1 .. n BY <2>1
  <2> QED BY <2>4, <2>5
<1>2. ASSUME NEW t \in SUBSET (1 .. N), N \notin t
      PROVE  t \in SUBSET (1 .. n) /\ (t # {} => Top(t) \in t)
  <2>1. t \in SUBSET (1 .. n) BY <1>2
  <2> QED BY <2>1, TopIsLast
<1>3. ASSUME NEW t \in SUBSET (1 .. N)
      PROVE  h[t] = IF t = {} THEN base
                    ELSE Step(kind, h[t \ {Top(t)}], s[Top(t)])
  <2>1. CASE N \in t
    <3>1. h[t] = Step(kind, g[low(t)], s[N]) /\ t # {} BY <2>1
    <3>2. h[low(t)] = g[low(t)] OBVIOUS
    <3> QED BY <1>1, <2>1, <3>1, <3>2
  <2>2. CASE N \notin t
    <3>1. h[t] = g[t] BY <2>2
    <3>2. g[t] = IF t = {} THEN base ELSE Step(kind, g[t \ {Top(t)}], s[Top(t)])
      BY <1>2, <2>2 DEF IsFold
    <3>3. h[t \ {Top(t)}] = g[t \ {Top(t)}] BY <2>2
    <3> QED BY <3>1, <3>2, <3>3
  <2> QED BY <2>1, <2>2
<1>4. h = [t \in SUBSET (1 .. N) |-> h[t]] OBVIOUS
<1> HIDE DEF h
<1>5. IsFold(h, kind, base, s, 1 .. N) BY <1>3, <1>4, Zenon DEF IsFold
<1> QED BY <1>5

(* So every sequence has its fold: take the least length that has none.    *)
LEMMA FoldExists ==
  ASSUME NEW kind, NEW base, NEW n \in Nat, NEW s
  PROVE  \E g : IsFold(g, kind, base, s, 1 .. n)
<1> DEFINE Bad == {m \in Nat : ~ \E g : IsFold(g, kind, base, s, 1 .. m)}
           R == OpToRel(<, Nat)
<1> SUFFICES ASSUME Bad # {} PROVE FALSE
  OBVIOUS
<1>1. PICK m \in Bad : \A k \in Bad : <<k, m>> \notin R
  <2>1. Bad \subseteq Nat OBVIOUS
  <2> HIDE DEF Bad, R
  <2> QED BY <2>1, NatLessThanWellFounded, WFMin DEF R
<1>2. \A k \in Bad : ~(k < m) BY <1>1 DEF OpToRel
<1>3. CASE m = 0
  <2> DEFINE h == [t \in SUBSET (1 .. 0) |-> base]
  <2>1. \A t \in SUBSET (1 .. 0) : t = {} OBVIOUS
  <2>2. IsFold(h, kind, base, s, 1 .. 0) BY <2>1, Zenon DEF IsFold
  <2> QED BY <1>1, <1>3, <2>2
<1>4. CASE m # 0
  <2>1. m - 1 \in Nat /\ m - 1 < m BY <1>4
  <2>2. PICK g : IsFold(g, kind, base, s, 1 .. m - 1) BY <1>2, <2>1
  <2>3. \E h : IsFold(h, kind, base, s, 1 .. (m - 1) + 1) BY <2>1, <2>2, FoldExtends
  <2>4. (m - 1) + 1 = m OBVIOUS
  <2>5. \E h : IsFold(h, kind, base, s, 1 .. m) BY <2>3, <2>4
  <2> QED BY <1>1, <2>5
<1> QED BY <1>3, <1>4

(* The value of the fold of a sequence.                                    *)
IsFoldOf(v, kind, base, s) == \E g : IsFold(g, kind, base, s, DOMAIN s) /\ v = g[DOMAIN s]

LEMMA FoldOfNothing ==
  ASSUME NEW kind, NEW base, NEW v, IsFoldOf(v, kind, base, <<>>)
  PROVE  v = base
<1>1. DOMAIN <<>> = {} OBVIOUS
<1> QED BY <1>1 DEF IsFoldOf, IsFold

LEMMA FoldOfMore ==
  ASSUME NEW X, NEW kind, NEW base, NEW s \in Seq(X), NEW t \in X, NEW u, NEW v,
         IsFoldOf(u, kind, base, s), IsFoldOf(v, kind, base, Append(s, t))
  PROVE  v = Step(kind, u, t)
<1> DEFINE n == Len(s)
           q == Append(s, t)
<1>1. /\ n \in Nat /\ DOMAIN s = 1 .. n /\ DOMAIN q = 1 .. n + 1
      /\ q[n + 1] = t /\ \A i \in 1 .. n : s[i] = q[i]
  BY AppendProperties
<1>a. IsFoldOf(v, kind, base, q) OBVIOUS
<1> HIDE DEF n, q
<1>2. PICK g : IsFold(g, kind, base, q, 1 .. n + 1) /\ v = g[1 .. n + 1]
  BY <1>1, <1>a DEF IsFoldOf
<1>3. PICK h : IsFold(h, kind, base, s, 1 .. n) /\ \A T \in SUBSET (1 .. n) : h[T] = g[T]
  <2> DEFINE N == 1 .. n + 1
             M == 1 .. n
  <2>1. HasTops(M) BY <1>1, TopIsLast DEF HasTops
  <2>2. M \subseteq N BY <1>1
  <2>3. IsFold(g, kind, base, q, N) /\ SameAt(q, s, M) BY <1>1, <1>2 DEF SameAt
  <2> HIDE DEF M, N
  <2>4. \E h : IsFold(h, kind, base, s, M) /\ SameAt(g, h, SUBSET M)
    BY <2>1, <2>2, <2>3, FoldRestricts
  <2> QED BY <2>4 DEF M, SameAt
<1>4. PICK k : IsFold(k, kind, base, s, 1 .. n) /\ u = k[1 .. n] BY <1>1 DEF IsFoldOf
<1>5. k = h BY <1>1, <1>3, <1>4, FoldUnique
<1>6. u = g[1 .. n] BY <1>3, <1>4, <1>5
<1>7. Top(1 .. n + 1) = n + 1 /\ (1 .. n + 1) \ {n + 1} = 1 .. n
  <2>1. n + 1 \in Nat /\ n + 1 \in 1 .. n + 1 BY <1>1
  <2>2. Top(1 .. n + 1) \in 1 .. n + 1 /\ Top(1 .. n + 1) >= n + 1 BY <2>1, TopIsLast
  <2>3. (1 .. n + 1) \ {n + 1} = 1 .. n BY <1>1
  <2> QED BY <1>1, <2>2, <2>3
<1>8. g[1 .. n + 1] = Step(kind, g[1 .. n], t)
  <2>1. n + 1 \in 1 .. n + 1 BY <1>1
  <2>2. g[1 .. n + 1] = Step(kind, g[(1 .. n + 1) \ {Top(1 .. n + 1)}], q[Top(1 .. n + 1)])
    BY <1>2, <2>1 DEF IsFold
  <2> QED BY <1>1, <1>7, <2>2
<1> QED BY <1>2, <1>6, <1>8

(* The three folds.                                                        *)
IsToolFold(g, tools, s, S) ==
  g = [t \in SUBSET S |-> IF t = {} THEN Unread(tools)
                          ELSE Assembler!ObserveTool(g[t \ {Top(t)}], s[Top(t)])]

LEMMA ObserveToolsFolds ==
  ASSUME NEW tools, NEW n \in Nat, NEW s, DOMAIN s = 1 .. n
  PROVE  IsFoldOf(Assembler!ObserveTools(tools, s), "tool", Unread(tools), s)
<1>1. Assembler!ObserveTools(tools, s) = (CHOOSE g : IsToolFold(g, tools, s, DOMAIN s))[DOMAIN s]
  BY Zenon DEF Assembler!ObserveTools, Assembler!FoldLeft, Assembler!MapThenFoldSet,
               Assembler!Max, Unread, IsToolFold, Top
<1>2. \A acc, x : Step("tool", acc, x) = Assembler!ObserveTool(acc, x) BY DEF Step
<1>3. \A g : IsToolFold(g, tools, s, DOMAIN s) <=> IsFold(g, "tool", Unread(tools), s, DOMAIN s)
  BY <1>2, Zenon DEF IsToolFold, IsFold
<1>4. \E g : IsFold(g, "tool", Unread(tools), s, DOMAIN s) BY FoldExists
<1>5. \E g : IsToolFold(g, tools, s, DOMAIN s) BY <1>3, <1>4
<1> DEFINE f == CHOOSE g : IsToolFold(g, tools, s, DOMAIN s)
<1>6. IsToolFold(f, tools, s, DOMAIN s) BY <1>5
<1> HIDE DEF f
<1>7. IsFold(f, "tool", Unread(tools), s, DOMAIN s) BY <1>3, <1>6
<1> QED BY <1>1, <1>7 DEF IsFoldOf, f

IsPieceFold(g, s, S) ==
  g = [t \in SUBSET S |-> IF t = {} THEN Unscanned
                          ELSE TakePiece(g[t \ {Top(t)}], s[Top(t)])]

LEMMA ScanFolds ==
  ASSUME NEW n \in Nat, NEW s, DOMAIN s = 1 .. n
  PROVE  IsFoldOf(Scan(s), "piece", Unscanned, s)
<1>1. Scan(s) = (CHOOSE g : IsPieceFold(g, s, DOMAIN s))[DOMAIN s]
  BY Zenon DEF Scan, FoldLeft, MapThenFoldSet, Max, Unscanned, IsPieceFold, Top
<1>2. \A acc, x : Step("piece", acc, x) = TakePiece(acc, x) BY DEF Step
<1>3. \A g : IsPieceFold(g, s, DOMAIN s) <=> IsFold(g, "piece", Unscanned, s, DOMAIN s)
  BY <1>2, Zenon DEF IsPieceFold, IsFold
<1>4. \E g : IsFold(g, "piece", Unscanned, s, DOMAIN s) BY FoldExists
<1>5. \E g : IsPieceFold(g, s, DOMAIN s) BY <1>3, <1>4
<1> DEFINE f == CHOOSE g : IsPieceFold(g, s, DOMAIN s)
<1>6. IsPieceFold(f, s, DOMAIN s) BY <1>5
<1> HIDE DEF f
<1>7. IsFold(f, "piece", Unscanned, s, DOMAIN s) BY <1>3, <1>6
<1> QED BY <1>1, <1>7 DEF IsFoldOf, f

IsLineFold(g, p, s, S) ==
  g = [t \in SUBSET S |-> IF t = {} THEN p
                          ELSE ProcessLine(g[t \ {Top(t)}], s[Top(t)])]

LEMMA LinesFold ==
  ASSUME NEW p, NEW n \in Nat, NEW s, DOMAIN s = 1 .. n
  PROVE  IsFoldOf(ReadLines(p, s), "line", p, s)
<1>1. ReadLines(p, s) = (CHOOSE g : IsLineFold(g, p, s, DOMAIN s))[DOMAIN s]
  BY Zenon DEF ReadLines, FoldLeft, MapThenFoldSet, Max, IsLineFold, Top
<1>2. \A acc, x : Step("line", acc, x) = ProcessLine(acc, x) BY DEF Step
<1>3. \A g : IsLineFold(g, p, s, DOMAIN s) <=> IsFold(g, "line", p, s, DOMAIN s)
  BY <1>2, Zenon DEF IsLineFold, IsFold
<1>4. \E g : IsFold(g, "line", p, s, DOMAIN s) BY FoldExists
<1>5. \E g : IsLineFold(g, p, s, DOMAIN s) BY <1>3, <1>4
<1> DEFINE f == CHOOSE g : IsLineFold(g, p, s, DOMAIN s)
<1>6. IsLineFold(f, p, s, DOMAIN s) BY <1>5
<1> HIDE DEF f
<1>7. IsFold(f, "line", p, s, DOMAIN s) BY <1>3, <1>6
<1> QED BY <1>1, <1>7 DEF IsFoldOf, f

(* What the calls are after one entry more.                                *)
LEMMA NoToolMore ==
  ASSUME NEW tools
  PROVE  Assembler!ObserveTools(tools, <<>>) = Unread(tools)
<1>1. DOMAIN <<>> = 1 .. 0 OBVIOUS
<1>2. IsFoldOf(Assembler!ObserveTools(tools, <<>>), "tool", Unread(tools), <<>>)
  BY <1>1, ObserveToolsFolds
<1> QED BY <1>2, FoldOfNothing

LEMMA OneToolMore ==
  ASSUME NEW X, NEW tools, NEW s \in Seq(X), NEW t \in X
  PROVE  Assembler!ObserveTools(tools, Append(s, t))
           = Assembler!ObserveTool(Assembler!ObserveTools(tools, s), t)
<1> DEFINE q == Append(s, t)
<1>1. Len(s) \in Nat /\ DOMAIN s = 1 .. Len(s) /\ DOMAIN q = 1 .. Len(s) + 1
  BY AppendProperties
<1>2. Len(s) + 1 \in Nat BY <1>1
<1>3. IsFoldOf(Assembler!ObserveTools(tools, s), "tool", Unread(tools), s)
  BY <1>1, ObserveToolsFolds
<1> HIDE DEF q
<1>4. IsFoldOf(Assembler!ObserveTools(tools, q), "tool", Unread(tools), q)
  BY <1>1, <1>2, ObserveToolsFolds
<1>5. Assembler!ObserveTools(tools, q) = Step("tool", Assembler!ObserveTools(tools, s), t)
  BY <1>3, <1>4, FoldOfMore DEF q
<1>6. \A acc, x : Step("tool", acc, x) = Assembler!ObserveTool(acc, x) BY DEF Step
<1> QED BY <1>5, <1>6 DEF q

(* The scan of one piece more.                                             *)
LEMMA NothingScanned ==
  Scan(<<>>) = Unscanned
<1>1. DOMAIN <<>> = 1 .. 0 OBVIOUS
<1>2. IsFoldOf(Scan(<<>>), "piece", Unscanned, <<>>) BY <1>1, ScanFolds
<1> QED BY <1>2, FoldOfNothing

LEMMA OneMoreScanned ==
  ASSUME NEW X, NEW s \in Seq(X), NEW t \in X
  PROVE  Scan(Append(s, t)) = TakePiece(Scan(s), t)
<1> DEFINE q == Append(s, t)
<1>1. Len(s) \in Nat /\ DOMAIN s = 1 .. Len(s) /\ DOMAIN q = 1 .. Len(s) + 1
  BY AppendProperties
<1>2. Len(s) + 1 \in Nat BY <1>1
<1>3. IsFoldOf(Scan(s), "piece", Unscanned, s) BY <1>1, ScanFolds
<1> HIDE DEF q
<1>4. IsFoldOf(Scan(q), "piece", Unscanned, q) BY <1>1, <1>2, ScanFolds
<1>5. Scan(q) = Step("piece", Scan(s), t) BY <1>3, <1>4, FoldOfMore DEF q
<1>6. \A acc, x : Step("piece", acc, x) = TakePiece(acc, x) BY DEF Step
<1> QED BY <1>5, <1>6 DEF q

(* The parser after one line more.                                         *)
LEMMA NoLineRead ==
  ASSUME NEW p
  PROVE  ReadLines(p, <<>>) = p
<1>1. DOMAIN <<>> = 1 .. 0 OBVIOUS
<1>2. IsFoldOf(ReadLines(p, <<>>), "line", p, <<>>) BY <1>1, LinesFold
<1> QED BY <1>2, FoldOfNothing

LEMMA OneMoreLineRead ==
  ASSUME NEW X, NEW p, NEW s \in Seq(X), NEW t \in X
  PROVE  ReadLines(p, Append(s, t)) = ProcessLine(ReadLines(p, s), t)
<1> DEFINE q == Append(s, t)
<1>1. Len(s) \in Nat /\ DOMAIN s = 1 .. Len(s) /\ DOMAIN q = 1 .. Len(s) + 1
  BY AppendProperties
<1>2. Len(s) + 1 \in Nat BY <1>1
<1>3. IsFoldOf(ReadLines(p, s), "line", p, s) BY <1>1, LinesFold
<1> HIDE DEF q
<1>4. IsFoldOf(ReadLines(p, q), "line", p, q) BY <1>1, <1>2, LinesFold
<1>5. ReadLines(p, q) = Step("line", ReadLines(p, s), t) BY <1>3, <1>4, FoldOfMore DEF q
<1>6. \A acc, x : Step("line", acc, x) = ProcessLine(acc, x) BY DEF Step
<1> QED BY <1>5, <1>6 DEF q

-----------------------------------------------------------------------------
(* The calls of a choice: what the assembler holds of them is a function   *)
(* of the tool entries it observed.                                        *)

CallState(id, name, args) == [id |-> id, name |-> name, args |-> args]
CallOf(fs) == CallState(fs[1].id, fs[1].name, Arguments(fs))
CallsOf(ts) == [tool \in ToolsSent(ts) |-> CallOf(Of(ts, tool))]

(* Tool entries that observeTool took.                                     *)
CallsFit(ts) ==
  /\ \A n \in DOMAIN ts : ~ts[n].odd
  /\ \A tool \in ToolsSent(ts) : SameCall(Of(ts, tool))

LEMMA OfPresent ==
  ASSUME NEW ts \in Seq(ToolEntry), NEW tool \in ToolsSent(ts)
  PROVE  Of(ts, tool) # <<>>
<1> DEFINE Bad == {m \in Nat : \E q \in Seq(ToolEntry) :
                     Len(q) = m /\ tool \in ToolsSent(q) /\ Of(q, tool) = <<>>}
<1> SUFFICES ASSUME Bad # {} PROVE FALSE
  <2>1. Len(ts) \in Nat OBVIOUS
  <2> QED BY <2>1
<1>1. PICK m \in Bad : \A k \in Bad : m <= k
  <2>1. Bad \subseteq Nat OBVIOUS
  <2> HIDE DEF Bad
  <2> QED BY <2>1, LeastNumber
<1>2. PICK q \in Seq(ToolEntry) : Len(q) = m /\ tool \in ToolsSent(q) /\ Of(q, tool) = <<>> BY <1>1
<1>3. q # <<>> BY <1>2 DEF ToolsSent
<1>4. PICK front \in Seq(ToolEntry), t \in ToolEntry : q = Append(front, t)
  BY <1>3, SequenceEmptyOrAppend
<1>5. /\ Len(front) \in Nat /\ m = Len(front) + 1 /\ DOMAIN front = 1 .. Len(front)
      /\ DOMAIN q = 1 .. m /\ q[m] = t /\ \A n \in DOMAIN front : q[n] = front[n]
  BY <1>2, <1>4, AppendProperties
<1>6. t.index # tool
  <2>1. SUFFICES ASSUME t.index = tool PROVE FALSE OBVIOUS
  <2>2. Of(Append(front, t), tool) = Append(Of(front, tool), t) BY <2>1, OfMore, SMTT(30)
  <2>3. Of(front, tool) \in Seq(ToolEntry) BY OfMore
  <2>4. PICK f \in Seq(ToolEntry) : f = Of(front, tool) BY <2>3
  <2>5. Len(Append(f, t)) = Len(f) + 1 /\ Len(f) \in Nat /\ Len(<<>>) = 0 BY AppendProperties
  <2>6. Append(f, t) # <<>>
    <3>1. Len(Append(f, t)) # Len(<<>>) BY <2>5
    <3> QED BY <3>1, Zenon
  <2> QED BY <1>2, <1>4, <2>2, <2>4, <2>6
<1>7. Of(q, tool) = Of(front, tool) BY <1>4, <1>6, OfMore, SMTT(30)
<1>8. tool \in ToolsSent(front)
  <2>1. PICK n \in DOMAIN q : q[n].index = tool BY <1>2 DEF ToolsSent
  <2>2. n \in DOMAIN front BY <1>5, <1>6, <2>1
  <2> QED BY <1>5, <2>1, <2>2 DEF ToolsSent
<1>9. Len(front) \in Bad BY <1>2, <1>5, <1>7, <1>8
<1> QED BY <1>1, <1>5, <1>9

LEMMA ToolsSentMore ==
  ASSUME NEW ts \in Seq(ToolEntry), NEW t \in ToolEntry
  PROVE  /\ ToolsSent(Append(ts, t)) = ToolsSent(ts) \cup {t.index}
         /\ \A P : (\A n \in DOMAIN Append(ts, t) : P[Append(ts, t)[n]])
                     <=> P[t] /\ \A n \in DOMAIN ts : P[ts[n]]
<1> DEFINE q == Append(ts, t)
           N == Len(ts) + 1
<1>1. /\ DOMAIN q = 1 .. N /\ DOMAIN ts = 1 .. Len(ts) /\ Len(ts) \in Nat
      /\ q[N] = t /\ \A n \in DOMAIN ts : q[n] = ts[n]
  BY AppendProperties
<1>2. DOMAIN q = DOMAIN ts \cup {N} BY <1>1
<1> HIDE DEF q, N
<1>3. ToolsSent(q) = ToolsSent(ts) \cup {t.index}
  <2>1. \A n \in DOMAIN ts : n \in DOMAIN q /\ q[n].index = ts[n].index BY <1>1, <1>2
  <2>2. N \in DOMAIN q /\ q[N].index = t.index BY <1>1, <1>2
  <2>3. \A n \in DOMAIN q : n \in DOMAIN ts \/ n = N BY <1>2
  <2> QED BY <2>1, <2>2, <2>3 DEF ToolsSent
<1>4. \A P : (\A n \in DOMAIN q : P[q[n]]) <=> P[t] /\ \A n \in DOMAIN ts : P[ts[n]]
  BY <1>1, <1>2
<1> QED BY <1>3, <1>4 DEF q

(* A new call, and one more entry of a known one.                          *)
LEMMA CallBegun ==
  ASSUME NEW ts \in Seq(ToolEntry), NEW t \in ToolEntry, t.index \notin ToolsSent(ts)
  PROVE  /\ Of(Append(ts, t), t.index) = <<t>>
         /\ CallOf(<<t>>) = CallState(t.id, t.name, t.args)
<1>1. Absent(ts, t.index) BY DEF Absent, ToolsSent
<1>2. Of(ts, t.index) = <<>> BY <1>1, OfAbsent
<1>3. Append(<<>>, t) = <<t>> OBVIOUS
<1>4. Of(Append(ts, t), t.index) = <<t>>
  <2>1. Of(Append(ts, t), t.index) = Append(Of(ts, t.index), t) BY OfMore
  <2> QED BY <1>2, <1>3, <2>1
<1>5. Arguments(<<t>>) = t.args
  <2>1. <<>> \in Seq(ToolEntry) OBVIOUS
  <2>2. Arguments(Append(<<>>, t)) = Arguments(<<>>) \o t.args BY <2>1, OneFragmentMore
  <2>3. Arguments(<<t>>) = Arguments(<<>>) \o t.args BY <1>3, <2>2
  <2>4. t.args \in Seq(Fragment) BY ToolShape
  <2>5. <<>> \o t.args = t.args BY <2>4, ConcatEmptySeq
  <2> QED BY <2>3, <2>5, ViewsOfNothing
<1>6. <<t>>[1] = t OBVIOUS
<1> QED BY <1>4, <1>5, <1>6 DEF CallOf

Longer(call, more) == [call EXCEPT !.args = @ \o more]

LEMMA CallExtended ==
  ASSUME NEW id, NEW name, NEW args, NEW more
  PROVE  Longer(CallState(id, name, args), more) = CallState(id, name, args \o more)
<1>1. PICK call : call = CallState(id, name, args) OBVIOUS
<1> DEFINE longer == args \o more
<1>2. call = [id |-> id, name |-> name, args |-> args] BY <1>1 DEF CallState
<1>3. call.args \o more = longer BY <1>2
<1> HIDE DEF longer
<1>4. [call EXCEPT !.args = longer] = [id |-> id, name |-> name, args |-> longer] BY <1>2
<1>5. [call EXCEPT !.args = @ \o more] = [call EXCEPT !.args = longer] BY <1>3
<1> QED BY <1>1, <1>4, <1>5 DEF longer, Longer, CallState

LEMMA CallGoesOn ==
  ASSUME NEW ts \in Seq(ToolEntry), NEW t \in ToolEntry, t.index \in ToolsSent(ts),
         NEW fs, fs = Of(ts, t.index)
  PROVE  /\ Of(Append(ts, t), t.index) = Append(fs, t)
         /\ fs \in Seq(ToolEntry) /\ fs # <<>> /\ Append(fs, t)[1] = fs[1]
         /\ Arguments(Append(fs, t)) = Arguments(fs) \o t.args
         /\ CallOf(Append(fs, t)) = Longer(CallOf(fs), t.args)
<1>1. Of(Append(ts, t), t.index) = Append(fs, t) /\ fs \in Seq(ToolEntry) BY OfMore
<1>2. fs # <<>> BY OfPresent
<1>3. Append(fs, t)[1] = fs[1] BY <1>1, <1>2, AppendProperties, EmptySeq
<1>4. Arguments(Append(fs, t)) = Arguments(fs) \o t.args BY <1>1, OneFragmentMore
<1>5. CallOf(Append(fs, t)) = Longer(CallOf(fs), t.args)
  <2>1. CallOf(Append(fs, t)) = CallState(fs[1].id, fs[1].name, Arguments(fs) \o t.args)
    BY <1>3, <1>4 DEF CallOf
  <2> QED BY <2>1, CallExtended DEF CallOf
<1> QED BY <1>1, <1>2, <1>3, <1>4, <1>5

LEMMA CallsObserved ==
  ASSUME NEW ts \in Seq(ToolEntry), NEW t \in ToolEntry, NEW acc, acc.tools = CallsOf(ts)
  PROVE  Assembler!ObserveTool(acc, t).tools = CallsOf(Append(ts, t))
<1> DEFINE q == Append(ts, t)
           C == CallsOf(ts)
<1>1. DOMAIN C = ToolsSent(ts) BY DEF CallsOf
<1>2. Assembler!ObserveTool(acc, t).tools
        = [i \in ToolsSent(ts) \cup {t.index} |->
             IF i = t.index THEN Assembler!Call(C, t) ELSE C[i]]
  BY <1>1 DEF Assembler!ObserveTool
<1>3. ToolsSent(q) = ToolsSent(ts) \cup {t.index} BY ToolsSentMore
<1>4. ASSUME NEW i \in ToolsSent(ts), i # t.index
      PROVE  C[i] = CallOf(Of(q, i))
  <2>1. Of(q, i) = Of(ts, i) BY <1>4, OfMore
  <2> QED BY <2>1 DEF CallsOf
<1>5. Assembler!Call(C, t) = CallOf(Of(q, t.index))
  <2>1. CASE t.index \in ToolsSent(ts)
    <3>1. C[t.index] = CallOf(Of(ts, t.index)) BY <2>1 DEF CallsOf
    <3>2. Assembler!Call(C, t) = Longer(C[t.index], t.args)
      BY <1>1, <2>1 DEF Assembler!Call, Longer
    <3> HIDE DEF C
    <3>3. PICK fs : fs = Of(ts, t.index) OBVIOUS
    <3>4. /\ Of(Append(ts, t), t.index) = Append(fs, t)
          /\ CallOf(Append(fs, t)) = Longer(CallOf(fs), t.args)
      BY <2>1, <3>3, CallGoesOn
    <3> QED BY <3>1, <3>2, <3>3, <3>4
  <2>2. CASE t.index \notin ToolsSent(ts)
    <3>1. Assembler!Call(C, t) = CallState(t.id, t.name, t.args)
      BY <1>1, <2>2 DEF Assembler!Call, CallState
    <3> QED BY <2>2, <3>1, CallBegun
  <2> QED BY <2>1, <2>2
<1> HIDE DEF q, C
<1>6. CallsOf(q) = [i \in ToolsSent(ts) \cup {t.index} |->
                      IF i = t.index THEN Assembler!Call(C, t) ELSE C[i]]
  BY <1>3, <1>4, <1>5 DEF CallsOf
<1> QED BY <1>2, <1>6 DEF q

(* A value fits the others if it is none or theirs.                        *)
FitsWith(S, x, y) == AllEqual(S \cup {x}) <=> AllEqual(S) /\ x \in {"none", y}

LEMMA OneValueMore ==
  ASSUME NEW S, NEW x, NEW y \in S, y # "none"
  PROVE  FitsWith(S, x, y)
BY DEF AllEqual, FitsWith

Ids(fs) == {fs[n].id : n \in DOMAIN fs}
Names(fs) == {fs[n].name : n \in DOMAIN fs}

LEMMA SameCallIs ==
  ASSUME NEW fs
  PROVE  SameCall(fs) <=> /\ fs[1].id # "none" /\ fs[1].name # "none"
                          /\ AllEqual(Ids(fs)) /\ AllEqual(Names(fs))
BY DEF SameCall, Ids, Names

(* What the first entry says, the later ones may repeat or leave out.      *)
LEMMA SameCallMore ==
  ASSUME NEW fs \in Seq(ToolEntry), fs # <<>>, NEW t \in ToolEntry
  PROVE  SameCall(Append(fs, t))
           <=> SameCall(fs) /\ t.id \in {"none", fs[1].id} /\ t.name \in {"none", fs[1].name}
<1> DEFINE q == Append(fs, t)
           N == Len(fs) + 1
<1>1. /\ DOMAIN q = 1 .. N /\ DOMAIN fs = 1 .. Len(fs) /\ Len(fs) \in Nat /\ Len(fs) # 0
      /\ q[N] = t /\ \A n \in DOMAIN fs : q[n] = fs[n]
  BY AppendProperties, EmptySeq
<1>2. DOMAIN q = DOMAIN fs \cup {N} /\ 1 \in DOMAIN fs BY <1>1
<1>3. q[1] = fs[1] BY <1>1, <1>2
<1> HIDE DEF q, N
<1>4. Ids(q) = Ids(fs) \cup {t.id} /\ Names(q) = Names(fs) \cup {t.name}
  <2>1. \A n \in DOMAIN fs : n \in DOMAIN q /\ q[n] = fs[n] BY <1>1, <1>2
  <2>2. N \in DOMAIN q /\ q[N] = t BY <1>1, <1>2
  <2>3. \A n \in DOMAIN q : n \in DOMAIN fs \/ n = N BY <1>2
  <2>4. Ids(q) = Ids(fs) \cup {t.id} BY <2>1, <2>2, <2>3 DEF Ids
  <2>5. Names(q) = Names(fs) \cup {t.name} BY <2>1, <2>2, <2>3 DEF Names
  <2> QED BY <2>4, <2>5
<1>5. fs[1].id \in Ids(fs) /\ fs[1].name \in Names(fs) BY <1>2 DEF Ids, Names
<1>7. fs[1].id # "none" => (AllEqual(Ids(q)) <=> AllEqual(Ids(fs)) /\ t.id \in {"none", fs[1].id})
  <2> SUFFICES ASSUME fs[1].id # "none"
               PROVE  AllEqual(Ids(q)) <=> AllEqual(Ids(fs)) /\ t.id \in {"none", fs[1].id}
    OBVIOUS
  <2>1. FitsWith(Ids(fs), t.id, fs[1].id) BY <1>5, OneValueMore
  <2> QED BY <1>4, <2>1 DEF FitsWith
<1>8. fs[1].name # "none"
        => (AllEqual(Names(q)) <=> AllEqual(Names(fs)) /\ t.name \in {"none", fs[1].name})
  <2> SUFFICES ASSUME fs[1].name # "none"
               PROVE  AllEqual(Names(q)) <=> AllEqual(Names(fs)) /\ t.name \in {"none", fs[1].name}
    OBVIOUS
  <2>1. FitsWith(Names(fs), t.name, fs[1].name) BY <1>5, OneValueMore
  <2> QED BY <1>4, <2>1 DEF FitsWith
<1>9. /\ SameCall(q) <=> /\ fs[1].id # "none" /\ fs[1].name # "none"
                         /\ AllEqual(Ids(q)) /\ AllEqual(Names(q))
      /\ SameCall(fs) <=> /\ fs[1].id # "none" /\ fs[1].name # "none"
                          /\ AllEqual(Ids(fs)) /\ AllEqual(Names(fs))
  BY <1>3, SameCallIs
<1>10. SameCall(q)
         <=> SameCall(fs) /\ t.id \in {"none", fs[1].id} /\ t.name \in {"none", fs[1].name}
  BY <1>7, <1>8, <1>9
<1> QED BY <1>10 DEF q

LEMMA SameCallOne ==
  ASSUME NEW t
  PROVE  SameCall(<<t>>) <=> t.id # "none" /\ t.name # "none"
<1>1. <<t>>[1] = t /\ DOMAIN <<t>> = {1} OBVIOUS
<1>2. Ids(<<t>>) = {t.id} /\ Names(<<t>>) = {t.name}
  <2> DEFINE q == <<t>>
  <2>1. q[1] = t /\ DOMAIN q = {1} BY <1>1
  <2> HIDE DEF q
  <2>2. Ids(q) = {t.id} BY <2>1 DEF Ids
  <2>3. Names(q) = {t.name} BY <2>1 DEF Names
  <2> QED BY <2>2, <2>3 DEF q
<1>3. \A x : AllEqual({x}) BY DEF AllEqual
<1> QED BY <1>1, <1>2, <1>3, SameCallIs

(* observeTool takes an entry just when the entries so far and it fit.     *)
LEMMA CallsFitMore ==
  ASSUME NEW ts \in Seq(ToolEntry), NEW t \in ToolEntry
  PROVE  CallsFit(Append(ts, t)) <=> CallsFit(ts) /\ Assembler!ToolFits(CallsOf(ts), t)
<1> DEFINE q == Append(ts, t)
           N == Len(ts) + 1
           odd(s) == \E n \in DOMAIN s : s[n].odd
<1>1. /\ DOMAIN q = 1 .. N /\ DOMAIN ts = 1 .. Len(ts) /\ Len(ts) \in Nat
      /\ q[N] = t /\ \A n \in DOMAIN ts : q[n] = ts[n]
  BY AppendProperties
<1>2. DOMAIN q = DOMAIN ts \cup {N} BY <1>1
<1>3. ToolsSent(q) = ToolsSent(ts) \cup {t.index} BY ToolsSentMore
<1>4. ASSUME NEW tool \in ToolsSent(ts), tool # t.index
      PROVE  Of(q, tool) = Of(ts, tool)
  BY <1>4, OfMore
<1>5. DOMAIN CallsOf(ts) = ToolsSent(ts) BY DEF CallsOf
<1>6. CASE t.index \in ToolsSent(ts)
  <2>1. PICK fs : fs = Of(ts, t.index) OBVIOUS
  <2>2. Of(q, t.index) = Append(fs, t) /\ fs \in Seq(ToolEntry) /\ fs # <<>>
    BY <1>6, <2>1, CallGoesOn
  <2>3. CallsOf(ts)[t.index].id = fs[1].id /\ CallsOf(ts)[t.index].name = fs[1].name
    BY <1>6, <2>1 DEF CallsOf, CallOf, CallState
  <2>4. Assembler!ToolFits(CallsOf(ts), t)
          <=> ~t.odd /\ t.id \in {"none", fs[1].id} /\ t.name \in {"none", fs[1].name}
    BY <1>5, <1>6, <2>3 DEF Assembler!ToolFits
  <2>5. SameCall(Of(q, t.index))
          <=> SameCall(fs) /\ t.id \in {"none", fs[1].id} /\ t.name \in {"none", fs[1].name}
    BY <2>2, SameCallMore
  <2> HIDE DEF q, N
  <2>6. (\A n \in DOMAIN q : ~q[n].odd) <=> (\A n \in DOMAIN ts : ~ts[n].odd) /\ ~t.odd
    BY <1>1, <1>2
  <2>7. (\A tool \in ToolsSent(q) : SameCall(Of(q, tool)))
          <=> /\ \A tool \in ToolsSent(ts) : SameCall(Of(ts, tool))
              /\ t.id \in {"none", fs[1].id} /\ t.name \in {"none", fs[1].name}
    BY <1>3, <1>4, <1>6, <2>1, <2>5
  <2>8. CallsFit(q) <=> CallsFit(ts) /\ Assembler!ToolFits(CallsOf(ts), t)
    BY <2>4, <2>6, <2>7 DEF CallsFit
  <2> QED BY <2>8 DEF q
<1>7. CASE t.index \notin ToolsSent(ts)
  <2>1. Of(q, t.index) = <<t>> BY <1>7, CallBegun
  <2>2. Assembler!ToolFits(CallsOf(ts), t) <=> ~t.odd /\ t.id # "none" /\ t.name # "none"
    BY <1>5, <1>7 DEF Assembler!ToolFits
  <2>3. SameCall(Of(q, t.index)) <=> t.id # "none" /\ t.name # "none"
    BY <2>1, SameCallOne
  <2> HIDE DEF q, N
  <2>4. (\A n \in DOMAIN q : ~q[n].odd) <=> (\A n \in DOMAIN ts : ~ts[n].odd) /\ ~t.odd
    BY <1>1, <1>2
  <2>5. (\A tool \in ToolsSent(q) : SameCall(Of(q, tool)))
          <=> /\ \A tool \in ToolsSent(ts) : SameCall(Of(ts, tool))
              /\ t.id # "none" /\ t.name # "none"
    BY <1>3, <1>4, <1>7, <2>3
  <2>6. CallsFit(q) <=> CallsFit(ts) /\ Assembler!ToolFits(CallsOf(ts), t)
    BY <2>2, <2>4, <2>5 DEF CallsFit
  <2> QED BY <2>6 DEF q
<1> QED BY <1>6, <1>7

(* So a fold of further entries stands for the entries together.           *)
ReadsOn(ts, more) ==
  LET seen == Assembler!ObserveTools(CallsOf(ts), more)
  IN /\ seen.tools = CallsOf(ts \o more)
     /\ CallsFit(ts \o more) <=> CallsFit(ts) /\ seen.ok

LEMMA ToolsReadOn ==
  ASSUME NEW ts \in Seq(ToolEntry), NEW more \in Seq(ToolEntry)
  PROVE  ReadsOn(ts, more)
<1> DEFINE Bad == {m \in Nat : \E q \in Seq(ToolEntry) : Len(q) = m /\ ~ReadsOn(ts, q)}
<1> SUFFICES ASSUME Bad # {} PROVE FALSE
  <2>1. Len(more) \in Nat OBVIOUS
  <2> QED BY <2>1
<1>1. PICK m \in Bad : \A k \in Bad : m <= k
  <2>1. Bad \subseteq Nat OBVIOUS
  <2> HIDE DEF Bad
  <2> QED BY <2>1, LeastNumber
<1>2. PICK q \in Seq(ToolEntry) : Len(q) = m /\ ~ReadsOn(ts, q) BY <1>1
<1>3. CASE q = <<>>
  <2>1. ts \o q = ts BY <1>3, ConcatEmptySeq
  <2>2. Assembler!ObserveTools(CallsOf(ts), q) = Unread(CallsOf(ts)) BY <1>3, NoToolMore
  <2>3. Unread(CallsOf(ts)).tools = CallsOf(ts) /\ Unread(CallsOf(ts)).ok = TRUE BY DEF Unread
  <2>4. ReadsOn(ts, q) BY <2>1, <2>2, <2>3 DEF ReadsOn
  <2> QED BY <1>2, <2>4
<1>4. CASE q # <<>>
  <2>1. PICK front \in Seq(ToolEntry), t \in ToolEntry : q = Append(front, t)
    BY <1>4, SequenceEmptyOrAppend
  <2>2. Len(front) \in Nat /\ m = Len(front) + 1 BY <1>2, <2>1, AppendProperties
  <2>3. ReadsOn(ts, front)
    <3>1. ~(m <= Len(front)) BY <2>2
    <3>2. Len(front) \notin Bad BY <1>1, <3>1
    <3> QED BY <2>2, <3>2
  <2>4. PICK both \in Seq(ToolEntry) : both = ts \o front BY ConcatProperties
  <2>5. ts \o q = Append(both, t)
    <3>1. <<t>> \in Seq(ToolEntry) OBVIOUS
    <3>2. q = front \o <<t>> /\ Append(both, t) = both \o <<t>> BY <2>1, AppendIsConcat
    <3>3. ts \o (front \o <<t>>) = (ts \o front) \o <<t>> BY <3>1, ConcatAssociative, SMTT(30)
    <3> QED BY <2>4, <3>2, <3>3
  <2>6. PICK acc : acc = Assembler!ObserveTools(CallsOf(ts), front) OBVIOUS
  <2>7. /\ acc.tools = CallsOf(both)
        /\ CallsFit(both) <=> CallsFit(ts) /\ acc.ok
    BY <2>3, <2>4, <2>6 DEF ReadsOn
  <2>8. Assembler!ObserveTools(CallsOf(ts), q) = Assembler!ObserveTool(acc, t)
    BY <2>1, <2>6, OneToolMore
  <2>9. Assembler!ObserveTool(acc, t).tools = CallsOf(Append(both, t))
    BY <2>7, CallsObserved
  <2>10. Assembler!ObserveTool(acc, t).ok <=> acc.ok /\ Assembler!ToolFits(CallsOf(both), t)
    BY <2>7 DEF Assembler!ObserveTool
  <2>11. CallsFit(Append(both, t)) <=> CallsFit(both) /\ Assembler!ToolFits(CallsOf(both), t)
    BY CallsFitMore
  <2>12. ReadsOn(ts, q) BY <2>5, <2>7, <2>8, <2>9, <2>10, <2>11 DEF ReadsOn
  <2> QED BY <1>2, <2>12
<1> QED BY <1>3, <1>4

-----------------------------------------------------------------------------
(* A choice: what the assembler holds of it is read off its entries.       *)

(* The one value other than none that a set may hold.                      *)
Agreed(x, S) == S \subseteq {"none", x} /\ (x = "none" \/ x \in S)

LEMMA AgreedMore ==
  ASSUME NEW known, NEW S, Agreed(known, S), NEW x
  PROVE  /\ AllEqual(S \cup {x}) <=> Assembler!Compatible(known, x)
         /\ Assembler!Compatible(known, x) => Agreed(Assembler!Known(known, x), S \cup {x})
BY DEF Agreed, AllEqual, Assembler!Compatible, Assembler!Known

LEMMA AgreedIsEqual == ASSUME NEW x, NEW S, Agreed(x, S) PROVE AllEqual(S)
BY DEF Agreed, AllEqual

Extras(s) == {s[n].extra : n \in DOMAIN s}
FinishOf(es) == IF es = <<>> THEN "none" ELSE es[Len(es)].finish
Assistant(es) == \E n \in DOMAIN es : es[n].delta.role = "assistant"

(* Entries a choice may be made of so far, each regular and none after a   *)
(* finish reason.                                                          *)
Regular(e) == ~e.delta.odd /\ e.delta.role \in {"none", "assistant"}

Unbroken(es) ==
  /\ \A n \in DOMAIN es : Regular(es[n]) /\ (n < Len(es) => es[n].finish = "none")
  /\ AllEqual(Extras(es))
  /\ CallsFit(ToolEntries(es))

HoldsChoice(s, es) ==
  /\ s.content = Text(es) /\ s.reasoning = Reasoning(es)
  /\ s.tools = CallsOf(ToolEntries(es))
  /\ s.finish = FinishOf(es)
  /\ s.role \in {"none", "assistant"} /\ (s.role = "assistant" <=> Assistant(es))
  /\ Agreed(s.extra, Extras(es))

LEMMA NothingHeld == HoldsChoice(Assembler!NewChoice, <<>>) /\ Unbroken(<<>>)
<1>1. CallsOf(<<>>) = <<>>
  <2> DEFINE f == CallsOf(<<>>)
  <2>1. DOMAIN f = {} BY DEF CallsOf, ToolsSent
  <2>2. f \in [1 .. 0 -> {}] BY <2>1 DEF CallsOf
  <2> HIDE DEF f
  <2>3. f \in Seq({}) /\ DOMAIN f = 1 .. 0 BY <2>2, FunctionIsSeq
  <2>4. f = <<>> BY <2>3, EmptySeq, LenProperties
  <2> QED BY <2>4 DEF f
<1>2. Extras(<<>>) = {} /\ ~Assistant(<<>>) BY DEF Extras, Assistant
<1>3. CallsFit(<<>>) BY DEF CallsFit, ToolsSent
<1>4. AllEqual({}) /\ Agreed("none", {}) BY DEF AllEqual, Agreed
<1>5. HoldsChoice(Assembler!NewChoice, <<>>)
  BY <1>1, <1>2, <1>4, ViewsOfNothing DEF HoldsChoice, Assembler!NewChoice, FinishOf
<1>6. Unbroken(<<>>)
  <2>1. \A n \in DOMAIN <<>> : FALSE OBVIOUS
  <2>2. CallsFit(ToolEntries(<<>>)) /\ AllEqual(Extras(<<>>)) BY <1>2, <1>3, <1>4, ViewsOfNothing
  <2> HIDE DEF Regular
  <2> QED BY <2>1, <2>2, Zenon DEF Unbroken
<1> QED BY <1>5, <1>6

(* What one entry more has to keep.                                        *)
LEMMA UnbrokenMore ==
  ASSUME NEW es \in Seq(Entry), NEW e \in Entry
  PROVE  /\ Unbroken(Append(es, e))
              <=> /\ Unbroken(es) /\ FinishOf(es) = "none" /\ Regular(e)
                  /\ AllEqual(Extras(es) \cup {e.extra})
                  /\ CallsFit(ToolEntries(es) \o e.delta.tools)
         /\ FinishOf(Append(es, e)) = e.finish
         /\ Extras(Append(es, e)) = Extras(es) \cup {e.extra}
         /\ Assistant(Append(es, e)) <=> Assistant(es) \/ e.delta.role = "assistant"
<1> DEFINE q == Append(es, e)
           L == Len(es)
           N == Len(es) + 1
<1>1. /\ DOMAIN q = 1 .. N /\ DOMAIN es = 1 .. L /\ L \in Nat /\ Len(q) = N
      /\ q[N] = e /\ \A n \in DOMAIN es : q[n] = es[n]
  BY AppendProperties
<1>2. DOMAIN q = DOMAIN es \cup {N} BY <1>1
<1>3. ToolEntries(q) = ToolEntries(es) \o e.delta.tools BY OneEntryMore
<1>4. q # <<>> /\ (es = <<>> <=> L = 0)
  <2>1. Len(<<>>) = 0 /\ N # 0 BY <1>1
  <2>2. es # <<>> => L # 0 BY EmptySeq
  <2> HIDE DEF q
  <2> QED BY <1>1, <2>1, <2>2
<1>5. ToolEntries(es) \in Seq(ToolEntry) /\ e.delta.tools \in Seq(ToolEntry)
  BY OneEntryMore, EntryShape
<1>6. CallsFit(ToolEntries(es) \o e.delta.tools) => CallsFit(ToolEntries(es))
  BY <1>5, ToolsReadOn DEF ReadsOn
<1> HIDE DEF q, N
<1>7. Extras(q) = Extras(es) \cup {e.extra}
  <2>1. \A n \in DOMAIN es : n \in DOMAIN q /\ q[n].extra = es[n].extra BY <1>1, <1>2
  <2>2. N \in DOMAIN q /\ q[N].extra = e.extra BY <1>1, <1>2
  <2>3. \A n \in DOMAIN q : n \in DOMAIN es \/ n = N BY <1>2
  <2> QED BY <2>1, <2>2, <2>3 DEF Extras
<1>8. Assistant(q) <=> Assistant(es) \/ e.delta.role = "assistant"
  <2>1. \A n \in DOMAIN es : n \in DOMAIN q /\ q[n] = es[n] BY <1>1, <1>2
  <2>2. N \in DOMAIN q /\ q[N] = e BY <1>1, <1>2
  <2>3. \A n \in DOMAIN q : n \in DOMAIN es \/ n = N BY <1>2
  <2> QED BY <2>1, <2>2, <2>3 DEF Assistant
<1>9. FinishOf(q) = e.finish BY <1>1, <1>4 DEF FinishOf
<1>10. (\A n \in DOMAIN q : Regular(q[n]) /\ (n < Len(q) => q[n].finish = "none"))
         <=> /\ \A n \in DOMAIN es : Regular(es[n]) /\ (n < L => es[n].finish = "none")
             /\ FinishOf(es) = "none" /\ Regular(e)
  <2>1. \A n \in DOMAIN es : n \in DOMAIN q /\ q[n] = es[n] /\ n < N BY <1>1, <1>2 DEF N
  <2>2. N \in DOMAIN q /\ q[N] = e /\ ~(N < N) BY <1>1, <1>2 DEF N
  <2>3. \A n \in DOMAIN q : n \in DOMAIN es \/ n = N BY <1>2
  <2>4. (\A n \in DOMAIN q : Regular(q[n]) /\ (n < N => q[n].finish = "none"))
          <=> (\A n \in DOMAIN es : Regular(es[n]) /\ es[n].finish = "none") /\ Regular(e)
    BY <2>1, <2>2, <2>3
  <2>5. (\A n \in DOMAIN es : es[n].finish = "none")
          <=> (\A n \in DOMAIN es : n < L => es[n].finish = "none") /\ FinishOf(es) = "none"
    <3>1. CASE es = <<>>
      <4>1. DOMAIN es = {} BY <3>1
      <4> QED BY <3>1, <4>1 DEF FinishOf
    <3>2. CASE es # <<>>
      <4>1. L \in DOMAIN es /\ \A n \in DOMAIN es : n < L \/ n = L BY <1>1, <1>4, <3>2
      <4>2. FinishOf(es) = es[L].finish BY <3>2 DEF FinishOf
      <4> QED BY <4>1, <4>2
    <3> QED BY <3>1, <3>2
  <2> QED BY <1>1, <2>4, <2>5
<1>11. AllEqual(Extras(es) \cup {e.extra}) => AllEqual(Extras(es)) BY DEF AllEqual
<1>12. Unbroken(q) <=> /\ Unbroken(es) /\ FinishOf(es) = "none" /\ Regular(e)
                       /\ AllEqual(Extras(es) \cup {e.extra})
                       /\ CallsFit(ToolEntries(es) \o e.delta.tools)
  BY <1>3, <1>6, <1>7, <1>10, <1>11 DEF Unbroken
<1> QED BY <1>7, <1>8, <1>9, <1>12 DEF q

(* The assembler takes an entry just when the choice is unbroken with it,  *)
(* and then holds one entry more.                                          *)
LEMMA ChoiceMore ==
  ASSUME NEW es \in Seq(Entry), NEW e \in Entry, NEW s, HoldsChoice(s, es), Unbroken(es)
  PROVE  /\ Assembler!ChoiceFits(s, e) <=> Unbroken(Append(es, e))
         /\ Assembler!ChoiceFits(s, e) => HoldsChoice(Assembler!Grow(s, e), Append(es, e))
<1> DEFINE q == Append(es, e)
<1>1. ToolEntries(es) \in Seq(ToolEntry) /\ e.delta.tools \in Seq(ToolEntry)
  BY OneEntryMore, EntryShape
<1>2. PICK ts, more, seen :
        /\ ts = ToolEntries(es) /\ more = e.delta.tools
        /\ seen = Assembler!ObserveTools(s.tools, more)
  OBVIOUS
<1>3. /\ seen.tools = CallsOf(ts \o more)
      /\ CallsFit(ts \o more) <=> CallsFit(ts) /\ seen.ok
  <2>1. s.tools = CallsOf(ts) BY <1>2 DEF HoldsChoice
  <2>2. ReadsOn(ts, more) BY <1>1, <1>2, ToolsReadOn
  <2> QED BY <1>2, <2>1, <2>2 DEF ReadsOn
<1>4. CallsFit(ts) BY <1>2 DEF Unbroken
<1>5. /\ AllEqual(Extras(es) \cup {e.extra}) <=> Assembler!Compatible(s.extra, e.extra)
      /\ Assembler!Compatible(s.extra, e.extra)
           => Agreed(Assembler!Known(s.extra, e.extra), Extras(es) \cup {e.extra})
  <2>1. PICK known, x : known = s.extra /\ x = e.extra OBVIOUS
  <2>2. Agreed(known, Extras(es)) BY <2>1 DEF HoldsChoice
  <2> QED BY <2>1, <2>2, AgreedMore
<1>6. Assembler!ChoiceFits(s, e)
        <=> /\ FinishOf(es) = "none" /\ Regular(e)
            /\ AllEqual(Extras(es) \cup {e.extra}) /\ CallsFit(ts \o more)
  BY <1>2, <1>3, <1>4, <1>5 DEF Assembler!ChoiceFits, HoldsChoice, Regular
<1>7. Assembler!ChoiceFits(s, e) <=> Unbroken(q) BY <1>2, <1>6, UnbrokenMore
<1>8. ASSUME Assembler!ChoiceFits(s, e)
      PROVE  HoldsChoice(Assembler!Grow(s, e), q)
  <2>1. PICK g : g = Assembler!Grow(s, e) OBVIOUS
  <2>2. /\ g.role = Assembler!Known(e.delta.role, s.role)
        /\ g.content = s.content \o e.delta.content
        /\ g.reasoning = s.reasoning \o e.delta.reasoning
        /\ g.finish = e.finish /\ g.extra = Assembler!Known(s.extra, e.extra)
        /\ g.tools = seen.tools
    BY <1>2, <2>1 DEF Assembler!Grow
  <2>3. Regular(e) /\ Assembler!Compatible(s.extra, e.extra)
    BY <1>8 DEF Assembler!ChoiceFits, Regular
  <2>4. g.role \in {"none", "assistant"} /\ (g.role = "assistant" <=> Assistant(q))
    <3>1. Assistant(q) <=> Assistant(es) \/ e.delta.role = "assistant" BY UnbrokenMore
    <3>2. s.role \in {"none", "assistant"} /\ (s.role = "assistant" <=> Assistant(es))
      BY DEF HoldsChoice
    <3>3. e.delta.role \in {"none", "assistant"} BY <2>3 DEF Regular
    <3> QED BY <2>2, <3>1, <3>2, <3>3 DEF Assembler!Known
  <2>5. g.content = Text(q) /\ g.reasoning = Reasoning(q)
    BY <2>2, OneEntryMore DEF HoldsChoice
  <2>6. g.tools = CallsOf(ToolEntries(q)) BY <1>2, <1>3, <2>2, OneEntryMore
  <2>7. g.finish = FinishOf(q) BY <2>2, UnbrokenMore
  <2>8. Agreed(g.extra, Extras(q)) BY <1>5, <2>2, <2>3, UnbrokenMore
  <2> HIDE DEF q
  <2> QED BY <2>1, <2>4, <2>5, <2>6, <2>7, <2>8 DEF HoldsChoice
<1> QED BY <1>7, <1>8

-----------------------------------------------------------------------------
(* A transcript: what the assembler holds of its chunks.                   *)

ChunkIds(d) == {d[n].id : n \in DOMAIN d}

(* Chunks a response may be made of so far.                                *)
Fits(d) ==
  /\ AllEqual(ChunkIds(d)) /\ AllEqual(Extras(d))
  /\ \A n \in DOMAIN d : Distinct(d[n])
  /\ \A index \in ChoicesSent(d) : Unbroken(Entries(d, index))

UsageOf(d) == IF d = <<>> THEN NoUsage ELSE d[Len(d)].usage

HoldsChunks(a, d) ==
  /\ DOMAIN a.choices = ChoicesSent(d)
  /\ Agreed(a.id, ChunkIds(d)) /\ Agreed(a.extra, Extras(d))
  /\ a.usage = UsageOf(d)
  /\ \A index \in ChoicesSent(d) : HoldsChoice(a.choices[index], Entries(d, index))

LEMMA NoEntriesSent ==
  ASSUME NEW d \in Seq(Chunks), NEW index, index \notin ChoicesSent(d)
  PROVE  Entries(d, index) = <<>>
<1> DEFINE Bad == {m \in Nat : \E q \in Seq(Chunks) :
                     Len(q) = m /\ index \notin ChoicesSent(q) /\ Entries(q, index) # <<>>}
<1> SUFFICES ASSUME Bad # {} PROVE FALSE
  <2>1. Len(d) \in Nat OBVIOUS
  <2> QED BY <2>1
<1>1. PICK m \in Bad : \A k \in Bad : m <= k
  <2>1. Bad \subseteq Nat OBVIOUS
  <2> HIDE DEF Bad
  <2> QED BY <2>1, LeastNumber
<1>2. PICK q \in Seq(Chunks) : Len(q) = m /\ index \notin ChoicesSent(q) /\ Entries(q, index) # <<>>
  BY <1>1
<1>3. q # <<>> BY <1>2, ViewsOfNothing
<1>4. PICK front \in Seq(Chunks), c \in Chunks : q = Append(front, c) BY <1>3, SequenceEmptyOrAppend
<1>5. /\ Len(front) \in Nat /\ m = Len(front) + 1 /\ DOMAIN front = 1 .. Len(front)
      /\ DOMAIN q = 1 .. m /\ q[m] = c /\ \A n \in DOMAIN front : q[n] = front[n]
  BY <1>2, <1>4, AppendProperties
<1>6. index \notin ChoicesSent(front) /\ index \notin Assembler!Indexes(c)
  <2>1. m \in DOMAIN q /\ \A n \in DOMAIN front : n \in DOMAIN q BY <1>5
  <2>2. \A n \in DOMAIN q : index \notin Assembler!Indexes(q[n]) BY <1>2 DEF ChoicesSent
  <2>3. index \notin Assembler!Indexes(c) BY <1>5, <2>1, <2>2
  <2>4. \A n \in DOMAIN front : index \notin Assembler!Indexes(front[n]) BY <1>5, <2>1, <2>2
  <2> QED BY <2>3, <2>4 DEF ChoicesSent
<1>7. Entries(front, index) = <<>>
  <2>1. ~(m <= Len(front)) BY <1>5
  <2>2. Len(front) \notin Bad BY <1>1, <2>1
  <2> QED BY <1>5, <1>6, <2>2
<1>8. Of(c.choices, index) = <<>> BY <1>6, NoEntryInChunk
<1>9. Entries(q, index) = <<>> \o <<>>
  <2>1. Entries(Append(front, c), index) = Entries(front, index) \o Of(c.choices, index)
    BY OneChunkMore
  <2> QED BY <1>4, <1>7, <1>8, <2>1
<1>10. <<>> \o <<>> = <<>>
  <2>1. <<>> \in Seq({}) OBVIOUS
  <2> QED BY <2>1, ConcatEmptySeq
<1> QED BY <1>2, <1>9, <1>10

(* What one chunk more adds.                                               *)
LEMMA TranscriptMore ==
  ASSUME NEW d \in Seq(Chunks), NEW c \in Chunks
  PROVE  /\ ChoicesSent(Append(d, c)) = ChoicesSent(d) \cup Assembler!Indexes(c)
         /\ ChunkIds(Append(d, c)) = ChunkIds(d) \cup {c.id}
         /\ Extras(Append(d, c)) = Extras(d) \cup {c.extra}
         /\ UsageOf(Append(d, c)) = c.usage
         /\ (\A n \in DOMAIN Append(d, c) : Distinct(Append(d, c)[n]))
              <=> (\A n \in DOMAIN d : Distinct(d[n])) /\ Distinct(c)
<1> DEFINE q == Append(d, c)
           N == Len(d) + 1
<1>1. /\ DOMAIN q = 1 .. N /\ DOMAIN d = 1 .. Len(d) /\ Len(d) \in Nat /\ Len(q) = N
      /\ q[N] = c /\ \A n \in DOMAIN d : q[n] = d[n]
  BY AppendProperties
<1>2. DOMAIN q = DOMAIN d \cup {N} BY <1>1
<1>3. q # <<>>
  <2>1. Len(<<>>) = 0 /\ N # 0 BY <1>1
  <2> HIDE DEF q, N
  <2> QED BY <1>1, <2>1
<1> HIDE DEF q, N
<1>4. \A n \in DOMAIN d : n \in DOMAIN q /\ q[n] = d[n] BY <1>1, <1>2
<1>5. N \in DOMAIN q /\ q[N] = c BY <1>1, <1>2
<1>6. \A n \in DOMAIN q : n \in DOMAIN d \/ n = N BY <1>2
<1>7. ChoicesSent(q) = ChoicesSent(d) \cup Assembler!Indexes(c)
  BY <1>4, <1>5, <1>6 DEF ChoicesSent
<1>8. ChunkIds(q) = ChunkIds(d) \cup {c.id} BY <1>4, <1>5, <1>6 DEF ChunkIds
<1>9. Extras(q) = Extras(d) \cup {c.extra} BY <1>4, <1>5, <1>6 DEF Extras
<1>10. UsageOf(q) = c.usage BY <1>1, <1>3 DEF UsageOf
<1>11. (\A n \in DOMAIN q : Distinct(q[n])) <=> (\A n \in DOMAIN d : Distinct(d[n])) /\ Distinct(c)
  BY <1>4, <1>5, <1>6
<1> QED BY <1>7, <1>8, <1>9, <1>10, <1>11 DEF q

(* The entries of a choice with a chunk that names it at i, and of one it  *)
(* does not name.                                                          *)
LEMMA EntriesNamed ==
  ASSUME NEW d \in Seq(Chunks), NEW c \in Chunks, Distinct(c), NEW i \in DOMAIN c.choices,
         NEW e, e = c.choices[i], NEW index, index = e.index
  PROVE  /\ Entries(Append(d, c), index) = Append(Entries(d, index), e)
         /\ e \in Entry /\ Entries(d, index) \in Seq(Entry)
<1>1. Of(c.choices, index) = <<e>> /\ e \in Entry BY EntryOfChunk
<1>2. /\ Entries(Append(d, c), index) = Entries(d, index) \o Of(c.choices, index)
      /\ Entries(d, index) \in Seq(Entry)
  BY OneChunkMore
<1>3. Entries(d, index) \o <<e>> = Append(Entries(d, index), e) BY <1>1, <1>2, AppendIsConcat
<1> QED BY <1>1, <1>2, <1>3

LEMMA EntriesUnnamed ==
  ASSUME NEW d \in Seq(Chunks), NEW c \in Chunks, NEW index, index \notin Assembler!Indexes(c)
  PROVE  Entries(Append(d, c), index) = Entries(d, index)
<1>1. Of(c.choices, index) = <<>> BY NoEntryInChunk
<1>2. /\ Entries(Append(d, c), index) = Entries(d, index) \o Of(c.choices, index)
      /\ Entries(d, index) \in Seq(Entry)
  BY OneChunkMore
<1>3. Entries(d, index) \o <<>> = Entries(d, index) BY <1>2, ConcatEmptySeq
<1> QED BY <1>1, <1>2, <1>3

(* A beginning of chunks that fit fits.                                    *)
LEMMA FitsBefore ==
  ASSUME NEW d \in Seq(Chunks), NEW c \in Chunks, Fits(Append(d, c))
  PROVE  Fits(d)
<1> DEFINE q == Append(d, c)
<1>1. /\ AllEqual(ChunkIds(d) \cup {c.id}) /\ AllEqual(Extras(d) \cup {c.extra})
      /\ \A n \in DOMAIN d : Distinct(d[n])
      /\ Distinct(c)
      /\ \A index \in ChoicesSent(d) \cup Assembler!Indexes(c) : Unbroken(Entries(q, index))
  BY TranscriptMore DEF Fits
<1>2. AllEqual(ChunkIds(d)) /\ AllEqual(Extras(d)) BY <1>1 DEF AllEqual
<1>3. ASSUME NEW index \in ChoicesSent(d)
      PROVE  Unbroken(Entries(d, index))
  <2>1. Unbroken(Entries(q, index)) BY <1>1
  <2>2. CASE index \in Assembler!Indexes(c)
    <3>1. PICK i \in DOMAIN c.choices : c.choices[i].index = index BY <2>2 DEF Assembler!Indexes
    <3>2. PICK e : e = c.choices[i] OBVIOUS
    <3>3. /\ Entries(q, index) = Append(Entries(d, index), e)
          /\ e \in Entry /\ Entries(d, index) \in Seq(Entry)
      BY <1>1, <3>1, <3>2, EntriesNamed
    <3>4. Unbroken(Append(Entries(d, index), e)) BY <2>1, <3>3
    <3> QED BY <3>3, <3>4, UnbrokenMore
  <2>3. CASE index \notin Assembler!Indexes(c)
    BY <2>1, <2>3, EntriesUnnamed
  <2> QED BY <2>2, <2>3
<1> QED BY <1>1, <1>2, <1>3 DEF Fits

LEMMA StateHeld ==
  ASSUME NEW d \in Seq(Chunks), NEW a, HoldsChunks(a, d), Fits(d), NEW index
  PROVE  /\ HoldsChoice(Assembler!StateOf(a, index), Entries(d, index))
         /\ Unbroken(Entries(d, index))
<1>1. CASE index \in ChoicesSent(d)
  BY <1>1 DEF HoldsChunks, Fits, Assembler!StateOf
<1>2. CASE index \notin ChoicesSent(d)
  <2>1. Assembler!StateOf(a, index) = Assembler!NewChoice
    BY <1>2 DEF HoldsChunks, Assembler!StateOf
  <2> QED BY <1>2, <2>1, NoEntriesSent, NothingHeld
<1> QED BY <1>1, <1>2

(* What the assembler knows of each choice a chunk names.                  *)
LEMMA NamedFits ==
  ASSUME NEW d \in Seq(Chunks), NEW a, HoldsChunks(a, d), Fits(d), NEW c \in Chunks, Distinct(c),
         NEW i \in DOMAIN c.choices, NEW e, e = c.choices[i], NEW index, index = e.index,
         NEW s, s = Assembler!StateOf(a, index)
  PROVE  /\ Assembler!ChoiceFits(s, e) <=> Unbroken(Entries(Append(d, c), index))
         /\ Assembler!ChoiceFits(s, e)
              => HoldsChoice(Assembler!Grow(s, e), Entries(Append(d, c), index))
<1>1. PICK es : es = Entries(d, index) OBVIOUS
<1>2. Entries(Append(d, c), index) = Append(es, e) /\ e \in Entry /\ es \in Seq(Entry)
  BY <1>1, EntriesNamed
<1>3. HoldsChoice(s, es) /\ Unbroken(es) BY <1>1, StateHeld
<1> QED BY <1>2, <1>3, ChoiceMore

(* observePayload takes a chunk just when the transcript fits with it.     *)
LEMMA ChunkFits ==
  ASSUME NEW d \in Seq(Chunks), NEW a, HoldsChunks(a, d), Fits(d), NEW c \in Chunks,
         a.eligible, ~a.done, a.usage = NoUsage
  PROVE  Assembler!Representable(a, c) <=> Fits(Append(d, c))
<1> DEFINE q == Append(d, c)
<1>1. Fits(q) <=> /\ AllEqual(ChunkIds(d) \cup {c.id}) /\ AllEqual(Extras(d) \cup {c.extra})
                  /\ \A n \in DOMAIN d : Distinct(d[n])
                  /\ Distinct(c)
                  /\ \A index \in ChoicesSent(d) \cup Assembler!Indexes(c) :
                       Unbroken(Entries(q, index))
  BY TranscriptMore DEF Fits
<1>2. AllEqual(ChunkIds(d) \cup {c.id}) <=> a.id \in {"none", c.id}
  <2>1. PICK known, x : known = a.id /\ x = c.id OBVIOUS
  <2>2. Agreed(known, ChunkIds(d)) BY <2>1 DEF HoldsChunks
  <2>3. AllEqual(ChunkIds(d) \cup {x}) <=> Assembler!Compatible(known, x) BY <2>2, AgreedMore
  <2>4. x # "none" BY <2>1, ChunkShape
  <2>5. Assembler!Compatible(known, x) <=> known \in {"none", x} BY <2>4 DEF Assembler!Compatible
  <2> QED BY <2>1, <2>3, <2>5
<1>3. AllEqual(Extras(d) \cup {c.extra}) <=> Assembler!Compatible(a.extra, c.extra)
  <2>1. PICK known, x : known = a.extra /\ x = c.extra OBVIOUS
  <2>2. Agreed(known, Extras(d)) BY <2>1 DEF HoldsChunks
  <2>3. AllEqual(Extras(d) \cup {x}) <=> Assembler!Compatible(known, x) BY <2>2, AgreedMore
  <2> QED BY <2>1, <2>3
<1>4. \A n \in DOMAIN d : Distinct(d[n]) BY DEF Fits
<1>5. Assembler!Representable(a, c)
        <=> /\ a.id \in {"none", c.id} /\ Assembler!Compatible(a.extra, c.extra) /\ Distinct(c)
            /\ \A i \in DOMAIN c.choices :
                 Assembler!ChoiceFits(Assembler!StateOf(a, c.choices[i].index), c.choices[i])
  BY DEF Assembler!Representable, Distinct
<1>6. ASSUME Distinct(c)
      PROVE  (\A i \in DOMAIN c.choices :
                Assembler!ChoiceFits(Assembler!StateOf(a, c.choices[i].index), c.choices[i]))
             <=> \A index \in ChoicesSent(d) \cup Assembler!Indexes(c) : Unbroken(Entries(q, index))
  <2>1. ASSUME NEW i \in DOMAIN c.choices
        PROVE  Assembler!ChoiceFits(Assembler!StateOf(a, c.choices[i].index), c.choices[i])
                 <=> Unbroken(Entries(q, c.choices[i].index))
    <3>1. PICK e : e = c.choices[i] OBVIOUS
    <3>2. PICK index : index = e.index OBVIOUS
    <3>3. PICK s : s = Assembler!StateOf(a, index) OBVIOUS
    <3>4. Assembler!ChoiceFits(s, e) <=> Unbroken(Entries(q, index))
      BY <1>6, <3>1, <3>2, <3>3, NamedFits
    <3> QED BY <3>1, <3>2, <3>3, <3>4
  <2>2. ASSUME NEW index \in ChoicesSent(d), index \notin Assembler!Indexes(c)
        PROVE  Unbroken(Entries(q, index))
    <3>1. Unbroken(Entries(d, index)) BY DEF Fits
    <3> QED BY <2>2, <3>1, EntriesUnnamed
  <2>3. (\A i \in DOMAIN c.choices : Unbroken(Entries(q, c.choices[i].index)))
          <=> \A index \in Assembler!Indexes(c) : Unbroken(Entries(q, index))
    BY DEF Assembler!Indexes
  <2> HIDE DEF q
  <2> QED BY <2>1, <2>2, <2>3
<1> QED BY <1>1, <1>2, <1>3, <1>4, <1>5, <1>6

(* And holds one chunk more.                                               *)
IsAssembler(a) == DOMAIN a = {"eligible", "id", "extra", "usage", "done", "choices"}

LEMMA ChunkObserved ==
  ASSUME NEW d \in Seq(Chunks), NEW a, HoldsChunks(a, d), Fits(d), NEW c \in Chunks,
         IsAssembler(a), Assembler!Representable(a, c)
  PROVE  HoldsChunks(Assembler!ObservePayload(a, c), Append(d, c))
<1> DEFINE q == Append(d, c)
<1>1. Distinct(c) /\ a.id \in {"none", c.id} /\ Assembler!Compatible(a.extra, c.extra)
  BY DEF Assembler!Representable, Distinct
<1>2. PICK b : b = Assembler!ObservePayload(a, c) OBVIOUS
<1>3. /\ b.id = c.id /\ b.extra = Assembler!Known(a.extra, c.extra) /\ b.usage = c.usage
      /\ b.choices = [index \in DOMAIN a.choices \cup Assembler!Indexes(c) |->
             IF index \in Assembler!Indexes(c)
             THEN Assembler!Grow(Assembler!StateOf(a, index),
                       c.choices[CHOOSE i \in DOMAIN c.choices : c.choices[i].index = index])
             ELSE a.choices[index]]
  BY <1>2 DEF Assembler!ObservePayload, IsAssembler
<1>4. DOMAIN b.choices = ChoicesSent(q) BY <1>3, TranscriptMore DEF HoldsChunks
<1>5. Agreed(b.id, ChunkIds(q))
  <2>1. PICK known, x : known = a.id /\ x = c.id OBVIOUS
  <2>2. Agreed(known, ChunkIds(d)) BY <2>1 DEF HoldsChunks
  <2>3. Assembler!Compatible(known, x) BY <1>1, <2>1 DEF Assembler!Compatible
  <2>4. Agreed(Assembler!Known(known, x), ChunkIds(d) \cup {x}) BY <2>2, <2>3, AgreedMore
  <2>5. Assembler!Known(known, x) = x BY <1>1, <2>1 DEF Assembler!Known
  <2>6. ChunkIds(q) = ChunkIds(d) \cup {c.id} BY TranscriptMore
  <2> QED BY <1>3, <2>1, <2>4, <2>5, <2>6
<1>6. Agreed(b.extra, Extras(q))
  <2>1. PICK known, x : known = a.extra /\ x = c.extra OBVIOUS
  <2>2. Agreed(known, Extras(d)) BY <2>1 DEF HoldsChunks
  <2>3. Agreed(Assembler!Known(known, x), Extras(d) \cup {x}) BY <1>1, <2>1, <2>2, AgreedMore
  <2>4. Extras(q) = Extras(d) \cup {c.extra} BY TranscriptMore
  <2> QED BY <1>3, <2>1, <2>3, <2>4
<1>7. b.usage = UsageOf(q) BY <1>3, TranscriptMore
<1>8. ASSUME NEW index \in ChoicesSent(q)
      PROVE  HoldsChoice(b.choices[index], Entries(q, index))
  <2>1. index \in DOMAIN a.choices \cup Assembler!Indexes(c)
    BY TranscriptMore DEF HoldsChunks
  <2>2. CASE index \in Assembler!Indexes(c)
    <3>1. PICK i : i = CHOOSE k \in DOMAIN c.choices : c.choices[k].index = index OBVIOUS
    <3>2. i \in DOMAIN c.choices /\ c.choices[i].index = index
      BY <2>2, <3>1 DEF Assembler!Indexes
    <3>3. PICK e, s : e = c.choices[i] /\ s = Assembler!StateOf(a, index) OBVIOUS
    <3>4. b.choices[index] = Assembler!Grow(s, e) BY <1>3, <2>1, <2>2, <3>1, <3>3
    <3>5. Assembler!ChoiceFits(s, e)
      BY <3>2, <3>3 DEF Assembler!Representable
    <3>6. index = e.index BY <3>2, <3>3
    <3>7. HoldsChoice(Assembler!Grow(s, e), Entries(q, index))
      BY <1>1, <3>2, <3>3, <3>5, <3>6, NamedFits
    <3> QED BY <3>4, <3>7
  <2>3. CASE index \notin Assembler!Indexes(c)
    <3>1. b.choices[index] = a.choices[index] BY <1>3, <2>1, <2>3
    <3>2. index \in ChoicesSent(d) BY <2>1, <2>3 DEF HoldsChunks
    <3>3. HoldsChoice(a.choices[index], Entries(d, index)) BY <3>2 DEF HoldsChunks
    <3>4. Entries(q, index) = Entries(d, index) BY <2>3, EntriesUnnamed
    <3> HIDE DEF q
    <3> QED BY <3>1, <3>3, <3>4
  <2> QED BY <2>2, <2>3
<1> HIDE DEF q
<1>9. HoldsChunks(b, q) BY <1>4, <1>5, <1>6, <1>7, <1>8 DEF HoldsChunks
<1> QED BY <1>2, <1>9 DEF q

LEMMA AssemblerKept ==
  ASSUME NEW a, IsAssembler(a), NEW c
  PROVE  /\ IsAssembler(Assembler!ObservePayload(a, c)) /\ IsAssembler(Assembler!ObserveDone(a))
         /\ Assembler!ObservePayload(a, c).eligible <=> Assembler!Representable(a, c)
         /\ Assembler!ObservePayload(a, c).done = a.done
         /\ Assembler!ObserveDone(a).eligible <=> a.eligible /\ ~a.done
         /\ Assembler!ObserveDone(a).eligible => Assembler!ObserveDone(a).done
<1>1. PICK b : b = Assembler!ObservePayload(a, c) OBVIOUS
<1>2. IsAssembler(b) /\ b.done = a.done BY <1>1 DEF Assembler!ObservePayload, IsAssembler
<1>3. b.eligible <=> Assembler!Representable(a, c)
  BY <1>1 DEF Assembler!ObservePayload, IsAssembler, Assembler!Representable
<1>4. PICK g : g = Assembler!ObserveDone(a) OBVIOUS
<1>5. IsAssembler(g) /\ (g.eligible <=> a.eligible /\ ~a.done) /\ (g.eligible => g.done)
  BY <1>4 DEF Assembler!ObserveDone, IsAssembler
<1> QED BY <1>1, <1>2, <1>3, <1>4, <1>5

-----------------------------------------------------------------------------
(* The system.                                                             *)

(* The assembler beside the adapter: it is eligible just as long as the    *)
(* transcript fits one response, and then holds what that transcript says. *)
AssemblyInv ==
  /\ Transcript \in Seq(Chunks)
  /\ phase # "done" => delivered = Transcript
  /\ sawUsage <=> UsageOf(Transcript) # NoUsage
  /\ IsAssembler(assembler)
  /\ assembler.eligible <=> Fits(Transcript)
  /\ assembler.eligible => HoldsChunks(assembler, Transcript)
  /\ assembler.eligible => (assembler.done <=> phase = "done")
  /\ IF outcome = "ok"
     THEN phase = "done" /\ cached = Assembler!Finish(assembler)
     ELSE cached = Assembler!NoResponse

LEMMA Untranscribed ==
  ASSUME NEW d \in Seq(Chunks)
  PROVE  SubSeq(d, 1, Len(d)) = d /\ SubSeq(Append(d, Done), 1, Len(Append(d, Done)) - 1) = d
<1> DEFINE q == Append(d, Done)
           L == Len(d)
<1>1. SubSeq(d, 1, L) = d BY SubSeqFull
<1>2. d \in Seq(Chunks \cup {Done}) /\ Done \in Chunks \cup {Done} OBVIOUS
<1>3. L \in Nat /\ DOMAIN d = 1 .. L /\ Len(q) = L + 1 /\ \A i \in 1 .. L : q[i] = d[i]
  BY <1>2, AppendProperties
<1>4. \A i \in 1 .. L : d[i] \in Chunks BY <1>3
<1> HIDE DEF q, L
<1>5. PICK p : p = SubSeq(q, 1, L) OBVIOUS
<1>6. p \in Seq(Chunks) /\ Len(p) = L /\ \A i \in 1 .. L : p[i] = d[i]
  <2>1. 1 \in Int /\ L \in Int /\ (1 <= L <=> L # 0) BY <1>3
  <2>2. \A i \in 1 .. L : q[i] \in Chunks BY <1>3, <1>4
  <2>3. /\ SubSeq(q, 1, L) \in Seq(Chunks)
        /\ Len(SubSeq(q, 1, L)) = IF 1 <= L THEN L - 1 + 1 ELSE 0
        /\ \A i \in 1 .. L - 1 + 1 : SubSeq(q, 1, L)[i] = q[1 + i - 1]
    BY <2>1, <2>2, SubSeqProperties
  <2>4. L - 1 + 1 = L /\ \A i \in 1 .. L : 1 + i - 1 = i BY <1>3
  <2>5. Len(p) = L BY <1>3, <1>5, <2>1, <2>3, <2>4
  <2>6. \A i \in 1 .. L : p[i] = d[i] BY <1>3, <1>5, <2>3, <2>4
  <2> QED BY <1>5, <2>3, <2>5, <2>6
<1>7. p = d BY <1>3, <1>6, SeqEqual DEF L
<1> QED BY <1>1, <1>3, <1>5, <1>7 DEF q, L

LEMMA NothingSaid ==
  /\ Fits(<<>>) /\ HoldsChunks(Assembler!NewAssembler, <<>>) /\ UsageOf(<<>>) = NoUsage
  /\ IsAssembler(Assembler!NewAssembler)
<1>1. DOMAIN <<>> = {} OBVIOUS
<1>2. ChunkIds(<<>>) = {} /\ Extras(<<>>) = {} BY <1>1 DEF ChunkIds, Extras
<1>3. ChoicesSent(<<>>) = {} BY <1>1 DEF ChoicesSent
<1>4. AllEqual({}) /\ Agreed("none", {}) BY DEF AllEqual, Agreed
<1>5. UsageOf(<<>>) = NoUsage BY DEF UsageOf
<1>6. Fits(<<>>) BY <1>1, <1>2, <1>3, <1>4 DEF Fits
<1>7. PICK a : a = Assembler!NewAssembler OBVIOUS
<1>8. a.choices = <<>> /\ a.id = "none" /\ a.extra = "none" /\ a.usage = NoUsage /\ IsAssembler(a)
  BY <1>7 DEF Assembler!NewAssembler, IsAssembler
<1>9. HoldsChunks(a, <<>>) BY <1>1, <1>2, <1>3, <1>4, <1>5, <1>8 DEF HoldsChunks
<1> QED BY <1>5, <1>6, <1>7, <1>8, <1>9

(* A [DONE] adds nothing to what is held.                                  *)
LEMMA HeldAtTheEnd ==
  ASSUME NEW a, IsAssembler(a), NEW d, HoldsChunks(a, d)
  PROVE  HoldsChunks(Assembler!ObserveDone(a), d)
<1>1. PICK b : b = Assembler!ObserveDone(a) OBVIOUS
<1>2. b.choices = a.choices /\ b.id = a.id /\ b.extra = a.extra /\ b.usage = a.usage
  BY <1>1 DEF Assembler!ObserveDone, IsAssembler
<1> QED BY <1>1, <1>2 DEF HoldsChunks

(* Steps that deliver nothing and do not end the stream leave the          *)
(* transcript alone.                                                       *)
LEMMA StillTranscribed ==
  ASSUME AssemblyInv, UNCHANGED delivered, phase # "done", phase' # "done"
  PROVE  Transcript' = Transcript
BY DEF Transcript, Count

LEMMA AssemblyForward ==
  ASSUME AdapterInv, AssemblyInv, NEW c \in Chunks, ForwardChunk(c)
  PROVE  AssemblyInv'
<1>1. PICK d : d = Transcript OBVIOUS
<1>2. PICK a : a = assembler OBVIOUS
<1>3. PICK b : b = Assembler!ObservePayload(a, c) OBVIOUS
<1>4. /\ d \in Seq(Chunks) /\ delivered = d /\ IsAssembler(a)
      /\ a.eligible <=> Fits(d)
      /\ a.eligible => HoldsChunks(a, d) /\ ~a.done /\ a.usage = NoUsage
      /\ phase = "streaming" /\ ~sawUsage
  <2>1. phase = "streaming" /\ ~sawUsage BY DEF ForwardChunk, ReceiveChunk, Forwardable
  <2>2. UsageOf(d) = NoUsage BY <1>1, <2>1 DEF AssemblyInv
  <2> QED BY <1>1, <1>2, <2>1, <2>2 DEF AssemblyInv, HoldsChunks
<1>5. /\ phase' = "streaming" /\ delivered' = Append(d, c) /\ sawUsage' = Carries(c)
      /\ assembler' = b /\ outcome' = outcome /\ cached' = cached
  BY <1>2, <1>3, <1>4 DEF ForwardChunk, ReceiveChunk
<1>6. PICK q : q = Append(d, c) OBVIOUS
<1>7. q \in Seq(Chunks) /\ UsageOf(q) = c.usage BY <1>4, <1>6, TranscriptMore, AppendProperties
<1>8. Transcript' = q
  <2>1. Transcript' = SubSeq(q, 1, Len(q)) BY <1>5, <1>6 DEF Transcript, Count
  <2> QED BY <1>7, <2>1, Untranscribed
<1>9. IsAssembler(b) /\ (b.eligible <=> Assembler!Representable(a, c)) /\ b.done = a.done
  BY <1>3, <1>4, AssemblerKept
<1>10. b.eligible => a.eligible BY <1>9 DEF Assembler!Representable
<1>11. b.eligible <=> Fits(q)
  <2>1. CASE a.eligible BY <1>4, <1>6, <1>9, <2>1, ChunkFits
  <2>2. CASE ~a.eligible BY <1>4, <1>6, <1>10, <2>2, FitsBefore
  <2> QED BY <2>1, <2>2
<1>12. b.eligible => HoldsChunks(b, q)
  BY <1>3, <1>4, <1>6, <1>9, <1>10, ChunkObserved
<1>13. b.eligible => ~b.done BY <1>4, <1>9, <1>10
<1>14. sawUsage' <=> UsageOf(q) # NoUsage BY <1>5, <1>7 DEF Carries
<1>15. outcome' # "ok" /\ cached' = Assembler!NoResponse BY <1>4, <1>5 DEF AssemblyInv
<1> QED BY <1>5, <1>6, <1>7, <1>8, <1>9, <1>11, <1>12, <1>13, <1>14, <1>15, Zenon DEF AssemblyInv

LEMMA AssemblyEnd ==
  ASSUME AdapterInv, AssemblyInv, End
  PROVE  AssemblyInv'
<1>1. PICK d : d = Transcript OBVIOUS
<1>2. PICK a : a = assembler OBVIOUS
<1>3. phase = "streaming" /\ delivered = d /\ d \in Seq(Chunks)
  BY <1>1 DEF AssemblyInv, End, EndOfBytes
<1>4. outcome' = outcome /\ outcome # "ok" /\ cached' = Assembler!NoResponse /\ sawUsage' = sawUsage
  BY <1>3 DEF AssemblyInv, End, EndOfBytes
<1>5. CASE sawDone
  <2>1. PICK b : b = Assembler!ObserveDone(a) OBVIOUS
  <2>2. phase' = "done" /\ delivered' = Append(d, Done) /\ assembler' = b
    BY <1>2, <1>3, <1>5, <2>1 DEF End, EndOfBytes
  <2>3. Transcript' = d
    <3>1. Transcript' = SubSeq(Append(d, Done), 1, Len(Append(d, Done)) - 1)
      BY <2>2 DEF Transcript, Count
    <3> QED BY <1>3, <3>1, Untranscribed
  <2>4. /\ IsAssembler(a) /\ (a.eligible <=> Fits(d))
        /\ a.eligible => HoldsChunks(a, d) /\ ~a.done
        /\ sawUsage <=> UsageOf(d) # NoUsage
    BY <1>1, <1>2, <1>3 DEF AssemblyInv
  <2>5. IsAssembler(b) /\ (b.eligible <=> a.eligible) /\ (b.eligible => b.done)
    BY <2>1, <2>4, AssemblerKept
  <2>6. b.eligible => HoldsChunks(b, d) BY <2>1, <2>4, <2>5, HeldAtTheEnd
  <2> QED BY <1>3, <1>4, <2>2, <2>3, <2>4, <2>5, <2>6, Zenon DEF AssemblyInv
<1>6. CASE ~sawDone
  <2>1. phase' = "failed" /\ delivered' = delivered /\ assembler' = assembler
    BY <1>3, <1>6 DEF End, EndOfBytes
  <2>2. Transcript' = Transcript BY <1>3, <2>1, StillTranscribed
  <2> QED BY <1>1, <1>3, <1>4, <2>1, <2>2 DEF AssemblyInv
<1> QED BY <1>5, <1>6

LEMMA AssemblyConclude ==
  ASSUME AssemblyInv, Conclude
  PROVE  AssemblyInv'
<1>1. /\ phase = "done" /\ UNCHANGED <<adapter, assembler>>
      /\ outcome' = "ok" /\ cached' = Assembler!Finish(assembler)
  BY DEF Conclude
<1>2. Transcript' = Transcript BY <1>1 DEF adapter, Transcript, Count
<1>3. cached' = Assembler!Finish(assembler') BY <1>1
<1> QED BY <1>1, <1>2, <1>3 DEF adapter, AssemblyInv

(* A step of the adapter that yields nothing.                              *)
LEMMA AssemblySilent ==
  ASSUME AssemblyInv, UNCHANGED <<assembler, cached, delivered, sawUsage>>,
         phase # "done", phase' # "done", outcome' \in {outcome, "client_aborted"}
  PROVE  AssemblyInv'
<1>1. Transcript' = Transcript BY StillTranscribed
<1>2. outcome # "ok" /\ outcome' # "ok" BY DEF AssemblyInv
<1> QED BY <1>1, <1>2 DEF AssemblyInv

LEMMA AssemblyReset ==
  ASSUME AssemblyInv, ClientReset
  PROVE  AssemblyInv'
<1>1. UNCHANGED <<assembler, cached>> /\ outcome = "open" /\ outcome' = "client_aborted"
  BY DEF ClientReset
<1>2. CASE RefuseUpstream \/ Interrupt
  <2>1. phase # "done" /\ phase' # "done" /\ UNCHANGED <<delivered, sawUsage>>
    BY <1>2 DEF RefuseUpstream, Interrupt
  <2> QED BY <1>1, <2>1, AssemblySilent
<1>3. CASE UNCHANGED adapter
  <2>1. Transcript' = Transcript BY <1>3 DEF adapter, Transcript, Count
  <2> QED BY <1>1, <1>3, <2>1 DEF adapter, AssemblyInv
<1> QED BY <1>2, <1>3 DEF ClientReset

LEMMA AssemblyInvariant == Spec => []AssemblyInv
<1>1. Init => AssemblyInv
  <2> SUFFICES ASSUME Init
               PROVE  AssemblyInv
    OBVIOUS
  <2>1. /\ delivered = <<>> /\ phase = "connecting" /\ ~sawUsage /\ outcome = "open"
        /\ assembler = Assembler!NewAssembler /\ cached = Assembler!NoResponse
    BY DEF Init, AdapterInit
  <2>2. <<>> \in Seq(Chunks) /\ Len(<<>>) = 0 OBVIOUS
  <2>3. Transcript = <<>>
    <3>1. Transcript = SubSeq(<<>>, 1, Len(<<>>)) BY <2>1 DEF Transcript, Count
    <3> QED BY <2>2, <3>1, Untranscribed
  <2>4. assembler.eligible /\ ~assembler.done BY <2>1 DEF Assembler!NewAssembler
  <2> QED BY <2>1, <2>2, <2>3, <2>4, NothingSaid DEF AssemblyInv
<1>2. AdapterInv /\ AssemblyInv /\ [Next]_vars => AssemblyInv'
  <2> SUFFICES ASSUME AdapterInv, AssemblyInv, [Next]_vars
               PROVE  AssemblyInv'
    OBVIOUS
  <2>1. CASE \E c \in Chunks : ForwardChunk(c) BY <2>1, AssemblyForward
  <2>2. CASE End BY <2>2, AssemblyEnd
  <2>3. CASE Conclude BY <2>3, AssemblyConclude
  <2>4. CASE ClientReset BY <2>4, AssemblyReset
  <2>5. CASE Silent
    <3>1. /\ UNCHANGED <<assembler, cached, delivered, sawUsage>> /\ outcome' = outcome
          /\ phase # "done" /\ phase' # "done"
      BY <2>5 DEF Silent, AdapterSilent, Connect, RefuseUpstream, ReceiveDone, ReceiveIllegal,
                  Interrupt
    <3> QED BY <3>1, AssemblySilent
  <2>6. CASE UNCHANGED vars
    <3>1. Transcript' = Transcript BY <2>6 DEF vars, adapter, Transcript, Count
    <3> QED BY <2>6, <3>1 DEF vars, adapter, AssemblyInv
  <2> QED BY <2>1, <2>2, <2>3, <2>4, <2>5, <2>6 DEF Next
<1> QED BY <1>1, <1>2, AdapterInvariant, PTL DEF Spec

-----------------------------------------------------------------------------
(* What is cached.                                                         *)

(* A choice that came to its end.                                          *)
Ended(es) ==
  /\ Assistant(es) /\ FinishOf(es) # "none"
  /\ \A tool \in ToolsSent(ToolEntries(es)) : Arguments(Of(ToolEntries(es), tool)) \in JsonObjects

LEMMA WholeChoiceIs ==
  ASSUME NEW es \in Seq(Entry)
  PROVE  WholeChoice(es) <=> Unbroken(es) /\ Ended(es)
<1>1. PICK ts : ts = ToolEntries(es) OBVIOUS
<1>2. PICK L : L = Len(es) OBVIOUS
<1>3. L \in Nat /\ DOMAIN es = 1 .. L BY <1>2
<1>4. ASSUME Assistant(es)
      PROVE  /\ L \in DOMAIN es /\ FinishOf(es) = es[L].finish
             /\ \A n \in DOMAIN es : n < L \/ n = L
  <2>1. DOMAIN es # {} BY <1>4 DEF Assistant
  <2>2. es # <<>> BY <2>1
  <2> QED BY <1>2, <1>3, <2>1, <2>2 DEF FinishOf
<1>5. ASSUME Assistant(es)
      PROVE  (\A n \in DOMAIN es : es[n].finish # "none" <=> n = L)
               <=> /\ \A n \in DOMAIN es : n < L => es[n].finish = "none"
                   /\ FinishOf(es) # "none"
  <2>1. ~(L < L) BY <1>3
  <2>2. \A n \in DOMAIN es : n < L => n # L BY <1>3
  <2> QED BY <1>4, <1>5, <2>1, <2>2
<1>6. (\A n \in DOMAIN es : Regular(es[n]) /\ (n < L => es[n].finish = "none"))
        <=> /\ \A n \in DOMAIN es : Regular(es[n])
            /\ \A n \in DOMAIN es : n < L => es[n].finish = "none"
  OBVIOUS
<1>7. WholeChoice(es)
        <=> /\ \A n \in DOMAIN es : es[n].finish # "none" <=> n = L
            /\ \A n \in DOMAIN es : Regular(es[n])
            /\ Assistant(es) /\ AllEqual(Extras(es)) /\ CallsFit(ts)
            /\ \A tool \in ToolsSent(ts) : Arguments(Of(ts, tool)) \in JsonObjects
  <2>1. (\A n \in DOMAIN es : /\ es[n].finish # "none" <=> n = L
                              /\ ~es[n].delta.odd /\ es[n].delta.role \in {"none", "assistant"})
          <=> /\ \A n \in DOMAIN es : es[n].finish # "none" <=> n = L
              /\ \A n \in DOMAIN es : Regular(es[n])
    BY DEF Regular
  <2>2. (\A tool \in ToolsSent(ts) :
           SameCall(Of(ts, tool)) /\ Arguments(Of(ts, tool)) \in JsonObjects)
          <=> /\ \A tool \in ToolsSent(ts) : SameCall(Of(ts, tool))
              /\ \A tool \in ToolsSent(ts) : Arguments(Of(ts, tool)) \in JsonObjects
    OBVIOUS
  <2> HIDE DEF Regular
  <2> QED BY <1>1, <1>2, <2>1, <2>2 DEF WholeChoice, Assistant, Extras, CallsFit
<1>8. Unbroken(es) <=> /\ \A n \in DOMAIN es : Regular(es[n]) /\ (n < L => es[n].finish = "none")
                       /\ AllEqual(Extras(es)) /\ CallsFit(ts)
  BY <1>1, <1>2 DEF Unbroken
<1>9. Ended(es) <=> /\ Assistant(es) /\ FinishOf(es) # "none"
                    /\ \A tool \in ToolsSent(ts) : Arguments(Of(ts, tool)) \in JsonObjects
  BY <1>1 DEF Ended
<1> QED BY <1>5, <1>6, <1>7, <1>8, <1>9

(* As many choices as indexes: no two choices share one.                   *)
LEMMA DistinctIs ==
  ASSUME NEW c \in Chunks
  PROVE  Len(c.choices) = Cardinality(Assembler!Indexes(c)) <=> Distinct(c)
<1> DEFINE L == Len(c.choices)
           T == Assembler!Indexes(c)
           S == 1 .. L
           f == [i \in S |-> c.choices[i].index]
<1>1. L \in Nat /\ DOMAIN c.choices = S BY ChunkShape
<1>2. \A i \in S : f[i] = c.choices[i].index OBVIOUS
<1>3. T = {f[i] : i \in S} BY <1>1, <1>2 DEF Assembler!Indexes
<1>4. f \in [S -> T] BY <1>2, <1>3
<1>5. \A y \in T : \E i \in S : f[i] = y BY <1>3
<1>6. Distinct(c) <=> \A i, j \in S : f[i] = f[j] => i = j BY <1>1, <1>2 DEF Distinct
<1>7. IsFiniteSet(S) /\ Cardinality(S) = L
  <2>1. L - 1 + 1 = L /\ (1 > L <=> L = 0) /\ 1 \in Int /\ L \in Int BY <1>1
  <2> HIDE DEF L
  <2> QED BY <2>1, FS_Interval
<1> HIDE DEF f, T, S, L
<1>8. f \in Surjection(S, T) BY <1>4, <1>5 DEF Surjection
<1>9. Cardinality(T) = Cardinality(S) <=> f \in Injection(S, T) BY <1>7, <1>8, FS_Surjection
<1>10. f \in Injection(S, T) <=> \A i, j \in S : f[i] = f[j] => i = j
  BY <1>4 DEF Injection, IsInjective
<1>11. L = Cardinality(T) <=> Distinct(c) BY <1>6, <1>7, <1>9, <1>10
<1> QED BY <1>11 DEF L, T

LEMMA WholeIs ==
  ASSUME NEW d \in Seq(Chunks)
  PROVE  Whole(d) <=> /\ ChoicesSent(d) # {} /\ Fits(d)
                      /\ \A index \in ChoicesSent(d) : Ended(Entries(d, index))
<1>1. \A n \in DOMAIN d : d[n] \in Chunks OBVIOUS
<1>2. (\A n \in DOMAIN d : Len(d[n].choices) = Cardinality(Assembler!Indexes(d[n])))
        <=> \A n \in DOMAIN d : Distinct(d[n])
  BY <1>1, DistinctIs
<1>3. \A index \in ChoicesSent(d) :
        WholeChoice(Entries(d, index)) <=> Unbroken(Entries(d, index)) /\ Ended(Entries(d, index))
  <2> SUFFICES ASSUME NEW index
               PROVE  WholeChoice(Entries(d, index))
                        <=> Unbroken(Entries(d, index)) /\ Ended(Entries(d, index))
    OBVIOUS
  <2>1. PICK es : es = Entries(d, index) OBVIOUS
  <2>2. es \in Seq(Entry) BY <2>1, EntriesType
  <2> QED BY <2>1, <2>2, WholeChoiceIs
<1> HIDE DEF Ended, Distinct, WholeChoice
<1> QED BY <1>2, <1>3 DEF Whole, Fits, ChunkIds, Extras

(* A choice that is held is complete just when its entries end.            *)
LEMMA CompleteIs ==
  ASSUME NEW s, NEW es, HoldsChoice(s, es)
  PROVE  Assembler!Complete(s) <=> Ended(es)
<1>1. PICK ts : ts = ToolEntries(es) OBVIOUS
<1>2. DOMAIN s.tools = ToolsSent(ts) BY <1>1 DEF HoldsChoice, CallsOf
<1>3. \A tool \in ToolsSent(ts) : s.tools[tool].args = Arguments(Of(ts, tool))
  BY <1>1 DEF HoldsChoice, CallsOf, CallOf, CallState
<1> QED BY <1>1, <1>2, <1>3 DEF HoldsChoice, Assembler!Complete, Ended

(* And is the answer its entries give.                                     *)
LEMMA HeldIsSame ==
  ASSUME NEW s, NEW es, HoldsChoice(s, es), s.finish # "none"
  PROVE  SameAnswer(s, es)
<1>1. PICK ts : ts = ToolEntries(es) OBVIOUS
<1>2. DOMAIN s.tools = ToolsSent(ts) BY <1>1 DEF HoldsChoice, CallsOf
<1>3. \A tool \in ToolsSent(ts) : s.tools[tool].args = Arguments(Of(ts, tool))
  BY <1>1 DEF HoldsChoice, CallsOf, CallOf, CallState
<1>4. s.finish = Last(es).finish BY DEF HoldsChoice, FinishOf, Last
<1> QED BY <1>1, <1>2, <1>3, <1>4 DEF HoldsChoice, SameAnswer

(* What finish() takes for a response.                                     *)
Offered(a) ==
  /\ a.eligible /\ a.done /\ a.id # "none" /\ a.usage # NoUsage
  /\ DOMAIN a.choices # {}
  /\ \A index \in DOMAIN a.choices : Assembler!Complete(a.choices[index])

LEMMA FinishIs ==
  ASSUME NEW a, NEW r, r = Assembler!Finish(a)
  PROVE  /\ r # Assembler!NoResponse <=> Offered(a)
         /\ Offered(a) => r.id = a.id /\ r.usage = a.usage /\ r.choices = a.choices
<1>1. CASE Offered(a)
  <2>1. r.id = a.id /\ r.usage = a.usage /\ r.choices = a.choices
    BY <1>1 DEF Offered, Assembler!Finish
  <2>2. Assembler!NoResponse.id = "none" BY DEF Assembler!NoResponse
  <2> QED BY <1>1, <2>1, <2>2 DEF Offered
<1>2. CASE ~Offered(a)
  <2>1. r = Assembler!NoResponse BY <1>2 DEF Offered, Assembler!Finish
  <2> QED BY <1>2, <2>1
<1> QED BY <1>1, <1>2

(* The identity of chunks that an assembler holds.                         *)
LEMMA HeldIdentity ==
  ASSUME NEW a, NEW d \in Seq(Chunks), HoldsChunks(a, d)
  PROVE  /\ \A n \in DOMAIN d : d[n].id = a.id
         /\ a.usage # NoUsage => d # <<>> /\ a.usage = Last(d).usage /\ a.id # "none"
<1>1. \A n \in DOMAIN d : d[n].id # "none" /\ d[n].id \in ChunkIds(d)
  BY ChunkShape DEF ChunkIds
<1>2. \A n \in DOMAIN d : d[n].id = a.id /\ a.id # "none"
  BY <1>1 DEF HoldsChunks, Agreed
<1>3. ASSUME a.usage # NoUsage
      PROVE  d # <<>> /\ a.usage = Last(d).usage /\ a.id # "none"
  <2>1. a.usage = UsageOf(d) BY DEF HoldsChunks
  <2>2. d # <<>> BY <1>3, <2>1 DEF UsageOf
  <2>3. a.usage = Last(d).usage BY <2>1, <2>2 DEF UsageOf, Last
  <2>4. 1 \in DOMAIN d
    <3>1. Len(d) \in Nat /\ DOMAIN d = 1 .. Len(d) /\ Len(d) # 0 BY <2>2, EmptySeq
    <3> QED BY <3>1
  <2> QED BY <1>2, <2>2, <2>3, <2>4
<1> QED BY <1>2, <1>3

(* What is offered is whole, and what is whole is offered.                 *)
LEMMA OfferedIsWhole ==
  ASSUME NEW a, NEW d \in Seq(Chunks), a.eligible <=> Fits(d), a.eligible => HoldsChunks(a, d),
         a.eligible => a.done, UsageOf(d) # NoUsage
  PROVE  Offered(a) <=> Whole(d)
<1>1. Whole(d) <=> /\ ChoicesSent(d) # {} /\ Fits(d)
                   /\ \A index \in ChoicesSent(d) : Ended(Entries(d, index))
  BY WholeIs
<1>2. CASE a.eligible
  <2>1. HoldsChunks(a, d) BY <1>2
  <2>2. a.usage # NoUsage /\ a.id # "none" /\ DOMAIN a.choices = ChoicesSent(d)
    BY <2>1, HeldIdentity DEF HoldsChunks
  <2>3. \A index \in ChoicesSent(d) :
          Assembler!Complete(a.choices[index]) <=> Ended(Entries(d, index))
    <3> SUFFICES ASSUME NEW index \in ChoicesSent(d)
                 PROVE  Assembler!Complete(a.choices[index]) <=> Ended(Entries(d, index))
      OBVIOUS
    <3>1. PICK s, es : s = a.choices[index] /\ es = Entries(d, index) OBVIOUS
    <3>2. HoldsChoice(s, es) BY <2>1, <3>1 DEF HoldsChunks
    <3> QED BY <3>1, <3>2, CompleteIs
  <2> QED BY <1>1, <1>2, <2>2, <2>3 DEF Offered
<1>3. CASE ~a.eligible BY <1>1, <1>3 DEF Offered
<1> QED BY <1>2, <1>3

LEMMA OfferedIsStreamed ==
  ASSUME NEW a, NEW d \in Seq(Chunks), HoldsChunks(a, d), Offered(a)
  PROVE  \A index \in ChoicesSent(d) : SameAnswer(a.choices[index], Entries(d, index))
<1> SUFFICES ASSUME NEW index \in ChoicesSent(d)
             PROVE  SameAnswer(a.choices[index], Entries(d, index))
  OBVIOUS
<1>1. PICK s, es : s = a.choices[index] /\ es = Entries(d, index) OBVIOUS
<1>2. HoldsChoice(s, es) BY <1>1 DEF HoldsChunks
<1>3. s.finish # "none" BY <1>1 DEF HoldsChunks, Offered, Assembler!Complete
<1> QED BY <1>1, <1>2, <1>3, HeldIsSame

(* Whatever an upstream sends and however it cuts its answer into chunks:  *)
(* a response that finish() hands to the cache has the choices, text,      *)
(* reasoning, tool arguments, finish reasons, identity and usage that a    *)
(* client adds up from the chunks streamFrames forwarded to it.            *)
THEOREM CachedIsStreamed == Spec => []CachedIsWhatWasStreamed
<1>1. AssemblyInv => CachedIsWhatWasStreamed
  <2> SUFFICES ASSUME AssemblyInv, cached # Assembler!NoResponse
               PROVE  CachedIsWhatWasStreamed
    BY DEF CachedIsWhatWasStreamed
  <2>1. PICK a, d, r : a = assembler /\ d = Transcript /\ r = cached OBVIOUS
  <2>2. d \in Seq(Chunks) /\ r = Assembler!Finish(a) /\ (a.eligible => HoldsChunks(a, d))
    BY <2>1 DEF AssemblyInv
  <2>3. Offered(a) /\ r.id = a.id /\ r.usage = a.usage /\ r.choices = a.choices
    BY <2>1, <2>2, FinishIs
  <2>4. HoldsChunks(a, d) /\ a.usage # NoUsage BY <2>2, <2>3 DEF Offered
  <2>5. DOMAIN r.choices = ChoicesSent(d) BY <2>3, <2>4 DEF HoldsChunks
  <2>6. (\A n \in DOMAIN d : d[n].id = r.id) /\ r.usage = Last(d).usage
    BY <2>2, <2>3, <2>4, HeldIdentity
  <2>7. \A index \in ChoicesSent(d) : SameAnswer(r.choices[index], Entries(d, index))
    BY <2>2, <2>3, <2>4, OfferedIsStreamed
  <2> QED BY <2>1, <2>5, <2>6, <2>7, Zenon DEF CachedIsWhatWasStreamed
<1> QED BY <1>1, AssemblyInvariant, PTL

(* Exactly the whole answers of streams that ended ok are handed to the    *)
(* cache: an unfinished, ambiguous, ill-formed or abandoned one never is,  *)
(* and no answer is lost to the way it was cut into chunks.                *)
THEOREM WholeIsCached == Spec => []WholeAnswersAreCached
<1>1. AdapterInv /\ AssemblyInv => WholeAnswersAreCached
  <2> SUFFICES ASSUME AdapterInv, AssemblyInv
               PROVE  WholeAnswersAreCached
    OBVIOUS
  <2>1. CASE outcome = "ok"
    <3>1. PICK a, d, r : a = assembler /\ d = Transcript /\ r = cached OBVIOUS
    <3>2. /\ d \in Seq(Chunks) /\ r = Assembler!Finish(a) /\ phase = "done"
          /\ a.eligible <=> Fits(d)
          /\ a.eligible => HoldsChunks(a, d) /\ a.done
      BY <2>1, <3>1 DEF AssemblyInv
    <3>3. UsageOf(d) # NoUsage BY <3>1, <3>2 DEF AdapterInv, AssemblyInv
    <3>4. Offered(a) <=> Whole(d) BY <3>2, <3>3, OfferedIsWhole
    <3>5. r # Assembler!NoResponse <=> Offered(a) BY <3>2, FinishIs
    <3> QED BY <2>1, <3>1, <3>4, <3>5 DEF WholeAnswersAreCached
  <2>2. CASE outcome # "ok"
    BY <2>2 DEF AssemblyInv, WholeAnswersAreCached
  <2> QED BY <2>1, <2>2
<1> QED BY <1>1, AdapterInvariant, AssemblyInvariant, PTL

-----------------------------------------------------------------------------
(* Texts by positions: what one element more does to what lies between     *)
(* cuts.                                                                   *)

LastCut(cuts, n) == Max({0} \cup {m \in cuts : m < n})

LEMMA LastCutIs ==
  ASSUME NEW n \in Nat, NEW cuts, cuts \subseteq Nat
  PROVE  /\ LastCut(cuts, n) \in {0} \cup {m \in cuts : m < n}
         /\ \A y \in {0} \cup {m \in cuts : m < n} : LastCut(cuts, n) >= y
<1> DEFINE S == {0} \cup {m \in cuts : m < n}
           T == {m \in Nat : n - m \in S}
<1>1. S \subseteq 0 .. n
  <2>1. \A m \in cuts : m < n => m \in 0 .. n OBVIOUS
  <2>2. 0 \in 0 .. n OBVIOUS
  <2>3. \A y \in S : y \in 0 .. n BY <2>1, <2>2
  <2> HIDE DEF S
  <2> QED BY <2>3
<1>2. 0 \in S OBVIOUS
<1> HIDE DEF S
<1>3. T \subseteq Nat /\ n \in T BY <1>2
<1>4. PICK m \in T : \A k \in T : m <= k
  <2> HIDE DEF T
  <2> QED BY <1>3, LeastNumber
<1>5. ASSUME NEW y \in S PROVE n - m >= y
  <2>1. y \in 0 .. n BY <1>1
  <2>2. n - y \in Nat /\ n - (n - y) = y BY <2>1
  <2>3. n - y \in T BY <2>2
  <2>4. m <= n - y BY <1>4, <2>3
  <2> QED BY <1>4, <2>1, <2>4
<1>6. n - m \in S BY <1>4
<1>7. Max(S) \in S /\ \A y \in S : Max(S) >= y BY <1>5, <1>6 DEF Max
<1> QED BY <1>7 DEF LastCut, S

LEMMA SinceIs == ASSUME NEW s, NEW cuts, NEW n
                 PROVE  Since(s, cuts, n) = SubSeq(s, 1 + LastCut(cuts, n), n - 1)
BY DEF Since, LastCut

(* The cuts of a sequence that is one longer: those before, and perhaps    *)
(* the new last position.                                                  *)
CutsMore(cuts, more, n) == /\ cuts \subseteq 1 .. n /\ more \subseteq 1 .. n + 1
                           /\ \A m \in 1 .. n : m \in more <=> m \in cuts

LEMMA LastCutMore ==
  ASSUME NEW len \in Nat, NEW cuts, NEW more, CutsMore(cuts, more, len)
  PROVE  /\ \A n \in 1 .. len + 1 :
              LastCut(more, n) = LastCut(cuts, n) /\ LastCut(cuts, n) \in 0 .. n - 1
         /\ len + 1 \in more => LastCut(more, len + 2) = len + 1
         /\ len + 1 \notin more => LastCut(more, len + 2) = LastCut(cuts, len + 1)
<1>1. cuts \subseteq Nat /\ more \subseteq Nat BY DEF CutsMore
<1>2. ASSUME NEW n \in 1 .. len + 1
      PROVE  LastCut(more, n) = LastCut(cuts, n) /\ LastCut(cuts, n) \in 0 .. n - 1
  <2>1. {m \in cuts : m < n} = {m \in more : m < n}
    <3>1. \A m \in cuts : m \in more BY DEF CutsMore
    <3>2. \A m \in more : m < n => m \in cuts
      <4>1. \A m \in more : m < n => m \in 1 .. len BY DEF CutsMore
      <4> QED BY <4>1 DEF CutsMore
    <3> QED BY <3>1, <3>2
  <2>2. n \in Nat OBVIOUS
  <2>3. LastCut(cuts, n) \in {0} \cup {m \in cuts : m < n} BY <1>1, <2>2, LastCutIs
  <2>4. LastCut(cuts, n) \in 0 .. n - 1
    <3>1. 0 \in 0 .. n - 1 BY <1>2
    <3>2. \A m \in cuts : m < n => m \in 0 .. n - 1 BY <1>1, <2>2
    <3> QED BY <2>3, <3>1, <3>2
  <2> QED BY <2>1, <2>4 DEF LastCut
<1>3. ASSUME len + 1 \in more
      PROVE  LastCut(more, len + 2) = len + 1
  <2>1. len + 2 \in Nat OBVIOUS
  <2>2. PICK c : c = LastCut(more, len + 2) OBVIOUS
  <2>3. /\ c \in {0} \cup {m \in more : m < len + 2}
        /\ \A y \in {0} \cup {m \in more : m < len + 2} : c >= y
    BY <1>1, <2>1, <2>2, LastCutIs
  <2>4. len + 1 \in {0} \cup {m \in more : m < len + 2} BY <1>3
  <2>5. c >= len + 1 BY <2>3, <2>4
  <2>6. c \in Nat /\ c < len + 2 BY <1>1, <2>3
  <2> QED BY <2>2, <2>5, <2>6
<1>4. ASSUME len + 1 \notin more
      PROVE  LastCut(more, len + 2) = LastCut(cuts, len + 1)
  <2>1. \A m \in more : m < len + 2 <=> m < len + 1
    <3>1. \A m \in more : m \in Nat /\ m # len + 1 BY <1>1, <1>4
    <3>2. \A m \in Nat : m # len + 1 => (m < len + 2 <=> m < len + 1) OBVIOUS
    <3> QED BY <3>1, <3>2
  <2>2. LastCut(more, len + 2) = LastCut(more, len + 1) BY <2>1 DEF LastCut
  <2>3. len + 1 \in 1 .. len + 1 OBVIOUS
  <2> QED BY <1>2, <2>2, <2>3
<1> QED BY <1>2, <1>3, <1>4

LEMMA SubSeqMore ==
  ASSUME NEW X, NEW s \in Seq(X), NEW x \in X, NEW i \in 1 .. Len(s) + 1
  PROVE  /\ \A j \in 0 .. Len(s) :
              SubSeq(Append(s, x), i, j) = SubSeq(s, i, j) /\ SubSeq(s, i, j) \in Seq(X)
         /\ SubSeq(Append(s, x), i, Len(s) + 1) = Append(SubSeq(s, i, Len(s)), x)
<1> DEFINE q == Append(s, x)
           N == Len(s)
<1>1. /\ N \in Nat /\ q \in Seq(X) /\ Len(q) = N + 1 /\ q[N + 1] = x
      /\ \A k \in 1 .. N : q[k] = s[k] /\ s[k] \in X
  BY AppendProperties
<1> HIDE DEF q, N
<1>2. i \in Nat /\ i >= 1 BY <1>1 DEF N
<1>3. ASSUME NEW j \in 0 .. N
      PROVE  SubSeq(q, i, j) = SubSeq(s, i, j) /\ SubSeq(s, i, j) \in Seq(X)
  <2>1. PICK a : a = SubSeq(q, i, j) OBVIOUS
  <2>2. PICK b : b = SubSeq(s, i, j) OBVIOUS
  <2>3. i \in Int /\ j \in Int /\ \A k \in i .. j : k \in 1 .. N BY <1>1, <1>2
  <2>4. \A k \in i .. j : s[k] \in X /\ q[k] \in X /\ q[k] = s[k] BY <1>1, <2>3
  <2>5. /\ a \in Seq(X) /\ Len(a) = IF i <= j THEN j - i + 1 ELSE 0
        /\ \A k \in 1 .. j - i + 1 : a[k] = q[i + k - 1]
    BY <2>1, <2>3, <2>4, SubSeqProperties
  <2>6. /\ b \in Seq(X) /\ Len(b) = IF i <= j THEN j - i + 1 ELSE 0
        /\ \A k \in 1 .. j - i + 1 : b[k] = s[i + k - 1]
    BY <2>2, <2>3, <2>4, SubSeqProperties
  <2>7. \A k \in 1 .. Len(a) : k \in 1 .. j - i + 1 /\ i + k - 1 \in i .. j BY <2>3, <2>5
  <2>8. \A k \in 1 .. Len(a) : a[k] = b[k] BY <2>4, <2>5, <2>6, <2>7
  <2>9. a = b BY <2>5, <2>6, <2>8, SeqEqual
  <2> QED BY <2>1, <2>2, <2>6, <2>9
<1>4. SubSeq(q, i, N + 1) = Append(SubSeq(s, i, N), x)
  <2>1. i \in 1 .. Len(q) /\ N + 1 \in i .. Len(q) BY <1>1, <1>2 DEF N
  <2>2. SubSeq(q, i, N + 1) = SubSeq(q, i, (N + 1) - 1) \o <<q[N + 1]>>
    BY <1>1, <2>1, SubSeqRecursiveSecond
  <2>3. (N + 1) - 1 = N /\ N \in 0 .. N BY <1>1
  <2>4. PICK b : b = SubSeq(s, i, N) OBVIOUS
  <2>5. b \in Seq(X) /\ SubSeq(q, i, (N + 1) - 1) = b BY <1>3, <2>3, <2>4
  <2>6. Append(b, x) = b \o <<x>> BY <2>5, AppendIsConcat
  <2> QED BY <1>1, <2>2, <2>4, <2>5, <2>6
<1> QED BY <1>3, <1>4 DEF q, N

(* What lies after the last cut, and the parts that are complete.          *)
LEMMA SinceMore ==
  ASSUME NEW X, NEW s \in Seq(X), NEW x \in X, NEW cuts, NEW more, CutsMore(cuts, more, Len(s))
  PROVE  /\ \A n \in 1 .. Len(s) + 1 : /\ Since(Append(s, x), more, n) = Since(s, cuts, n)
                                       /\ Since(s, cuts, n) \in Seq(X)
         /\ Len(s) + 1 \in more => Since(Append(s, x), more, Len(s) + 2) = <<>>
         /\ Len(s) + 1 \notin more
              => Since(Append(s, x), more, Len(s) + 2) = Append(Since(s, cuts, Len(s) + 1), x)
<1> DEFINE N == Len(s)
           q == Append(s, x)
<1>1. N \in Nat OBVIOUS
<1>2. ASSUME NEW i \in 1 .. N + 1
      PROVE  /\ \A j \in 0 .. N : SubSeq(q, i, j) = SubSeq(s, i, j) /\ SubSeq(s, i, j) \in Seq(X)
             /\ SubSeq(q, i, N + 1) = Append(SubSeq(s, i, N), x)
  BY SubSeqMore
<1>3. CutsMore(cuts, more, N) OBVIOUS
<1> HIDE DEF N, q
<1>4. /\ \A n \in 1 .. N + 1 :
           LastCut(more, n) = LastCut(cuts, n) /\ LastCut(cuts, n) \in 0 .. n - 1
      /\ N + 1 \in more => LastCut(more, N + 2) = N + 1
      /\ N + 1 \notin more => LastCut(more, N + 2) = LastCut(cuts, N + 1)
  BY <1>1, <1>3, LastCutMore
<1>5. ASSUME NEW n \in 1 .. N + 1
      PROVE  Since(q, more, n) = Since(s, cuts, n) /\ Since(s, cuts, n) \in Seq(X)
  <2>1. PICK c : c = LastCut(cuts, n) /\ c = LastCut(more, n) /\ c \in 0 .. n - 1 BY <1>4
  <2>2. 1 + c \in 1 .. N + 1 /\ n - 1 \in 0 .. N BY <1>1, <2>1
  <2>3. SubSeq(q, 1 + c, n - 1) = SubSeq(s, 1 + c, n - 1) /\ SubSeq(s, 1 + c, n - 1) \in Seq(X)
    BY <1>2, <2>2
  <2> QED BY <2>1, <2>3, SinceIs
<1>6. ASSUME N + 1 \in more PROVE Since(q, more, N + 2) = <<>>
  <2>1. Since(q, more, N + 2) = SubSeq(q, 1 + (N + 1), (N + 2) - 1) BY <1>4, <1>6, SinceIs
  <2>2. 1 + (N + 1) \in Int /\ (N + 2) - 1 \in Int /\ (N + 2) - 1 < 1 + (N + 1) BY <1>1
  <2> QED BY <2>1, <2>2, SubSeqEmpty
<1>7. ASSUME N + 1 \notin more PROVE Since(q, more, N + 2) = Append(Since(s, cuts, N + 1), x)
  <2>1. N + 1 \in 1 .. N + 1 BY <1>1
  <2>2. PICK c : c = LastCut(cuts, N + 1) /\ c \in 0 .. (N + 1) - 1 BY <1>4, <2>1
  <2>3. 1 + c \in 1 .. N + 1 /\ (N + 2) - 1 = N + 1 /\ (N + 1) - 1 = N BY <1>1, <2>2
  <2>4. Since(q, more, N + 2) = SubSeq(q, 1 + c, N + 1) BY <1>4, <1>7, <2>2, <2>3, SinceIs
  <2>5. Since(s, cuts, N + 1) = SubSeq(s, 1 + c, N) BY <2>2, <2>3, SinceIs
  <2> QED BY <1>2, <2>3, <2>4, <2>5
<1> QED BY <1>5, <1>6, <1>7 DEF N, q

PartAt(s, cuts, ends, n) == IF n \in ends THEN <<Since(s, cuts, n)>> ELSE <<>>
PartsOf(s, cuts, ends) == [n \in DOMAIN s |-> PartAt(s, cuts, ends, n)]

LEMMA PartsType ==
  ASSUME NEW X, NEW s \in Seq(X), NEW cuts, NEW ends,
         \A n \in DOMAIN s : Since(s, cuts, n) \in Seq(X)
  PROVE  /\ PartsOf(s, cuts, ends) \in Seq(Seq(Seq(X)))
         /\ Len(PartsOf(s, cuts, ends)) = Len(s)
         /\ Parts(s, cuts, ends) = FlattenSeq(PartsOf(s, cuts, ends))
         /\ Parts(s, cuts, ends) \in Seq(Seq(X))
<1>1. ASSUME NEW n \in DOMAIN s PROVE PartAt(s, cuts, ends, n) \in Seq(Seq(X))
  <2>1. PICK p \in Seq(X) : p = Since(s, cuts, n) OBVIOUS
  <2>2. <<p>> \in Seq(Seq(X)) /\ <<>> \in Seq(Seq(X)) OBVIOUS
  <2> QED BY <2>1, <2>2 DEF PartAt
<1>2. Len(s) \in Nat /\ DOMAIN s = 1 .. Len(s) OBVIOUS
<1> DEFINE f == PartsOf(s, cuts, ends)
<1>3. f \in [1 .. Len(s) -> Seq(Seq(X))] BY <1>1, <1>2 DEF PartsOf
<1> HIDE DEF f
<1>4. f \in Seq(Seq(Seq(X))) BY <1>2, <1>3, FunctionIsSeq
<1>5. Len(f) = Len(s)
  <2>1. DOMAIN f = 1 .. Len(s) BY <1>3
  <2> QED BY <1>2, <1>4, <2>1, LenProperties
<1>6. Parts(s, cuts, ends) = FlattenSeq(f) BY Zenon DEF Parts, f, PartsOf, PartAt
<1>7. FlattenSeq(f) \in Seq(Seq(X)) BY <1>4, FlattenType
<1> QED BY <1>4, <1>5, <1>6, <1>7 DEF f

LEMMA PartsMore ==
  ASSUME NEW X, NEW s \in Seq(X), NEW x \in X, NEW cuts, NEW more, CutsMore(cuts, more, Len(s)),
         NEW ends, NEW last, CutsMore(ends, last, Len(s))
  PROVE  /\ Parts(s, cuts, ends) \in Seq(Seq(X))
         /\ Len(s) + 1 \in last
              => Parts(Append(s, x), more, last)
                   = Append(Parts(s, cuts, ends), Since(s, cuts, Len(s) + 1))
         /\ Len(s) + 1 \notin last => Parts(Append(s, x), more, last) = Parts(s, cuts, ends)
<1> DEFINE N == Len(s)
           q == Append(s, x)
           f == PartsOf(s, cuts, ends)
           g == PartsOf(q, more, last)
           e == PartAt(q, more, last, N + 1)
<1>1. N \in Nat /\ DOMAIN s = 1 .. N /\ q \in Seq(X) /\ DOMAIN q = 1 .. N + 1 BY AppendProperties
<1>2. /\ \A n \in 1 .. N + 1 : Since(q, more, n) = Since(s, cuts, n)
      /\ \A n \in 1 .. N + 1 : Since(s, cuts, n) \in Seq(X)
  BY SinceMore
<1>3. CutsMore(ends, last, N) OBVIOUS
<1> HIDE DEF N, q
<1>4. 1 .. N \subseteq 1 .. N + 1 /\ N + 1 \in 1 .. N + 1 BY <1>1
<1>5. /\ f \in Seq(Seq(Seq(X))) /\ Len(f) = N
      /\ Parts(s, cuts, ends) = FlattenSeq(f) /\ Parts(s, cuts, ends) \in Seq(Seq(X))
  <2>1. \A n \in DOMAIN s : Since(s, cuts, n) \in Seq(X) BY <1>1, <1>2, <1>4
  <2> QED BY <2>1, PartsType DEF N
<1>6. Parts(q, more, last) = FlattenSeq(g)
  <2>1. \A n \in DOMAIN q : Since(q, more, n) \in Seq(X) BY <1>1, <1>2
  <2> QED BY <1>1, <2>1, PartsType
<1>7. e \in Seq(Seq(X))
  <2>1. PICK p \in Seq(X) : p = Since(q, more, N + 1) BY <1>2, <1>4
  <2>2. <<p>> \in Seq(Seq(X)) /\ <<>> \in Seq(Seq(X)) OBVIOUS
  <2> QED BY <2>1, <2>2 DEF PartAt
<1>8. OneMore(g, f, e)
  <2>1. DOMAIN g = 1 .. Len(f) + 1 /\ DOMAIN f = 1 .. N BY <1>1, <1>5 DEF PartsOf
  <2>2. g = [n \in DOMAIN g |-> g[n]] BY DEF PartsOf
  <2>3. g[Len(f) + 1] = e BY <1>1, <1>4, <1>5 DEF PartsOf
  <2>4. ASSUME NEW n \in DOMAIN f PROVE g[n] = f[n]
    <3>1. n \in 1 .. N /\ n \in DOMAIN s /\ n \in DOMAIN q BY <1>1, <1>4, <2>1
    <3>2. g[n] = PartAt(q, more, last, n) /\ f[n] = PartAt(s, cuts, ends, n) BY <3>1 DEF PartsOf
    <3>3. n \in last <=> n \in ends BY <1>3, <3>1 DEF CutsMore
    <3>4. Since(q, more, n) = Since(s, cuts, n) BY <1>2, <1>4, <3>1
    <3> QED BY <3>2, <3>3, <3>4 DEF PartAt
  <2> QED BY <2>1, <2>2, <2>3, <2>4 DEF OneMore
<1> HIDE DEF f, g, e
<1>9. FlattenSeq(g) = FlattenSeq(f) \o e BY <1>5, <1>7, <1>8, FlattenMore
<1>10. PICK done \in Seq(Seq(X)) : done = Parts(s, cuts, ends) BY <1>5
<1>11. ASSUME N + 1 \in last PROVE Parts(q, more, last) = Append(done, Since(s, cuts, N + 1))
  <2>1. PICK p \in Seq(X) : p = Since(s, cuts, N + 1) BY <1>2, <1>4
  <2>2. e = <<p>> BY <1>2, <1>4, <1>11, <2>1 DEF e, PartAt
  <2>3. Append(done, p) = done \o <<p>> BY AppendIsConcat
  <2> QED BY <1>5, <1>6, <1>9, <1>10, <2>1, <2>2, <2>3
<1>12. ASSUME N + 1 \notin last PROVE Parts(q, more, last) = done
  <2>1. e = <<>> BY <1>12 DEF e, PartAt
  <2>2. done \o <<>> = done BY ConcatEmptySeq
  <2> QED BY <1>5, <1>6, <1>9, <1>10, <2>1, <2>2
<1> QED BY <1>5, <1>10, <1>11, <1>12 DEF N, q

(* Nothing has no parts.                                                   *)
LEMMA NothingApart ==
  ASSUME NEW cuts, cuts \subseteq Nat, NEW ends
  PROVE  Parts(<<>>, cuts, ends) = <<>> /\ Since(<<>>, cuts, 1) = <<>>
<1>1. PICK X : X = {} OBVIOUS
<1>2. PICK none \in Seq(X) : none = <<>>
  <2>1. <<>> \in Seq(X) OBVIOUS
  <2> QED BY <2>1
<1>3. DOMAIN none = {} /\ Len(none) = 0 BY <1>2
<1>4. \A n \in DOMAIN none : Since(none, cuts, n) \in Seq(X) BY <1>3
<1>5. PICK f : f = PartsOf(none, cuts, ends) OBVIOUS
<1>6. Len(f) = Len(none) /\ Parts(none, cuts, ends) = FlattenSeq(f) BY <1>4, <1>5, PartsType
<1>7. f = <<>>
  <2>1. f \in Seq(Seq(Seq(X))) BY <1>4, <1>5, PartsType
  <2> QED BY <1>3, <1>6, <2>1, EmptySeq
<1>8. Parts(<<>>, cuts, ends) = <<>> BY <1>2, <1>6, <1>7, FlattenNothing
<1>9. Since(<<>>, cuts, 1) = <<>>
  <2>1. 1 \in Nat OBVIOUS
  <2>2. PICK c : c = LastCut(cuts, 1) /\ c \in Nat BY <2>1, LastCutIs
  <2>3. Since(<<>>, cuts, 1) = SubSeq(<<>>, 1 + c, 1 - 1) BY <2>2, SinceIs
  <2>4. 1 + c \in Int /\ 1 - 1 \in Int /\ 1 - 1 < 1 + c BY <2>2
  <2> QED BY <2>3, <2>4, SubSeqEmpty
<1> QED BY <1>8, <1>9

-----------------------------------------------------------------------------
(* The lines of a text.                                                    *)

(* What the last terminator of a text leaves, and whether a LF that comes  *)
(* next is half of a CRLF.                                                 *)
Rest(t) == Since(t, Terminators(t), Len(t) + 1)
AfterCR(t) == t # <<>> /\ Last(t) = CR

LEMMA TerminatorsMore ==
  ASSUME NEW s \in Seq(Pieces), NEW x \in Pieces, NEW t, t = Append(s, x)
  PROVE  /\ CutsMore(Terminators(s), Terminators(t), Len(s))
         /\ CutsMore(Ends(s), Ends(t), Len(s))
         /\ Len(s) + 1 \in Terminators(t) <=> x \in {CR, LF}
         /\ Len(s) + 1 \in Ends(t) <=> x \in {CR, LF} /\ ~(x = LF /\ AfterCR(s))
         /\ AfterCR(t) <=> x = CR
<1>1. /\ Len(s) \in Nat /\ DOMAIN s = 1 .. Len(s) /\ t \in Seq(Pieces) /\ Len(t) = Len(s) + 1
      /\ DOMAIN t = 1 .. Len(s) + 1 /\ t[Len(s) + 1] = x /\ \A n \in 1 .. Len(s) : t[n] = s[n]
  BY AppendProperties
<1> DEFINE N == Len(s)
<1>2. N \in Nat /\ N + 1 \in 1 .. N + 1 /\ \A n \in 1 .. N : n \in 1 .. N + 1 /\ n # N + 1
  BY <1>1
<1>3. AfterCR(t) <=> x = CR
  <2>1. t # <<>> /\ Last(t) = x BY <1>1 DEF Last
  <2> QED BY <2>1 DEF AfterCR
<1>4. AfterCR(s) <=> N >= 1 /\ s[N] = CR
  <2>1. s # <<>> <=> N >= 1 BY <1>1
  <2> QED BY <2>1 DEF AfterCR, Last
<1> HIDE DEF N
<1>5. DOMAIN s = 1 .. N /\ DOMAIN t = 1 .. N + 1 /\ t[N + 1] = x /\ \A n \in 1 .. N : t[n] = s[n]
  BY <1>1 DEF N
<1>6. /\ \A n \in 1 .. N : n \in Terminators(t) <=> n \in Terminators(s)
      /\ N + 1 \in Terminators(t) <=> x \in {CR, LF}
  BY <1>2, <1>5 DEF Terminators
<1>7. Terminators(s) \subseteq 1 .. N /\ Terminators(t) \subseteq 1 .. N + 1
  BY <1>5 DEF Terminators
<1>8. ASSUME NEW n \in 1 .. N PROVE n \in Ends(t) <=> n \in Ends(s)
  <2>1. t[n] = s[n] BY <1>5
  <2>2. n > 1 => n - 1 \in 1 .. N /\ t[n - 1] = s[n - 1]
    <3>1. n > 1 => n - 1 \in 1 .. N BY <1>2
    <3> QED BY <1>5, <3>1
  <2> QED BY <1>6, <2>1, <2>2 DEF Ends
<1>9. N + 1 \in Ends(t) <=> x \in {CR, LF} /\ ~(x = LF /\ AfterCR(s))
  <2>1. N + 1 > 1 <=> N >= 1 BY <1>2
  <2>2. N >= 1 => (N + 1) - 1 = N /\ N \in 1 .. N /\ t[(N + 1) - 1] = s[N] BY <1>2, <1>5
  <2>3. N + 1 \in Ends(t) <=> x \in {CR, LF} /\ ~(x = LF /\ N + 1 > 1 /\ t[(N + 1) - 1] = CR)
    BY <1>5, <1>6 DEF Ends
  <2> QED BY <1>4, <2>1, <2>2, <2>3
<1>10. Ends(s) \subseteq 1 .. N /\ Ends(t) \subseteq 1 .. N + 1 BY <1>7 DEF Ends
<1> QED BY <1>3, <1>6, <1>7, <1>8, <1>9, <1>10 DEF CutsMore, N

(* What one piece more does to the lines.                                  *)
GrowsBy(s, x, t) ==
  /\ x \in LinePieces => Lines(t) = Lines(s) /\ Rest(t) = Append(Rest(s), x)
  /\ x \in {CR, LF} => Rest(t) = <<>>
  /\ x \in {CR, LF} /\ ~(x = LF /\ AfterCR(s)) => Lines(t) = Append(Lines(s), Rest(s))
  /\ x = LF /\ AfterCR(s) => Lines(t) = Lines(s)
  /\ AfterCR(t) <=> x = CR

LEMMA OnePieceMore ==
  ASSUME NEW s \in Seq(Pieces), NEW x \in Pieces, NEW t, t = Append(s, x)
  PROVE  GrowsBy(s, x, t)
<1> DEFINE N == Len(s)
           C == Terminators(s)
           D == Terminators(t)
           E == Ends(s)
           F == Ends(t)
<1>1. N \in Nat /\ Len(t) + 1 = N + 2 /\ N + 1 \in 1 .. N + 1
  <2>1. Len(t) = N + 1 BY AppendProperties
  <2> QED BY <2>1
<1>2. /\ CutsMore(C, D, N) /\ CutsMore(E, F, N)
      /\ N + 1 \in D <=> x \in {CR, LF}
      /\ N + 1 \in F <=> x \in {CR, LF} /\ ~(x = LF /\ AfterCR(s))
      /\ AfterCR(t) <=> x = CR
  BY TerminatorsMore
<1>3. x \in LinePieces => x \notin {CR, LF} BY SseConstants DEF LinePieces
<1>4. Lines(s) = Parts(s, C, E) /\ Rest(s) = Since(s, C, N + 1) /\ Lines(t) = Parts(t, D, F)
  BY DEF Lines, Rest
<1>5. Rest(t) = Since(t, D, N + 2) BY <1>1 DEF Rest
<1> HIDE DEF C, D, E, F
<1>6. /\ Since(s, C, N + 1) \in Seq(Pieces)
      /\ N + 1 \in D => Since(t, D, N + 2) = <<>>
      /\ N + 1 \notin D => Since(t, D, N + 2) = Append(Since(s, C, N + 1), x)
  BY <1>1, <1>2, SinceMore
<1>7. /\ Parts(s, C, E) \in Seq(Seq(Pieces))
      /\ N + 1 \in F => Parts(t, D, F) = Append(Parts(s, C, E), Since(s, C, N + 1))
      /\ N + 1 \notin F => Parts(t, D, F) = Parts(s, C, E)
  BY <1>2, PartsMore
<1> HIDE DEF N
<1> QED BY <1>2, <1>3, <1>4, <1>5, <1>6, <1>7 DEF GrowsBy

LEMMA NoPieces == Lines(<<>>) = <<>> /\ Rest(<<>>) = <<>> /\ ~AfterCR(<<>>)
<1>1. Terminators(<<>>) = {} /\ Len(<<>>) + 1 = 1 BY DEF Terminators
<1>2. Terminators(<<>>) \subseteq Nat BY <1>1
<1> QED BY <1>1, <1>2, NothingApart DEF Lines, Rest, AfterCR

(* takeLines reads the lines of its text.                                  *)
Scanned(lines, line, afterCR) == [lines |-> lines, line |-> line, afterCR |-> afterCR]

Marked(acc, last) == [acc EXCEPT !.afterCR = last]
Extended(acc, more, last) == [acc EXCEPT !.line = more, !.afterCR = last]

LEMMA ScannedExcept ==
  ASSUME NEW lines, NEW line, NEW afterCR, NEW more, NEW last
  PROVE  /\ Marked(Scanned(lines, line, afterCR), last) = Scanned(lines, line, last)
         /\ Extended(Scanned(lines, line, afterCR), more, last) = Scanned(lines, more, last)
<1>1. PICK acc : acc = Scanned(lines, line, afterCR) OBVIOUS
<1>2. acc \in [lines : {lines}, line : {line, more}, afterCR : {afterCR, last}]
  BY <1>1 DEF Scanned
<1>3. acc.lines = lines /\ acc.line = line /\ acc.afterCR = afterCR BY <1>1 DEF Scanned
<1>4. [acc EXCEPT !.afterCR = last] = Scanned(lines, line, last) BY <1>2, <1>3 DEF Scanned
<1>5. [acc EXCEPT !.line = more, !.afterCR = last]
        = [[acc EXCEPT !.line = more] EXCEPT !.afterCR = last]
  OBVIOUS
<1>6. PICK mid : mid = [acc EXCEPT !.line = more] OBVIOUS
<1>7. mid = Scanned(lines, more, afterCR) BY <1>2, <1>3, <1>6 DEF Scanned
<1>8. mid \in [lines : {lines}, line : {more}, afterCR : {afterCR, last}] /\ mid.lines = lines
      /\ mid.line = more
  BY <1>7 DEF Scanned
<1>9. [mid EXCEPT !.afterCR = last] = Scanned(lines, more, last) BY <1>8 DEF Scanned
<1> QED BY <1>1, <1>4, <1>5, <1>6, <1>9 DEF Marked, Extended

LEMMA PieceTaken ==
  ASSUME NEW lines, NEW line, NEW afterCR \in BOOLEAN, NEW x \in Pieces,
         NEW now \in BOOLEAN, now <=> x = CR, NEW next,
         next = TakePiece(Scanned(lines, line, afterCR), x)
  PROVE  /\ x \in LinePieces => next = Scanned(lines, Append(line, x), now)
         /\ x \in {CR, LF} /\ ~(x = LF /\ afterCR) => next = Scanned(Append(lines, line), <<>>, now)
         /\ x = LF /\ afterCR => next = Scanned(lines, line, now)
<1>1. PICK acc : acc = Scanned(lines, line, afterCR) OBVIOUS
<1>2. acc.lines = lines /\ acc.line = line /\ acc.afterCR = afterCR BY <1>1 DEF Scanned
<1>3. CR # LF /\ (x \in LinePieces => x # CR /\ x # LF) BY SseConstants DEF LinePieces
<1>4. ASSUME x \in LinePieces PROVE next = Scanned(lines, Append(line, x), now)
  <2>1. next = ExtendLine(acc, x) BY <1>1, <1>3, <1>4, Zenon DEF TakePiece
  <2>2. now = FALSE BY <1>3, <1>4
  <2>3. ExtendLine(acc, x) = Extended(acc, Append(line, x), now)
    BY <1>2, <2>2, Zenon DEF ExtendLine, Extended
  <2> QED BY <1>1, <2>1, <2>3, ScannedExcept
<1>5. ASSUME x \in {CR, LF}, ~(x = LF /\ afterCR)
      PROVE  next = Scanned(Append(lines, line), <<>>, now)
  <2>1. (x = CR \/ (x = LF /\ ~acc.afterCR)) /\ ~(x = LF /\ acc.afterCR) BY <1>2, <1>5
  <2>2. next = EndLine(acc, x) BY <1>1, <2>1 DEF TakePiece
  <2>3. now = (x = CR) OBVIOUS
  <2>4. EndLine(acc, x) = Scanned(Append(lines, line), <<>>, now)
    BY <1>2, <2>3, Zenon DEF EndLine, Scanned
  <2> QED BY <2>2, <2>4
<1>6. ASSUME x = LF, afterCR PROVE next = Scanned(lines, line, now)
  <2>1. x = LF /\ acc.afterCR /\ ~(x = CR \/ (x = LF /\ ~acc.afterCR)) BY <1>2, <1>3, <1>6
  <2>2. now = FALSE BY <1>3, <1>6
  <2>3. next = Marked(acc, now)
    <3>1. next = [acc EXCEPT !.afterCR = FALSE] BY <1>1, <2>1, Zenon DEF TakePiece
    <3> QED BY <2>2, <3>1, Zenon DEF Marked
  <2> QED BY <1>1, <2>3, ScannedExcept
<1> QED BY <1>4, <1>5, <1>6

ScannedWell(t) ==
  /\ Scan(t) = Scanned(Lines(t), Rest(t), AfterCR(t))
  /\ Lines(t) \in Seq(Seq(LinePieces)) /\ Rest(t) \in Seq(LinePieces)
  /\ AfterCR(t) => Rest(t) = <<>>

LEMMA ScanIs ==
  ASSUME NEW t \in Seq(Pieces)
  PROVE  ScannedWell(t)
<1> DEFINE Bad == {m \in Nat : \E q \in Seq(Pieces) : Len(q) = m /\ ~ScannedWell(q)}
<1> SUFFICES ASSUME Bad # {} PROVE FALSE
  <2>1. Len(t) \in Nat OBVIOUS
  <2> QED BY <2>1
<1>1. PICK m \in Bad : \A k \in Bad : m <= k
  <2>1. Bad \subseteq Nat OBVIOUS
  <2> HIDE DEF Bad
  <2> QED BY <2>1, LeastNumber
<1>2. PICK q \in Seq(Pieces) : Len(q) = m /\ ~ScannedWell(q) BY <1>1
<1>3. CASE q = <<>>
  <2>1. AfterCR(q) = FALSE BY <1>3, NoPieces DEF AfterCR
  <2>2. Scan(q) = Scanned(Lines(q), Rest(q), AfterCR(q))
    BY <1>3, <2>1, NothingScanned, NoPieces DEF Scanned, Unscanned
  <2>3. <<>> \in Seq(Seq(LinePieces)) /\ <<>> \in Seq(LinePieces) OBVIOUS
  <2> QED BY <1>2, <1>3, <2>1, <2>2, <2>3, NoPieces DEF ScannedWell
<1>4. CASE q # <<>>
  <2>1. PICK s \in Seq(Pieces), x \in Pieces : q = Append(s, x) BY <1>4, SequenceEmptyOrAppend
  <2>2. Len(s) \in Nat /\ m = Len(s) + 1 BY <1>2, <2>1, AppendProperties
  <2>3. ScannedWell(s)
    <3>1. ~(m <= Len(s)) BY <2>2
    <3>2. Len(s) \notin Bad BY <1>1, <3>1
    <3> QED BY <2>2, <3>2
  <2>4. PICK lines \in Seq(Seq(LinePieces)), rest \in Seq(LinePieces) :
          lines = Lines(s) /\ rest = Rest(s)
    BY <2>3 DEF ScannedWell
  <2>5. PICK a \in BOOLEAN : a = AfterCR(s) BY DEF AfterCR
  <2>6. /\ Scan(q) = TakePiece(Scanned(lines, rest, a), x)
        /\ a => rest = <<>>
    BY <2>1, <2>3, <2>4, <2>5, OneMoreScanned DEF ScannedWell
  <2>7. /\ x \in LinePieces => Lines(q) = lines /\ Rest(q) = Append(rest, x)
        /\ x \in {CR, LF} => Rest(q) = <<>>
        /\ x \in {CR, LF} /\ ~(x = LF /\ a) => Lines(q) = Append(lines, rest)
        /\ x = LF /\ a => Lines(q) = lines
        /\ AfterCR(q) <=> x = CR
    <3>1. a <=> AfterCR(s) BY <2>5
    <3>2. /\ x \in LinePieces => Lines(q) = Lines(s) /\ Rest(q) = Append(Rest(s), x)
          /\ x \in {CR, LF} => Rest(q) = <<>>
          /\ x \in {CR, LF} /\ ~(x = LF /\ AfterCR(s)) => Lines(q) = Append(Lines(s), Rest(s))
          /\ x = LF /\ AfterCR(s) => Lines(q) = Lines(s)
          /\ AfterCR(q) <=> x = CR
      <4>1. GrowsBy(s, x, q) BY <2>1, OnePieceMore
      <4> QED BY <4>1 DEF GrowsBy
    <3> QED BY <2>4, <3>1, <3>2
  <2>8. PICK now \in BOOLEAN : now = AfterCR(q) BY DEF AfterCR
  <2>9. (now <=> x = CR) /\ (x \in LinePieces => x # CR) BY <2>7, <2>8, SseConstants DEF LinePieces
  <2>10. PICK next : next = TakePiece(Scanned(lines, rest, a), x) OBVIOUS
  <2>11. /\ x \in LinePieces => next = Scanned(lines, Append(rest, x), now)
         /\ x \in {CR, LF} /\ ~(x = LF /\ a) => next = Scanned(Append(lines, rest), <<>>, now)
         /\ x = LF /\ a => next = Scanned(lines, rest, now)
    BY <2>9, <2>10, PieceTaken
  <2>12. Scan(q) = Scanned(Lines(q), Rest(q), AfterCR(q))
    BY <2>6, <2>7, <2>8, <2>10, <2>11 DEF Pieces
  <2>13. /\ Lines(q) \in Seq(Seq(LinePieces)) /\ Rest(q) \in Seq(LinePieces)
         /\ AfterCR(q) => Rest(q) = <<>>
    <3>1. Append(lines, rest) \in Seq(Seq(LinePieces)) BY AppendProperties
    <3>2. x \in LinePieces => Append(rest, x) \in Seq(LinePieces) BY AppendProperties
    <3>3. <<>> \in Seq(LinePieces) OBVIOUS
    <3>4. CASE x \in LinePieces BY <2>7, <2>9, <3>2, <3>4
    <3>5. CASE x \in {CR, LF} BY <2>7, <3>1, <3>3, <3>5
    <3> QED BY <3>4, <3>5 DEF Pieces
  <2> QED BY <1>2, <2>12, <2>13 DEF ScannedWell
<1> QED BY <1>3, <1>4

LEMMA ConcatAppend ==
  ASSUME NEW X, NEW s \in Seq(X), NEW v \in Seq(X), NEW x \in X
  PROVE  s \o Append(v, x) = Append(s \o v, x) /\ s \o v \in Seq(X)
<1>1. PICK both \in Seq(X) : both = s \o v BY ConcatProperties
<1>2. <<x>> \in Seq(X) OBVIOUS
<1>3. Append(v, x) = v \o <<x>> /\ Append(both, x) = both \o <<x>> BY AppendIsConcat
<1>4. s \o (v \o <<x>>) = (s \o v) \o <<x>> BY <1>2, ConcatAssociative
<1> QED BY <1>1, <1>3, <1>4

LEMMA LineAdded ==
  ASSUME NEW lines \in Seq(Seq(LinePieces)), NEW more \in Seq(Seq(LinePieces)),
         NEW line \in Seq(LinePieces)
  PROVE  lines \o Append(more, line) = Append(lines \o more, line)
<1>1. PICK X : X = Seq(LinePieces) OBVIOUS
<1>2. lines \in Seq(X) /\ more \in Seq(X) /\ line \in X BY <1>1
<1> QED BY <1>2, ConcatAppend

(* A text without terminators has no line yet.                             *)
Unterminated(t) == Lines(t) = <<>> /\ Rest(t) = t /\ ~AfterCR(t)

LEMMA NoTerminator ==
  ASSUME NEW t \in Seq(LinePieces)
  PROVE  Unterminated(t)
<1> DEFINE Bad == {m \in Nat : \E q \in Seq(LinePieces) : Len(q) = m /\ ~Unterminated(q)}
<1> SUFFICES ASSUME Bad # {} PROVE FALSE
  <2>1. Len(t) \in Nat OBVIOUS
  <2> QED BY <2>1
<1>1. PICK m \in Bad : \A k \in Bad : m <= k
  <2>1. Bad \subseteq Nat OBVIOUS
  <2> HIDE DEF Bad
  <2> QED BY <2>1, LeastNumber
<1>2. PICK q \in Seq(LinePieces) : Len(q) = m /\ ~Unterminated(q) BY <1>1
<1>3. CASE q = <<>> BY <1>2, <1>3, NoPieces DEF Unterminated
<1>4. CASE q # <<>>
  <2>1. PICK s \in Seq(LinePieces), x \in LinePieces : q = Append(s, x)
    BY <1>4, SequenceEmptyOrAppend
  <2>2. Len(s) \in Nat /\ m = Len(s) + 1 BY <1>2, <2>1, AppendProperties
  <2>3. Unterminated(s)
    <3>1. ~(m <= Len(s)) BY <2>2
    <3>2. Len(s) \notin Bad BY <1>1, <3>1
    <3> QED BY <2>2, <3>2
  <2>4. s \in Seq(Pieces) /\ x \in Pieces /\ x # CR
    <3>1. LinePieces \subseteq Pieces BY DEF Pieces
    <3>2. s \in Seq(Pieces) BY <3>1, SeqMonotonic
    <3> QED BY <3>1, <3>2, SseConstants DEF LinePieces
  <2>5. Lines(q) = Lines(s) /\ Rest(q) = Append(Rest(s), x) /\ (AfterCR(q) <=> x = CR)
    BY <2>1, <2>4, OnePieceMore DEF GrowsBy
  <2> QED BY <1>2, <2>1, <2>3, <2>4, <2>5 DEF Unterminated
<1> QED BY <1>3, <1>4

LEMMA TextsAssociate ==
  ASSUME NEW t \in Seq(Pieces), NEW u \in Seq(Pieces), NEW v \in Seq(Pieces)
  PROVE  (t \o u) \o v = t \o (u \o v)
BY ConcatAssociative

LEMMA TextsAppend ==
  ASSUME NEW t \in Seq(Pieces), NEW u \in Seq(Pieces), NEW x \in Pieces
  PROVE  t \o Append(u, x) = Append(t \o u, x)
<1>1. PICK X : X = Pieces OBVIOUS
<1>2. t \in Seq(X) /\ u \in Seq(X) /\ x \in X BY <1>1
<1> QED BY <1>2, ConcatAppend, SMTT(60)

(* What comes after a complete part of a text is read as if the rest of    *)
(* that part started it.                                                   *)
Continues(k, u) == ~(AfterCR(k) /\ u # <<>> /\ u[1] = LF)

ReadsAfter(k, r, u) ==
  /\ Lines(k \o u) = Lines(k) \o Lines(r \o u) /\ Rest(k \o u) = Rest(r \o u)
  /\ u # <<>> => (AfterCR(k \o u) <=> AfterCR(r \o u))

LEMMA Restart ==
  ASSUME NEW k \in Seq(Pieces), NEW u \in Seq(Pieces), Continues(k, u), NEW r, r = Rest(k)
  PROVE  ReadsAfter(k, r, u)
<1> DEFINE Bad == {m \in Nat : \E q \in Seq(Pieces) :
                     Len(q) = m /\ Continues(k, q) /\ ~ReadsAfter(k, r, q)}
<1> SUFFICES ASSUME Bad # {} PROVE FALSE
  <2>1. Len(u) \in Nat OBVIOUS
  <2> QED BY <2>1
<1>1. PICK m \in Bad : \A i \in Bad : m <= i
  <2>1. Bad \subseteq Nat OBVIOUS
  <2> HIDE DEF Bad
  <2> QED BY <2>1, LeastNumber
<1>2. PICK q \in Seq(Pieces) : Len(q) = m /\ Continues(k, q) /\ ~ReadsAfter(k, r, q) BY <1>1
<1>3. PICK lines \in Seq(Seq(LinePieces)) : lines = Lines(k) BY ScanIs DEF ScannedWell
<1>4. r \in Seq(LinePieces) /\ r \in Seq(Pieces)
  <2>1. r \in Seq(LinePieces) BY ScanIs DEF ScannedWell
  <2>2. LinePieces \subseteq Pieces BY DEF Pieces
  <2> QED BY <2>1, <2>2, SeqMonotonic
<1>5. Unterminated(r) BY <1>4, NoTerminator
<1>6. k \o <<>> = k /\ r \o <<>> = r BY <1>4, ConcatEmptySeq
<1>7. lines \o <<>> = lines BY ConcatEmptySeq
<1>8. CASE q = <<>> BY <1>2, <1>3, <1>5, <1>6, <1>7, <1>8 DEF ReadsAfter, Unterminated
<1>9. CASE q # <<>>
  <2>1. PICK v \in Seq(Pieces), x \in Pieces : q = Append(v, x) BY <1>9, SequenceEmptyOrAppend
  <2>2. /\ Len(v) \in Nat /\ m = Len(v) + 1 /\ q[Len(v) + 1] = x
        /\ \A i \in 1 .. Len(v) : q[i] = v[i]
    BY <1>2, <2>1, AppendProperties
  <2>3. v # <<>> => v[1] = q[1]
    <3>1. v # <<>> => Len(v) >= 1 BY <2>2, EmptySeq
    <3> QED BY <2>2, <3>1
  <2>4. v = <<>> => ~(AfterCR(k) /\ x = LF)
    <3>1. v = <<>> => q[1] = x BY <2>2
    <3> QED BY <1>2, <1>9, <3>1 DEF Continues
  <2>5. Continues(k, v) BY <1>2, <1>9, <2>3 DEF Continues
  <2>6. ReadsAfter(k, r, v)
    <3>1. ~(m <= Len(v)) BY <2>2
    <3>2. Len(v) \notin Bad BY <1>1, <3>1
    <3> QED BY <2>2, <2>5, <3>2
  <2>7. PICK a \in Seq(Pieces), b \in Seq(Pieces) : a = k \o v /\ b = r \o v
    BY <1>4, ConcatProperties
  <2>8. k \o q = Append(a, x) /\ r \o q = Append(b, x)
    <3>1. k \o Append(v, x) = Append(k \o v, x) BY TextsAppend, ZenonT(60)
    <3>2. r \o Append(v, x) = Append(r \o v, x) BY <1>4, TextsAppend, ZenonT(60)
    <3> QED BY <2>1, <2>7, <3>1, <3>2
  <2>9. PICK t, w : t = k \o q /\ w = r \o q /\ t = Append(a, x) /\ w = Append(b, x) BY <2>8
  <2>10. x = LF => (AfterCR(a) <=> AfterCR(b))
    <3>1. CASE v = <<>>
      <4>1. a = k /\ b = r BY <1>6, <2>7, <3>1
      <4> QED BY <1>5, <2>4, <3>1, <4>1 DEF Unterminated
    <3>2. CASE v # <<>> BY <2>6, <2>7, <3>2 DEF ReadsAfter
    <3> QED BY <3>1, <3>2
  <2>11. PICK more \in Seq(Seq(LinePieces)), rest \in Seq(LinePieces) :
           more = Lines(b) /\ rest = Rest(b)
    BY ScanIs DEF ScannedWell
  <2>12. Lines(a) = lines \o more /\ Rest(a) = rest BY <1>3, <2>6, <2>7, <2>11 DEF ReadsAfter
  <2>13. /\ x \in LinePieces => Lines(t) = Lines(a) /\ Rest(t) = Append(Rest(a), x)
         /\ x \in {CR, LF} => Rest(t) = <<>>
         /\ x \in {CR, LF} /\ ~(x = LF /\ AfterCR(a)) => Lines(t) = Append(Lines(a), Rest(a))
         /\ x = LF /\ AfterCR(a) => Lines(t) = Lines(a)
         /\ AfterCR(t) <=> x = CR
    <3>1. GrowsBy(a, x, t) BY <2>9, OnePieceMore
    <3> QED BY <3>1 DEF GrowsBy
  <2>14. /\ x \in LinePieces => Lines(w) = Lines(b) /\ Rest(w) = Append(Rest(b), x)
         /\ x \in {CR, LF} => Rest(w) = <<>>
         /\ x \in {CR, LF} /\ ~(x = LF /\ AfterCR(b)) => Lines(w) = Append(Lines(b), Rest(b))
         /\ x = LF /\ AfterCR(b) => Lines(w) = Lines(b)
         /\ AfterCR(w) <=> x = CR
    <3>1. GrowsBy(b, x, w) BY <2>9, OnePieceMore
    <3> QED BY <3>1 DEF GrowsBy
  <2>15. lines \o Append(more, rest) = Append(lines \o more, rest)
    BY LineAdded
  <2>16. Lines(t) = lines \o Lines(w) /\ Rest(t) = Rest(w)
    <3>1. CASE x \in LinePieces BY <2>11, <2>12, <2>13, <2>14, <3>1
    <3>2. CASE x \in {CR, LF} /\ ~(x = LF /\ AfterCR(a))
      BY <2>10, <2>11, <2>12, <2>13, <2>14, <2>15, <3>2
    <3>3. CASE x = LF /\ AfterCR(a) BY <2>10, <2>11, <2>12, <2>13, <2>14, <3>3
    <3> QED BY <3>1, <3>2, <3>3 DEF Pieces
  <2> QED BY <1>2, <1>3, <2>9, <2>13, <2>14, <2>16 DEF ReadsAfter
<1> QED BY <1>8, <1>9

-----------------------------------------------------------------------------
(* What processLine does to the parser.                                    *)

ParserOf(data, saw, name, out) ==
  [dataLines |-> data, sawData |-> saw, eventName |-> name, yielded |-> out]

SetData(p, v) == [p EXCEPT !.dataLines = v]
SetSaw(p, v) == [p EXCEPT !.sawData = v]
SetName(p, v) == [p EXCEPT !.eventName = v]
SetOut(p, v) == [p EXCEPT !.yielded = v]

LEMMA ParserSet ==
  ASSUME NEW data, NEW saw, NEW name, NEW out, NEW v, NEW p, p = ParserOf(data, saw, name, out)
  PROVE  /\ SetData(p, v) = ParserOf(v, saw, name, out)
         /\ SetSaw(p, v) = ParserOf(data, v, name, out)
         /\ SetName(p, v) = ParserOf(data, saw, v, out)
         /\ SetOut(p, v) = ParserOf(data, saw, name, v)
<1>1. PICK q : q = p OBVIOUS
<1>2. q \in [dataLines : {data, v}, sawData : {saw, v}, eventName : {name, v}, yielded : {out, v}]
  BY <1>1 DEF ParserOf
<1>3. q.dataLines = data /\ q.sawData = saw /\ q.eventName = name /\ q.yielded = out
  BY <1>1 DEF ParserOf
<1>4. [q EXCEPT !.dataLines = v] = ParserOf(v, saw, name, out) BY <1>2, <1>3 DEF ParserOf
<1>5. [q EXCEPT !.sawData = v] = ParserOf(data, v, name, out) BY <1>2, <1>3 DEF ParserOf
<1>6. [q EXCEPT !.eventName = v] = ParserOf(data, saw, v, out) BY <1>2, <1>3 DEF ParserOf
<1>7. [q EXCEPT !.yielded = v] = ParserOf(data, saw, name, v) BY <1>2, <1>3 DEF ParserOf
<1> QED BY <1>1, <1>4, <1>5, <1>6, <1>7 DEF SetData, SetSaw, SetName, SetOut

LEMMA ParserSetBoth ==
  ASSUME NEW data, NEW saw, NEW name, NEW out, NEW p, p = ParserOf(data, saw, name, out),
         NEW more, NEW now
  PROVE  SetSaw(SetData(p, more), now) = ParserOf(more, now, name, out)
<1>1. PICK a : a = SetData(p, more) OBVIOUS
<1>2. a = ParserOf(more, saw, name, out) BY <1>1, ParserSet
<1>3. SetSaw(a, now) = ParserOf(more, now, name, out) BY <1>2, ParserSet
<1> QED BY <1>1, <1>3

EventIs(name, data) == [event |-> name, data |-> data]

Processed(data, saw, name, out, p, line, no, yes, next) ==
  /\ line = <<>> /\ saw => next = ParserOf(<<>>, no, NoName, Append(out, EventIs(name, data)))
  /\ line = <<>> /\ ~saw => next = ParserOf(<<>>, no, NoName, out)
  /\ line # <<>> /\ line[1] = DataField
       => next = ParserOf(Append(data, Tail(line)), yes, name, out)
  /\ line # <<>> /\ line[1] = EventField /\ named => next = ParserOf(data, saw, Tail(line), out)
  /\ line # <<>> /\ line[1] # DataField /\ ~(line[1] = EventField /\ named) => next = p

LEMMA LineProcessed ==
  ASSUME NEW data, NEW saw \in BOOLEAN, NEW name, NEW out,
         NEW p, p = ParserOf(data, saw, name, out), NEW line,
         NEW no \in BOOLEAN, ~no, NEW yes \in BOOLEAN, yes # no,
         NEW next, next = ProcessLine(p, line)
  PROVE  Processed(data, saw, name, out, p, line, no, yes, next)
<1>1. p.dataLines = data /\ p.sawData = saw /\ p.eventName = name /\ p.yielded = out
  BY DEF ParserOf
<1>2. yes = TRUE /\ no = FALSE /\ DataField # EventField BY SseConstants
<1>3. PICK first : first = line[1] OBVIOUS
<1>4. PICK e : e = EventIs(name, data) OBVIOUS
<1>5. Event(p) = e BY <1>1, <1>4, Zenon DEF Event, EventIs
<1>6. NothingPending(p) = ParserOf(<<>>, no, NoName, out)
  <2>1. NothingPending(p) = [p EXCEPT !.dataLines = <<>>, !.sawData = no, !.eventName = NoName]
    BY <1>2, Zenon DEF NothingPending
  <2>2. [p EXCEPT !.dataLines = <<>>, !.sawData = no, !.eventName = NoName]
          = SetName(SetSaw(SetData(p, <<>>), no), NoName)
    BY DEF SetName, SetSaw, SetData
  <2>3. PICK a : a = SetData(p, <<>>) OBVIOUS
  <2>4. a = ParserOf(<<>>, saw, name, out) BY <2>3, ParserSet
  <2>5. PICK b : b = SetSaw(a, no) OBVIOUS
  <2>6. b = ParserOf(<<>>, no, name, out) BY <2>4, <2>5, ParserSet
  <2>7. SetName(b, NoName) = ParserOf(<<>>, no, NoName, out) BY <2>6, ParserSet
  <2> QED BY <2>1, <2>2, <2>3, <2>5, <2>7
<1>7. ASSUME line = <<>>, saw PROVE next = ParserOf(<<>>, no, NoName, Append(out, e))
  <2>1. PICK q : q = NothingPending(p) OBVIOUS
  <2>2. q = ParserOf(<<>>, no, NoName, out) /\ q.yielded = out BY <1>6, <2>1 DEF ParserOf
  <2>3. next = Dispatch(p) BY <1>7, Zenon DEF ProcessLine
  <2>4. next = [q EXCEPT !.yielded = Append(@, Event(p))]
    BY <1>1, <1>7, <2>1, <2>3, Zenon DEF Dispatch
  <2>5. next = SetOut(q, Append(out, e)) BY <1>5, <2>2, <2>4, Zenon DEF SetOut
  <2> QED BY <2>2, <2>5, ParserSet
<1>8. ASSUME line = <<>>, ~saw PROVE next = ParserOf(<<>>, no, NoName, out)
  <2>1. next = Dispatch(p) BY <1>8, Zenon DEF ProcessLine
  <2>2. next = NothingPending(p) BY <1>1, <1>8, <2>1, Zenon DEF Dispatch
  <2> QED BY <1>6, <2>2
<1>9. ASSUME line # <<>>, first = DataField
      PROVE  next = ParserOf(Append(data, Tail(line)), yes, name, out)
  <2>1. PICK tail : tail = Tail(line) OBVIOUS
  <2>2. next = [p EXCEPT !.dataLines = Append(@, Tail(line)), !.sawData = TRUE]
    BY <1>2, <1>3, <1>9, Zenon DEF ProcessLine
  <2>3. PICK more : more = Append(data, tail) OBVIOUS
  <2>4. next = [p EXCEPT !.dataLines = more, !.sawData = yes] BY <1>1, <1>2, <2>1, <2>2, <2>3, Zenon
  <2>5. next = SetSaw(SetData(p, more), yes) BY <2>4 DEF SetSaw, SetData
  <2>6. SetSaw(SetData(p, more), yes) = ParserOf(more, yes, name, out) BY ParserSetBoth
  <2> QED BY <2>1, <2>3, <2>5, <2>6
<1>10. ASSUME line # <<>>, first = EventField, named
       PROVE  next = ParserOf(data, saw, Tail(line), out)
  <2>1. next = [p EXCEPT !.eventName = Tail(line)] BY <1>2, <1>3, <1>10, Zenon DEF ProcessLine
  <2>2. next = SetName(p, Tail(line)) BY <2>1, Zenon DEF SetName
  <2> QED BY <2>2, ParserSet
<1>11. ASSUME line # <<>>, first # DataField, ~(first = EventField /\ named) PROVE next = p
  BY <1>3, <1>11, Zenon DEF ProcessLine
<1> QED BY <1>3, <1>4, <1>7, <1>8, <1>9, <1>10, <1>11 DEF Processed

-----------------------------------------------------------------------------
(* The groups of lines, and the events in them.                            *)

Line == Seq(LinePieces)
Filled == Line \ {<<>>}
AnyEvent == [event : {NoName} \cup Line, data : Seq(Line)]

GroupsGrow(ls, l, ms) ==
  /\ l = <<>> => Groups(ms) = Append(Groups(ls), Unended(ls)) /\ Unended(ms) = <<>>
  /\ l # <<>> => Groups(ms) = Groups(ls) /\ Unended(ms) = Append(Unended(ls), l)

LEMMA OneLineMore ==
  ASSUME NEW ls \in Seq(Line), NEW l \in Line, NEW ms, ms = Append(ls, l)
  PROVE  GroupsGrow(ls, l, ms)
<1> DEFINE N == Len(ls)
           C == Blank(ls)
           D == Blank(ms)
<1>1. /\ N \in Nat /\ DOMAIN ls = 1 .. N /\ DOMAIN ms = 1 .. N + 1 /\ Len(ms) + 1 = N + 2
      /\ ms[N + 1] = l /\ \A n \in 1 .. N : ms[n] = ls[n]
  BY AppendProperties
<1>2. CutsMore(C, D, N) /\ (N + 1 \in D <=> l = <<>>)
  <2>1. \A n \in 1 .. N : n \in 1 .. N + 1 BY <1>1
  <2>2. N + 1 \in 1 .. N + 1 BY <1>1
  <2> HIDE DEF N
  <2>3. \A n \in 1 .. N : n \in D <=> n \in C BY <1>1, <2>1 DEF Blank
  <2>4. C \subseteq 1 .. N /\ D \subseteq 1 .. N + 1 BY <1>1 DEF Blank
  <2> QED BY <1>1, <2>2, <2>3, <2>4 DEF CutsMore, Blank
<1>3. /\ Groups(ls) = Parts(ls, C, C) /\ Unended(ls) = Since(ls, C, N + 1)
      /\ Groups(ms) = Parts(ms, D, D)
  BY DEF Groups, Unended
<1>4. Unended(ms) = Since(ms, D, N + 2) BY <1>1 DEF Unended
<1> HIDE DEF C, D
<1>5. /\ N + 1 \in D => Since(ms, D, N + 2) = <<>>
      /\ N + 1 \notin D => Since(ms, D, N + 2) = Append(Since(ls, C, N + 1), l)
  BY <1>2, SinceMore
<1>6. /\ N + 1 \in D => Parts(ms, D, D) = Append(Parts(ls, C, C), Since(ls, C, N + 1))
      /\ N + 1 \notin D => Parts(ms, D, D) = Parts(ls, C, C)
  BY <1>2, PartsMore
<1> HIDE DEF N
<1> QED BY <1>2, <1>3, <1>4, <1>5, <1>6 DEF GroupsGrow

LEMMA NoLines == Groups(<<>>) = <<>> /\ Unended(<<>>) = <<>>
<1>1. Blank(<<>>) = {} /\ Len(<<>>) + 1 = 1 BY DEF Blank
<1>2. Blank(<<>>) \subseteq Nat BY <1>1
<1> QED BY <1>1, <1>2, NothingApart DEF Groups, Unended

Grouped(ls) == Groups(ls) \in Seq(Seq(Filled)) /\ Unended(ls) \in Seq(Filled)

LEMMA GroupsType ==
  ASSUME NEW ls \in Seq(Line)
  PROVE  Grouped(ls)
<1> DEFINE Bad == {m \in Nat : \E q \in Seq(Line) : Len(q) = m /\ ~Grouped(q)}
<1> SUFFICES ASSUME Bad # {} PROVE FALSE
  <2>1. Len(ls) \in Nat OBVIOUS
  <2> QED BY <2>1
<1>1. PICK m \in Bad : \A k \in Bad : m <= k
  <2>1. Bad \subseteq Nat OBVIOUS
  <2> HIDE DEF Bad
  <2> QED BY <2>1, LeastNumber
<1>2. PICK q \in Seq(Line) : Len(q) = m /\ ~Grouped(q) BY <1>1
<1>3. CASE q = <<>>
  <2>1. <<>> \in Seq(Seq(Filled)) /\ <<>> \in Seq(Filled) OBVIOUS
  <2> QED BY <1>2, <1>3, <2>1, NoLines DEF Grouped
<1>4. CASE q # <<>>
  <2>1. PICK s \in Seq(Line), l \in Line : q = Append(s, l) BY <1>4, SequenceEmptyOrAppend
  <2>2. Len(s) \in Nat /\ m = Len(s) + 1 BY <1>2, <2>1, AppendProperties
  <2>3. Grouped(s)
    <3>1. ~(m <= Len(s)) BY <2>2
    <3>2. Len(s) \notin Bad BY <1>1, <3>1
    <3> QED BY <2>2, <3>2
  <2>4. GroupsGrow(s, l, q) BY <2>1, OneLineMore
  <2>5. PICK gs \in Seq(Seq(Filled)), u \in Seq(Filled) : gs = Groups(s) /\ u = Unended(s)
    BY <2>3 DEF Grouped
  <2>6. Append(gs, u) \in Seq(Seq(Filled)) /\ <<>> \in Seq(Filled) BY AppendProperties
  <2>7. l # <<>> => Append(u, l) \in Seq(Filled)
    <3>1. l # <<>> => l \in Filled BY DEF Filled
    <3> QED BY <3>1, AppendProperties
  <2> QED BY <1>2, <2>4, <2>5, <2>6, <2>7 DEF Grouped, GroupsGrow
<1> QED BY <1>3, <1>4

(* What the fields of a group are.                                         *)
Finder(field) == [l \in Filled |-> IF l[1] = field THEN <<Tail(l)>> ELSE <<>>]

LEMMA FinderType ==
  ASSUME NEW field
  PROVE  Finder(field) \in [Filled -> Seq(Line)]
<1>1. ASSUME NEW l \in Filled PROVE Tail(l) \in Line
  BY HeadTailProperties DEF Filled, Line
<1>2. \A x \in Line : <<x>> \in Seq(Line) /\ <<>> \in Seq(Line) OBVIOUS
<1>3. <<>> \in Seq(Line) OBVIOUS
<1> QED BY <1>1, <1>2, <1>3 DEF Finder

LEMMA ValuesAreViews ==
  ASSUME NEW g \in Seq(Filled), NEW field
  PROVE  ValuesOf(field, g) = Views(Finder(field), g)
<1>1. \A k \in DOMAIN g : Finder(field)[g[k]] = IF g[k][1] = field THEN <<Tail(g[k])>> ELSE <<>>
  BY DEF Finder
<1> QED BY <1>1 DEF ValuesOf, Views

LEMMA ValuesMore ==
  ASSUME NEW g \in Seq(Filled), NEW l \in Filled, NEW field
  PROVE  /\ ValuesOf(field, g) \in Seq(Line)
         /\ l[1] = field => ValuesOf(field, Append(g, l)) = Append(ValuesOf(field, g), Tail(l))
         /\ l[1] # field => ValuesOf(field, Append(g, l)) = ValuesOf(field, g)
<1> DEFINE F == Finder(field)
           q == Append(g, l)
<1>1. F \in [Filled -> Seq(Line)] BY FinderType
<1>2. F[l] = IF l[1] = field THEN <<Tail(l)>> ELSE <<>> BY DEF Finder
<1>3. q \in Seq(Filled) BY AppendProperties
<1> HIDE DEF F, q
<1>4. ValuesOf(field, g) = Views(F, g) /\ ValuesOf(field, q) = Views(F, q)
  BY <1>3, ValuesAreViews DEF F
<1>5. Views(F, q) = Views(F, g) \o F[l] /\ Views(F, g) \in Seq(Line) BY <1>1, MoreViews DEF q
<1>6. PICK v \in Seq(Line) : v = ValuesOf(field, g) BY <1>4, <1>5
<1>7. PICK tail \in Line : tail = Tail(l) BY HeadTailProperties DEF Filled, Line
<1>8. Append(v, tail) = v \o <<tail>> /\ v \o <<>> = v BY AppendIsConcat, ConcatEmptySeq
<1> QED BY <1>2, <1>4, <1>5, <1>6, <1>7, <1>8 DEF q

LEMMA NoValues == ASSUME NEW field PROVE ValuesOf(field, <<>>) = <<>>
<1>1. <<>> \in Seq(Filled) OBVIOUS
<1> QED BY <1>1, ValuesAreViews, NoViews

LEMMA ValuesType ==
  ASSUME NEW g \in Seq(Filled), NEW field
  PROVE  ValuesOf(field, g) \in Seq(Line)
BY FinderType, ValuesAreViews, ViewsType

NameOf(g, names) ==
  IF names /\ ValuesOf(EventField, g) # <<>> THEN Last(ValuesOf(EventField, g)) ELSE NoName

LEMMA NameMore ==
  ASSUME NEW g \in Seq(Filled), NEW l \in Filled, NEW names
  PROVE  /\ NameOf(g, names) \in {NoName} \cup Line
         /\ names /\ l[1] = EventField => NameOf(Append(g, l), names) = Tail(l)
         /\ ~(names /\ l[1] = EventField) => NameOf(Append(g, l), names) = NameOf(g, names)
<1>1. PICK v \in Seq(Line) : v = ValuesOf(EventField, g) BY ValuesType
<1>2. PICK tail \in Line : tail = Tail(l) BY HeadTailProperties DEF Filled, Line
<1>3. PICK w : w = ValuesOf(EventField, Append(g, l)) OBVIOUS
<1>4. (l[1] = EventField => w = Append(v, tail)) /\ (l[1] # EventField => w = v)
  BY <1>1, <1>2, <1>3, ValuesMore
<1>5. Append(v, tail) # <<>> /\ Last(Append(v, tail)) = tail
  <2>1. PICK q : q = Append(v, tail) OBVIOUS
  <2>2. Len(v) \in Nat /\ Len(q) = Len(v) + 1 /\ q[Len(v) + 1] = tail BY <2>1, AppendProperties
  <2>3. q # <<>> BY <2>2
  <2> QED BY <2>1, <2>2, <2>3 DEF Last
<1>6. v # <<>> => Last(v) \in Line
  <2>1. v # <<>> => Len(v) \in 1 .. Len(v) BY EmptySeq
  <2>2. v # <<>> => v[Len(v)] \in Line BY <2>1, ElementOfSeq
  <2> QED BY <2>2 DEF Last
<1>7. NameOf(g, names) = IF names /\ v # <<>> THEN Last(v) ELSE NoName BY <1>1 DEF NameOf
<1>8. NameOf(Append(g, l), names) = IF names /\ w # <<>> THEN Last(w) ELSE NoName
  BY <1>3 DEF NameOf
<1>9. NameOf(g, names) \in {NoName} \cup Line BY <1>6, <1>7
<1>10. names /\ l[1] = EventField => NameOf(Append(g, l), names) = Tail(l)
  BY <1>2, <1>4, <1>5, <1>8
<1>11. ~(names /\ l[1] = EventField) => NameOf(Append(g, l), names) = NameOf(g, names)
  BY <1>4, <1>7, <1>8
<1> QED BY <1>9, <1>10, <1>11

LEMMA NameType ==
  ASSUME NEW g \in Seq(Filled), NEW names
  PROVE  NameOf(g, names) \in {NoName} \cup Line
<1>1. PICK v \in Seq(Line) : v = ValuesOf(EventField, g) BY ValuesType
<1>2. v # <<>> => Last(v) \in Line
  <2>1. v # <<>> => Len(v) \in 1 .. Len(v) BY EmptySeq
  <2>2. v # <<>> => v[Len(v)] \in Line BY <2>1, ElementOfSeq
  <2> QED BY <2>2 DEF Last
<1>3. NameOf(g, names) = IF names /\ v # <<>> THEN Last(v) ELSE NoName BY <1>1 DEF NameOf
<1> QED BY <1>2, <1>3

LEMMA EventOfIs ==
  ASSUME NEW g, NEW names
  PROVE  /\ EventOf(g, names) = EventIs(NameOf(g, names), ValuesOf(DataField, g))
         /\ EventOf(g, names).event = NameOf(g, names)
         /\ EventOf(g, names).data = ValuesOf(DataField, g)
<1>1. EventOf(g, names) = EventIs(NameOf(g, names), ValuesOf(DataField, g))
  BY Zenon DEF EventOf, EventIs, NameOf
<1>2. PICK name, data : name = NameOf(g, names) /\ data = ValuesOf(DataField, g) OBVIOUS
<1>3. EventIs(name, data).event = name /\ EventIs(name, data).data = data BY DEF EventIs
<1> QED BY <1>1, <1>2, <1>3

(* The events a list of lines dispatches.                                  *)
Dispatched(names) ==
  [g \in Seq(Filled) |-> IF ValuesOf(DataField, g) # <<>> THEN <<EventOf(g, names)>> ELSE <<>>]

EventsIn(ls, names) == Views(Dispatched(names), Groups(ls))

SentEvent == [event : {NoName} \cup Line, data : Seq(Line) \ {<<>>}]

LEMMA DispatchedType ==
  ASSUME NEW names
  PROVE  Dispatched(names) \in [Seq(Filled) -> Seq(SentEvent)]
<1>1. ASSUME NEW g \in Seq(Filled)
      PROVE  (IF ValuesOf(DataField, g) # <<>> THEN <<EventOf(g, names)>> ELSE <<>>)
               \in Seq(SentEvent)
  <2>1. PICK data \in Seq(Line) : data = ValuesOf(DataField, g) BY ValuesType
  <2>2. PICK name \in {NoName} \cup Line : name = NameOf(g, names) BY NameType
  <2>3. PICK e : e = EventOf(g, names) /\ e = EventIs(name, data) BY <2>1, <2>2, EventOfIs
  <2>4. data # <<>> => e \in SentEvent BY <2>3 DEF SentEvent, EventIs
  <2>5. data # <<>> => <<e>> \in Seq(SentEvent) BY <2>4
  <2>6. <<>> \in Seq(SentEvent) OBVIOUS
  <2> QED BY <2>1, <2>3, <2>5, <2>6
<1> QED BY <1>1 DEF Dispatched

LEMMA EventsAreViews ==
  ASSUME NEW t \in Seq(Pieces), NEW names
  PROVE  Events(t, names) = EventsIn(Lines(t), names)
<1>1. Lines(t) \in Seq(Line) BY ScanIs DEF ScannedWell, Line
<1>2. PICK gs \in Seq(Seq(Filled)) : gs = Groups(Lines(t)) BY <1>1, GroupsType DEF Grouped
<1>3. \A k \in DOMAIN gs : Dispatched(names)[gs[k]]
                              = IF ValuesOf(DataField, gs[k]) # <<>>
                                THEN <<EventOf(gs[k], names)>> ELSE <<>>
  BY DEF Dispatched
<1>4. \A k \in DOMAIN gs : EventOf(gs[k], names).data = ValuesOf(DataField, gs[k]) BY EventOfIs
<1>5. Events(t, names)
        = FlattenSeq([k \in DOMAIN gs |->
            IF EventOf(gs[k], names).data # <<>> THEN <<EventOf(gs[k], names)>> ELSE <<>>])
  BY <1>2, Zenon DEF Events
<1>6. \A k \in DOMAIN gs :
        (IF EventOf(gs[k], names).data # <<>> THEN <<EventOf(gs[k], names)>> ELSE <<>>)
          = Dispatched(names)[gs[k]]
  BY <1>3, <1>4
<1>7. Events(t, names) = Views(Dispatched(names), gs) BY <1>5, <1>6 DEF Views
<1> QED BY <1>2, <1>7 DEF EventsIn

LEMMA GroupViewed ==
  ASSUME NEW F \in [Seq(Filled) -> Seq(SentEvent)],
         NEW gs \in Seq(Seq(Filled)), NEW u \in Seq(Filled)
  PROVE  Views(F, Append(gs, u)) = Views(F, gs) \o F[u]
<1>1. PICK X, Y : X = Seq(Filled) /\ Y = SentEvent OBVIOUS
<1>2. F \in [X -> Seq(Y)] /\ gs \in Seq(X) /\ u \in X BY <1>1
<1> QED BY <1>2, MoreViews, SMTT(60)

(* One line more.                                                          *)
LEMMA EventsMore ==
  ASSUME NEW ls \in Seq(Line), NEW l \in Line, NEW names, NEW u, u = Unended(ls)
  PROVE  /\ EventsIn(ls, names) \in Seq(SentEvent)
         /\ l = <<>> /\ ValuesOf(DataField, u) # <<>>
              => EventsIn(Append(ls, l), names) = Append(EventsIn(ls, names), EventOf(u, names))
         /\ ~(l = <<>> /\ ValuesOf(DataField, u) # <<>>)
              => EventsIn(Append(ls, l), names) = EventsIn(ls, names)
<1> DEFINE F == Dispatched(names)
           ms == Append(ls, l)
<1>1. F \in [Seq(Filled) -> Seq(SentEvent)] BY DispatchedType
<1>2. PICK gs \in Seq(Seq(Filled)) : gs = Groups(ls) BY GroupsType DEF Grouped
<1>3. u \in Seq(Filled) BY GroupsType DEF Grouped
<1>4. F[u] = IF ValuesOf(DataField, u) # <<>> THEN <<EventOf(u, names)>> ELSE <<>>
  BY <1>3 DEF Dispatched
<1>5. GroupsGrow(ls, l, ms) BY OneLineMore
<1> HIDE DEF F, ms
<1>6. PICK out \in Seq(SentEvent) : out = Views(F, gs)
  <2>1. PICK X : X = Seq(Filled) OBVIOUS
  <2> QED BY <1>1, <2>1, ViewsType
<1>7. l = <<>> => Groups(ms) = Append(gs, u) BY <1>2, <1>5 DEF GroupsGrow
<1>8. l # <<>> => Groups(ms) = gs BY <1>2, <1>5 DEF GroupsGrow
<1>9. Views(F, Append(gs, u)) = out \o F[u]
  <2>1. Views(F, Append(gs, u)) = Views(F, gs) \o F[u] BY <1>1, <1>3, GroupViewed
  <2> QED BY <1>6, <2>1
<1>10. EventsIn(ls, names) = out /\ EventsIn(ms, names) = Views(F, Groups(ms))
  BY <1>2, <1>6 DEF EventsIn, F
<1>11. PICK e : e = EventOf(u, names) OBVIOUS
<1>12. ValuesOf(DataField, u) # <<>> => F[u] = <<e>> /\ e \in SentEvent
  <2>1. F[u] \in Seq(SentEvent) BY <1>1, <1>3
  <2>2. <<e>> \in Seq(SentEvent) => e \in SentEvent
    <3>1. Len(<<e>>) = 1 /\ <<e>>[1] = e OBVIOUS
    <3>2. PICK q : q = <<e>> OBVIOUS
    <3>3. q \in Seq(SentEvent) => q[1] \in SentEvent BY <3>1, <3>2
    <3> QED BY <3>1, <3>2, <3>3
  <2> QED BY <1>4, <1>11, <2>1, <2>2
<1>13. ValuesOf(DataField, u) # <<>> => out \o F[u] = Append(out, e)
  <2>1. e \in SentEvent => Append(out, e) = out \o <<e>> BY AppendIsConcat
  <2> QED BY <1>12, <2>1
<1>14. ValuesOf(DataField, u) = <<>> => out \o F[u] = out
  <2>1. out \o <<>> = out BY ConcatEmptySeq
  <2> QED BY <1>4, <2>1
<1>15. CASE l = <<>>
  <2>1. EventsIn(ms, names) = out \o F[u] BY <1>7, <1>9, <1>10, <1>15
  <2> QED BY <1>10, <1>11, <1>13, <1>14, <1>15, <2>1 DEF ms
<1>16. CASE l # <<>>
  <2>1. EventsIn(ms, names) = out BY <1>6, <1>8, <1>10, <1>16
  <2> QED BY <1>10, <1>16, <2>1 DEF ms
<1> QED BY <1>15, <1>16

LEMMA NoEvents == ASSUME NEW names PROVE EventsIn(<<>>, names) = <<>>
BY NoLines, NoViews DEF EventsIn

-----------------------------------------------------------------------------
(* The parser after lines: its pending event is that of the lines that no  *)
(* blank line has ended, and it has yielded the events before.             *)
Pending(u, p, data, saw, name) ==
  /\ data = ValuesOf(DataField, u) /\ saw \in BOOLEAN /\ (saw <=> data # <<>>)
  /\ name = NameOf(u, named)

Parsed(ls, p) ==
  \E data, saw, name, out :
    /\ p = ParserOf(data, saw, name, out) /\ Pending(Unended(ls), p, data, saw, name)
    /\ out = EventsIn(ls, named)

LEMMA ParsedMore ==
  ASSUME NEW ls \in Seq(Line), NEW l \in Line, NEW p, Parsed(ls, p)
  PROVE  Parsed(Append(ls, l), ProcessLine(p, l))
<1>1. PICK data, saw, name, out :
        /\ p = ParserOf(data, saw, name, out) /\ Pending(Unended(ls), p, data, saw, name)
        /\ out = EventsIn(ls, named)
  BY DEF Parsed
<1>2. PICK u \in Seq(Filled) : u = Unended(ls) BY GroupsType DEF Grouped
<1>3. /\ data = ValuesOf(DataField, u) /\ saw \in BOOLEAN /\ (saw <=> data # <<>>)
      /\ name = NameOf(u, named)
  BY <1>1, <1>2 DEF Pending
<1>4. PICK ms : ms = Append(ls, l) OBVIOUS
<1>5. PICK w : w = Unended(ms) OBVIOUS
<1>6. (l = <<>> => w = <<>>) /\ (l # <<>> => w = Append(u, l))
  <2>1. GroupsGrow(ls, l, ms) BY <1>2, <1>4, OneLineMore
  <2> QED BY <1>2, <1>5, <2>1 DEF GroupsGrow
<1>7. /\ l = <<>> /\ data # <<>> => EventsIn(ms, named) = Append(out, EventIs(name, data))
      /\ ~(l = <<>> /\ data # <<>>) => EventsIn(ms, named) = out
  <2>1. EventOf(u, named) = EventIs(name, data) BY <1>3, EventOfIs
  <2>2. /\ l = <<>> /\ ValuesOf(DataField, u) # <<>>
              => EventsIn(Append(ls, l), named) = Append(EventsIn(ls, named), EventOf(u, named))
        /\ ~(l = <<>> /\ ValuesOf(DataField, u) # <<>>)
              => EventsIn(Append(ls, l), named) = EventsIn(ls, named)
    BY <1>2, EventsMore
  <2> QED BY <1>1, <1>3, <1>4, <2>1, <2>2
<1>8. PICK next : next = ProcessLine(p, l) OBVIOUS
<1>9. PICK no \in BOOLEAN, yes \in BOOLEAN : ~no /\ yes # no
  <2>1. FALSE \in BOOLEAN /\ TRUE \in BOOLEAN /\ TRUE # FALSE OBVIOUS
  <2> QED BY <2>1
<1>10. Processed(data, saw, name, out, p, l, no, yes, next)
  BY <1>1, <1>3, <1>8, <1>9, LineProcessed
<1>11. CASE l = <<>>
  <2>1. w = <<>> /\ ValuesOf(DataField, <<>>) = <<>> /\ NameOf(<<>>, named) = NoName
    BY <1>6, <1>11, NoValues DEF NameOf
  <2>2. Pending(w, next, <<>>, no, NoName) BY <1>9, <2>1 DEF Pending
  <2>3. CASE saw
    <3>1. /\ next = ParserOf(<<>>, no, NoName, Append(out, EventIs(name, data)))
          /\ EventsIn(ms, named) = Append(out, EventIs(name, data))
      BY <1>3, <1>7, <1>10, <1>11, <2>3 DEF Processed
    <3> QED BY <1>4, <1>5, <1>8, <2>2, <3>1 DEF Parsed
  <2>4. CASE ~saw
    <3>1. next = ParserOf(<<>>, no, NoName, out) /\ EventsIn(ms, named) = out
      BY <1>3, <1>7, <1>10, <1>11, <2>4 DEF Processed
    <3> QED BY <1>4, <1>5, <1>8, <2>2, <3>1 DEF Parsed
  <2> QED BY <2>3, <2>4
<1>12. CASE l # <<>>
  <2>1. w = Append(u, l) /\ l \in Filled BY <1>6, <1>12 DEF Filled
  <2>2. PICK x : x = l[1] OBVIOUS
  <2>3. /\ x = DataField => ValuesOf(DataField, w) = Append(data, Tail(l))
        /\ x # DataField => ValuesOf(DataField, w) = data
    BY <1>3, <2>1, <2>2, ValuesMore
  <2>4. /\ named /\ x = EventField => NameOf(w, named) = Tail(l)
        /\ ~(named /\ x = EventField) => NameOf(w, named) = name
    BY <1>3, <2>1, <2>2, NameMore
  <2>5. EventsIn(ms, named) = out BY <1>7, <1>12
  <2>6. CASE x = DataField
    <3>1. x # EventField BY <2>6, SseConstants
    <3>2. PICK more : more = Append(data, Tail(l)) OBVIOUS
    <3>3. more # <<>>
      <4>1. data \in Seq(Line) BY <1>3, ValuesType
      <4>2. Tail(l) \in Line BY <1>12, HeadTailProperties DEF Line
      <4>3. Len(more) = Len(data) + 1 /\ Len(data) \in Nat BY <3>2, <4>1, <4>2, AppendProperties
      <4> QED BY <4>3
    <3>4. Pending(w, next, more, yes, name) BY <1>9, <2>3, <2>4, <2>6, <3>1, <3>2, <3>3 DEF Pending
    <3>5. next = ParserOf(more, yes, name, out) BY <1>10, <1>12, <2>2, <2>6, <3>2 DEF Processed
    <3> QED BY <1>4, <1>5, <1>8, <2>5, <3>4, <3>5 DEF Parsed
  <2>7. CASE x = EventField /\ named
    <3>1. x # DataField BY <2>7, SseConstants
    <3>2. Pending(w, next, data, saw, Tail(l)) BY <1>3, <2>3, <2>4, <2>7, <3>1 DEF Pending
    <3>3. next = ParserOf(data, saw, Tail(l), out) BY <1>10, <1>12, <2>2, <2>7 DEF Processed
    <3> QED BY <1>4, <1>5, <1>8, <2>5, <3>2, <3>3 DEF Parsed
  <2>8. CASE x # DataField /\ ~(x = EventField /\ named)
    <3>1. Pending(w, next, data, saw, name) BY <1>3, <2>3, <2>4, <2>8 DEF Pending
    <3>2. next = ParserOf(data, saw, name, out) BY <1>1, <1>10, <1>12, <2>2, <2>8 DEF Processed
    <3> QED BY <1>4, <1>5, <1>8, <2>5, <3>1, <3>2 DEF Parsed
  <2> QED BY <2>6, <2>7, <2>8
<1> QED BY <1>11, <1>12

(* Many lines more.                                                        *)
LEMMA ParsedOn ==
  ASSUME NEW ks \in Seq(Line), NEW p, Parsed(ks, p), NEW ls \in Seq(Line)
  PROVE  Parsed(ks \o ls, ReadLines(p, ls))
<1> DEFINE Bad == {m \in Nat : \E q \in Seq(Line) :
                     Len(q) = m /\ ~Parsed(ks \o q, ReadLines(p, q))}
<1> SUFFICES ASSUME Bad # {} PROVE FALSE
  <2>1. Len(ls) \in Nat OBVIOUS
  <2> QED BY <2>1
<1>1. PICK m \in Bad : \A k \in Bad : m <= k
  <2>1. Bad \subseteq Nat OBVIOUS
  <2> HIDE DEF Bad
  <2> QED BY <2>1, LeastNumber
<1>2. PICK q \in Seq(Line) : Len(q) = m /\ ~Parsed(ks \o q, ReadLines(p, q)) BY <1>1
<1>3. CASE q = <<>>
  <2>1. ks \o <<>> = ks /\ ReadLines(p, <<>>) = p BY ConcatEmptySeq, NoLineRead
  <2> QED BY <1>2, <1>3, <2>1
<1>4. CASE q # <<>>
  <2>1. PICK s \in Seq(Line), l \in Line : q = Append(s, l) BY <1>4, SequenceEmptyOrAppend
  <2>2. Len(s) \in Nat /\ m = Len(s) + 1 BY <1>2, <2>1, AppendProperties
  <2>3. PICK before : before = ReadLines(p, s) OBVIOUS
  <2>4. PICK js \in Seq(Line) : js = ks \o s BY ConcatProperties
  <2>5. Parsed(js, before)
    <3>1. ~(m <= Len(s)) BY <2>2
    <3>2. Len(s) \notin Bad BY <1>1, <3>1
    <3> QED BY <2>2, <2>3, <2>4, <3>2
  <2>6. Parsed(Append(js, l), ProcessLine(before, l)) BY <2>5, ParsedMore
  <2>7. ks \o q = Append(js, l)
    <3>1. ks \o Append(s, l) = Append(ks \o s, l) BY ConcatAppend
    <3> QED BY <2>1, <2>4, <3>1
  <2>8. ReadLines(p, q) = ProcessLine(before, l) BY <2>1, <2>3, OneMoreLineRead
  <2> QED BY <1>2, <2>6, <2>7, <2>8
<1> QED BY <1>3, <1>4

-----------------------------------------------------------------------------
(* What takeLines takes at a read and at the end.                          *)

KnownOf(t) == IF AfterCR(t) THEN Front(t) ELSE t
BufferOf(t) == IF AfterCR(t) THEN Append(Rest(KnownOf(t)), CR) ELSE Rest(t)

LEMMA FrontOfAppend ==
  ASSUME NEW X, NEW s \in Seq(X), NEW x \in X
  PROVE  Front(Append(s, x)) = s /\ Last(Append(s, x)) = x /\ Append(s, x) # <<>>
<1>1. Len(s) \in Nat /\ Len(Append(s, x)) = Len(s) + 1 /\ Append(s, x)[Len(s) + 1] = x
  BY AppendProperties
<1>2. 1 \in 1 .. Len(s) + 1 /\ Len(s) \in 0 .. Len(s) BY <1>1
<1>3. SubSeq(Append(s, x), 1, Len(s)) = SubSeq(s, 1, Len(s)) BY <1>2, SubSeqMore
<1>4. SubSeq(s, 1, Len(s)) = s BY SubSeqFull
<1>5. PICK q : q = Append(s, x) OBVIOUS
<1>6. Len(q) - 1 = Len(s) BY <1>1, <1>5
<1>7. Front(q) = s BY <1>3, <1>4, <1>5, <1>6 DEF Front
<1>8. Last(q) = x BY <1>1, <1>5 DEF Last
<1>9. q # <<>> BY <1>1, <1>5
<1> QED BY <1>5, <1>7, <1>8, <1>9

LEMMA CRIsPiece == CR \in Pieces /\ LF \in Pieces /\ CR \notin LinePieces /\ LF \notin LinePieces
BY SseConstants DEF Pieces, LinePieces

(* A text is its complete part and perhaps a CR, and so is the buffer.     *)
Halved(t, k, cr) ==
  /\ t = k \o cr /\ BufferOf(t) = Rest(k) \o cr
  /\ cr = <<>> \/ cr = <<CR>>
  /\ AfterCR(k) => cr = <<CR>>

LEMMA TextHalved ==
  ASSUME NEW t \in Seq(Pieces), NEW k, k = KnownOf(t)
  PROVE  /\ k \in Seq(Pieces) /\ Rest(k) \in Seq(LinePieces)
         /\ \E cr \in Seq(Pieces) : Halved(t, k, cr)
<1>1. CASE AfterCR(t)
  <2>1. t # <<>> /\ Last(t) = CR BY <1>1 DEF AfterCR
  <2>2. PICK s \in Seq(Pieces), x \in Pieces : t = Append(s, x) BY <2>1, SequenceEmptyOrAppend
  <2>3. Front(t) = s /\ x = CR BY <2>1, <2>2, FrontOfAppend
  <2>4. k = s BY <1>1, <2>3 DEF KnownOf
  <2>5. PICK rest \in Seq(LinePieces) : rest = Rest(s) BY ScanIs DEF ScannedWell
  <2>6. BufferOf(t) = Append(rest, CR) BY <1>1, <2>4, <2>5 DEF BufferOf
  <2>7. Append(rest, CR) = rest \o <<CR>>
    <3>1. rest \in Seq(Pieces)
      <4>1. LinePieces \subseteq Pieces BY DEF Pieces
      <4> QED BY <4>1, SeqMonotonic
    <3> QED BY <3>1, CRIsPiece, AppendIsConcat
  <2>8. t = s \o <<CR>> BY <2>2, <2>3, AppendIsConcat
  <2>9. <<CR>> \in Seq(Pieces) BY CRIsPiece
  <2> QED BY <2>4, <2>5, <2>6, <2>7, <2>8, <2>9 DEF Halved
<1>2. CASE ~AfterCR(t)
  <2>1. k = t /\ BufferOf(t) = Rest(t) BY <1>2 DEF KnownOf, BufferOf
  <2>2. PICK rest \in Seq(LinePieces) : rest = Rest(t) BY ScanIs DEF ScannedWell
  <2>3. t \o <<>> = t /\ rest \o <<>> = rest BY ConcatEmptySeq
  <2>4. <<>> \in Seq(Pieces) OBVIOUS
  <2> QED BY <1>2, <2>1, <2>2, <2>3, <2>4 DEF Halved
<1> QED BY <1>1, <1>2

LEMMA TakenIs ==
  ASSUME NEW t \in Seq(Pieces), NEW k, k = KnownOf(t), NEW eof \in BOOLEAN
  PROVE  /\ ~eof => /\ TakeLines(t, eof).lines = Lines(k)
                    /\ TakeLines(t, eof).rest = BufferOf(t)
         /\ eof => /\ TakeLines(t, eof).lines = Lines(t)
                   /\ TakeLines(t, eof).rest = Rest(t)
<1>1. k \in Seq(Pieces) BY TextHalved
<1>2. PICK a, b : a = Scan(t) /\ b = Scan(k) OBVIOUS
<1>3. /\ a.lines = Lines(t) /\ a.line = Rest(t) /\ b.lines = Lines(k) /\ b.line = Rest(k)
  <2>1. a = Scanned(Lines(t), Rest(t), AfterCR(t)) BY <1>2, ScanIs DEF ScannedWell
  <2>2. b = Scanned(Lines(k), Rest(k), AfterCR(k)) BY <1>1, <1>2, ScanIs DEF ScannedWell
  <2> QED BY <2>1, <2>2 DEF Scanned
<1>4. PICK taken : taken = TakeLines(t, eof) OBVIOUS
<1>5. CASE ~eof /\ AfterCR(t)
  <2>1. Front(t) = k BY <1>5 DEF KnownOf
  <2>2. taken = [lines |-> b.lines, rest |-> Append(b.line, CR)]
    BY <1>2, <1>4, <1>5, <2>1, Zenon DEF TakeLines, AfterCR
  <2>3. taken.lines = b.lines /\ taken.rest = Append(b.line, CR) BY <2>2
  <2> QED BY <1>3, <1>4, <1>5, <2>3 DEF BufferOf
<1>6. CASE eof \/ ~AfterCR(t)
  <2>1. taken = [lines |-> a.lines, rest |-> a.line]
    BY <1>2, <1>4, <1>6, Zenon DEF TakeLines, AfterCR
  <2>2. taken.lines = a.lines /\ taken.rest = a.line BY <2>1
  <2>3. ~AfterCR(t) => k = t /\ BufferOf(t) = Rest(t) BY DEF KnownOf, BufferOf
  <2> QED BY <1>2, <1>3, <1>4, <1>6, <2>2, <2>3
<1> QED BY <1>5, <1>6

(* The complete part of what a read makes of the text.                     *)
Resumes(k, b, c) ==
  /\ b \in Seq(Pieces) /\ c \in Seq(Pieces)
  /\ Lines(KnownOf(c)) = Lines(k) \o Lines(KnownOf(b))
  /\ BufferOf(c) = BufferOf(b)

LEMMA KnownMore ==
  ASSUME NEW t \in Seq(Pieces), NEW k, k = KnownOf(t), NEW more \in Seq(Pieces),
         NEW c, c = t \o more, NEW b, b = BufferOf(t) \o more
  PROVE  Resumes(k, b, c)
<1>1. k \in Seq(Pieces) /\ Rest(k) \in Seq(LinePieces) BY TextHalved
<1>2. PICK r \in Seq(Pieces) : r = Rest(k) /\ r \in Seq(LinePieces)
  <2>1. LinePieces \subseteq Pieces BY DEF Pieces
  <2> QED BY <1>1, <2>1, SeqMonotonic
<1>3. PICK cr \in Seq(Pieces) : Halved(t, k, cr) BY TextHalved
<1>4. PICK u \in Seq(Pieces) : u = cr \o more BY ConcatProperties
<1>5. c = k \o u
  <2>1. (k \o cr) \o more = k \o (cr \o more)
    <3>1. PICK h \in Seq(Pieces) : h = k BY <1>1
    <3>2. (h \o cr) \o more = h \o (cr \o more) BY TextsAssociate, ZenonT(60)
    <3> QED BY <3>1, <3>2
  <2> QED BY <1>3, <1>4, <2>1 DEF Halved
<1>6. b = r \o u
  <2>1. (r \o cr) \o more = r \o (cr \o more) BY TextsAssociate, ZenonT(60)
  <2> QED BY <1>2, <1>3, <1>4, <2>1 DEF Halved
<1>7. b \in Seq(Pieces) /\ c \in Seq(Pieces) BY <1>1, <1>5, <1>6, ConcatProperties
<1>8. AfterCR(k) => u # <<>> /\ u[1] = CR
  <2>1. <<CR>> \in Seq(Pieces) BY CRIsPiece
  <2>2. Len(<<CR>>) = 1 /\ <<CR>>[1] = CR /\ Len(more) \in Nat OBVIOUS
  <2>3. 1 \in 1 .. Len(<<CR>>) + Len(more) BY <2>2
  <2>4. PICK w : w = <<CR>> \o more OBVIOUS
  <2>5. Len(w) = 1 + Len(more) /\ w[1] = CR BY <2>1, <2>2, <2>3, <2>4, ConcatProperties
  <2>6. w # <<>> BY <2>2, <2>5
  <2> QED BY <1>3, <1>4, <2>4, <2>5, <2>6 DEF Halved
<1>9. Unterminated(r) BY <1>2, NoTerminator
<1>10. CASE u = <<>>
  <2>1. c = k /\ b = r BY <1>1, <1>5, <1>6, <1>10, ConcatEmptySeq
  <2>2. ~AfterCR(k) /\ ~AfterCR(r) BY <1>8, <1>9, <1>10 DEF Unterminated
  <2>3. KnownOf(c) = k /\ KnownOf(b) = r /\ BufferOf(c) = Rest(k) /\ BufferOf(b) = Rest(r)
    BY <2>1, <2>2 DEF KnownOf, BufferOf
  <2>4. Lines(r) = <<>> /\ Rest(r) = r BY <1>9 DEF Unterminated
  <2>5. Lines(k) \o <<>> = Lines(k)
    <3>1. Lines(k) \in Seq(Seq(LinePieces)) BY <1>1, ScanIs DEF ScannedWell
    <3> QED BY <3>1, ConcatEmptySeq
  <2> QED BY <1>2, <1>7, <2>3, <2>4, <2>5 DEF Resumes
<1>11. CASE u # <<>>
  <2>1. PICK v \in Seq(Pieces), x \in Pieces : u = Append(v, x) BY <1>11, SequenceEmptyOrAppend
  <2>2. /\ Len(v) \in Nat /\ u[Len(v) + 1] = x /\ \A i \in 1 .. Len(v) : u[i] = v[i]
    BY <2>1, AppendProperties
  <2>3. Continues(k, u) BY <1>8, SseConstants DEF Continues
  <2>4. Continues(k, v)
    <3>1. v # <<>> => 1 \in 1 .. Len(v) BY <2>2, EmptySeq
    <3>2. v # <<>> => v[1] = u[1] BY <2>2, <3>1
    <3> QED BY <1>8, <3>2, SseConstants DEF Continues
  <2>5. PICK kv \in Seq(Pieces), rv \in Seq(Pieces) : kv = k \o v /\ rv = r \o v
    BY <1>1, ConcatProperties
  <2>6. c = Append(kv, x)
    <3>1. k \o Append(v, x) = Append(k \o v, x) BY <1>1, TextsAppend, ZenonT(60)
    <3> QED BY <1>5, <2>1, <2>5, <3>1
  <2>7. b = Append(rv, x)
    <3>1. r \o Append(v, x) = Append(r \o v, x) BY TextsAppend, ZenonT(60)
    <3> QED BY <1>6, <2>1, <2>5, <3>1
  <2>8. c # <<>> /\ Last(c) = x /\ Front(c) = kv BY <2>6, FrontOfAppend
  <2>9. b # <<>> /\ Last(b) = x /\ Front(b) = rv BY <2>7, FrontOfAppend
  <2>10. (AfterCR(c) <=> x = CR) /\ (AfterCR(b) <=> x = CR) BY <2>8, <2>9 DEF AfterCR
  <2>11. ReadsAfter(k, r, u) BY <1>1, <1>2, <2>3, Restart
  <2>12. ReadsAfter(k, r, v) BY <1>1, <1>2, <2>4, Restart
  <2>13. CASE x = CR
    <3>1. KnownOf(c) = kv /\ KnownOf(b) = rv BY <2>8, <2>9, <2>10, <2>13 DEF KnownOf
    <3>2. Lines(kv) = Lines(k) \o Lines(rv) /\ Rest(kv) = Rest(rv)
      BY <2>5, <2>12 DEF ReadsAfter
    <3>3. BufferOf(c) = Append(Rest(kv), CR) /\ BufferOf(b) = Append(Rest(rv), CR)
      BY <2>10, <2>13, <3>1 DEF BufferOf
    <3> QED BY <1>7, <3>1, <3>2, <3>3 DEF Resumes
  <2>14. CASE x # CR
    <3>1. KnownOf(c) = c /\ KnownOf(b) = b BY <2>10, <2>14 DEF KnownOf
    <3>2. Lines(c) = Lines(k) \o Lines(b) /\ Rest(c) = Rest(b) BY <1>5, <1>6, <2>11 DEF ReadsAfter
    <3>3. BufferOf(c) = Rest(c) /\ BufferOf(b) = Rest(b) BY <2>10, <2>14 DEF BufferOf
    <3> QED BY <1>7, <3>1, <3>2, <3>3 DEF Resumes
  <2> QED BY <2>13, <2>14
<1> QED BY <1>10, <1>11

(* All of the text, at its end.                                            *)
EndsAlike(t, k, b) ==
  /\ b \in Seq(Pieces)
  /\ Lines(t) = Lines(k) \o Lines(b) /\ Rest(t) = Rest(b)

LEMMA AllKnown ==
  ASSUME NEW t \in Seq(Pieces), NEW k, k = KnownOf(t), NEW b, b = BufferOf(t)
  PROVE  EndsAlike(t, k, b)
<1>1. k \in Seq(Pieces) /\ Rest(k) \in Seq(LinePieces) BY TextHalved
<1>2. PICK r \in Seq(Pieces) : r = Rest(k)
  <2>1. LinePieces \subseteq Pieces BY DEF Pieces
  <2> QED BY <1>1, <2>1, SeqMonotonic
<1>3. PICK cr \in Seq(Pieces) : Halved(t, k, cr) BY TextHalved
<1>4. cr # <<>> => cr[1] = CR
  <2>1. <<CR>>[1] = CR OBVIOUS
  <2> QED BY <1>3, <2>1 DEF Halved
<1>5. Continues(k, cr) BY <1>4, SseConstants DEF Continues
<1>6. ReadsAfter(k, r, cr) BY <1>1, <1>2, <1>5, Restart
<1>7. t = k \o cr /\ b = r \o cr BY <1>2, <1>3 DEF Halved
<1>8. b \in Seq(Pieces) BY <1>7, ConcatProperties
<1> QED BY <1>6, <1>7, <1>8 DEF ReadsAfter, EndsAlike

-----------------------------------------------------------------------------
(* The readers.                                                            *)

(* The buffer is what no line has taken yet, a CR at its end included, and *)
(* the parser is where the complete lines left it.                         *)
FramingInv ==
  /\ received \in Seq(Pieces)
  /\ yielded \in Seq(SentEvent)
  /\ reader = "reading" => buffer = BufferOf(received) /\ Parsed(Lines(KnownOf(received)), Parser)
  /\ EventsOfTheText

LEMMA TextEnds ==
  ASSUME NEW t \in Seq(Pieces)
  PROVE  /\ Rest(t) # <<>> => t # <<>> /\ Last(t) \in LinePieces
         /\ Rest(t) = <<>> => t = <<>> \/ Last(t) \in {CR, LF}
<1>1. CASE t = <<>> BY <1>1, NoPieces
<1>2. CASE t # <<>>
  <2>1. PICK s \in Seq(Pieces), x \in Pieces : t = Append(s, x) BY <1>2, SequenceEmptyOrAppend
  <2>2. Last(t) = x BY <2>1, FrontOfAppend
  <2>3. GrowsBy(s, x, t) BY <2>1, OnePieceMore
  <2>4. PICK rest \in Seq(LinePieces) : rest = Rest(s) BY ScanIs DEF ScannedWell
  <2>5. x \in LinePieces => Append(rest, x) # <<>> BY FrontOfAppend
  <2> QED BY <1>2, <2>2, <2>3, <2>4, <2>5 DEF GrowsBy, Pieces
<1> QED BY <1>1, <1>2

(* What a parser has yielded, and what it has pending.                     *)
LEMMA ParsedYields ==
  ASSUME NEW t \in Seq(Pieces), NEW p, Parsed(Lines(t), p), NEW left, left = Leftover(t, named)
  PROVE  /\ p.yielded = Events(t, named) /\ p.yielded \in Seq(SentEvent)
         /\ AtSentinel(p) <=> IsSentinel(left)
         /\ AtSentinel(p) => Event(p) = left /\ left \in SentEvent
<1>1. PICK data, saw, name, out :
        /\ p = ParserOf(data, saw, name, out) /\ Pending(Unended(Lines(t)), p, data, saw, name)
        /\ out = EventsIn(Lines(t), named)
  BY DEF Parsed
<1>2. Lines(t) \in Seq(Line) BY ScanIs DEF ScannedWell, Line
<1>3. PICK u \in Seq(Filled) : u = Unended(Lines(t)) BY <1>2, GroupsType DEF Grouped
<1>4. /\ data = ValuesOf(DataField, u) /\ saw \in BOOLEAN /\ (saw <=> data # <<>>)
      /\ name = NameOf(u, named)
  BY <1>1, <1>3 DEF Pending
<1>5. p.dataLines = data /\ p.sawData = saw /\ p.eventName = name /\ p.yielded = out
  BY <1>1 DEF ParserOf
<1>6. left = EventOf(u, named) BY <1>3 DEF Leftover
<1>7. left = EventIs(name, data) /\ left.event = name /\ left.data = data
  BY <1>4, <1>6, EventOfIs
<1>8. AtSentinel(p) <=> IsSentinel(left) BY <1>4, <1>5, <1>7 DEF AtSentinel, IsSentinel
<1>9. Event(p) = EventIs(name, data) BY <1>5, Zenon DEF Event, EventIs
<1>10. data \in Seq(Line) /\ name \in {NoName} \cup Line BY <1>4, ValuesType, NameType
<1>11. data # <<>> => left \in SentEvent BY <1>7, <1>10 DEF SentEvent, EventIs
<1>12. AtSentinel(p) => data # <<>> BY <1>4, <1>5 DEF AtSentinel
<1>13. out = Events(t, named) BY <1>1, EventsAreViews
<1>14. out \in Seq(SentEvent)
  <2>1. <<>> \in Line BY DEF Line
  <2> QED BY <1>1, <1>2, <2>1, EventsMore
<1> QED BY <1>5, <1>7, <1>8, <1>9, <1>11, <1>12, <1>13, <1>14

LEMMA ParsedFrom ==
  ASSUME NEW t \in Seq(Pieces), NEW s \in Seq(Pieces), NEW more \in Seq(Pieces),
         Lines(t) = Lines(s) \o Lines(more), NEW p, Parsed(Lines(s), p)
  PROVE  Parsed(Lines(t), ReadLines(p, Lines(more)))
<1>1. PICK ks \in Seq(Line), ls \in Seq(Line) : ks = Lines(s) /\ ls = Lines(more)
  BY ScanIs DEF ScannedWell, Line
<1>2. Parsed(ks \o ls, ReadLines(p, ls)) BY <1>1, ParsedOn
<1> QED BY <1>1, <1>2

LEMMA NoEventYet == EventsIn(<<>>, named) = <<>> /\ Unended(<<>>) = <<>>
BY NoEvents, NoLines

LEMMA FramingStarts == FramingInit => FramingInv
<1> SUFFICES ASSUME FramingInit PROVE FramingInv
  OBVIOUS
<1>1. received = <<>> /\ buffer = <<>> /\ yielded = <<>> /\ reader = "reading" BY DEF FramingInit
<1>2. <<>> \in Seq(Pieces) /\ <<>> \in Seq(SentEvent) OBVIOUS
<1>3. ~AfterCR(<<>>) /\ Lines(<<>>) = <<>> /\ Rest(<<>>) = <<>> BY NoPieces
<1>4. KnownOf(<<>>) = <<>> /\ BufferOf(<<>>) = <<>> BY <1>3 DEF KnownOf, BufferOf
<1>5. Events(<<>>, named) = <<>> BY <1>2, <1>3, EventsAreViews, NoEventYet
<1>6. Known = <<>> BY <1>1 DEF Known
<1>7. <<>> \o <<>> = <<>> BY <1>2, ConcatEmptySeq
<1>8. EventsOfTheText BY <1>1, <1>5, <1>6, <1>7 DEF EventsOfTheText
<1>9. Parsed(<<>>, Parser)
  <2>1. dataLines = <<>> /\ sawData = FALSE /\ eventName = NoName BY DEF FramingInit
  <2>2. PICK no \in BOOLEAN : no = FALSE OBVIOUS
  <2>3. Parser = ParserOf(<<>>, no, NoName, <<>>)
    BY <1>1, <2>1, <2>2, Zenon DEF Parser, ParserOf
  <2>4. Pending(<<>>, Parser, <<>>, no, NoName) BY <2>2, NoValues DEF Pending, NameOf
  <2> QED BY <2>3, <2>4, NoEventYet DEF Parsed
<1> QED BY <1>1, <1>2, <1>3, <1>4, <1>8, <1>9 DEF FramingInv

LEMMA FramingRead ==
  ASSUME FramingInv, NEW text \in Seq(Pieces), Read(text)
  PROVE  FramingInv'
<1>1. PICK t \in Seq(Pieces) : t = received BY DEF FramingInv
<1>2. PICK k : k = KnownOf(t) OBVIOUS
<1>3. PICK p : p = Parser OBVIOUS
<1>4. reader = "reading" /\ buffer = BufferOf(t) /\ Parsed(Lines(k), p)
  BY <1>1, <1>2, <1>3 DEF FramingInv, Read
<1>5. PICK c, b : c = t \o text /\ b = BufferOf(t) \o text OBVIOUS
<1>6. PICK j : j = KnownOf(b) OBVIOUS
<1>7. /\ b \in Seq(Pieces) /\ c \in Seq(Pieces)
      /\ Lines(KnownOf(c)) = Lines(k) \o Lines(j) /\ BufferOf(c) = BufferOf(b)
  <2>1. Resumes(k, b, c) BY <1>2, <1>5, KnownMore
  <2> QED BY <1>6, <2>1 DEF Resumes
<1>8. PICK eof \in BOOLEAN : ~eof /\ eof = FALSE OBVIOUS
<1>9. PICK taken : taken = TakeLines(b, eof) OBVIOUS
<1>10. taken.lines = Lines(j) /\ taken.rest = BufferOf(b) BY <1>6, <1>7, <1>8, <1>9, TakenIs
<1>11. PICK next : next = ReadLines(p, Lines(j)) OBVIOUS
<1>12. /\ received' = c /\ buffer' = taken.rest /\ reader' = reader /\ named' = named
       /\ Becomes(FoldLeft(ProcessLine, Parser, taken.lines))
  BY <1>1, <1>4, <1>5, <1>8, <1>9, Zenon DEF Read
<1>13. Becomes(next) BY <1>3, <1>10, <1>11, <1>12, Zenon DEF ReadLines
<1>14. k \in Seq(Pieces) /\ j \in Seq(Pieces) /\ KnownOf(c) \in Seq(Pieces)
  BY <1>1, <1>2, <1>6, <1>7, TextHalved
<1>15. Parsed(Lines(KnownOf(c)), next) BY <1>4, <1>7, <1>11, <1>14, ParsedFrom
<1>16. PICK n \in Seq(Pieces) : n = KnownOf(c) BY <1>14
<1>17. next.yielded = Events(n, named) /\ next.yielded \in Seq(SentEvent)
  BY <1>15, <1>16, ParsedYields
<1>18. Parser' = next
  <2>1. PICK data, saw, name, out : next = ParserOf(data, saw, name, out) BY <1>15 DEF Parsed
  <2>2. /\ next.dataLines = data /\ next.sawData = saw /\ next.eventName = name
        /\ next.yielded = out
    BY <2>1 DEF ParserOf
  <2>3. dataLines' = data /\ sawData' = saw /\ eventName' = name /\ yielded' = out
    BY <1>13, <2>2 DEF Becomes
  <2>4. Parser' = ParserOf(data, saw, name, out) BY <2>3, Zenon DEF Parser, ParserOf
  <2> QED BY <2>1, <2>4
<1>19. yielded' = Events(n, named) BY <1>13, <1>17 DEF Becomes
<1>20. Known' = n
  <2>1. Known' = IF reader' = "reading" /\ c # <<>> /\ Last(c) = CR THEN Front(c) ELSE c
    BY <1>12 DEF Known
  <2>2. n = IF c # <<>> /\ Last(c) = CR THEN Front(c) ELSE c BY <1>16 DEF KnownOf, AfterCR
  <2> QED BY <1>4, <1>12, <2>1, <2>2
<1>21. EventsOfTheText'
  <2>1. Events(n, named) \o <<>> = Events(n, named) BY <1>17, ConcatEmptySeq
  <2> QED BY <1>4, <1>12, <1>19, <1>20, <2>1 DEF EventsOfTheText
<1>22. Parsed(Lines(KnownOf(received)), Parser)'
  BY <1>12, <1>15, <1>18 DEF Parsed, Pending
<1>23. yielded' \in Seq(SentEvent) BY <1>17, <1>19
<1>24. buffer' = BufferOf(c) BY <1>7, <1>10, <1>12
<1> QED BY <1>7, <1>12, <1>21, <1>22, <1>23, <1>24 DEF FramingInv

LEMMA FramingEnds ==
  ASSUME FramingInv, EndOfBody
  PROVE  FramingInv'
<1>1. PICK t \in Seq(Pieces) : t = received BY DEF FramingInv
<1>2. PICK k : k = KnownOf(t) OBVIOUS
<1>3. PICK p : p = Parser OBVIOUS
<1>4. reader = "reading" /\ buffer = BufferOf(t) /\ Parsed(Lines(k), p)
  BY <1>1, <1>2, <1>3 DEF FramingInv, EndOfBody
<1>5. PICK b : b = BufferOf(t) OBVIOUS
<1>6. /\ b \in Seq(Pieces)
      /\ Lines(t) = Lines(k) \o Lines(b) /\ Rest(t) = Rest(b)
  <2>1. EndsAlike(t, k, b) BY <1>2, <1>5, AllKnown
  <2> QED BY <2>1 DEF EndsAlike
<1>7. PICK eof \in BOOLEAN : eof /\ eof = TRUE OBVIOUS
<1>8. PICK taken : taken = TakeLines(b, eof) OBVIOUS
<1>9. taken.lines = Lines(b) /\ taken.rest = Rest(t) BY <1>6, <1>7, <1>8, TakenIs
<1>10. PICK next : next = ReadLines(p, Lines(b)) OBVIOUS
<1>11. PICK out : out = IF AtSentinel(next) THEN [next EXCEPT !.yielded = Append(@, Event(next))]
                        ELSE next
  OBVIOUS
<1>12. /\ received' = t /\ named' = named
       /\ IF taken.rest # <<>> THEN reader' = "truncated" /\ Becomes(next)
          ELSE reader' = "done" /\ Becomes(out)
  <2>1. FoldLeft(ProcessLine, Parser, taken.lines) = next
    BY <1>3, <1>9, <1>10, Zenon DEF ReadLines
  <2>2. taken = TakeLines(buffer, TRUE) BY <1>4, <1>5, <1>7, <1>8, Zenon
  <2> QED BY <1>1, <1>11, <2>1, <2>2, Zenon DEF EndOfBody
<1>13. k \in Seq(Pieces) BY <1>2, TextHalved
<1>14. Parsed(Lines(t), next) BY <1>4, <1>6, <1>10, <1>13, ParsedFrom
<1>15. PICK left : left = Leftover(t, named) OBVIOUS
<1>16. /\ next.yielded = Events(t, named) /\ next.yielded \in Seq(SentEvent)
       /\ AtSentinel(next) <=> IsSentinel(left)
       /\ AtSentinel(next) => Event(next) = left /\ left \in SentEvent
  BY <1>14, <1>15, ParsedYields
<1>17. PICK es \in Seq(SentEvent) : es = Events(t, named) BY <1>16
<1>18. reader' # "reading" => Known' = t BY <1>12 DEF Known
<1>19. IsSentinel(left)' <=> IsSentinel(left) BY <1>12 DEF IsSentinel
<1>20. es \o <<>> = es BY ConcatEmptySeq
<1>21. CASE taken.rest # <<>>
  <2>1. reader' = "truncated" /\ yielded' = es BY <1>12, <1>16, <1>17, <1>21 DEF Becomes
  <2>2. t # <<>> /\ Last(t) \in LinePieces BY <1>9, <1>21, TextEnds
  <2>3. EventsOfTheText' BY <1>12, <1>17, <1>18, <1>20, <2>1, <2>2 DEF EventsOfTheText
  <2> QED BY <1>12, <2>1, <2>3 DEF FramingInv
<1>22. CASE taken.rest = <<>>
  <2>1. reader' = "done" /\ yielded' = out.yielded BY <1>12, <1>22 DEF Becomes
  <2>2. t = <<>> \/ Last(t) \in {CR, LF} BY <1>9, <1>22, TextEnds
  <2>3. CASE IsSentinel(left)
    <3>1. AtSentinel(next) /\ Event(next) = left /\ left \in SentEvent BY <1>16, <2>3
    <3>2. PICK data, saw, name, before : next = ParserOf(data, saw, name, before)
      BY <1>14 DEF Parsed
    <3>3. next.yielded = before /\ before = es BY <1>16, <1>17, <3>2 DEF ParserOf
    <3>4. out = SetOut(next, Append(es, left))
      BY <1>11, <3>1, <3>3, Zenon DEF SetOut
    <3>5. out = ParserOf(data, saw, name, Append(es, left)) BY <3>2, <3>4, ParserSet
    <3>6. out.yielded = Append(es, left) BY <3>5 DEF ParserOf
    <3>7. Append(es, left) = es \o <<left>> /\ Append(es, left) \in Seq(SentEvent)
      BY <3>1, AppendIsConcat, AppendProperties
    <3>8. yielded' = es \o <<left>> BY <2>1, <3>6, <3>7
    <3>9. EventsOfTheText'
      BY <1>12, <1>15, <1>17, <1>18, <1>19, <2>1, <2>2, <2>3, <3>8 DEF EventsOfTheText
    <3> QED BY <1>12, <2>1, <3>6, <3>7, <3>9 DEF FramingInv
  <2>4. CASE ~IsSentinel(left)
    <3>1. out = next BY <1>11, <1>16, <2>4
    <3>2. yielded' = es BY <1>16, <1>17, <2>1, <3>1
    <3>3. EventsOfTheText'
      BY <1>12, <1>15, <1>17, <1>18, <1>19, <1>20, <2>1, <2>2, <2>4, <3>2 DEF EventsOfTheText
    <3> QED BY <1>12, <2>1, <3>2, <3>3 DEF FramingInv
  <2> QED BY <2>3, <2>4
<1> QED BY <1>21, <1>22

LEMMA FramingCancels ==
  ASSUME FramingInv, Cancel
  PROVE  FramingInv'
<1>1. reader' = "cancelled" /\ received' = received /\ yielded' = yielded BY DEF Cancel
<1>2. EventsOfTheText' BY <1>1 DEF EventsOfTheText
<1> QED BY <1>1, <1>2 DEF FramingInv

LEMMA FramingSteps == FramingInv /\ [FramingNext]_framingVars => FramingInv'
<1> SUFFICES ASSUME FramingInv, [FramingNext]_framingVars PROVE FramingInv'
  OBVIOUS
<1>1. CASE \E text \in UNION {[1 .. n -> Pieces] : n \in 0 .. MaxRead} : Read(text)
  <2>1. PICK n \in 0 .. MaxRead : \E text \in [1 .. n -> Pieces] : Read(text) BY <1>1
  <2>2. PICK text \in [1 .. n -> Pieces] : Read(text) BY <2>1
  <2>3. n \in Nat OBVIOUS
  <2>4. text \in Seq(Pieces) BY <2>2, <2>3, FunctionIsSeq
  <2> QED BY <2>2, <2>4, FramingRead
<1>2. CASE EndOfBody BY <1>2, FramingEnds
<1>3. CASE Cancel BY <1>3, FramingCancels
<1>4. CASE UNCHANGED framingVars
  <2>1. /\ named' = named /\ reader' = reader /\ received' = received /\ buffer' = buffer
        /\ yielded' = yielded /\ Parser' = Parser
    BY <1>4 DEF framingVars, pending, Parser
  <2>2. EventsOfTheText'
    <3>1. Known' = Known BY <2>1 DEF Known
    <3>2. \A e : IsSentinel(e)' <=> IsSentinel(e) BY <2>1 DEF IsSentinel
    <3>3. EventsOfTheText BY DEF FramingInv
    <3> QED BY <2>1, <3>1, <3>2, <3>3 DEF EventsOfTheText
  <2>3. Parsed(Lines(KnownOf(received)), Parser) => Parsed(Lines(KnownOf(received)), Parser)'
    BY <2>1 DEF Parsed, Pending
  <2> QED BY <2>1, <2>2, <2>3 DEF FramingInv
<1> QED BY <1>1, <1>2, <1>3, <1>4 DEF FramingNext

(* However long the text and however its bytes are cut into reads,         *)
(* parseSseData and parseSseEvents yield the events of the whole text, as  *)
(* soon as they are known; its end adds at most a pending sentinel, and is *)
(* an SseTruncationError exactly within a line.                            *)
THEOREM EventsAreOfTheText == FramingSpec => []EventsOfTheText
<1>1. FramingInit => FramingInv BY FramingStarts
<1>2. FramingInv /\ [FramingNext]_framingVars => FramingInv' BY FramingSteps
<1>3. FramingInv => EventsOfTheText BY DEF FramingInv
<1> QED BY <1>1, <1>2, <1>3, PTL DEF FramingSpec

-----------------------------------------------------------------------------
(* The frames.                                                             *)

Framed == [l \in Line |-> <<DataField>> \o l \o <<LF>>]

LEMMA FramedLine ==
  ASSUME NEW l \in Line
  PROVE  /\ Framed[l] \in Seq(Pieces) /\ ~AfterCR(Framed[l]) /\ Rest(Framed[l]) = <<>>
         /\ \E x \in Filled : Lines(Framed[l]) = <<x>> /\ x[1] = DataField /\ Tail(x) = l
<1>1. DataField \in LinePieces /\ LF \in Pieces /\ LF # CR BY CRIsPiece, SseConstants DEF LinePieces
<1>2. <<DataField>> \in Seq(LinePieces) /\ l \in Seq(LinePieces) BY <1>1 DEF Line
<1>3. PICK x \in Seq(LinePieces) : x = <<DataField>> \o l BY <1>2, ConcatProperties
<1>4. Len(<<DataField>>) = 1 /\ <<DataField>>[1] = DataField /\ Len(l) \in Nat BY <1>2
<1>5. /\ Len(x) = 1 + Len(l)
      /\ \A i \in 1 .. 1 + Len(l) : x[i] = IF i <= 1 THEN <<DataField>>[i] ELSE l[i - 1]
  BY <1>2, <1>3, <1>4, ConcatProperties
<1>6. x # <<>> /\ x[1] = DataField BY <1>4, <1>5
<1>7. Tail(x) = l
  <2>1. PICK tail : tail = Tail(x) OBVIOUS
  <2>2. /\ tail \in Seq(LinePieces) /\ Len(tail) = Len(x) - 1
        /\ \A i \in 1 .. Len(tail) : tail[i] = x[i + 1]
    BY <1>6, <2>1, HeadTailProperties
  <2>3. Len(tail) = Len(l) BY <1>4, <1>5, <2>2
  <2>4. ASSUME NEW i \in 1 .. Len(tail) PROVE tail[i] = l[i]
    <3>1. i + 1 \in 1 .. 1 + Len(l) /\ ~(i + 1 <= 1) /\ (i + 1) - 1 = i BY <1>4, <2>3
    <3>2. x[i + 1] = l[(i + 1) - 1] BY <1>5, <3>1
    <3> QED BY <2>2, <3>1, <3>2
  <2>5. tail = l BY <1>2, <2>2, <2>3, <2>4, SeqEqual
  <2> QED BY <2>1, <2>5
<1>8. x \in Seq(Pieces)
  <2>1. LinePieces \subseteq Pieces BY DEF Pieces
  <2> QED BY <2>1, SeqMonotonic
<1>9. PICK t : t = Append(x, LF) OBVIOUS
<1>10. Framed[l] = t
  <2>1. Framed[l] = <<DataField>> \o l \o <<LF>> BY DEF Framed
  <2>2. t = x \o <<LF>> BY <1>1, <1>8, <1>9, AppendIsConcat
  <2> QED BY <1>3, <2>1, <2>2
<1>11. GrowsBy(x, LF, t) BY <1>1, <1>8, <1>9, OnePieceMore
<1>12. Unterminated(x) BY NoTerminator
<1>13. /\ Lines(t) = Append(<<>>, x) /\ Rest(t) = <<>> /\ ~AfterCR(t)
  BY <1>1, <1>11, <1>12 DEF GrowsBy, Unterminated
<1>14. Append(<<>>, x) = <<x>> OBVIOUS
<1>15. x \in Filled BY <1>6 DEF Filled, Line
<1>16. t \in Seq(Pieces) BY <1>1, <1>8, <1>9, AppendProperties
<1> QED BY <1>6, <1>7, <1>10, <1>13, <1>14, <1>15, <1>16

LEMMA FramedType == Framed \in [Line -> Seq(Pieces)]
<1>1. \A l \in Line : Framed[l] \in Seq(Pieces) BY FramedLine
<1> QED BY <1>1 DEF Framed

(* The lines of a frame are the data: lines of its payload.                *)
Body(p) == Views(Framed, p)

Restored(p, ls) ==
  /\ ls \in Seq(Line) /\ Groups(ls) = <<>> /\ Unended(ls) \in Seq(Filled)
  /\ ValuesOf(DataField, Unended(ls)) = p

FramedWell(p) ==
  /\ Body(p) \in Seq(Pieces) /\ ~AfterCR(Body(p)) /\ Rest(Body(p)) = <<>>
  /\ Restored(p, Lines(Body(p)))

LEMMA BodyMore ==
  ASSUME NEW p \in Seq(Line), NEW l \in Line
  PROVE  Body(Append(p, l)) = Body(p) \o Framed[l]
<1>1. PICK X, Y : X = Line /\ Y = Pieces OBVIOUS
<1>2. PICK F : F = Framed OBVIOUS
<1>3. F \in [X -> Seq(Y)] BY <1>1, <1>2, FramedType
<1>4. p \in Seq(X) /\ l \in X BY <1>1
<1>5. Views(F, Append(p, l)) = Views(F, p) \o F[l] BY <1>3, <1>4, MoreViews, SMTT(60)
<1> QED BY <1>2, <1>5 DEF Body

LEMMA RestoredMore ==
  ASSUME NEW p, NEW ls, Restored(p, ls), NEW x \in Filled, x[1] = DataField
  PROVE  Restored(Append(p, Tail(x)), Append(ls, x))
<1>1. ls \in Seq(Line) /\ x \in Line /\ x # <<>> BY DEF Restored, Filled
<1>2. PICK ms : ms = Append(ls, x) OBVIOUS
<1>3. PICK u \in Seq(Filled) : u = Unended(ls) BY DEF Restored
<1>4. GroupsGrow(ls, x, ms) BY <1>1, <1>2, OneLineMore
<1>5. Groups(ms) = <<>> /\ Unended(ms) = Append(u, x) BY <1>1, <1>3, <1>4 DEF GroupsGrow, Restored
<1>6. ValuesOf(DataField, Append(u, x)) = Append(ValuesOf(DataField, u), Tail(x)) BY ValuesMore
<1>7. Append(u, x) \in Seq(Filled) BY AppendProperties
<1>8. ms \in Seq(Line) BY <1>1, <1>2, AppendProperties
<1> QED BY <1>2, <1>3, <1>5, <1>6, <1>7, <1>8 DEF Restored

LEMMA FrameIsWell ==
  ASSUME NEW p \in Seq(Line)
  PROVE  FramedWell(p)
<1> DEFINE Bad == {m \in Nat : \E q \in Seq(Line) : Len(q) = m /\ ~FramedWell(q)}
<1> SUFFICES ASSUME Bad # {} PROVE FALSE
  <2>1. Len(p) \in Nat OBVIOUS
  <2> QED BY <2>1
<1>1. PICK m \in Bad : \A k \in Bad : m <= k
  <2>1. Bad \subseteq Nat OBVIOUS
  <2> HIDE DEF Bad
  <2> QED BY <2>1, LeastNumber
<1>2. PICK q \in Seq(Line) : Len(q) = m /\ ~FramedWell(q) BY <1>1
<1>3. CASE q = <<>>
  <2>1. Body(<<>>) = <<>> BY NoViews DEF Body
  <2>2. Restored(<<>>, <<>>)
    <3>1. <<>> \in Seq(Line) /\ <<>> \in Seq(Filled) OBVIOUS
    <3> QED BY <3>1, NoLines, NoValues DEF Restored
  <2>3. <<>> \in Seq(Pieces) OBVIOUS
  <2> QED BY <1>2, <1>3, <2>1, <2>2, <2>3, NoPieces DEF FramedWell
<1>4. CASE q # <<>>
  <2>1. PICK s \in Seq(Line), l \in Line : q = Append(s, l) BY <1>4, SequenceEmptyOrAppend
  <2>2. Len(s) \in Nat /\ m = Len(s) + 1 BY <1>2, <2>1, AppendProperties
  <2>3. FramedWell(s)
    <3>1. ~(m <= Len(s)) BY <2>2
    <3>2. Len(s) \notin Bad BY <1>1, <3>1
    <3> QED BY <2>2, <3>2
  <2>4. PICK k \in Seq(Pieces), u \in Seq(Pieces) : k = Body(s) /\ u = Framed[l]
    BY <2>3, FramedLine DEF FramedWell
  <2>5. PICK x \in Filled : Lines(u) = <<x>> /\ x[1] = DataField /\ Tail(x) = l
    BY <2>4, FramedLine
  <2>6. ~AfterCR(u) /\ Rest(u) = <<>> BY <2>4, FramedLine
  <2>7. ~AfterCR(k) /\ Rest(k) = <<>> /\ Restored(s, Lines(k)) BY <2>3, <2>4 DEF FramedWell
  <2>8. Body(q) = k \o u BY <2>1, <2>4, BodyMore
  <2>9. PICK r : r = Rest(k) OBVIOUS
  <2>10. ReadsAfter(k, r, u)
    <3>1. Continues(k, u) BY <2>7 DEF Continues
    <3> QED BY <2>9, <3>1, Restart
  <2>11. r \o u = u BY <2>7, <2>9, ConcatEmptySeq
  <2>12. u # <<>>
    <3>1. <<x>> # <<>> OBVIOUS
    <3> QED BY <2>5, <3>1, NoPieces
  <2>13. Lines(k \o u) = Lines(k) \o <<x>> /\ Rest(k \o u) = <<>> /\ ~AfterCR(k \o u)
    BY <2>5, <2>6, <2>10, <2>11, <2>12 DEF ReadsAfter
  <2>14. Lines(k) \o <<x>> = Append(Lines(k), x)
    <3>1. PICK ls \in Seq(Line) : ls = Lines(k) BY <2>7 DEF Restored
    <3>2. x \in Line BY DEF Filled
    <3>3. Append(ls, x) = ls \o <<x>> BY <3>2, AppendIsConcat
    <3> QED BY <3>1, <3>3
  <2>15. Restored(q, Lines(k \o u)) BY <2>1, <2>5, <2>7, <2>13, <2>14, RestoredMore
  <2>16. k \o u \in Seq(Pieces) BY ConcatProperties
  <2> QED BY <1>2, <2>8, <2>13, <2>15, <2>16 DEF FramedWell
<1> QED BY <1>3, <1>4

LEMMA FrameIsBody ==
  ASSUME NEW p \in Seq(Line)
  PROVE  Frame(p) = Append(Body(p), LF)
<1>1. \A n \in DOMAIN p : p[n] \in Line OBVIOUS
<1>2. \A n \in DOMAIN p : Framed[p[n]] = <<DataField>> \o p[n] \o <<LF>> BY <1>1 DEF Framed
<1>3. Frame(p) = Body(p) \o <<LF>> BY <1>2 DEF Frame, Body, Views
<1>4. Body(p) \in Seq(Pieces) BY FrameIsWell DEF FramedWell
<1> QED BY <1>3, <1>4, CRIsPiece, AppendIsConcat

LEMMA FrameReconstructs ==
  ASSUME NEW p \in Seq(Line), p # <<>>, NEW no \in BOOLEAN, ~no
  PROVE  Events(Frame(p), no) = <<EventIs(NoName, p)>>
<1>1. PICK b : b = Body(p) OBVIOUS
<1>2. b \in Seq(Pieces) /\ ~AfterCR(b) /\ Rest(b) = <<>> /\ Restored(p, Lines(b))
  BY <1>1, FrameIsWell DEF FramedWell
<1>3. PICK t \in Seq(Pieces) : t = Frame(p) /\ t = Append(b, LF)
  BY <1>1, <1>2, FrameIsBody, CRIsPiece, AppendProperties
<1>4. GrowsBy(b, LF, t) BY <1>2, <1>3, CRIsPiece, OnePieceMore
<1>5. Lines(t) = Append(Lines(b), <<>>) BY <1>2, <1>4 DEF GrowsBy
<1>6. PICK ls \in Seq(Line) : ls = Lines(b) BY <1>2 DEF Restored
<1>7. PICK u \in Seq(Filled) : u = Unended(ls) BY <1>2, <1>6 DEF Restored
<1>8. Groups(ls) = <<>> /\ ValuesOf(DataField, u) = p BY <1>2, <1>6, <1>7 DEF Restored
<1>9. EventsIn(ls, no) = <<>> BY <1>8, NoViews DEF EventsIn
<1>10. NameOf(u, no) = NoName BY DEF NameOf
<1>11. EventOf(u, no) = EventIs(NoName, p) BY <1>8, <1>10, EventOfIs
<1>12. PICK blank \in Line : blank = <<>>
  <2>1. <<>> \in Line BY DEF Line
  <2> QED BY <2>1
<1>13. EventsIn(Append(ls, blank), no) = Append(EventsIn(ls, no), EventOf(u, no))
  BY <1>7, <1>8, <1>12, EventsMore
<1>14. Events(t, no) = EventsIn(Lines(t), no) BY EventsAreViews
<1>15. PICK e : e = EventIs(NoName, p) OBVIOUS
<1>16. Append(<<>>, e) = <<e>> OBVIOUS
<1> QED BY <1>3, <1>5, <1>6, <1>9, <1>11, <1>12, <1>13, <1>14, <1>15, <1>16

(* A payload of any number of lines survives frameSseData: a client that   *)
(* parses the frame finds one event with the same lines.                   *)
THEOREM FramesAreReconstructed == FramingSpec => []FramesReconstruct
<1>1. FramingInit => FramingInv BY FramingStarts
<1>2. FramingInv /\ [FramingNext]_framingVars => FramingInv' BY FramingSteps
<1>3. FramingInv => FramesReconstruct
  <2> SUFFICES ASSUME FramingInv, NEW n \in DOMAIN yielded
               PROVE  Events(Frame(yielded[n].data), FALSE)
                        = <<[event |-> NoName, data |-> yielded[n].data]>>
    BY DEF FramesReconstruct
  <2>1. yielded[n] \in SentEvent BY DEF FramingInv
  <2>2. PICK p : p = yielded[n].data OBVIOUS
  <2>3. p \in Seq(Line) /\ p # <<>> BY <2>1, <2>2 DEF SentEvent
  <2>4. PICK no \in BOOLEAN : ~no /\ no = FALSE OBVIOUS
  <2>5. Events(Frame(p), no) = <<EventIs(NoName, p)>> BY <2>3, <2>4, FrameReconstructs
  <2> QED BY <2>2, <2>4, <2>5, Zenon DEF EventIs
<1> QED BY <1>1, <1>2, <1>3, PTL DEF FramingSpec
=============================================================================
