---------------------------- MODULE FramingProofs ----------------------------
(***************************************************************************)
(* Both loops take a stream apart as it was put together, for any messages *)
(* and any reads they are meant for; and what either of them does stays    *)
(* within its types, for any reads at all.                                 *)
(***************************************************************************)
EXTENDS Framing, SequenceTheorems, WellFoundedInduction, TLAPS

\* The sums of the first numbers of a list.
Sums(s, k, f) ==
    f[0] = 0 /\ \A n \in 1..k : f[n] = f[n - 1] + s[n]

\* Some number is the least of a set.
LEMMA Smallest ==
    ASSUME NEW S \in SUBSET Nat, S # {}
    PROVE  \E m \in S : \A n \in S : ~(n < m)
<1>1. PICK m \in S : \A n \in S : ~(<<n, m>> \in OpToRel(<, Nat))
  BY NatLessThanWellFounded, WFMin
<1> QED BY <1>1 DEF OpToRel

LEMMA SumsExist ==
    ASSUME NEW s \in Seq(Nat), NEW k \in 0..Len(s)
    PROVE  \E f \in [0..k -> Nat] : Sums(s, k, f)
<1> DEFINE Bad == {j \in 0..Len(s) : ~\E f \in [0..j -> Nat] : Sums(s, j, f)}
<1>1. Len(s) \in Nat /\ \A j \in 1..Len(s) : s[j] \in Nat
  BY LenProperties, ElementOfSeq
<1>2. SUFFICES ASSUME Bad # {} PROVE FALSE
  OBVIOUS
<1>3. Bad \in SUBSET Nat
  BY <1>1
<1> HIDE DEF Bad
<1>4. PICK m \in Bad : \A n \in Bad : ~(n < m)
  BY <1>2, <1>3, Smallest
<1> USE DEF Bad
<1>5. CASE m = 0
  <2>1. [j \in {0} |-> 0] \in [0..0 -> Nat] /\ Sums(s, 0, [j \in {0} |-> 0])
    BY DEF Sums
  <2> QED BY <1>4, <1>5, <2>1
<1>6. CASE m # 0
  <2>1. m - 1 \in 0..Len(s) /\ m \in 1..Len(s) /\ m - 1 \notin Bad
    <3>1. m \in 0..Len(s)
      OBVIOUS
    <3>2. m - 1 \in 0..Len(s) /\ m \in 1..Len(s) /\ m - 1 < m
      BY <1>1, <1>6, <3>1
    <3> QED BY <1>4, <3>2
  <2>2. PICK f \in [0..m - 1 -> Nat] : Sums(s, m - 1, f)
    BY <2>1
  <2> DEFINE g == [j \in 0..m |-> IF j = m THEN f[m - 1] + s[m] ELSE f[j]]
  <2>3. g \in [0..m -> Nat]
    BY <1>1, <2>1
  <2>4. Sums(s, m, g)
    <3>1. g[0] = 0
      BY <2>1, <2>2 DEF Sums
    <3>2. ASSUME NEW n \in 1..m PROVE g[n] = g[n - 1] + s[n]
      <4>1. n - 1 \in 0..m - 1 /\ n - 1 # m /\ n \in 0..m
        BY <2>1
      <4>2. CASE n = m
        BY <4>1, <4>2, <2>1
      <4>3. CASE n # m
        BY <4>1, <4>3, <2>1, <2>2 DEF Sums
      <4> QED BY <4>2, <4>3
    <3> QED BY <3>1, <3>2 DEF Sums
  <2> QED BY <1>4, <2>3, <2>4
<1> QED BY <1>5, <1>6

\* What the definition of Offset says of it, there being such a function.
LEMMA OffsetSums ==
    ASSUME stream \in Seq(Nat)
    PROVE  Offset \in [0..Len(stream) -> Nat] /\ Sums(stream, Len(stream), Offset)
<1> DEFINE Def(f) == [n \in 0..Len(stream) |-> IF n = 0 THEN 0 ELSE f[n - 1] + stream[n]]
<1>1. Len(stream) \in Nat /\ \A j \in 1..Len(stream) : stream[j] \in Nat
  BY LenProperties, ElementOfSeq
<1>2. PICK f \in [0..Len(stream) -> Nat] : Sums(stream, Len(stream), f)
  BY <1>1, SumsExist
<1>3. f = Def(f)
  BY <1>1, <1>2 DEF Sums
<1>4. Offset = CHOOSE g : g = Def(g)
  BY DEF Offset
<1>5. Offset = Def(Offset)
  BY <1>3, <1>4
<1>6. ASSUME NEW n \in 0..Len(stream) PROVE Offset[n] = f[n]
  <2> DEFINE Bad == {j \in 0..Len(stream) : Offset[j] # f[j]}
  <2>1. SUFFICES ASSUME Bad # {} PROVE FALSE
    OBVIOUS
  <2>2. Bad \in SUBSET Nat
    BY <1>1
  <2> HIDE DEF Bad
  <2>3. PICK m \in Bad : \A j \in Bad : ~(j < m)
    BY <2>1, <2>2, Smallest
  <2> USE DEF Bad
  <2>4. m \in 0..Len(stream) /\ Offset[m] # f[m]
    OBVIOUS
  <2>5. Offset[m] = IF m = 0 THEN 0 ELSE Offset[m - 1] + stream[m]
    BY <1>5, <2>4
  <2>6. m # 0
    BY <1>2, <2>4, <2>5 DEF Sums
  <2>7. m - 1 \in 0..Len(stream) /\ m - 1 < m /\ m \in 1..Len(stream)
    BY <1>1, <2>4, <2>6
  <2>8. Offset[m - 1] = f[m - 1]
    BY <2>3, <2>7
  <2> QED BY <1>2, <2>4, <2>5, <2>6, <2>7, <2>8 DEF Sums
<1>7. Offset = f
  <2>1. DOMAIN Offset = 0..Len(stream) /\ Offset = [n \in 0..Len(stream) |-> Offset[n]]
    BY <1>5
  <2> QED BY <1>2, <1>6, <2>1
<1> QED BY <1>2, <1>7

-----------------------------------------------------------------------------
\* What is known of a stream: its messages have headers, and the sums of their
\* lengths grow with them.
LEMMA StreamType ==
    ASSUME this \in Cases
    PROVE  /\ stream \in Seq(Nat) /\ Len(stream) \in Nat
           /\ \A k \in 1..Len(stream) : stream[k] \in Nat /\ stream[k] >= Header
           /\ this.loop = "ts" \/ this.loop = "c"
           /\ this.cut = "any" \/ this.cut = "tame"
<1>1. /\ this \in [stream : Seq(Nat), loop : {"c", "ts"}, cut : {"any", "tame"}]
      /\ \A k \in DOMAIN this.stream : this.stream[k] >= Header
  BY CaseAssumption
<1>2. stream \in Seq(Nat)
  BY <1>1 DEF stream
<1> QED BY <1>1, <1>2, LenProperties, ElementOfSeq DEF stream

LEMMA OffsetType ==
    ASSUME this \in Cases
    PROVE  /\ \A n \in 0..Len(stream) : Offset[n] \in Nat
           /\ Offset[0] = 0
           /\ \A n \in 1..Len(stream) : Offset[n] = Offset[n - 1] + stream[n]
BY StreamType, OffsetSums DEF Sums

LEMMA OffsetGrows ==
    ASSUME this \in Cases, NEW j \in 0..Len(stream), NEW k \in 0..Len(stream), j <= k
    PROVE  Offset[j] <= Offset[k]
<1> DEFINE Bad == {n \in 0..Len(stream) : j <= n /\ ~(Offset[j] <= Offset[n])}
<1>1. /\ Len(stream) \in Nat /\ \A n \in 0..Len(stream) : Offset[n] \in Nat
      /\ \A n \in 1..Len(stream) : Offset[n] = Offset[n - 1] + stream[n]
      /\ \A n \in 1..Len(stream) : stream[n] \in Nat
  BY StreamType, OffsetType
<1>2. SUFFICES ASSUME Bad # {} PROVE FALSE
  OBVIOUS
<1>3. Bad \in SUBSET Nat
  BY <1>1
<1> HIDE DEF Bad
<1>4. PICK m \in Bad : \A n \in Bad : ~(n < m)
  BY <1>2, <1>3, Smallest
<1> USE DEF Bad
<1>5. m \in 0..Len(stream) /\ j <= m /\ ~(Offset[j] <= Offset[m])
  OBVIOUS
<1>6. m # j
  BY <1>1, <1>5
<1>7. m - 1 \in 0..Len(stream) /\ m - 1 < m /\ m \in 1..Len(stream) /\ j <= m - 1
  BY <1>1, <1>5, <1>6
<1>8. Offset[j] <= Offset[m - 1]
  BY <1>4, <1>7
<1>9. Offset[m] = Offset[m - 1] + stream[m] /\ stream[m] \in Nat
  BY <1>1, <1>7
<1> QED BY <1>1, <1>5, <1>7, <1>8, <1>9

-----------------------------------------------------------------------------
(***************************************************************************)
(* Whatever the reads.                                                     *)
(***************************************************************************)

\* The messages handed on, the words buffered and the words coming make up the
\* stream, though the C loop may be ahead of what is buffered.
Balance ==
    phase # "wrecked" =>
        Offset[next - 1] + (have - pos) + coming = Offset[Len(stream)]

\* A read appends to a buffer that starts at a message.
AtFront == phase = "read" => pos = 0

LoopInv == TypeOK /\ Balance /\ AtFront

\* A message whose header is there is one of the stream.
LEMMA NextIsThere ==
    ASSUME LoopInv, phase # "wrecked", have - pos > 0
    PROVE  /\ next \in 1..Len(stream)
           /\ Offset[next] = Offset[next - 1] + stream[next]
           /\ Offset[next] \in Nat /\ Offset[next - 1] \in Nat
           /\ stream[next] \in Nat /\ stream[next] >= Header
<1>1. /\ next \in 1..Len(stream) + 1 /\ Len(stream) \in Nat
      /\ have \in Nat /\ pos \in Nat /\ coming \in Nat
      /\ Offset[Len(stream)] \in Nat
  BY StreamType, OffsetType DEF LoopInv, TypeOK
<1>2. next # Len(stream) + 1
  BY <1>1 DEF LoopInv, Balance
<1>3. next \in 1..Len(stream) /\ next - 1 \in 0..Len(stream) /\ next \in 0..Len(stream)
  BY <1>1, <1>2
<1> QED BY <1>3, StreamType, OffsetType DEF LoopInv, TypeOK

\* What Offset is does not change.
LEMMA SameStream == this' = this => stream' = stream /\ Offset' = Offset
BY DEF stream, Offset

LEMMA LoopStep == LoopInv /\ [Next]_vars => LoopInv'
<1> SUFFICES ASSUME LoopInv, [Next]_vars PROVE LoopInv'
  OBVIOUS
<1>t. /\ this \in Cases /\ coming \in Nat /\ have \in Nat /\ pos \in Nat
      /\ next \in 1..Len(stream) + 1 /\ Len(stream) \in Nat
      /\ phase \in {"read", "parse", "wrecked"}
      /\ seen \in Seq([msg : 0..Len(stream), whole : BOOLEAN])
      /\ Offset[Len(stream)] \in Nat /\ Offset[next - 1] \in Nat
  <2>1. this \in Cases /\ next \in 1..Len(stream) + 1
    BY DEF LoopInv, TypeOK
  <2>2. Len(stream) \in 0..Len(stream) /\ next - 1 \in 0..Len(stream)
    BY <2>1, StreamType
  <2> QED BY <2>1, <2>2, StreamType, OffsetType DEF LoopInv, TypeOK
<1>1. ASSUME NEW n \in 0..coming, Read(n) PROVE LoopInv'
  <2>1. /\ phase = "read" /\ coming' = coming - n /\ have' = have + n
        /\ pos' = 0 /\ phase' = "parse" /\ UNCHANGED <<this, next, seen>>
    BY <1>1 DEF Read
  <2>2. stream' = stream /\ Offset' = Offset
    BY <2>1, SameStream
  <2>3. TypeOK'
    BY <1>t, <2>1, <2>2 DEF TypeOK
  <2>4. Balance'
    BY <1>t, <2>1, <2>2 DEF Balance, AtFront, LoopInv
  <2> QED BY <2>1, <2>3, <2>4 DEF LoopInv, AtFront
<1>2. CASE HandOn
  <2>1. /\ phase = "parse" /\ have - pos >= Header
        /\ seen' = Append(seen, [msg |-> next, whole |-> pos + stream[next] <= have])
        /\ pos' = pos + stream[next] /\ next' = next + 1
        /\ UNCHANGED <<this, coming, phase, have>>
    BY <1>2 DEF HandOn, Announced
  <2>2. stream' = stream /\ Offset' = Offset
    BY <2>1, SameStream
  <2>3. /\ next \in 1..Len(stream)
        /\ Offset[next] = Offset[next - 1] + stream[next]
        /\ stream[next] \in Nat
    BY <1>t, <2>1, NextIsThere DEF Header
  <2>4. [msg |-> next, whole |-> pos + stream[next] <= have]
           \in [msg : 0..Len(stream), whole : BOOLEAN]
    <3>1. (pos + stream[next] <= have) \in BOOLEAN
      OBVIOUS
    <3> QED BY <1>t, <2>3, <3>1
  <2>5. seen' \in Seq([msg : 0..Len(stream), whole : BOOLEAN])
    BY <1>t, <2>1, <2>4, AppendProperties
  <2>6. TypeOK'
    BY <1>t, <2>1, <2>2, <2>3, <2>5 DEF TypeOK
  <2>7. Balance'
    BY <1>t, <2>1, <2>2, <2>3 DEF Balance, LoopInv
  <2> QED BY <2>1, <2>6, <2>7 DEF LoopInv, AtFront
<1>3. CASE HandOnNonsense
  <2>1. /\ seen' = Append(seen, [msg |-> 0, whole |-> FALSE]) /\ phase' = "wrecked"
        /\ UNCHANGED <<this, coming, have, pos, next>>
    BY <1>3 DEF HandOnNonsense
  <2>2. stream' = stream
    BY <2>1, SameStream
  <2>3. [msg |-> 0, whole |-> FALSE] \in [msg : 0..Len(stream), whole : BOOLEAN]
    BY <1>t
  <2>4. seen' \in Seq([msg : 0..Len(stream), whole : BOOLEAN])
    BY <1>t, <2>1, <2>3, AppendProperties
  <2> QED BY <1>t, <2>1, <2>2, <2>4 DEF LoopInv, TypeOK, Balance, AtFront
<1>4. CASE Compact
  <2>1. /\ phase = "parse" /\ pos' = 0 /\ UNCHANGED <<this, coming, next, seen>>
        /\ IF have >= pos THEN have' = have - pos /\ phase' = "read"
           ELSE have' = have /\ phase' = "wrecked"
    BY <1>4 DEF Compact, Rest
  <2>2. stream' = stream /\ Offset' = Offset
    BY <2>1, SameStream
  <2>3. TypeOK'
    BY <1>t, <2>1, <2>2 DEF TypeOK
  <2>4. Balance'
    BY <1>t, <2>1, <2>2 DEF Balance, AtFront, LoopInv
  <2> QED BY <2>1, <2>3, <2>4 DEF LoopInv, AtFront
<1>5. CASE UNCHANGED vars
  BY <1>5, SameStream DEF vars, LoopInv, TypeOK, Balance, AtFront
<1> QED BY <1>1, <1>2, <1>3, <1>4, <1>5 DEF Next

LEMMA LoopInit == Init => LoopInv
<1> SUFFICES ASSUME Init PROVE LoopInv
  OBVIOUS
<1>1. /\ this \in Cases /\ coming = Offset[Len(stream)]
      /\ phase = "read" /\ have = 0 /\ pos = 0 /\ next = 1 /\ seen = <<>>
  BY DEF Init
<1>2. /\ Len(stream) \in Nat /\ Len(stream) \in 0..Len(stream)
      /\ Offset[Len(stream)] \in Nat /\ Offset[0] = 0
  BY <1>1, StreamType, OffsetType
<1> QED BY <1>1, <1>2 DEF LoopInv, TypeOK, Balance, AtFront

LEMMA LoopInvariant == Spec => []LoopInv
BY LoopInit, LoopStep, PTL DEF Spec

\* Type correctness of both loops, whatever the reads.
THEOREM TypeCorrect == Spec => []TypeOK
<1>1. LoopInv => TypeOK
  BY DEF LoopInv
<1> QED BY <1>1, LoopInvariant, PTL

-----------------------------------------------------------------------------
(***************************************************************************)
(* The reads a loop is meant for.                                          *)
(***************************************************************************)

\* What the C loop leans on: behind what it has handed on there are whole
\* messages, or at the front of the buffer a part of one with its header.
WholeLeft == \E k \in next - 1..Len(stream) : have - pos = Offset[k] - Offset[next - 1]
PartAtFront == next <= Len(stream) /\ pos = 0 /\ have \in Header..stream[next]

InPlace == IF this.loop = "ts" THEN pos <= have ELSE WholeLeft \/ PartAtFront

SoundInv == Sound =>
    /\ phase # "wrecked"
    /\ \A k \in DOMAIN seen : seen[k].msg = k /\ seen[k].whole
    /\ next = Len(seen) + 1
    /\ phase = "parse" => InPlace

\* In a buffer the loop is meant for, the header of the message it goes on with
\* has arrived; and so has the message, if the loop takes it to be there.
LEMMA Trusted ==
    ASSUME LoopInv, InPlace, phase = "parse", Enters
    PROVE  /\ Announced /\ have - pos > 0
           /\ Fits(stream[next]) => pos + stream[next] <= have
<1>t. /\ have \in Nat /\ pos \in Nat /\ next \in 1..Len(stream) + 1 /\ this \in Cases
      /\ Len(stream) \in Nat
  BY StreamType DEF LoopInv, TypeOK
<1>1. CASE this.loop = "ts"
  <2>1. have - pos > Header
    BY <1>1 DEF Enters
  <2>2. stream[next] \in Nat
    BY <1>t, <2>1, NextIsThere DEF Header
  <2> QED BY <1>1, <1>t, <2>1, <2>2 DEF Announced, Fits, Header
<1>2. CASE this.loop # "ts"
  <2>1. this.loop = "c" /\ pos < have /\ (WholeLeft \/ PartAtFront)
    BY <1>2, <1>t, StreamType DEF Enters, InPlace
  <2>2. /\ next \in 1..Len(stream) /\ stream[next] \in Nat /\ stream[next] >= Header
        /\ Offset[next] = Offset[next - 1] + stream[next]
        /\ Offset[next] \in Nat /\ Offset[next - 1] \in Nat
    BY <1>t, <2>1, NextIsThere
  <2>3. CASE WholeLeft
    <3>1. PICK k \in next - 1..Len(stream) : have - pos = Offset[k] - Offset[next - 1]
      BY <2>3 DEF WholeLeft
    <3>2. k # next - 1
      BY <1>t, <2>1, <2>2, <3>1
    <3>3. next \in 0..Len(stream) /\ k \in 0..Len(stream) /\ next <= k
      BY <1>t, <2>2, <3>1, <3>2
    <3>4. Offset[next] <= Offset[k] /\ Offset[k] \in Nat
      BY <1>t, <3>3, OffsetGrows, OffsetType
    <3>5. have - pos >= stream[next]
      BY <1>t, <2>2, <3>1, <3>4
    <3> QED BY <1>t, <2>1, <2>2, <3>5 DEF Announced, Header
  <2>4. CASE PartAtFront
    BY <1>t, <2>1, <2>2, <2>4 DEF PartAtFront, Announced, Fits, Header
  <2> QED BY <2>1, <2>3, <2>4
<1> QED BY <1>1, <1>2

LEMMA SoundStep == LoopInv /\ SoundInv /\ [Next]_vars => SoundInv'
<1> SUFFICES ASSUME LoopInv, SoundInv, [Next]_vars, Sound
             PROVE  /\ phase' # "wrecked"
                    /\ \A k \in DOMAIN seen' : seen'[k].msg = k /\ seen'[k].whole
                    /\ next' = Len(seen') + 1
                    /\ phase' = "parse" => InPlace'
  <2>1. ASSUME LoopInv, [Next]_vars PROVE this' = this
    BY <2>1 DEF Next, Read, HandOn, HandOnNonsense, Compact, vars
  <2> QED BY <2>1 DEF SoundInv, Sound
<1>t. /\ this \in Cases /\ coming \in Nat /\ have \in Nat /\ pos \in Nat
      /\ next \in 1..Len(stream) + 1 /\ Len(stream) \in Nat
      /\ seen \in Seq([msg : 0..Len(stream), whole : BOOLEAN])
      /\ Len(seen) \in Nat /\ DOMAIN seen = 1..Len(seen)
  BY StreamType, LenProperties DEF LoopInv, TypeOK
<1>s. /\ phase # "wrecked"
      /\ \A k \in DOMAIN seen : seen[k].msg = k /\ seen[k].whole
      /\ next = Len(seen) + 1
      /\ phase = "parse" => InPlace
  BY DEF SoundInv
<1>1. ASSUME NEW n \in 0..coming, Read(n)
      PROVE  phase' # "wrecked" /\ UNCHANGED <<next, seen>> /\ InPlace'
  <2>1. /\ phase = "read" /\ have' = have + n /\ pos' = 0 /\ phase' = "parse"
        /\ this.cut = "tame" => Tame(n)
        /\ UNCHANGED <<this, next, seen>>
    BY <1>1 DEF Read
  <2>2. stream' = stream /\ Offset' = Offset
    BY <2>1, SameStream
  <2>3. CASE this.loop = "ts"
    BY <1>t, <2>1, <2>3 DEF InPlace
  <2>4. CASE this.loop # "ts"
    <3>1. Tame(n)
      BY <2>1, <2>4 DEF Sound
    <3>2. CASE \E k \in next - 1..Len(stream) : have + n = Offset[k] - Offset[next - 1]
      <4>1. PICK k \in next - 1..Len(stream) : have + n = Offset[k] - Offset[next - 1]
        BY <3>2
      <4>2. have' - pos' = Offset[k] - Offset[next - 1]
        BY <1>t, <2>1, <4>1
      <4> QED BY <2>1, <2>2, <2>4, <4>2 DEF InPlace, WholeLeft
    <3>3. CASE next <= Len(stream) /\ have + n \in Header..stream[next]
      BY <2>1, <2>2, <2>4, <3>3 DEF InPlace, PartAtFront
    <3> QED BY <3>1, <3>2, <3>3 DEF Tame
  <2> QED BY <2>1, <2>3, <2>4
<1>2. CASE HandOn
  <2>1. /\ phase = "parse" /\ Enters /\ Fits(stream[next])
        /\ seen' = Append(seen, [msg |-> next, whole |-> pos + stream[next] <= have])
        /\ pos' = pos + stream[next] /\ next' = next + 1
        /\ UNCHANGED <<this, coming, phase, have>>
    BY <1>2 DEF HandOn
  <2>2. stream' = stream /\ Offset' = Offset
    BY <2>1, SameStream
  <2>3. pos + stream[next] <= have /\ have - pos > 0
    BY <1>s, <2>1, Trusted
  <2>4. /\ next \in 1..Len(stream) /\ stream[next] \in Nat
        /\ Offset[next] = Offset[next - 1] + stream[next]
        /\ Offset[next] \in Nat /\ Offset[next - 1] \in Nat
    BY <1>s, <2>3, NextIsThere
  <2>5. /\ Len(seen') = Len(seen) + 1 /\ DOMAIN seen' = 1..Len(seen) + 1
        /\ \A k \in 1..Len(seen) : seen'[k] = seen[k]
        /\ seen'[Len(seen) + 1] = [msg |-> next, whole |-> pos + stream[next] <= have]
    BY <1>t, <2>1
  <2>6. \A k \in DOMAIN seen' : seen'[k].msg = k /\ seen'[k].whole
    <3> SUFFICES ASSUME NEW k \in 1..Len(seen) + 1
                 PROVE  seen'[k].msg = k /\ seen'[k].whole
      BY <2>5
    <3>1. CASE k \in 1..Len(seen)
      BY <1>s, <1>t, <2>5, <3>1
    <3>2. CASE k = Len(seen) + 1
      <4>1. seen'[k] = [msg |-> next, whole |-> TRUE]
        BY <2>3, <2>5, <3>2
      <4> QED BY <1>s, <3>2, <4>1
    <3> QED BY <1>t, <3>1, <3>2
  <2>7. InPlace'
    <3>1. CASE this.loop = "ts"
      BY <2>1, <2>3, <3>1 DEF InPlace
    <3>2. ASSUME this.loop # "ts" PROVE WholeLeft'
      <4>1. CASE WholeLeft
        <5>1. PICK k \in next - 1..Len(stream) :
                 have - pos = Offset[k] - Offset[next - 1]
          BY <4>1 DEF WholeLeft
        <5>2. k # next - 1
          BY <1>t, <2>3, <2>4, <5>1
        <5>3. k \in next'-1..Len(stream) /\ k \in 0..Len(stream)
          BY <1>t, <2>1, <2>4, <5>1, <5>2
        <5>4. Offset[k] \in Nat
          BY <1>t, <5>3, OffsetType
        <5>5. have' - pos' = Offset[k] - Offset[next' - 1]
          <6>1. next' - 1 = next /\ have' - pos' = have - (pos + stream[next])
            BY <1>t, <2>1
          <6>2. have - (pos + stream[next]) = Offset[k] - Offset[next]
            <7> DEFINE upTo == Offset[k]
                       before == Offset[next - 1]
                       len == stream[next]
            <7>1. /\ upTo \in Nat /\ before \in Nat /\ len \in Nat
                  /\ have - pos = upTo - before /\ Offset[next] = before + len
              BY <2>4, <5>1, <5>4
            <7> HIDE DEF upTo, before, len
            <7>2. have - (pos + len) = upTo - (before + len)
              BY <1>t, <7>1
            <7> QED BY <7>1, <7>2 DEF upTo, len
          <6> QED BY <6>1, <6>2
        <5> QED BY <2>2, <5>3, <5>5 DEF WholeLeft
      <4>2. CASE PartAtFront
        <5>1. have' - pos' = Offset[next] - Offset[next' - 1]
          BY <1>t, <2>1, <2>3, <2>4, <4>2 DEF PartAtFront
        <5>2. next \in next' - 1..Len(stream)
          BY <1>t, <2>1, <2>4
        <5> QED BY <2>2, <5>1, <5>2 DEF WholeLeft
      <4> QED BY <1>s, <2>1, <3>2, <4>1, <4>2 DEF InPlace
    <3> QED BY <2>1, <3>1, <3>2 DEF InPlace
  <2> QED BY <1>s, <1>t, <2>1, <2>5, <2>6, <2>7
<1>3. CASE HandOnNonsense
  <2>1. phase = "parse" /\ Enters /\ ~Announced
    BY <1>3 DEF HandOnNonsense
  <2> QED BY <1>s, <2>1, Trusted
<1>4. CASE Compact
  <2>1. /\ phase = "parse" /\ UNCHANGED <<this, next, seen>>
        /\ Enters => (Announced => ~Fits(stream[next]))
        /\ IF have >= pos THEN phase' = "read" ELSE phase' = "wrecked"
    BY <1>4 DEF Compact
  <2>2. have >= pos
    <3>1. CASE this.loop = "ts" \/ PartAtFront
      BY <1>s, <1>t, <2>1, <3>1 DEF InPlace, PartAtFront
    <3>2. CASE WholeLeft
      <4>1. PICK k \in next - 1..Len(stream) : have - pos = Offset[k] - Offset[next - 1]
        BY <3>2 DEF WholeLeft
      <4>2. k \in 0..Len(stream) /\ next - 1 \in 0..Len(stream) /\ next - 1 <= k
        BY <1>t, <4>1
      <4>3. Offset[next - 1] <= Offset[k] /\ Offset[k] \in Nat /\ Offset[next - 1] \in Nat
        BY <1>t, <4>2, OffsetGrows, OffsetType
      <4> QED BY <1>t, <4>1, <4>3
    <3> QED BY <1>s, <2>1, <3>1, <3>2 DEF InPlace
  <2> QED BY <1>s, <2>1, <2>2
<1>5. CASE UNCHANGED vars
  <2>1. UNCHANGED <<this, phase, have, pos, next, seen>>
    BY <1>5 DEF vars
  <2>2. stream' = stream /\ Offset' = Offset
    BY <2>1, SameStream
  <2> QED BY <1>s, <2>1, <2>2 DEF InPlace, WholeLeft, PartAtFront
<1> QED BY <1>s, <1>1, <1>2, <1>3, <1>4, <1>5 DEF Next

LEMMA SoundInit == Init => SoundInv
BY DEF Init, SoundInv

LEMMA SoundInvariant == Spec => [](LoopInv /\ SoundInv)
<1>1. Init => LoopInv /\ SoundInv
  BY LoopInit, SoundInit
<1>2. LoopInv /\ SoundInv /\ [Next]_vars => (LoopInv /\ SoundInv)'
  BY LoopStep, SoundStep
<1> QED BY <1>1, <1>2, PTL DEF Spec

\* With the reads it is meant for, a loop hands on no message before all of it
\* has arrived: the TypeScript loop with any reads, the C loop with those that
\* end between messages or within the first, behind its header.
THEOREM WholeMessagesOnly == Spec => []OnlyWholeMessages
<1>1. SoundInv => OnlyWholeMessages
  BY DEF SoundInv, OnlyWholeMessages, HandedOnWhole
<1> QED BY <1>1, SoundInvariant, PTL

\* Nor is a message skipped, handed on twice, or read from its middle.
THEOREM LoopIsInStep == Spec => []InStep
<1>1. LoopInv /\ SoundInv => InStep
  BY DEF LoopInv, Balance, SoundInv, InStep
<1> QED BY <1>1, SoundInvariant, PTL
=============================================================================
