---------------------------- MODULE ElectorProofs ----------------------------
(***************************************************************************)
(* The event loop does nothing RoleElection does not allow, so what is     *)
(* proved of RoleElection holds of the elector as a whole.  Beside that:   *)
(* its walk over the clients is safe, no client is timed out unheard, and  *)
(* a client is told the role it has.                                       *)
(***************************************************************************)
EXTENDS Elector, RoleElectionProofs, SequenceTheorems, FiniteSetTheorems

\* While the loop works for a client there is such a client.
LoopInv ==
    /\ clients \in [Elector -> Seq(Client)]
    /\ todo \in [Elector -> Seq(Client)]
    /\ knocked \in [Elector -> BOOLEAN]
    /\ pc \in [Elector -> Walking \cup {"accept", "sleep"}]
    /\ \A e \in Elector : pc[e] \in Walking => todo[e] # <<>>

\* The client the walk has come to is dropped.
Drop(e) == ReadFails(e) \/ ProcessFails(e) \/ TimeOut(e)

LEMMA DropDisconnects ==
    ASSUME NEW e \in Elector, Drop(e)
    PROVE  Disconnect(e) /\ pc[e] \in Walking
BY DEF Drop, ReadFails, ProcessFails, TimeOut, Walking

LEMMA HeadInClient ==
    ASSUME LoopInv, NEW e \in Elector, pc[e] \in Walking
    PROVE  Head(todo[e]) \in Client /\ Tail(todo[e]) \in Seq(Client)
BY DEF LoopInv

LEMMA TurnKeeps ==
    ASSUME LoopInv, NEW e \in Elector, NEW s \in Seq(Client), TurnTo(e, s),
           clients' \in [Elector -> Seq(Client)]
    PROVE  LoopInv'
<1>1. todo' = [todo EXCEPT ![e] = s] /\ todo' \in [Elector -> Seq(Client)]
  BY DEF TurnTo, LoopInv
<1>2. /\ pc' = [pc EXCEPT ![e] = IF s = <<>> THEN "sleep" ELSE "visit"]
      /\ pc' \in [Elector -> Walking \cup {"accept", "sleep"}]
  BY DEF TurnTo, LoopInv, Walking
<1>3. knocked' \in [Elector -> BOOLEAN]
  <2>1. (s # <<>> /\ Knocks(Head(s))) \in BOOLEAN
    OBVIOUS
  <2> QED BY <2>1, Zenon DEF TurnTo, LoopInv
<1>4. ASSUME NEW f \in Elector, pc'[f] \in Walking PROVE todo'[f] # <<>>
  BY <1>1, <1>2, <1>4 DEF LoopInv, Walking
<1> QED BY <1>1, <1>2, <1>3, <1>4 DEF LoopInv

LEMMA AdvanceKeeps ==
    ASSUME LoopInv, NEW e \in Elector, pc[e] \in Walking, Advance(e),
           clients' \in [Elector -> Seq(Client)]
    PROVE  LoopInv'
BY HeadInClient, TurnKeeps DEF Advance

LEMMA GoOnKeeps ==
    ASSUME LoopInv, NEW e \in Elector, pc[e] \in Walking, NEW at \in Walking,
           GoOn(e, at), clients' = clients
    PROVE  LoopInv'
BY DEF LoopInv, GoOn

LEMMA LoopStepKeeps == LoopInv /\ [LoopNext]_allVars => LoopInv'
<1> SUFFICES ASSUME LoopInv, [LoopNext]_allVars PROVE LoopInv'
  OBVIOUS
<1>1. ASSUME NEW c \in Client, Connect(c) \/ Receive(c) \/ HangUp(c) PROVE LoopInv'
  BY <1>1 DEF Connect, Receive, HangUp, LoopInv, loop
<1>2. ASSUME NEW c \in Client, NEW m, Send(c, m) PROVE LoopInv'
  BY <1>2 DEF Send, LoopInv, loop
<1>3. ASSUME NEW e \in Elector, Accept(e) PROVE LoopInv'
  <2>1. PICK c \in Client : clients' = [clients EXCEPT ![e] = <<c>> \o @]
    BY <1>3 DEF Accept
  <2>2. <<c>> \o clients[e] \in Seq(Client)
    BY DEF LoopInv
  <2> QED BY <1>3, <2>1, <2>2 DEF Accept, LoopInv
<1>4. ASSUME NEW e \in Elector, BeginPass(e) PROVE LoopInv'
  BY <1>4, TurnKeeps DEF BeginPass, LoopInv
<1>5. ASSUME NEW e \in Elector, Drop(e) PROVE LoopInv'
  <2>1. Disconnect(e) /\ pc[e] \in Walking
    BY <1>5, DropDisconnects
  <2>2. PICK k \in DOMAIN clients[e] : clients' = [clients EXCEPT ![e] = Unlink(@, k)]
    BY <2>1 DEF Disconnect
  <2>3. RemoveAt(clients[e], k) \in Seq(Client)
    <3>1. clients[e] \in Seq(Client) /\ k \in 1..Len(clients[e])
      BY DEF LoopInv
    <3> QED BY <3>1 DEF RemoveAt
  <2>4. clients' \in [Elector -> Seq(Client)]
    BY <2>2, <2>3 DEF Unlink, LoopInv
  <2> QED BY <2>1, <2>4, AdvanceKeeps DEF Disconnect
<1>6. ASSUME NEW e \in Elector, Read(e) \/ Process(e) PROVE LoopInv'
  BY <1>6, GoOnKeeps DEF Read, Process, Walking
<1>7. ASSUME NEW e \in Elector, InTime(e) PROVE LoopInv'
  <2>1. pc[e] \in Walking /\ "update" \in Walking /\ clients' = clients
    BY <1>7 DEF InTime, Walking
  <2>2. Advance(e) \/ GoOn(e, "update")
    BY <1>7 DEF InTime
  <2>3. clients' \in [Elector -> Seq(Client)]
    BY <2>1 DEF LoopInv
  <2> QED BY <2>1, <2>2, <2>3, AdvanceKeeps, GoOnKeeps
<1>8. ASSUME NEW e \in Elector, GetLeaseFails(e) PROVE LoopInv'
  BY <1>8, AdvanceKeeps DEF GetLeaseFails, LoopInv, Walking
<1>9. ASSUME NEW e \in Elector, Update(e) PROVE LoopInv'
  <2>1. pc[e] \in Walking /\ clients' = clients
    BY <1>9 DEF Update, Walking
  <2>2. Advance(e) \/ UNCHANGED <<pc, todo, knocked>>
    BY <1>9 DEF Update
  <2>3. clients' \in [Elector -> Seq(Client)]
    BY <2>1 DEF LoopInv
  <2> QED BY <2>1, <2>2, <2>3, AdvanceKeeps DEF LoopInv
<1>10. ASSUME NEW e \in Elector, Reboot(e) PROVE LoopInv'
  <2>1. clients' \in [Elector -> Seq(Client)] /\ todo' \in [Elector -> Seq(Client)]
    BY <1>10 DEF Reboot, LoopInv
  <2>2. knocked' \in [Elector -> BOOLEAN]
    BY <1>10 DEF Reboot, LoopInv
  <2> QED BY <1>10, <2>1, <2>2 DEF Reboot, LoopInv, Walking
<1>11. ASSUME Second PROVE LoopInv'
  BY <1>11 DEF Second, LoopInv, Walking
<1>12. ASSUME UNCHANGED loop PROVE LoopInv'
  BY <1>12 DEF loop, LoopInv
<1> QED
  BY <1>1, <1>2, <1>3, <1>4, <1>5, <1>6, <1>7, <1>8, <1>9, <1>10, <1>11, <1>12
  DEF LoopNext, LoopStep, Drop, allVars

LEMMA LoopStepElects == LoopInv /\ [LoopNext]_allVars => [Next]_vars
<1> SUFFICES ASSUME LoopInv, [LoopNext]_allVars PROVE [Next]_vars
  OBVIOUS
<1>1. ASSUME NEW c \in Client, Connect(c) \/ Receive(c) \/ HangUp(c) PROVE [Next]_vars
  BY <1>1 DEF Connect, Receive, HangUp
<1>2. ASSUME NEW c \in Client, NEW m, Send(c, m) PROVE [Next]_vars
  BY <1>2 DEF Send
<1>3. ASSUME NEW e \in Elector, Accept(e) PROVE [Next]_vars
  BY <1>3 DEF Accept, Next
<1>4. ASSUME NEW e \in Elector,
             BeginPass(e) \/ Read(e) \/ InTime(e) \/ GetLeaseFails(e)
      PROVE  [Next]_vars
  BY <1>4 DEF BeginPass, Read, InTime, GetLeaseFails
<1>5. ASSUME NEW e \in Elector, Drop(e) PROVE [Next]_vars
  BY <1>5, HeadInClient, DropDisconnects DEF Disconnect, Next
<1>6. ASSUME NEW e \in Elector, Process(e) PROVE [Next]_vars
  <2>1. Head(todo[e]) \in Client
    BY <1>6, HeadInClient DEF Process, Walking
  <2> QED BY <1>6, <2>1 DEF Process, News, Next
<1>7. ASSUME NEW e \in Elector, Update(e) PROVE [Next]_vars
  BY <1>7, HeadInClient DEF Update, Walking, Next
<1>8. ASSUME NEW e \in Elector, Reboot(e) PROVE [Next]_vars
  BY <1>8 DEF Reboot, Next
<1>9. ASSUME NEW l \in Lease, StoreLate(l) PROVE [Next]_vars
  BY <1>9 DEF Next
<1>10. ASSUME Second PROVE [Next]_vars
  BY <1>10 DEF Second, Next
<1>11. CASE UNCHANGED allVars
  BY <1>11 DEF allVars
<1> QED
  BY <1>1, <1>2, <1>3, <1>4, <1>5, <1>6, <1>7, <1>8, <1>9, <1>10, <1>11
  DEF LoopNext, LoopStep, Drop

\* Every behaviour of the event loop is one of RoleElection.
THEOREM LoopImplementsElection == LoopSpec => Spec
<1>1. LoopInit => Init /\ LoopInv
  BY DEF LoopInit, LoopInv, Walking
<1> QED
  BY <1>1, LoopStepKeeps, LoopStepElects, PTL DEF LoopSpec, Spec

\* With its event loop around it, the elector still honours every tenure.
THEOREM LoopHonoursTenure ==
    LoopSpec => [](GrantHonoured /\ SoleActiveWithinTenure) /\ TenureRespected
BY LoopImplementsElection, GrantsAreHonoured, OneActiveWithinTenure,
   TenureIsRespected, PTL

-----------------------------------------------------------------------------
(***************************************************************************)
(* Lists.                                                                  *)
(***************************************************************************)

\* s is what t ends with.
Ends(s, t) ==
    Len(s) <= Len(t) /\ \A k \in 1..Len(s) : s[k] = t[Len(t) - Len(s) + k]

LEMMA EndsIsSuffix ==
    ASSUME NEW S, NEW s \in Seq(S), NEW t \in Seq(S), Ends(s, t)
    PROVE  IsSuffix(s, t)
<1> DEFINE rs == Reverse(s)
           rt == Reverse(t)
<1>1. /\ rs = [k \in 1..Len(s) |-> s[Len(s) - k + 1]]
      /\ rt = [k \in 1..Len(t) |-> t[Len(t) - k + 1]]
      /\ Len(s) \in Nat /\ Len(t) \in Nat
  BY LenProperties DEF Reverse
<1>2. /\ \A k \in 1..Len(s) : s[Len(s) - k + 1] \in S
      /\ \A k \in 1..Len(t) : t[Len(t) - k + 1] \in S
  BY <1>1, ElementOfSeq
<1>3. rs \in Seq(S) /\ Len(rs) = Len(s) /\ rt \in Seq(S) /\ Len(rt) = Len(t)
  BY <1>1, <1>2
<1>4. \A k \in 1..Len(s) : rs[k] = rt[k]
  <2> SUFFICES ASSUME NEW k \in 1..Len(s) PROVE rs[k] = rt[k]
    OBVIOUS
  <2>1. Len(s) - k + 1 \in 1..Len(s) /\ k \in 1..Len(t)
    BY <1>1 DEF Ends
  <2>2. s[Len(s) - k + 1] = t[Len(t) - Len(s) + (Len(s) - k + 1)]
    BY <2>1 DEF Ends
  <2>3. Len(t) - Len(s) + (Len(s) - k + 1) = Len(t) - k + 1
    BY <1>1
  <2> QED BY <1>1, <2>1, <2>2, <2>3
<1> HIDE DEF rs, rt
<1>5. SubSeq(rs, 1, Len(rs)) = SubSeq(rt, 1, Len(rs))
  <2>1. /\ \A k \in 1..Len(s) : rs[k] \in S /\ rt[k] \in S
        /\ 1 \in Int /\ Len(rs) \in Int
    <3>1. \A k \in 1..Len(s) : k \in 1..Len(rs) /\ k \in 1..Len(rt)
      BY <1>1, <1>3 DEF Ends
    <3> QED BY <1>1, <1>3, <3>1, ElementOfSeq
  <2>2. /\ SubSeq(rs, 1, Len(rs)) \in Seq(S) /\ Len(SubSeq(rs, 1, Len(rs))) = Len(s)
        /\ \A k \in 1..Len(s) : SubSeq(rs, 1, Len(rs))[k] = rs[k]
    BY <1>1, <1>3, <2>1, SubSeqProperties
  <2>3. /\ SubSeq(rt, 1, Len(rs)) \in Seq(S) /\ Len(SubSeq(rt, 1, Len(rs))) = Len(s)
        /\ \A k \in 1..Len(s) : SubSeq(rt, 1, Len(rs))[k] = rt[k]
    BY <1>1, <1>3, <2>1, SubSeqProperties
  <2> QED BY <1>4, <2>2, <2>3, SeqEqual
<1> QED BY <1>3, <1>5 DEF IsSuffix, IsPrefix, Ends, rs, rt

LEMMA TailEnds ==
    ASSUME NEW S, NEW s \in Seq(S), NEW t \in Seq(S), s # <<>>, Ends(s, t)
    PROVE  Ends(Tail(s), t)
<1>1. /\ Len(s) \in Nat /\ Len(t) \in Nat
      /\ Len(Tail(s)) = Len(s) - 1
      /\ \A k \in 1..Len(Tail(s)) : Tail(s)[k] = s[k + 1]
  BY LenProperties, HeadTailProperties
<1> QED BY <1>1 DEF Ends

LEMMA HeadOfEnd ==
    ASSUME NEW S, NEW s \in Seq(S), NEW t \in Seq(S), s # <<>>, Ends(s, t)
    PROVE  Head(s) \in ToSet(t)
<1>1. /\ Len(s) \in Nat \ {0} /\ Len(t) \in Nat /\ DOMAIN t = 1..Len(t)
      /\ Head(s) = s[1]
  BY LenProperties, HeadTailProperties, EmptySeq
<1>2. /\ s[1] = t[Len(t) - Len(s) + 1]
      /\ Len(t) - Len(s) + 1 \in 1..Len(t)
  BY <1>1 DEF Ends
<1> QED BY <1>1, <1>2 DEF ToSet

\* A node unlinked: those before it stay, those after it move up.
LEMMA Unlinked ==
    ASSUME NEW S, NEW t \in Seq(S), NEW k \in 1..Len(t)
    PROVE  /\ RemoveAt(t, k) \in Seq(S) /\ Len(RemoveAt(t, k)) = Len(t) - 1
           /\ \A j \in 1..Len(t) - 1 :
                 RemoveAt(t, k)[j] = IF j < k THEN t[j] ELSE t[j + 1]
<1> DEFINE a == SubSeq(t, 1, k - 1)
           b == SubSeq(t, k + 1, Len(t))
<1>1. Len(t) \in Nat /\ \A j \in 1..Len(t) : t[j] \in S
  BY LenProperties, ElementOfSeq
<1>2. /\ a \in Seq(S) /\ Len(a) = k - 1
      /\ \A j \in 1..k - 1 : a[j] = t[j]
  BY <1>1
<1>3. /\ b \in Seq(S) /\ Len(b) = Len(t) - k
      /\ \A j \in 1..Len(t) - k : b[j] = t[k + j]
  BY <1>1
<1> HIDE DEF a, b
<1>4. /\ a \o b \in Seq(S) /\ Len(a \o b) = Len(t) - 1
      /\ \A j \in 1..Len(t) - 1 :
            (a \o b)[j] = IF j <= k - 1 THEN a[j] ELSE b[j - (k - 1)]
  <2>1. Len(a) + Len(b) = Len(t) - 1
    BY <1>1, <1>2, <1>3
  <2>2. /\ a \o b \in Seq(S) /\ Len(a \o b) = Len(a) + Len(b)
        /\ \A j \in 1..Len(a) + Len(b) :
              (a \o b)[j] = IF j <= Len(a) THEN a[j] ELSE b[j - Len(a)]
    BY <1>2, <1>3, ConcatProperties
  <2> QED BY <1>2, <2>1, <2>2
<1>5. \A j \in 1..Len(t) - 1 : (a \o b)[j] = IF j < k THEN t[j] ELSE t[j + 1]
  BY <1>1, <1>2, <1>3, <1>4
<1> QED BY <1>4, <1>5 DEF RemoveAt, a, b

\* A client that is on the list once is off it when its node is unlinked.
LEMMA UnlinkedSet ==
    ASSUME NEW S, NEW t \in Seq(S), NEW k \in 1..Len(t), IsInjective(t)
    PROVE  /\ IsInjective(RemoveAt(t, k))
           /\ ToSet(RemoveAt(t, k)) = ToSet(t) \ {t[k]}
<1> DEFINE u == RemoveAt(t, k)
<1>1. /\ u \in Seq(S) /\ Len(u) = Len(t) - 1 /\ Len(t) \in Nat
      /\ DOMAIN u = 1..Len(t) - 1 /\ DOMAIN t = 1..Len(t)
      /\ \A j \in 1..Len(t) - 1 : u[j] = IF j < k THEN t[j] ELSE t[j + 1]
  BY Unlinked, LenProperties
<1> HIDE DEF u
<1>i. \A i, j \in 1..Len(t) : t[i] = t[j] => i = j
  BY <1>1 DEF IsInjective
<1>2. IsInjective(u)
  <2> SUFFICES ASSUME NEW i \in 1..Len(t) - 1, NEW j \in 1..Len(t) - 1, u[i] = u[j]
               PROVE  i = j
    BY <1>1 DEF IsInjective
  <2> DEFINE old(n) == IF n < k THEN n ELSE n + 1
  <2>1. /\ old(i) \in 1..Len(t) /\ u[i] = t[old(i)]
        /\ old(j) \in 1..Len(t) /\ u[j] = t[old(j)]
    BY <1>1
  <2> HIDE DEF old
  <2>2. old(i) = old(j)
    BY <1>i, <2>1
  <2> QED BY <1>1, <2>2 DEF old
<1>3. ASSUME NEW x \in ToSet(u) PROVE x \in ToSet(t) \ {t[k]}
  <2>1. PICK j \in 1..Len(t) - 1 : x = u[j]
    BY <1>1 DEF ToSet
  <2>2. CASE j < k
    <3>1. j \in 1..Len(t) /\ x = t[j] /\ j # k
      BY <1>1, <2>1, <2>2
    <3> QED BY <1>1, <1>i, <3>1 DEF ToSet
  <2>3. CASE ~(j < k)
    <3>1. j + 1 \in 1..Len(t) /\ x = t[j + 1] /\ j + 1 # k
      BY <1>1, <2>1, <2>3
    <3> QED BY <1>1, <1>i, <3>1 DEF ToSet
  <2> QED BY <2>2, <2>3
<1>4. ASSUME NEW x \in ToSet(t) \ {t[k]} PROVE x \in ToSet(u)
  <2>1. PICK j \in 1..Len(t) : x = t[j] /\ j # k
    BY <1>1 DEF ToSet
  <2>2. CASE j < k
    <3>1. j \in 1..Len(t) - 1 /\ u[j] = x
      BY <1>1, <2>1, <2>2
    <3> QED BY <1>1, <3>1 DEF ToSet
  <2>3. CASE j > k
    <3>1. j - 1 \in 1..Len(t) - 1 /\ ~(j - 1 < k) /\ (j - 1) + 1 = j
      BY <1>1, <2>1, <2>3
    <3>2. u[j - 1] = x
      BY <1>1, <2>1, <3>1
    <3> QED BY <1>1, <3>1, <3>2 DEF ToSet
  <2> QED BY <1>1, <2>1, <2>2, <2>3
<1> QED BY <1>2, <1>3, <1>4 DEF u

\* What a walk has left is left when its own node is unlinked.
LEMMA UnlinkedEnds ==
    ASSUME NEW S, NEW s \in Seq(S), NEW t \in Seq(S), s # <<>>, Ends(s, t),
           IsInjective(t), NEW k \in 1..Len(t), t[k] = Head(s)
    PROVE  Ends(Tail(s), RemoveAt(t, k))
<1>1. /\ Len(s) \in Nat \ {0} /\ Len(t) \in Nat /\ DOMAIN t = 1..Len(t)
      /\ Len(Tail(s)) = Len(s) - 1 /\ Head(s) = s[1]
      /\ \A j \in 1..Len(Tail(s)) : Tail(s)[j] = s[j + 1]
  BY LenProperties, HeadTailProperties, EmptySeq
<1>2. k = Len(t) - Len(s) + 1
  <2>1. s[1] = t[Len(t) - Len(s) + 1] /\ Len(s) <= Len(t)
    BY <1>1 DEF Ends
  <2>2. Len(t) - Len(s) + 1 \in 1..Len(t)
    BY <1>1, <2>1
  <2> QED BY <1>1, <2>1, <2>2 DEF IsInjective
<1>3. /\ Len(RemoveAt(t, k)) = Len(t) - 1
      /\ \A j \in 1..Len(t) - 1 :
            RemoveAt(t, k)[j] = IF j < k THEN t[j] ELSE t[j + 1]
  BY Unlinked
<1>4. ASSUME NEW j \in 1..Len(s) - 1
      PROVE  Tail(s)[j] = RemoveAt(t, k)[(Len(t) - 1) - (Len(s) - 1) + j]
  <2> DEFINE n == (Len(t) - 1) - (Len(s) - 1) + j
  <2>1. n \in 1..Len(t) - 1 /\ ~(n < k) /\ n + 1 = Len(t) - Len(s) + (j + 1)
    BY <1>1, <1>2 DEF Ends
  <2>2. RemoveAt(t, k)[n] = t[n + 1]
    BY <1>3, <2>1
  <2>3. s[j + 1] = t[Len(t) - Len(s) + (j + 1)] /\ Tail(s)[j] = s[j + 1]
    BY <1>1 DEF Ends
  <2> QED BY <2>1, <2>2, <2>3
<1> QED BY <1>1, <1>3, <1>4 DEF Ends

\* A client put in front.
LEMMA Prepended ==
    ASSUME NEW S, NEW t \in Seq(S), NEW x \in S, x \notin ToSet(t), IsInjective(t)
    PROVE  /\ IsInjective(<<x>> \o t)
           /\ ToSet(<<x>> \o t) = ToSet(t) \cup {x}
<1> DEFINE u == <<x>> \o t
<1>1. /\ u \in Seq(S) /\ Len(u) = Len(t) + 1 /\ Len(t) \in Nat
      /\ DOMAIN u = 1..Len(t) + 1 /\ DOMAIN t = 1..Len(t)
      /\ \A j \in 1..Len(t) + 1 : u[j] = IF j = 1 THEN x ELSE t[j - 1]
  BY LenProperties
<1> HIDE DEF u
<1>2. IsInjective(u)
  <2> SUFFICES ASSUME NEW i \in 1..Len(t) + 1, NEW j \in 1..Len(t) + 1, u[i] = u[j]
               PROVE  i = j
    BY <1>1 DEF IsInjective
  <2>1. \A n \in 1..Len(t) : t[n] # x
    BY <1>1 DEF ToSet
  <2>2. CASE i = 1 \/ j = 1
    <3>1. \A n \in 1..Len(t) + 1 : n # 1 => n - 1 \in 1..Len(t) /\ u[n] = t[n - 1]
      BY <1>1
    <3>2. u[1] = x
      BY <1>1
    <3> QED BY <2>1, <2>2, <3>1, <3>2
  <2>3. CASE i # 1 /\ j # 1
    <3>1. /\ i - 1 \in 1..Len(t) /\ u[i] = t[i - 1]
          /\ j - 1 \in 1..Len(t) /\ u[j] = t[j - 1]
      BY <1>1, <2>3
    <3>2. i - 1 = j - 1
      BY <1>1, <3>1 DEF IsInjective
    <3> QED BY <3>2
  <2> QED BY <2>2, <2>3
<1>3. ASSUME NEW y \in ToSet(t) PROVE y \in ToSet(u)
  <2>1. PICK j \in 1..Len(t) : y = t[j]
    BY <1>1 DEF ToSet
  <2>2. j + 1 \in 1..Len(t) + 1 /\ j + 1 # 1 /\ (j + 1) - 1 = j
    BY <1>1
  <2>3. u[j + 1] = y
    BY <1>1, <2>1, <2>2
  <2> QED BY <1>1, <2>2, <2>3 DEF ToSet
<1>4. u[1] = x /\ 1 \in DOMAIN u
  BY <1>1
<1>5. ASSUME NEW y \in ToSet(u) PROVE y \in ToSet(t) \cup {x}
  BY <1>1 DEF ToSet
<1> QED BY <1>2, <1>3, <1>4, <1>5 DEF ToSet, u

-----------------------------------------------------------------------------
(***************************************************************************)
(* Attempts.                                                               *)
(***************************************************************************)

\* A request for one client leaves the attempts for all others where they are;
\* only a look at the lease begins an attempt.
LEMMA StepAlone ==
    ASSUME IInv, NEW c \in Client, Step(c)
    PROVE  /\ online' = online
           /\ \A d \in Client : d # c =>
                 /\ attempt'[d].stage = attempt[d].stage
                 /\ attempt'[d].before = attempt[d].before
                 /\ role'[d] = role[d]
           /\ attempt[c].stage = "idle" =>
                 /\ attempt'[c].stage = "read" /\ attempt'[c].before = role[c]
                 /\ role' = role
           /\ attempt[c].stage # "idle" /\ attempt'[c].stage # "idle" =>
                 attempt'[c].before = attempt[c].before
<1>t. /\ attempt \in [Client -> Attempt] /\ role \in [Client -> Role]
      /\ ReplyInv(c) /\ attempt[c] \in Attempt
  BY DEF IInv, TypeInv, TypeOK, Honest
<1>1. CASE GetLease(c)
  <2>1. attempt[c].stage = "idle"
    BY <1>1, NotBusy DEF GetLease, IInv, TypeInv
  <2> QED BY <1>1, <1>t, <2>1 DEF GetLease
<1>2. CASE TryGrab(c)
  <2>1. /\ attempt[c].stage = "read" /\ role' = role /\ online' = online
        /\ attempt' = [attempt EXCEPT ![c] =
              [@ EXCEPT !.stage = "grab", !.copy = Claim(info[c].identity)]]
    BY <1>2 DEF TryGrab
  <2> DEFINE a == [attempt[c] EXCEPT !.stage = "grab", !.copy = Claim(info[c].identity)]
  <2>2. a.before = attempt[c].before
    BY <1>t DEF Attempt
  <2>3. attempt' = [attempt EXCEPT ![c] = a]
    BY <1>t, <2>1
  <2> HIDE DEF a
  <2> QED BY <1>t, <2>1, <2>2, <2>3
<1>3. CASE KeepLease(c)
  <2>1. /\ attempt[c].stage = "read" /\ online' = online
        /\ \A d \in Client : d # c => attempt'[d] = attempt[d] /\ role'[d] = role[d]
        /\ \/ attempt'[c] = [attempt[c] EXCEPT !.stage = "renew",
                                               !.copy = Claim(info[c].identity)]
           \/ attempt'[c] = Idle
    BY <1>3, <1>t DEF KeepLease
  <2> DEFINE a == [attempt[c] EXCEPT !.stage = "renew", !.copy = Claim(info[c].identity)]
  <2>2. a.before = attempt[c].before
    BY <1>t DEF Attempt
  <2>3. attempt'[c] = a \/ attempt'[c] = Idle
    BY <2>1
  <2> HIDE DEF a
  <2>4. attempt'[c].stage = "idle" \/ attempt'[c].before = attempt[c].before
    BY <2>2, <2>3 DEF Idle
  <2> QED BY <2>1, <2>4
<1>4. CASE StandBy(c)
  BY <1>4, <1>t DEF StandBy, Idle
<1>5. CASE ReplaceApplied(c)
  <2>1. /\ role' = role /\ online' = online /\ attempt[c].stage # "idle"
        /\ \A d \in Client :
              \/ attempt'[d] = attempt[d]
              \/ attempt'[d] = [attempt[d] EXCEPT !.fresh = FALSE]
              \/ \E reply \in {"ok", "failed"} :
                    attempt'[d] = [attempt[d] EXCEPT !.reply = reply, !.fresh = FALSE]
    BY <1>5 DEF ReplaceApplied, Waiting, Outdated
  <2>2. \A d \in Client : /\ attempt'[d].stage = attempt[d].stage
                          /\ attempt'[d].before = attempt[d].before
    <3> SUFFICES ASSUME NEW d \in Client
                 PROVE  /\ attempt'[d].stage = attempt[d].stage
                        /\ attempt'[d].before = attempt[d].before
      OBVIOUS
    <3>1. attempt[d] \in Attempt
      BY <1>t
    <3> QED BY <2>1, <3>1 DEF Attempt
  <2> QED BY <2>1, <2>2
<1>6. CASE ReplaceFailed(c)
  <2>1. /\ attempt[c].stage # "idle" /\ role' = role /\ online' = online
        /\ attempt' = [attempt EXCEPT ![c] =
              [@ EXCEPT !.reply = "failed", !.fresh = FALSE]]
    BY <1>6 DEF ReplaceFailed, Waiting
  <2> DEFINE a == [attempt[c] EXCEPT !.reply = "failed", !.fresh = FALSE]
  <2>2. a.before = attempt[c].before
    BY <1>t DEF Attempt
  <2>3. attempt' = [attempt EXCEPT ![c] = a]
    BY <1>t, <2>1
  <2> HIDE DEF a
  <2> QED BY <1>t, <2>1, <2>2, <2>3
<1>7. CASE Conclude(c)
  BY <1>7, <1>t DEF Conclude, Idle, ReplyInv
<1> QED
  BY <1>1, <1>2, <1>3, <1>4, <1>5, <1>6, <1>7 DEF Step

\* Nor does a write that is stored late.
LEMMA LateAlone ==
    ASSUME IInv, NEW l \in Lease, StoreLate(l), NEW c \in Client
    PROVE  /\ online' = online /\ role' = role
           /\ attempt'[c].stage = attempt[c].stage
           /\ attempt'[c].before = attempt[c].before
<1>1. /\ attempt'[c] = attempt[c] \/ attempt'[c] = [attempt[c] EXCEPT !.fresh = FALSE]
      /\ attempt[c] \in Attempt
  BY DEF StoreLate, Outdated, IInv, TypeInv, TypeOK
<1> QED BY <1>1 DEF StoreLate, Attempt

\* A second changes no attempt but for its lease.
LEMMA TickAlone ==
    ASSUME IInv, Tick, NEW c \in Client
    PROVE  /\ online' = online /\ role' = role
           /\ attempt'[c].stage = attempt[c].stage
           /\ attempt'[c].before = attempt[c].before
<1>1. attempt'[c] = [attempt[c] EXCEPT !.copy.left = Expire(@)] /\ attempt[c] \in Attempt
  BY DEF Tick, IInv, TypeInv, TypeOK
<1> QED BY <1>1 DEF Tick, Attempt

-----------------------------------------------------------------------------
(***************************************************************************)
(* The walk.                                                               *)
(***************************************************************************)
Walk(e) ==
    /\ IsInjective(clients[e])
    /\ ToSet(clients[e]) = {c \in online : Host[c] = e}
    /\ Ends(todo[e], clients[e])
    /\ pc[e] \in Walking <=> todo[e] # <<>>
    /\ \A c \in Client : Host[c] = e /\ attempt[c].stage # "idle"
          => pc[e] = "update" /\ c = Head(todo[e])

WalkInv == IInv /\ LoopInv /\ \A e \in Elector : Walk(e)

\* What the invariant says of an elector rests on what is its own.
LEMMA WalkKept ==
    ASSUME NEW e \in Elector, Walk(e), online \subseteq Client, online' \subseteq Client,
           clients'[e] = clients[e], todo'[e] = todo[e], pc'[e] = pc[e],
           \A c \in Client : Host[c] = e =>
              (c \in online' <=> c \in online) /\ attempt'[c].stage = attempt[c].stage
    PROVE  Walk(e)'
<1>1. {c \in online' : Host[c] = e} = {c \in online : Host[c] = e}
  OBVIOUS
<1> QED BY <1>1 DEF Walk

\* The walk goes on to the next client when no attempt runs.
LEMMA WalkAdvances ==
    ASSUME LoopInv, NEW e \in Elector, pc[e] \in Walking, Advance(e),
           IsInjective(clients'[e]),
           ToSet(clients'[e]) = {c \in online' : Host[c] = e},
           Ends(Tail(todo[e]), clients'[e]),
           \A c \in Client : Host[c] = e => attempt'[c].stage = "idle"
    PROVE  /\ Walk(e)'
           /\ \A f \in Elector : f # e => todo'[f] = todo[f] /\ pc'[f] = pc[f]
<1>1. /\ todo'[e] = Tail(todo[e])
      /\ pc'[e] = IF Tail(todo[e]) = <<>> THEN "sleep" ELSE "visit"
      /\ \A f \in Elector : f # e => todo'[f] = todo[f] /\ pc'[f] = pc[f]
  BY DEF Advance, TurnTo, LoopInv
<1> QED BY <1>1 DEF Walk, Walking

\* It goes on with its client.
LEMMA WalkGoesOn ==
    ASSUME LoopInv, NEW e \in Elector, NEW f \in Elector, Walk(f),
           pc[e] \in Walking, pc[e] # "update", NEW at \in Walking, GoOn(e, at),
           UNCHANGED <<clients, online, attempt>>
    PROVE  Walk(f)'
<1>1. /\ todo'[f] = todo[f]
      /\ pc'[f] = IF f = e THEN at ELSE pc[f]
  BY DEF GoOn, LoopInv
<1> QED BY <1>1 DEF Walk

LEMMA WalkStep == WalkInv /\ [LoopNext]_allVars => WalkInv'
<1> SUFFICES ASSUME WalkInv, [LoopNext]_allVars, NEW f \in Elector PROVE Walk(f)'
  BY LoopStepKeeps, LoopStepElects, TenureStep DEF WalkInv
<1>t. /\ IInv /\ IInv' /\ LoopInv /\ LoopInv' /\ \A e \in Elector : Walk(e)
      /\ Walk(f) /\ online \subseteq Client /\ online' \subseteq Client
  BY LoopStepKeeps, LoopStepElects, TenureStep DEF WalkInv, IInv, TypeInv, TypeOK
<1>f. /\ clients \in [Elector -> Seq(Client)] /\ todo \in [Elector -> Seq(Client)]
      /\ pc \in [Elector -> Walking \cup {"accept", "sleep"}]
  BY <1>t DEF LoopInv
<1>o. ASSUME clients'[f] = clients[f], todo'[f] = todo[f], pc'[f] = pc[f],
             \A c \in Client : Host[c] = f =>
                (c \in online' <=> c \in online) /\ attempt'[c].stage = attempt[c].stage
      PROVE  Walk(f)'
  BY <1>o, <1>t, WalkKept
<1>1. ASSUME NEW c \in Client, Connect(c) \/ Receive(c) \/ HangUp(c) PROVE Walk(f)'
  BY <1>1, <1>o DEF Connect, Receive, HangUp, loop, vars
<1>2. ASSUME NEW c \in Client, NEW m, Send(c, m) PROVE Walk(f)'
  BY <1>2, <1>o DEF Send, loop, vars
<1>3. ASSUME NEW e \in Elector, Accept(e) PROVE Walk(f)'
  <2>1. PICK c \in Client :
           /\ pc[e] = "accept" /\ Host[c] = e /\ Join(c)
           /\ clients' = [clients EXCEPT ![e] = <<c>> \o @]
           /\ UNCHANGED <<pc, todo>>
    BY <1>3 DEF Accept
  <2>2. /\ c \notin online /\ online' = online \cup {c} /\ attempt' = attempt
    BY <2>1 DEF Join
  <2>3. CASE f = e
    <3>1. clients'[f] = <<c>> \o clients[f] /\ clients[f] \in Seq(Client)
      BY <1>f, <2>1, <2>3
    <3>2. c \notin ToSet(clients[f]) /\ IsInjective(clients[f])
      BY <1>t, <2>2 DEF Walk
    <3>3. /\ IsInjective(clients'[f])
          /\ ToSet(clients'[f]) = ToSet(clients[f]) \cup {c}
      BY <3>1, <3>2, Prepended
    <3>4. {d \in online' : Host[d] = f} = {d \in online : Host[d] = f} \cup {c}
      BY <2>1, <2>2, <2>3
    <3>5. todo[f] = <<>>
      BY <1>t, <2>1, <2>3 DEF Walk, Walking
    <3>6. Len(clients'[f]) \in Nat
      BY <1>t, LenProperties DEF LoopInv
    <3>7. Ends(todo'[f], clients'[f])
      BY <2>1, <3>5, <3>6 DEF Ends
    <3> QED BY <1>t, <2>1, <2>2, <3>3, <3>4, <3>7 DEF Walk
  <2>4. CASE f # e
    BY <1>f, <1>o, <2>1, <2>2, <2>4
  <2> QED BY <2>3, <2>4
<1>4. ASSUME NEW e \in Elector, BeginPass(e) PROVE Walk(f)'
  <2>1. CASE f = e
    <3>1. /\ todo'[f] = clients[f] /\ clients' = clients /\ pc[f] = "accept"
          /\ pc'[f] = (IF clients[f] = <<>> THEN "sleep" ELSE "visit")
          /\ online' = online /\ attempt' = attempt
      BY <1>4, <1>f, <2>1 DEF BeginPass, TurnTo, vars
    <3>2. Ends(clients[f], clients[f])
      <4>1. Len(clients[f]) \in Nat
        BY <1>f, LenProperties
      <4> QED BY <4>1 DEF Ends
    <3> QED BY <1>t, <3>1, <3>2 DEF Walk, Walking
  <2>2. CASE f # e
    BY <1>4, <1>f, <1>o, <2>2 DEF BeginPass, TurnTo, vars
  <2> QED BY <2>1, <2>2
<1>5. ASSUME NEW e \in Elector, Drop(e) PROVE Walk(f)'
  <2> DEFINE c == Head(todo[e])
  <2>0. Disconnect(e) /\ pc[e] \in Walking
    BY <1>5, DropDisconnects
  <2>1. /\ Leave(c) /\ Advance(e) /\ c \in Client
        /\ clients[e] \in Seq(Client) /\ todo[e] \in Seq(Client) /\ todo[e] # <<>>
        /\ Walk(e)
    BY <2>0, <1>t, <1>f, HeadInClient DEF Disconnect, LoopInv
  <2>2. PICK k \in 1..Len(clients[e]) :
           clients[e][k] = c /\ clients' = [clients EXCEPT ![e] = RemoveAt(@, k)]
    BY <2>0, <2>1, LenProperties DEF Disconnect, Unlink
  <2>3. /\ c \in ToSet(clients[e])
        /\ IsInjective(clients[e]) /\ Ends(todo[e], clients[e])
        /\ ToSet(clients[e]) = {d \in online : Host[d] = e}
    BY <2>1, <2>2, LenProperties DEF Walk, ToSet
  <2>4. /\ clients'[e] = RemoveAt(clients[e], k)
        /\ \A g \in Elector : g # e => clients'[g] = clients[g]
    BY <1>f, <2>2
  <2>5. /\ IsInjective(clients'[e])
        /\ ToSet(clients'[e]) = ToSet(clients[e]) \ {c}
    BY <2>1, <2>2, <2>3, <2>4, UnlinkedSet
  <2>6. Ends(Tail(todo[e]), clients'[e])
    BY <2>1, <2>2, <2>3, <2>4, UnlinkedEnds
  <2>7. /\ online' = online \ {c} /\ Host[c] = e
        /\ \A d \in Client : Host[d] = e => attempt'[d].stage = "idle"
        /\ \A d \in Client : Host[d] # e => attempt'[d] = attempt[d]
    BY <1>t, <2>1, <2>3, NotBusy DEF Leave, Forget, Idle, IInv, TypeInv
  <2>8. ToSet(clients'[e]) = {d \in online' : Host[d] = e}
    BY <2>3, <2>5, <2>7
  <2>9. /\ Walk(e)'
        /\ \A g \in Elector : g # e => todo'[g] = todo[g] /\ pc'[g] = pc[g]
    BY <1>t, <2>0, <2>1, <2>5, <2>6, <2>7, <2>8, WalkAdvances
  <2>10. CASE f # e
    BY <1>o, <2>4, <2>7, <2>9, <2>10
  <2> QED BY <2>9, <2>10
<1>6. ASSUME NEW e \in Elector, pc[e] \in Walking, Advance(e),
             UNCHANGED <<clients, online>>,
             \A c \in Client : Host[c] = e => attempt'[c].stage = "idle",
             \A c \in Client : Host[c] # e => attempt'[c].stage = attempt[c].stage
      PROVE  Walk(f)'
  <2>1. Ends(Tail(todo[e]), clients[e])
    BY <1>6, <1>t, <1>f, TailEnds DEF Walk, LoopInv
  <2>2. /\ IsInjective(clients[e])
        /\ ToSet(clients[e]) = {c \in online : Host[c] = e}
    BY <1>t DEF Walk
  <2>3. /\ Walk(e)'
        /\ \A g \in Elector : g # e => todo'[g] = todo[g] /\ pc'[g] = pc[g]
    BY <1>6, <1>t, <2>1, <2>2, WalkAdvances
  <2>4. CASE f # e
    BY <1>6, <1>o, <2>3, <2>4
  <2> QED BY <2>3, <2>4
<1>7. ASSUME NEW e \in Elector, Read(e) \/ Process(e) PROVE Walk(f)'
  <2>1. /\ clients' = clients /\ online' = online /\ attempt' = attempt
        /\ pc[e] \in Walking /\ pc[e] # "update"
        /\ GoOn(e, "process") \/ GoOn(e, "check")
    BY <1>7 DEF Read, Process, SetInfo, vars, Walking
  <2>2. "process" \in Walking /\ "check" \in Walking
    BY DEF Walking
  <2> QED BY <1>t, <2>1, <2>2, WalkGoesOn
<1>8. ASSUME NEW e \in Elector, InTime(e) PROVE Walk(f)'
  <2>1. /\ clients' = clients /\ online' = online /\ attempt' = attempt
        /\ pc[e] = "check" /\ "check" \in Walking /\ "update" \in Walking
        /\ Advance(e) \/ GoOn(e, "update")
    BY <1>8 DEF InTime, vars, Walking
  <2>2. \A c \in Client : Host[c] = e => attempt[c].stage = "idle"
    BY <1>t, <2>1 DEF Walk
  <2>3. CASE Advance(e)
    BY <1>6, <2>1, <2>2, <2>3
  <2>4. CASE GoOn(e, "update")
    BY <1>t, <2>1, <2>4, WalkGoesOn
  <2> QED BY <2>1, <2>3, <2>4
<1>9. ASSUME NEW e \in Elector, GetLeaseFails(e) PROVE Walk(f)'
  <2>1. /\ pc[e] = "update" /\ Advance(e) /\ pc[e] \in Walking
        /\ UNCHANGED <<clients, online, attempt>>
    BY <1>9 DEF GetLeaseFails, vars, Walking
  <2>2. \A c \in Client : Host[c] = e => attempt[c].stage = "idle"
    BY <1>9, <1>t DEF GetLeaseFails, Walk
  <2> QED BY <1>6, <2>1, <2>2
<1>10. ASSUME NEW e \in Elector, Update(e) PROVE Walk(f)'
  <2> DEFINE c == Head(todo[e])
  <2>1. /\ pc[e] = "update" /\ clients' = clients /\ c \in Client /\ Step(c) /\ Walk(e)
        /\ todo[e] # <<>> /\ pc[e] \in Walking
    BY <1>10, <1>t, HeadInClient DEF Update, LoopInv, Walking
  <2>2. Host[c] = e
    <3>1. c \in ToSet(clients[e])
      <4>1. Ends(todo[e], clients[e])
        BY <2>1 DEF Walk
      <4> QED BY <1>f, <2>1, <4>1, HeadOfEnd
    <3> QED BY <2>1, <3>1 DEF Walk
  <2>3. /\ online' = online
        /\ \A d \in Client : d # c => attempt'[d].stage = attempt[d].stage
    BY <1>t, <2>1, StepAlone
  <2>4. \A d \in Client : Host[d] = e /\ d # c => attempt[d].stage = "idle"
    BY <2>1 DEF Walk
  <2>5. CASE attempt'[c].stage # "idle"
    <3>1. UNCHANGED <<pc, todo>>
      BY <1>10, <2>5 DEF Update
    <3>2. CASE f = e
      BY <2>1, <2>2, <2>3, <2>4, <3>1, <3>2 DEF Walk
    <3>3. CASE f # e
      BY <1>o, <2>1, <2>2, <2>3, <3>1, <3>3
    <3> QED BY <3>2, <3>3
  <2>6. CASE attempt'[c].stage = "idle"
    <3>1. Advance(e)
      BY <1>10, <2>6 DEF Update
    <3>2. /\ \A d \in Client : Host[d] = e => attempt'[d].stage = "idle"
          /\ \A d \in Client : Host[d] # e => attempt'[d].stage = attempt[d].stage
      BY <2>2, <2>3, <2>4, <2>6
    <3> HIDE DEF c
    <3> QED BY <1>6, <2>1, <2>3, <3>1, <3>2
  <2> QED BY <2>5, <2>6
<1>11. ASSUME NEW e \in Elector, Reboot(e) PROVE Walk(f)'
  <2>1. /\ online' = online \ {c \in Client : Host[c] = e}
        /\ \A c \in Client : Host[c] = e => attempt'[c] = Idle
        /\ \A c \in Client : Host[c] # e => attempt'[c] = attempt[c]
    BY <1>11 DEF Reboot, Restart, Forget
  <2>2. CASE f = e
    <3>1. clients'[f] = <<>> /\ todo'[f] = <<>> /\ pc'[f] = "accept"
      BY <1>11, <1>f, <2>2 DEF Reboot
    <3>2. {c \in online' : Host[c] = f} = {}
      BY <1>t, <2>1, <2>2
    <3>3. IsInjective(<<>>) /\ ToSet(<<>>) = {} /\ Ends(<<>>, <<>>)
      BY DEF IsInjective, ToSet, Ends
    <3> QED BY <2>1, <2>2, <3>1, <3>2, <3>3 DEF Walk, Idle, Walking
  <2>3. CASE f # e
    BY <1>11, <1>f, <1>o, <2>1, <2>3 DEF Reboot
  <2> QED BY <2>2, <2>3
<1>12. ASSUME Second PROVE Walk(f)'
  <2>1. /\ online' = online /\ UNCHANGED <<clients, todo>>
        /\ \A c \in Client : attempt'[c].stage = attempt[c].stage
    BY <1>12, <1>t, TickAlone DEF Second, Tick
  <2>2. pc'[f] = IF pc[f] = "sleep" THEN "accept" ELSE pc[f]
    BY <1>12 DEF Second
  <2> QED BY <1>t, <2>1, <2>2 DEF Walk, Walking
<1>13. ASSUME NEW l \in Lease, StoreLate(l), UNCHANGED <<loop, wire>> PROVE Walk(f)'
  <2>1. /\ online' = online /\ UNCHANGED <<clients, todo, pc>>
        /\ \A c \in Client : attempt'[c].stage = attempt[c].stage
    BY <1>13, <1>t, LateAlone DEF loop, StoreLate
  <2> QED BY <1>o, <2>1
<1>14. CASE UNCHANGED allVars
  BY <1>14, <1>o DEF allVars, loop, vars
<1> QED
  BY <1>1, <1>2, <1>3, <1>4, <1>5, <1>7, <1>8, <1>9, <1>10, <1>11, <1>12, <1>13, <1>14
  DEF LoopNext, LoopStep, Drop

LEMMA WalkInit == LoopInit => WalkInv
<1> SUFFICES ASSUME LoopInit PROVE WalkInv
  OBVIOUS
<1>1. LoopInv
  BY DEF LoopInit, LoopInv, Walking
<1>2. IInv
  BY TenureInit DEF LoopInit
<1>3. ASSUME NEW e \in Elector PROVE Walk(e)
  <2>1. IsInjective(<<>>) /\ ToSet(<<>>) = {} /\ Ends(<<>>, <<>>)
    BY DEF IsInjective, ToSet, Ends
  <2> QED BY <2>1 DEF LoopInit, Init, Walk, Idle, Walking
<1> QED BY <1>1, <1>2, <1>3 DEF WalkInv

LEMMA WalkInvariant == LoopSpec => []WalkInv
BY WalkInit, WalkStep, PTL DEF LoopSpec

\* The walk over the list of clients is safe: the node it goes on with is
\* still on the list, whoever was dropped, accepted or cut off meanwhile, the
\* list is the clients that are online, and no attempt runs for a client but
\* the one the walk has come to.
THEOREM WalkSafe == LoopSpec => []WalkIsSafe
<1>1. WalkInv => WalkIsSafe
  <2> SUFFICES ASSUME WalkInv, NEW e \in Elector PROVE IsSuffix(todo[e], clients[e])
    BY DEF WalkInv, Walk, WalkIsSafe
  <2> QED BY EndsIsSuffix DEF WalkInv, LoopInv, Walk
<1> QED BY <1>1, WalkInvariant, PTL

-----------------------------------------------------------------------------
(***************************************************************************)
(* Who is dropped.                                                         *)
(***************************************************************************)

\* The walk visits clients of its elector that are there.
LEMMA WalkedIsOnline ==
    ASSUME WalkInv, NEW e \in Elector, pc[e] \in Walking
    PROVE  Head(todo[e]) \in online /\ Host[Head(todo[e])] = e
<1>1. /\ clients[e] \in Seq(Client) /\ todo[e] \in Seq(Client) /\ todo[e] # <<>>
      /\ Ends(todo[e], clients[e]) /\ ToSet(clients[e]) = {c \in online : Host[c] = e}
  BY DEF WalkInv, LoopInv, Walk
<1> QED BY <1>1, HeadOfEnd

\* Who is online changes in few ways.
LEMMA WhoIsOnline ==
    ASSUME WalkInv, [LoopNext]_allVars, NEW c \in Client, c \in online, c \notin online'
    PROVE  \/ Reboot(Host[c])
           \/ Drop(Host[c]) /\ c = Head(todo[Host[c]])
<1>t. /\ IInv /\ LoopInv
      /\ \A e \in Elector : pc[e] \in Walking => Head(todo[e]) \in Client
  BY HeadInClient DEF WalkInv
<1>1. ASSUME NEW d \in Client, Connect(d) \/ Receive(d) \/ HangUp(d) PROVE FALSE
  BY <1>1 DEF Connect, Receive, HangUp, vars
<1>2. ASSUME NEW d \in Client, NEW m, Send(d, m) PROVE FALSE
  BY <1>2 DEF Send, vars
<1>3. ASSUME NEW e \in Elector, Accept(e) PROVE FALSE
  BY <1>3 DEF Accept, Join
<1>4. ASSUME NEW e \in Elector,
             BeginPass(e) \/ Read(e) \/ InTime(e) \/ GetLeaseFails(e)
      PROVE  FALSE
  BY <1>4 DEF BeginPass, Read, InTime, GetLeaseFails, vars
<1>5. ASSUME NEW e \in Elector, Drop(e) PROVE c = Head(todo[e]) /\ e = Host[c]
  <2>1. pc[e] \in Walking /\ Disconnect(e)
    BY <1>5, DropDisconnects
  <2>2. c = Head(todo[e])
    BY <2>1 DEF Disconnect, Leave, Forget
  <2> QED BY <2>1, <2>2, WalkedIsOnline
<1>6. ASSUME NEW e \in Elector, Process(e) PROVE FALSE
  BY <1>6 DEF Process, SetInfo, vars
<1>7. ASSUME NEW e \in Elector, Update(e) PROVE FALSE
  <2>1. Head(todo[e]) \in Client /\ Step(Head(todo[e]))
    BY <1>7, <1>t DEF Update, Walking
  <2> QED BY <1>t, <2>1, StepAlone
<1>8. ASSUME NEW e \in Elector, Reboot(e) PROVE e = Host[c]
  BY <1>8 DEF Reboot, Restart, Forget
<1>9. ASSUME NEW l \in Lease, StoreLate(l) PROVE FALSE
  BY <1>9 DEF StoreLate
<1>10. ASSUME Second PROVE FALSE
  BY <1>10 DEF Second, Tick
<1>11. CASE UNCHANGED allVars
  BY <1>11 DEF allVars, vars
<1> QED
  BY <1>1, <1>2, <1>3, <1>4, <1>5, <1>6, <1>7, <1>8, <1>9, <1>10, <1>11
  DEF LoopNext, LoopStep, Drop

WireOK ==
    /\ age \in [Client -> 0..ClientTimeout + 1]
    /\ conn \in [Client -> {"none", "pending", "open"}]
    /\ hung \subseteq Client
    /\ inbox \in [Client -> Seq(Message)]
    /\ held \in [Client -> Seq(Message)]
    /\ outbox \in [Client -> Seq(Role \cup {Heartbeat})]
    /\ view \in [Client -> Role]
    /\ missed \in [Client -> BOOLEAN]

\* The heartbeats in a batch are counted.
LEMMA Counted ==
    ASSUME NEW s \in Seq(Message)
    PROVE  LET n == Cardinality({k \in DOMAIN s : s[k] = Heartbeat})
           IN  n \in Nat /\ (Heartbeat \in ToSet(s) => n > 0)
<1> DEFINE B == {k \in DOMAIN s : s[k] = Heartbeat}
<1>1. DOMAIN s = 1..Len(s) /\ Len(s) \in Nat
  BY LenProperties
<1>2. IsFiniteSet(B)
  <2>1. 1 \in Int /\ Len(s) \in Int
    BY <1>1
  <2>2. IsFiniteSet(DOMAIN s)
    BY <1>1, <2>1, FS_Interval
  <2> QED BY <2>2, FS_Subset
<1>3. Cardinality(B) \in Nat /\ (Cardinality(B) = 0 <=> B = {})
  BY <1>2, FS_CardinalityType, FS_EmptySet
<1>4. Heartbeat \in ToSet(s) => B # {}
  BY DEF ToSet
<1> HIDE DEF B
<1>5. Cardinality(B) \in Nat /\ (Heartbeat \in ToSet(s) => Cardinality(B) > 0)
  BY <1>3, <1>4
<1> QED BY <1>5 DEF B

LEMMA BeatsType ==
    ASSUME WireOK, NEW c \in Client
    PROVE  /\ Beats(c) \in Nat
           /\ [k \in 1..Beats(c) |-> Heartbeat] \in Seq(Role \cup {Heartbeat})
<1>1. Beats(c) \in Nat
  BY Counted DEF WireOK, Beats
<1> QED BY <1>1

\* Every step of the loop keeps what is on the wire within its type.
LEMMA WireStep == WalkInv /\ WireOK /\ [LoopNext]_allVars => WireOK'
<1> SUFFICES ASSUME WalkInv, WireOK, [LoopNext]_allVars PROVE WireOK'
  OBVIOUS
<1>t. /\ IInv' /\ role' \in [Client -> Role] /\ "unknown" \in Role
      /\ \A e \in Elector : pc[e] \in Walking => Head(todo[e]) \in Client
      /\ ClientTimeout \in Nat
  BY HeadInClient, WalkStep, LoopAssumption DEF WalkInv, IInv, TypeInv, TypeOK, Role
<1>1. ASSUME NEW c \in Client, Connect(c) \/ HangUp(c) PROVE WireOK'
  BY <1>1 DEF Connect, HangUp, WireOK
<1>2. ASSUME NEW c \in Client, Receive(c) PROVE WireOK'
  <2>1. /\ Head(outbox[c]) \in Role \cup {Heartbeat}
        /\ Tail(outbox[c]) \in Seq(Role \cup {Heartbeat})
    BY <1>2 DEF Receive, WireOK
  <2> QED BY <1>2, <2>1 DEF Receive, WireOK
<1>3. ASSUME NEW c \in Client, NEW m \in Says[c], Send(c, m) PROVE WireOK'
  <2>1. m \in Message
    BY LoopAssumption
  <2>2. Append(inbox[c], m) \in Seq(Message)
    BY <2>1 DEF WireOK
  <2> QED BY <1>3, <2>2 DEF Send, WireOK
<1>4. ASSUME NEW e \in Elector, Accept(e) PROVE WireOK'
  BY <1>4, <1>t DEF Accept, WireOK
<1>5. ASSUME NEW e \in Elector, BeginPass(e) \/ InTime(e) \/ GetLeaseFails(e) PROVE WireOK'
  BY <1>5 DEF BeginPass, InTime, GetLeaseFails, wire, WireOK
<1>6. ASSUME NEW e \in Elector, Drop(e) PROVE WireOK'
  <2> DEFINE c == Head(todo[e])
  <2>1. /\ c \in Client
        /\ age' = [age EXCEPT ![c] = 0]
        /\ conn' = [conn EXCEPT ![c] = "none"] /\ hung' = hung \ {c}
        /\ inbox' = [inbox EXCEPT ![c] = <<>>]
        /\ held' = [held EXCEPT ![c] = <<>>]
        /\ outbox' = [outbox EXCEPT ![c] = <<>>]
        /\ view' = [view EXCEPT ![c] = "unknown"]
        /\ missed' = [missed EXCEPT ![c] = FALSE]
    BY <1>6, <1>t, DropDisconnects DEF Disconnect
  <2> HIDE DEF c
  <2>2. missed' \in [Client -> BOOLEAN]
    BY <2>1 DEF WireOK
  <2>3. outbox' \in [Client -> Seq(Role \cup {Heartbeat})]
    BY <2>1 DEF WireOK
  <2> QED BY <1>t, <2>1, <2>2, <2>3 DEF WireOK
<1>7. ASSUME NEW e \in Elector, Read(e) PROVE WireOK'
  <2>1. Head(todo[e]) \in Client
    BY <1>7, <1>t DEF Read, Walking
  <2> QED BY <1>7, <2>1 DEF Read, WireOK
<1>8. ASSUME NEW e \in Elector, Process(e) PROVE WireOK'
  <2> DEFINE c == Head(todo[e])
             beats == [k \in 1..Beats(c) |-> Heartbeat]
  <2>1. c \in Client /\ beats \in Seq(Role \cup {Heartbeat})
    BY <1>8, <1>t, BeatsType DEF Process, Walking
  <2>2. outbox[c] \o beats \in Seq(Role \cup {Heartbeat})
    BY <2>1, ConcatProperties DEF WireOK
  <2>3. /\ held' = [held EXCEPT ![c] = <<>>]
        /\ outbox' = [outbox EXCEPT ![c] = @ \o beats]
        /\ age' = [age EXCEPT ![c] = IF Beats(c) = 0 THEN @ ELSE 0]
        /\ UNCHANGED <<conn, hung, inbox, view, missed>>
    BY <1>8 DEF Process
  <2> HIDE DEF beats, c
  <2> QED BY <1>t, <2>1, <2>2, <2>3 DEF WireOK
<1>9. ASSUME NEW e \in Elector, Update(e) PROVE WireOK'
  <2> DEFINE c == Head(todo[e])
  <2>1. /\ c \in Client
        /\ UNCHANGED <<age, conn, hung, inbox, held, view>>
        /\ UNCHANGED <<outbox, missed>> \/ Notify(c)
    BY <1>9, <1>t DEF Update, Walking
  <2>2. role'[c] \in Role
    BY <1>t, <2>1
  <2>3. Append(outbox[c], role'[c]) \in Seq(Role \cup {Heartbeat})
    BY <2>1, <2>2 DEF WireOK
  <2>4. (Room(c) = 0) \in BOOLEAN
    OBVIOUS
  <2>5. missed' \in [Client -> BOOLEAN]
    BY <2>1, <2>4, Zenon DEF Notify, WireOK
  <2>6. outbox' \in [Client -> Seq(Role \cup {Heartbeat})]
    BY <2>1, <2>3 DEF Notify, WireOK
  <2> QED BY <2>1, <2>5, <2>6 DEF WireOK
<1>10. ASSUME NEW e \in Elector, Reboot(e) PROVE WireOK'
  <2>1. /\ age' \in [Client -> 0..ClientTimeout + 1]
        /\ conn' \in [Client -> {"none", "pending", "open"}]
        /\ hung' \subseteq Client
    BY <1>10, <1>t DEF Reboot, WireOK
  <2>2. /\ inbox' \in [Client -> Seq(Message)]
        /\ held' \in [Client -> Seq(Message)]
        /\ outbox' \in [Client -> Seq(Role \cup {Heartbeat})]
    BY <1>10 DEF Reboot, WireOK
  <2>3. view' \in [Client -> Role]
    BY <1>10, <1>t DEF Reboot, WireOK
  <2>4. missed' \in [Client -> BOOLEAN]
    BY <1>10, Zenon DEF Reboot, WireOK
  <2> QED BY <2>1, <2>2, <2>3, <2>4 DEF WireOK
<1>11. ASSUME Second PROVE WireOK'
  BY <1>11, <1>t DEF Second, WireOK
<1>12. ASSUME UNCHANGED wire PROVE WireOK'
  BY <1>12 DEF wire, WireOK
<1> QED
  BY <1>1, <1>2, <1>3, <1>4, <1>5, <1>6, <1>7, <1>8, <1>9, <1>10, <1>11, <1>12
  DEF LoopNext, LoopStep, Drop, allVars

LEMMA WireInit == LoopInit => WireOK
BY LoopAssumption DEF LoopInit, WireOK, Role

LEMMA WireInvariant == LoopSpec => [](WalkInv /\ WireOK)
<1>1. LoopInit => WalkInv /\ WireOK
  BY WalkInit, WireInit
<1>2. WalkInv /\ WireOK /\ [LoopNext]_allVars => (WalkInv /\ WireOK)'
  BY WalkStep, WireStep
<1> QED BY <1>1, <1>2, PTL DEF LoopSpec

\* Type correctness of the event loop, whatever arrives from the servicers.
THEOREM LoopTypeCorrect == LoopSpec => []LoopTypeOK
<1>1. WalkInv /\ WireOK => LoopTypeOK
  BY DEF WalkInv, WireOK, LoopInv, IInv, TypeInv, LoopTypeOK
<1> QED BY <1>1, WireInvariant, PTL

-----------------------------------------------------------------------------
(***************************************************************************)
(* A heartbeat that waits is heard before the time is looked at.           *)
(***************************************************************************)

\* What became of the heartbeat that waited when the walk came to its client.
Heeded(e) == LET c == Head(todo[e]) IN
    knocked[e] => /\ pc[e] \in Walking
                  /\ pc[e] = "visit" => Knocks(c)
                  /\ pc[e] = "process" => Beats(c) > 0
                  /\ pc[e] = "check" => age[c] = 0

HeedInv == WalkInv /\ WireOK /\ \A e \in Elector : Heeded(e)

\* Whether it is heeded rests on where the loop is and what its client sent.
LEMMA HeedKept ==
    ASSUME NEW e \in Elector, Heeded(e), todo'[e] = todo[e], pc'[e] = pc[e],
           knocked'[e] = knocked[e],
           pc[e] \in Walking =>
              /\ Knocks(Head(todo[e])) => Heartbeat \in ToSet(inbox'[Head(todo[e])])
              /\ held'[Head(todo[e])] = held[Head(todo[e])]
              /\ age'[Head(todo[e])] = age[Head(todo[e])]
    PROVE  Heeded(e)'
BY DEF Heeded, Knocks, Beats

\* The client the walk comes to next is another one than the one dropped.
LEMMA NextIsAnother ==
    ASSUME WalkInv, NEW e \in Elector, pc[e] \in Walking, Tail(todo[e]) # <<>>
    PROVE  Head(Tail(todo[e])) # Head(todo[e])
<1> DEFINE s == todo[e]
           t == clients[e]
<1>1. /\ s \in Seq(Client) /\ t \in Seq(Client) /\ s # <<>>
      /\ Ends(s, t) /\ IsInjective(t)
  BY DEF WalkInv, LoopInv, Walk
<1>2. /\ Len(s) \in Nat \ {0} /\ Len(t) \in Nat /\ DOMAIN t = 1..Len(t)
      /\ Tail(s) \in Seq(Client) /\ Len(Tail(s)) = Len(s) - 1 /\ Head(s) = s[1]
      /\ \A k \in 1..Len(Tail(s)) : Tail(s)[k] = s[k + 1]
  BY <1>1, LenProperties, HeadTailProperties, EmptySeq
<1>3. Len(Tail(s)) \in Nat \ {0} /\ Head(Tail(s)) = Tail(s)[1]
  <2> DEFINE u == Tail(s)
  <2>1. u \in Seq(Client) /\ u # <<>>
    BY <1>2
  <2> HIDE DEF u
  <2>2. Len(u) \in Nat \ {0} /\ Head(u) = u[1]
    BY <2>1, LenProperties, HeadTailProperties, EmptySeq
  <2> QED BY <2>2 DEF u
<1> HIDE DEF s, t
<1>4. 2 \in 1..Len(s) /\ 1 \in 1..Len(s) /\ Head(Tail(s)) = s[2]
  BY <1>2, <1>3
<1>5. /\ s[1] = t[Len(t) - Len(s) + 1] /\ s[2] = t[Len(t) - Len(s) + 2]
      /\ Len(s) <= Len(t)
  BY <1>1, <1>4 DEF Ends
<1>6. /\ Len(t) - Len(s) + 1 \in 1..Len(t) /\ Len(t) - Len(s) + 2 \in 1..Len(t)
      /\ Len(t) - Len(s) + 1 # Len(t) - Len(s) + 2
  BY <1>2, <1>4, <1>5
<1>7. \A i, j \in 1..Len(t) : t[i] = t[j] => i = j
  BY <1>1, <1>2 DEF IsInjective
<1>8. s[1] # s[2]
  BY <1>5, <1>6, <1>7
<1> QED BY <1>2, <1>4, <1>8 DEF s

\* Turning to a client, its inbox tells.
LEMMA HeedOnTurn ==
    ASSUME LoopInv, NEW e \in Elector, NEW s \in Seq(Client), TurnTo(e, s),
           s # <<>> => inbox'[Head(s)] = inbox[Head(s)]
    PROVE  Heeded(e)'
<1>1. /\ todo'[e] = s /\ pc'[e] = IF s = <<>> THEN "sleep" ELSE "visit"
      /\ knocked'[e] <=> s # <<>> /\ Knocks(Head(s))
  BY DEF TurnTo, LoopInv
<1>2. s # <<>> /\ Knocks(Head(s)) => Knocks(Head(s))'
  BY DEF Knocks
<1> QED BY <1>1, <1>2 DEF Heeded, Walking, Knocks

\* Another elector turns.
LEMMA TurnAlone ==
    ASSUME LoopInv, NEW e \in Elector, NEW s, TurnTo(e, s), NEW f \in Elector, f # e
    PROVE  todo'[f] = todo[f] /\ pc'[f] = pc[f] /\ knocked'[f] = knocked[f]
BY DEF TurnTo, LoopInv

LEMMA HeedStep == HeedInv /\ [LoopNext]_allVars => HeedInv'
<1> SUFFICES ASSUME HeedInv, [LoopNext]_allVars, NEW f \in Elector PROVE Heeded(f)'
  BY WalkStep, WireStep DEF HeedInv
<1>t. /\ WalkInv /\ WireOK /\ LoopInv /\ Heeded(f)
      /\ \A e \in Elector : pc[e] \in Walking =>
            /\ Head(todo[e]) \in Client /\ Tail(todo[e]) \in Seq(Client)
            /\ Host[Head(todo[e])] = e
      /\ online \subseteq Client
  BY HeadInClient, WalkedIsOnline DEF HeedInv, WalkInv, IInv, TypeInv, TypeOK
<1>w. /\ age \in [Client -> 0..ClientTimeout + 1]
      /\ inbox \in [Client -> Seq(Message)] /\ held \in [Client -> Seq(Message)]
  BY <1>t DEF WireOK
<1>f. /\ pc \in [Elector -> Walking \cup {"accept", "sleep"}]
      /\ clients \in [Elector -> Seq(Client)]
  BY <1>t DEF LoopInv
<1>o. ASSUME UNCHANGED <<todo, pc, knocked, inbox, held, age>> PROVE Heeded(f)'
  BY <1>o, <1>t, HeedKept DEF Knocks
<1>1. ASSUME NEW c \in Client, Connect(c) \/ Receive(c) \/ HangUp(c) PROVE Heeded(f)'
  BY <1>1, <1>o DEF Connect, Receive, HangUp, loop
<1>2. ASSUME NEW c \in Client, NEW m \in Says[c], Send(c, m) PROVE Heeded(f)'
  <2>1. /\ UNCHANGED <<todo, pc, knocked, held, age>>
        /\ inbox' = [inbox EXCEPT ![c] = Append(@, m)]
    BY <1>2 DEF Send, loop
  <2>2. ASSUME NEW d \in Client, Knocks(d) PROVE Heartbeat \in ToSet(inbox'[d])
    <3>1. CASE d = c
      <4> DEFINE s == inbox[c]
      <4>1. s \in Seq(Message) /\ m \in Message /\ inbox'[d] = Append(s, m)
        BY <1>w, <2>1, <3>1, LoopAssumption
      <4>2. /\ Append(s, m) \in Seq(Message) /\ Len(Append(s, m)) = Len(s) + 1
            /\ \A k \in 1..Len(s) : Append(s, m)[k] = s[k]
            /\ Len(s) \in Nat /\ DOMAIN s = 1..Len(s)
        BY <4>1, AppendProperties, LenProperties
      <4>3. DOMAIN Append(s, m) = 1..Len(s) + 1
        BY <4>2, LenProperties
      <4>4. PICK k \in 1..Len(s) : s[k] = Heartbeat
        BY <2>2, <3>1, <4>2 DEF Knocks, ToSet
      <4>5. k \in DOMAIN Append(s, m) /\ Append(s, m)[k] = Heartbeat
        BY <4>2, <4>3, <4>4
      <4> QED BY <4>1, <4>5 DEF ToSet
    <3>2. CASE d # c
      BY <1>w, <2>1, <2>2, <3>2 DEF Knocks
    <3> QED BY <3>1, <3>2
  <2> QED BY <1>t, <2>1, <2>2, HeedKept
<1>3. ASSUME NEW e \in Elector, Accept(e) PROVE Heeded(f)'
  <2>1. PICK c \in Client :
           /\ c \notin online /\ age' = [age EXCEPT ![c] = 0]
           /\ UNCHANGED <<todo, pc, knocked, inbox, held>>
    BY <1>3 DEF Accept, Join
  <2>2. pc[f] \in Walking => Head(todo[f]) # c
    BY <1>t, <2>1, WalkedIsOnline
  <2> QED BY <1>t, <1>w, <2>1, <2>2, HeedKept DEF Knocks
<1>4. ASSUME NEW e \in Elector, NEW s \in Seq(Client), TurnTo(e, s),
             UNCHANGED <<inbox, held, age>>
      PROVE  Heeded(f)'
  <2>1. CASE f = e
    BY <1>4, <1>t, <2>1, HeedOnTurn
  <2>2. CASE f # e
    <3>1. todo'[f] = todo[f] /\ pc'[f] = pc[f] /\ knocked'[f] = knocked[f]
      BY <1>4, <1>t, <2>2, TurnAlone
    <3> QED BY <1>4, <1>t, <3>1, HeedKept DEF Knocks
  <2> QED BY <2>1, <2>2
<1>5. ASSUME NEW e \in Elector, BeginPass(e) PROVE Heeded(f)'
  BY <1>5, <1>4, <1>f DEF BeginPass, wire
<1>6. ASSUME NEW e \in Elector, Drop(e) PROVE Heeded(f)'
  <2> DEFINE c == Head(todo[e])
  <2>1. /\ Disconnect(e) /\ pc[e] \in Walking
        /\ c \in Client /\ Tail(todo[e]) \in Seq(Client) /\ Host[c] = e
    BY <1>6, <1>t, DropDisconnects
  <2>2. /\ TurnTo(e, Tail(todo[e]))
        /\ inbox' = [inbox EXCEPT ![c] = <<>>]
        /\ held' = [held EXCEPT ![c] = <<>>]
        /\ age' = [age EXCEPT ![c] = 0]
    BY <2>1 DEF Disconnect, Advance
  <2> HIDE DEF c
  <2>3. CASE f = e
    <3>1. Tail(todo[e]) # <<>> => Head(Tail(todo[e])) # c
      BY <1>t, <2>1, NextIsAnother DEF c
    <3>2. Tail(todo[e]) # <<>> => inbox'[Head(Tail(todo[e]))] = inbox[Head(Tail(todo[e]))]
      <4>1. Tail(todo[e]) # <<>> => Head(Tail(todo[e])) \in Client
        BY <2>1, HeadTailProperties
      <4> QED BY <1>w, <2>2, <3>1, <4>1
    <3> QED BY <1>t, <2>1, <2>2, <2>3, <3>2, HeedOnTurn
  <2>4. CASE f # e
    <3>1. todo'[f] = todo[f] /\ pc'[f] = pc[f] /\ knocked'[f] = knocked[f]
      BY <1>t, <2>1, <2>2, <2>4, TurnAlone
    <3>2. pc[f] \in Walking => Head(todo[f]) # c /\ Head(todo[f]) \in Client
      BY <1>t, <2>1, <2>4
    <3> QED BY <1>t, <1>w, <2>2, <3>1, <3>2, HeedKept DEF Knocks
  <2> QED BY <2>3, <2>4
<1>7. ASSUME NEW e \in Elector, Read(e) PROVE Heeded(f)'
  <2> DEFINE c == Head(todo[e])
  <2>1. /\ pc[e] = "visit" /\ pc[e] \in Walking /\ UNCHANGED <<todo, knocked, age>>
        /\ pc' = [pc EXCEPT ![e] = "process"]
        /\ held' = [held EXCEPT ![c] = inbox[c]]
        /\ inbox' = [inbox EXCEPT ![c] = <<>>]
    BY <1>7 DEF Read, GoOn, Walking
  <2>2. c \in Client /\ Host[c] = e
    BY <1>t, <2>1
  <2>3. CASE f = e
    <3>1. pc'[f] = "process" /\ pc'[f] \in Walking /\ pc[f] = "visit"
      BY <1>f, <2>1, <2>3 DEF Walking
    <3>2. held'[c] = inbox[c] /\ inbox[c] \in Seq(Message)
      BY <1>w, <2>1, <2>2
    <3>3. Knocks(c) =>
             Cardinality({k \in DOMAIN held'[c] : held'[c][k] = Heartbeat}) > 0
      BY <3>2, Counted DEF Knocks
    <3> QED BY <1>t, <2>1, <2>3, <3>1, <3>3 DEF Heeded, Beats
  <2>4. CASE f # e
    <3>1. pc'[f] = pc[f]
      BY <1>f, <2>1, <2>4
    <3>2. pc[f] \in Walking => Head(todo[f]) # c /\ Head(todo[f]) \in Client
      BY <1>t, <2>2, <2>4
    <3> HIDE DEF c
    <3> QED BY <1>t, <1>w, <2>1, <3>1, <3>2, HeedKept DEF Knocks
  <2> QED BY <2>3, <2>4
<1>8. ASSUME NEW e \in Elector, Process(e) PROVE Heeded(f)'
  <2> DEFINE c == Head(todo[e])
  <2>1. /\ pc[e] = "process" /\ pc[e] \in Walking /\ UNCHANGED <<todo, knocked, inbox>>
        /\ pc' = [pc EXCEPT ![e] = "check"]
        /\ held' = [held EXCEPT ![c] = <<>>]
        /\ age' = [age EXCEPT ![c] = IF Beats(c) = 0 THEN @ ELSE 0]
    BY <1>8 DEF Process, GoOn, Walking
  <2>2. c \in Client /\ Host[c] = e
    BY <1>t, <2>1
  <2>3. CASE f = e
    <3>1. pc'[f] = "check" /\ pc'[f] \in Walking /\ pc[f] = "process"
      BY <1>f, <2>1, <2>3 DEF Walking
    <3>2. Beats(c) > 0 => age'[c] = 0
      BY <1>w, <2>1, <2>2
    <3> QED BY <1>t, <2>1, <2>3, <3>1, <3>2 DEF Heeded
  <2>4. CASE f # e
    <3>1. pc'[f] = pc[f]
      BY <1>f, <2>1, <2>4
    <3>2. pc[f] \in Walking => Head(todo[f]) # c /\ Head(todo[f]) \in Client
      BY <1>t, <2>2, <2>4
    <3> HIDE DEF c
    <3> QED BY <1>t, <1>w, <2>1, <3>1, <3>2, HeedKept DEF Knocks
  <2> QED BY <2>3, <2>4
<1>9. ASSUME NEW e \in Elector, InTime(e) \/ GetLeaseFails(e) PROVE Heeded(f)'
  <2>1. /\ pc[e] \in Walking /\ UNCHANGED <<inbox, held, age>>
        /\ Advance(e) \/ (pc' = [pc EXCEPT ![e] = "update"] /\ UNCHANGED <<todo, knocked>>)
    BY <1>9 DEF InTime, GetLeaseFails, GoOn, wire, Walking
  <2>2. CASE Advance(e)
    BY <1>4, <1>t, <2>1, <2>2 DEF Advance
  <2>3. CASE pc' = [pc EXCEPT ![e] = "update"] /\ UNCHANGED <<todo, knocked>>
    <3>1. CASE f = e
      BY <1>f, <1>t, <2>1, <2>3, <3>1 DEF Heeded, Walking
    <3>2. CASE f # e
      <4>1. pc'[f] = pc[f]
        BY <1>f, <2>3, <3>2
      <4> QED BY <1>t, <2>1, <2>3, <4>1, HeedKept DEF Knocks
    <3> QED BY <3>1, <3>2
  <2> QED BY <2>1, <2>2, <2>3
<1>10. ASSUME NEW e \in Elector, Update(e) PROVE Heeded(f)'
  <2>1. /\ pc[e] \in Walking /\ UNCHANGED <<inbox, held, age>>
        /\ Advance(e) \/ UNCHANGED <<pc, todo, knocked>>
    BY <1>10 DEF Update, Walking
  <2> QED BY <1>4, <1>o, <1>t, <2>1 DEF Advance
<1>11. ASSUME NEW e \in Elector, Reboot(e) PROVE Heeded(f)'
  <2> DEFINE S == {c \in Client : Host[c] = e}
  <2>1. /\ knocked' = [knocked EXCEPT ![e] = FALSE]
        /\ pc' = [pc EXCEPT ![e] = "accept"] /\ todo' = [todo EXCEPT ![e] = <<>>]
        /\ \A c \in Client : c \notin S => /\ inbox'[c] = inbox[c]
                                          /\ held'[c] = held[c] /\ age'[c] = age[c]
    BY <1>11 DEF Reboot
  <2>2. CASE f = e
    <3>1. ~knocked'[f]
      BY <1>t, <2>1, <2>2 DEF LoopInv
    <3> QED BY <3>1 DEF Heeded
  <2>3. CASE f # e
    <3>1. todo'[f] = todo[f] /\ pc'[f] = pc[f] /\ knocked'[f] = knocked[f]
      BY <1>t, <2>1, <2>3 DEF LoopInv
    <3>2. pc[f] \in Walking => Head(todo[f]) \notin S /\ Head(todo[f]) \in Client
      BY <1>t, <2>3
    <3> HIDE DEF S
    <3> QED BY <1>t, <2>1, <3>1, <3>2, HeedKept DEF Knocks
  <2> QED BY <2>2, <2>3
<1>12. ASSUME Second PROVE Heeded(f)'
  <2>1. /\ pc[f] # "check" /\ UNCHANGED <<todo, knocked, inbox, held>>
        /\ pc'[f] = IF pc[f] = "sleep" THEN "accept" ELSE pc[f]
    BY <1>12 DEF Second, Prompt
  <2> QED BY <1>t, <2>1 DEF Heeded, Walking, Knocks, Beats
<1>13. ASSUME UNCHANGED <<loop, wire>> PROVE Heeded(f)'
  BY <1>13, <1>o DEF loop, wire
<1> QED
  BY <1>1, <1>2, <1>3, <1>5, <1>6, <1>7, <1>8, <1>9, <1>10, <1>11, <1>12, <1>13
  DEF LoopNext, LoopStep, Drop, allVars

LEMMA HeedInvariant == LoopSpec => []HeedInv
<1>1. LoopInit => HeedInv
  <2>1. LoopInit => \A e \in Elector : Heeded(e)
    BY DEF LoopInit, Heeded
  <2> QED BY <2>1, WalkInit, WireInit DEF HeedInv
<1> QED BY <1>1, HeedStep, PTL DEF LoopSpec

\* A client that has a heartbeat waiting when the walk comes to it is not dropped
\* for the time, however long the requests for others took: what waits is read
\* and worked off before the time is looked at.
THEOREM NobodyTimedOutUnheard == LoopSpec => NoFalseTimeout
<1> DEFINE Fair == \A e \in Elector :
       knocked[e] /\ Head(todo[e]) \in online /\ Head(todo[e]) \notin online'
       => ReadFails(e) \/ ProcessFails(e) \/ Reboot(e)
<1>1. HeedInv /\ [LoopNext]_allVars => Fair
  <2> SUFFICES ASSUME HeedInv, [LoopNext]_allVars, NEW e \in Elector, knocked[e],
                      Head(todo[e]) \in online, Head(todo[e]) \notin online'
               PROVE  ReadFails(e) \/ ProcessFails(e) \/ Reboot(e)
    OBVIOUS
  <2>1. /\ WalkInv /\ Heeded(e) /\ pc[e] \in Walking
        /\ Host[Head(todo[e])] = e /\ Head(todo[e]) \in Client
    BY WalkedIsOnline, HeadInClient DEF HeedInv, Heeded, WalkInv
  <2>2. Reboot(e) \/ Drop(e)
    BY <2>1, WhoIsOnline
  <2>3. ~TimeOut(e)
    BY <2>1, LoopAssumption DEF Heeded, TimeOut, TimedOut
  <2> QED BY <2>2, <2>3 DEF Drop
<1>2. HeedInv /\ [LoopNext]_allVars => [Fair]_allVars
  BY <1>1
<1> HIDE DEF Fair
<1>3. LoopSpec => [][Fair]_allVars
  BY <1>2, HeedInvariant, PTL DEF LoopSpec
<1> QED BY <1>3 DEF NoFalseTimeout, Fair

-----------------------------------------------------------------------------
(***************************************************************************)
(* What a client is told.                                                  *)
(***************************************************************************)

\* The role the client was told last: the one it had when the attempt that runs
\* for it, if any, began.
LastTold(c) == IF attempt[c].stage = "idle" THEN role[c] ELSE attempt[c].before

\* A client that is not there yet knows nothing and is told nothing.
Told(c) ==
    /\ c \in online /\ ~missed[c] => WillKnow(c, LastTold(c))
    /\ c \notin online => view[c] = "unknown" /\ outbox[c] = <<>> /\ role[c] = "unknown"

\* Nothing is written that the send buffer has no room for.
Fits == \A c \in Client : Len(outbox[c]) <= SendBuffer

ToldInv == WalkInv /\ WireOK /\ Fits /\ \A c \in Client : Told(c)

\* Reading takes nothing from what the client will know.
LEMMA Receipt ==
    ASSUME WireOK, NEW c \in Client, NEW r \in Role, Receive(c), WillKnow(c, r)
    PROVE  WillKnow(c, r)'
<1> DEFINE s == outbox[c]
<1>1. /\ s \in Seq(Role \cup {Heartbeat}) /\ s # <<>> /\ outbox'[c] = Tail(s)
      /\ view'[c] = (IF Head(s) = Heartbeat THEN view[c] ELSE Head(s))
  BY DEF Receive, WireOK
<1>2. /\ Len(s) \in Nat \ {0} /\ DOMAIN s = 1..Len(s) /\ Head(s) = s[1]
      /\ DOMAIN Tail(s) = 1..Len(s) - 1
      /\ \A k \in 1..Len(s) - 1 : Tail(s)[k] = s[k + 1]
  <2>1. /\ Len(s) \in Nat \ {0} /\ DOMAIN s = 1..Len(s) /\ Head(s) = s[1]
    BY <1>1, EmptySeq, LenProperties, HeadTailProperties
  <2>2. /\ Tail(s) \in Seq(Role \cup {Heartbeat}) /\ Len(Tail(s)) = Len(s) - 1
        /\ \A k \in 1..Len(Tail(s)) : Tail(s)[k] = s[k + 1]
    BY <1>1, HeadTailProperties
  <2>3. DOMAIN Tail(s) = 1..Len(Tail(s))
    BY <2>2, LenProperties
  <2> QED BY <2>1, <2>2, <2>3
<1>3. /\ \A k \in 1..Len(s) - 1 : k + 1 \in 1..Len(s) /\ Tail(s)[k] = s[k + 1]
      /\ 1 \in 1..Len(s) /\ r # Heartbeat
  BY <1>2, LoopAssumption
<1>4. CASE view[c] = r /\ \A k \in 1..Len(s) : s[k] = Heartbeat
  BY <1>1, <1>2, <1>3, <1>4 DEF WillKnow
<1>5. ASSUME NEW k \in 1..Len(s), s[k] = r, \A j \in 1..Len(s) : j > k => s[j] = Heartbeat
      PROVE  WillKnow(c, r)'
  <2>1. CASE k = 1
    <3>1. \A j \in 1..Len(s) - 1 : Tail(s)[j] = Heartbeat
      <4>1. \A j \in 1..Len(s) - 1 : j + 1 > k
        BY <1>2, <2>1
      <4> QED BY <1>3, <1>5, <4>1
    <3>2. view'[c] = r
      BY <1>1, <1>2, <1>3, <1>5, <2>1
    <3> QED BY <1>1, <1>2, <3>1, <3>2 DEF WillKnow
  <2>2. CASE k # 1
    <3>1. /\ k - 1 \in 1..Len(s) - 1 /\ (k - 1) + 1 = k
          /\ \A j \in 1..Len(s) - 1 : j > k - 1 => j + 1 > k
      BY <1>2, <2>2
    <3>2. Tail(s)[k - 1] = r
      BY <1>3, <1>5, <3>1
    <3>3. \A j \in 1..Len(s) - 1 : j > k - 1 => Tail(s)[j] = Heartbeat
      BY <1>3, <1>5, <3>1
    <3> QED BY <1>1, <1>2, <3>1, <3>2, <3>3 DEF WillKnow
  <2> QED BY <2>1, <2>2
<1> QED BY <1>2, <1>4, <1>5 DEF WillKnow

\* Nor do heartbeats written after it.
LEMMA HeardBack ==
    ASSUME NEW c \in Client, NEW r, NEW n \in Nat,
           outbox[c] \in Seq(Role \cup {Heartbeat}),
           outbox'[c] = outbox[c] \o [k \in 1..n |-> Heartbeat],
           view'[c] = view[c], WillKnow(c, r)
    PROVE  WillKnow(c, r)'
<1> DEFINE s == outbox[c]
           beats == [k \in 1..n |-> Heartbeat]
<1>1. /\ beats \in Seq(Role \cup {Heartbeat}) /\ Len(beats) = n
      /\ \A k \in 1..n : beats[k] = Heartbeat
  OBVIOUS
<1> HIDE DEF beats
<1>2. Len(s) \in Nat /\ DOMAIN s = 1..Len(s)
  BY LenProperties
<1>3. /\ DOMAIN (s \o beats) = 1..Len(s) + n
      /\ \A k \in 1..Len(s) + n :
            (s \o beats)[k] = IF k <= Len(s) THEN s[k] ELSE Heartbeat
  <2>1. /\ s \o beats \in Seq(Role \cup {Heartbeat})
        /\ Len(s \o beats) = Len(s) + Len(beats)
        /\ \A k \in 1..Len(s) + Len(beats) :
              (s \o beats)[k] = IF k <= Len(s) THEN s[k] ELSE beats[k - Len(s)]
    BY <1>1, ConcatProperties
  <2>2. DOMAIN (s \o beats) = 1..Len(s) + n
    BY <1>1, <2>1, LenProperties
  <2>3. \A k \in 1..Len(s) + n : ~(k <= Len(s)) => k - Len(s) \in 1..n
    BY <1>2
  <2> QED BY <1>1, <2>1, <2>2, <2>3
<1>4. \A k \in 1..Len(s) : k \in 1..Len(s) + n /\ (s \o beats)[k] = s[k]
  BY <1>2, <1>3
<1>5. \A k \in 1..Len(s) + n :
         k \in 1..Len(s) \/ (s \o beats)[k] = Heartbeat
  BY <1>2, <1>3
<1>6. outbox'[c] = s \o beats
  BY DEF beats
<1> HIDE DEF s
<1>7. CASE view[c] = r /\ \A k \in 1..Len(s) : s[k] = Heartbeat
  <2>1. \A k \in 1..Len(s) + n : (s \o beats)[k] = Heartbeat
    BY <1>4, <1>5, <1>7
  <2> QED BY <1>3, <1>6, <1>7, <2>1 DEF WillKnow
<1>8. ASSUME NEW k \in 1..Len(s), s[k] = r, \A j \in 1..Len(s) : j > k => s[j] = Heartbeat
      PROVE  WillKnow(c, r)'
  <2>1. \A j \in 1..Len(s) + n : j > k => (s \o beats)[j] = Heartbeat
    BY <1>4, <1>5, <1>8
  <2>2. k \in 1..Len(s) + n /\ (s \o beats)[k] = r
    BY <1>4, <1>8
  <2> QED BY <1>3, <1>6, <2>1, <2>2 DEF WillKnow
<1> QED BY <1>2, <1>7, <1>8 DEF WillKnow, s

\* A role written is the one the client will know.
LEMMA Written ==
    ASSUME NEW c \in Client, NEW r \in Role, outbox[c] \in Seq(Role \cup {Heartbeat}),
           outbox'[c] = Append(outbox[c], r)
    PROVE  WillKnow(c, r)'
<1> DEFINE s == outbox[c]
<1>1. Len(s) \in Nat
  BY LenProperties
<1>2. /\ Append(s, r) \in Seq(Role \cup {Heartbeat})
      /\ Len(Append(s, r)) = Len(s) + 1
      /\ Append(s, r)[Len(s) + 1] = r
  BY AppendProperties
<1>3. DOMAIN Append(s, r) = 1..Len(s) + 1
  BY <1>2, LenProperties
<1>4. /\ Len(s) + 1 \in 1..Len(s) + 1
      /\ \A j \in 1..Len(s) + 1 : ~(j > Len(s) + 1)
  BY <1>1
<1> QED BY <1>2, <1>3, <1>4 DEF WillKnow

\* What was told to a client rests on what is its own.
LEMMA ToldKept ==
    ASSUME NEW c \in Client, Told(c), c \in online' <=> c \in online,
           role'[c] = role[c], attempt'[c].stage = attempt[c].stage,
           attempt'[c].before = attempt[c].before,
           outbox'[c] = outbox[c], view'[c] = view[c], missed'[c] = missed[c]
    PROVE  Told(c)'
BY DEF Told, WillKnow, LastTold

LEMMA FitsStep == WalkInv /\ WireOK /\ Fits /\ [LoopNext]_allVars => Fits'
<1> SUFFICES ASSUME WalkInv, WireOK, Fits, [LoopNext]_allVars, NEW d \in Client
             PROVE  Len(outbox'[d]) <= SendBuffer
  BY DEF Fits
<1>t. /\ \A e \in Elector : pc[e] \in Walking => Head(todo[e]) \in Client
      /\ outbox \in [Client -> Seq(Role \cup {Heartbeat})]
      /\ outbox[d] \in Seq(Role \cup {Heartbeat}) /\ Len(outbox[d]) \in Nat
      /\ Len(outbox[d]) <= SendBuffer /\ SendBuffer \in Nat /\ Len(<<>>) = 0
  BY HeadInClient, LenProperties, LoopAssumption DEF WalkInv, WireOK, Fits
<1>1. ASSUME NEW c \in Client, Connect(c) \/ HangUp(c) PROVE outbox' = outbox
  BY <1>1 DEF Connect, HangUp
<1>2. ASSUME NEW c \in Client, Receive(c) PROVE Len(outbox'[d]) <= SendBuffer
  <2>1. /\ outbox' = [outbox EXCEPT ![c] = Tail(@)] /\ outbox[c] # <<>>
    BY <1>2 DEF Receive
  <2>2. CASE d = c
    <3>1. Len(Tail(outbox[d])) = Len(outbox[d]) - 1
      BY <1>t, <2>1, <2>2, HeadTailProperties
    <3> QED BY <1>t, <2>1, <2>2, <3>1
  <2> QED BY <1>t, <2>1, <2>2
<1>3. ASSUME NEW c \in Client, NEW m, Send(c, m) PROVE outbox' = outbox
  BY <1>3 DEF Send
<1>4. ASSUME NEW e \in Elector, \/ Accept(e) \/ BeginPass(e) \/ Read(e)
                              \/ InTime(e) \/ GetLeaseFails(e)
      PROVE  outbox' = outbox
  BY <1>4 DEF Accept, BeginPass, Read, InTime, GetLeaseFails, wire
<1>6. ASSUME NEW e \in Elector, Drop(e) PROVE Len(outbox'[d]) <= SendBuffer
  <2>1. outbox' = [outbox EXCEPT ![Head(todo[e])] = <<>>]
    BY <1>6, DropDisconnects DEF Disconnect
  <2> QED BY <1>t, <2>1
<1>7. ASSUME NEW e \in Elector, Process(e) PROVE Len(outbox'[d]) <= SendBuffer
  <2> DEFINE c == Head(todo[e])
             beats == [k \in 1..Beats(c) |-> Heartbeat]
  <2>1. /\ outbox' = [outbox EXCEPT ![c] = @ \o beats] /\ c \in Client
        /\ ~(Beats(c) > Room(c))
    BY <1>7, <1>t DEF Process, Unworkable, Walking
  <2>2. beats \in Seq(Role \cup {Heartbeat}) /\ Len(beats) = Beats(c) /\ Beats(c) \in Nat
    BY <2>1, BeatsType
  <2> HIDE DEF beats, c
  <2>3. CASE d = c
    <3>1. Len(outbox'[d]) = Len(outbox[d]) + Beats(d)
      <4>1. outbox'[d] = outbox[d] \o beats
        BY <1>t, <2>1, <2>3
      <4>2. Len(outbox[d] \o beats) = Len(outbox[d]) + Len(beats)
        BY <1>t, <2>2, ConcatProperties
      <4> QED BY <2>2, <2>3, <4>1, <4>2
    <3> QED BY <1>t, <2>1, <2>2, <2>3, <3>1 DEF Room
  <2> QED BY <1>t, <2>1, <2>3
<1>8. ASSUME NEW e \in Elector, Update(e) PROVE Len(outbox'[d]) <= SendBuffer
  <2> DEFINE c == Head(todo[e])
  <2>1. \/ outbox' = outbox
        \/ outbox' = [outbox EXCEPT ![c] = Append(@, role'[c])] /\ Room(c) > 0
    BY <1>8 DEF Update, Notify
  <2> HIDE DEF c
  <2>2. CASE d = c /\ outbox'[d] = Append(outbox[d], role'[d]) /\ Room(d) > 0
    <3>1. role'[d] \in Role
      BY WalkStep DEF WalkInv, IInv, TypeInv, TypeOK
    <3>2. Len(outbox'[d]) = Len(outbox[d]) + 1
      BY <1>t, <2>2, <3>1, AppendProperties
    <3> QED BY <1>t, <2>2, <3>2 DEF Room
  <2> QED BY <1>t, <2>1, <2>2
<1>9. ASSUME NEW e \in Elector, Reboot(e) PROVE Len(outbox'[d]) <= SendBuffer
  BY <1>9, <1>t DEF Reboot
<1>10. ASSUME Second PROVE outbox' = outbox
  BY <1>10 DEF Second
<1>11. ASSUME UNCHANGED wire PROVE outbox' = outbox
  BY <1>11 DEF wire
<1> QED
  BY <1>t, <1>1, <1>2, <1>3, <1>4, <1>6, <1>7, <1>8, <1>9, <1>10, <1>11
  DEF LoopNext, LoopStep, Drop, allVars

LEMMA ToldStep == ToldInv /\ [LoopNext]_allVars => ToldInv'
<1> SUFFICES ASSUME ToldInv, [LoopNext]_allVars, NEW d \in Client PROVE Told(d)'
  BY WalkStep, WireStep, FitsStep DEF ToldInv
<1>t. /\ WalkInv /\ IInv /\ IInv' /\ WireOK /\ Fits /\ Told(d)
      /\ role \in [Client -> Role] /\ role' \in [Client -> Role]
      /\ attempt \in [Client -> Attempt]
      /\ \A e \in Elector : pc[e] \in Walking => Head(todo[e]) \in Client
      /\ d \notin online => attempt[d].stage = "idle"
  BY HeadInClient, WalkStep DEF ToldInv, WalkInv, IInv, TypeInv, TypeOK, Attending
<1>w. /\ inbox \in [Client -> Seq(Message)] /\ view \in [Client -> Role]
      /\ outbox \in [Client -> Seq(Role \cup {Heartbeat})]
      /\ outbox[d] \in Seq(Role \cup {Heartbeat}) /\ missed \in [Client -> BOOLEAN]
  BY <1>t DEF WireOK
<1>r. LastTold(d) \in Role
  BY <1>t DEF LastTold, Attempt
<1>o. ASSUME UNCHANGED <<online, role, attempt>>,
             outbox'[d] = outbox[d], view'[d] = view[d], missed'[d] = missed[d]
      PROVE  Told(d)'
  BY <1>o, <1>t, ToldKept
<1>1. ASSUME NEW c \in Client, Connect(c) \/ HangUp(c) PROVE Told(d)'
  BY <1>1, <1>o DEF Connect, HangUp, vars
<1>2. ASSUME NEW c \in Client, Receive(c) PROVE Told(d)'
  <2>1. CASE d = c
    <3>1. d \in online
      BY <1>2, <1>t, <2>1 DEF Told, Receive
    <3>2. WillKnow(d, LastTold(d)) => WillKnow(d, LastTold(d)')
      BY <1>2 DEF LastTold, Receive, vars
    <3>3. UNCHANGED <<online, role, attempt, missed>>
      BY <1>2 DEF Receive, vars
    <3>4. WillKnow(d, LastTold(d)) => WillKnow(d, LastTold(d))'
      <4> DEFINE r == LastTold(d)
      <4>1. r' = r
        BY <3>3 DEF LastTold
      <4>2. ASSUME NEW q \in Role, WillKnow(d, q) PROVE WillKnow(d, q)'
        BY <1>2, <1>t, <2>1, <4>2, Receipt
      <4> HIDE DEF r
      <4> QED BY <1>r, <4>1, <4>2 DEF r, WillKnow
    <3> QED BY <1>t, <3>1, <3>3, <3>4 DEF Told
  <2>2. CASE d # c
    BY <1>2, <1>o, <1>w, <2>2 DEF Receive, vars
  <2> QED BY <2>1, <2>2
<1>3. ASSUME NEW c \in Client, NEW m, Send(c, m) PROVE Told(d)'
  BY <1>3, <1>o DEF Send, vars
<1>4. ASSUME NEW e \in Elector, Accept(e) PROVE Told(d)'
  <2>1. PICK c \in Client :
           /\ online' = online \cup {c} /\ c \notin online
           /\ UNCHANGED <<role, attempt, outbox, view, missed>>
    BY <1>4 DEF Accept, Join
  <2>2. CASE d = c
    <3>1. outbox'[d] = <<>> /\ view'[d] = LastTold(d)'
      BY <1>t, <2>1, <2>2 DEF Told, LastTold
    <3> QED BY <2>1, <2>2, <3>1 DEF Told, WillKnow
  <2>3. CASE d # c
    BY <1>t, <2>1, <2>3, ToldKept
  <2> QED BY <2>2, <2>3
<1>5. ASSUME NEW e \in Elector,
             BeginPass(e) \/ Read(e) \/ InTime(e) \/ GetLeaseFails(e)
      PROVE  Told(d)'
  BY <1>5, <1>o DEF BeginPass, Read, InTime, GetLeaseFails, wire, vars
<1>6. ASSUME NEW e \in Elector, Drop(e) PROVE Told(d)'
  <2> DEFINE c == Head(todo[e])
  <2>1. /\ online' = online \ {c}
        /\ role' = [x \in Client |-> IF x \in {c} THEN "unknown" ELSE role[x]]
        /\ attempt' = [x \in Client |-> IF x \in {c} THEN Idle ELSE attempt[x]]
        /\ outbox' = [outbox EXCEPT ![c] = <<>>]
        /\ view' = [view EXCEPT ![c] = "unknown"]
        /\ missed' = [missed EXCEPT ![c] = FALSE]
    BY <1>6, DropDisconnects DEF Disconnect, Leave, Forget
  <2> HIDE DEF c
  <2>2. CASE d = c
    BY <1>w, <2>1, <2>2 DEF Told
  <2>3. CASE d # c
    BY <1>t, <1>w, <2>1, <2>3, ToldKept
  <2> QED BY <2>2, <2>3
<1>7. ASSUME NEW e \in Elector, Process(e) PROVE Told(d)'
  <2> DEFINE c == Head(todo[e])
  <2>1. /\ UNCHANGED <<online, role, attempt, view, missed>>
        /\ outbox' = [outbox EXCEPT ![c] = @ \o [k \in 1..Beats(c) |-> Heartbeat]]
        /\ c \in Client
    BY <1>7, <1>t DEF Process, SetInfo, vars, Walking
  <2> HIDE DEF c
  <2>2. CASE d = c
    <3>1. outbox'[d] = outbox[d] \o [k \in 1..Beats(d) |-> Heartbeat]
      BY <1>w, <2>1, <2>2
    <3>2. Beats(d) \in Nat
      BY <1>t, BeatsType
    <3>3. view'[d] = view[d] /\ LastTold(d)' = LastTold(d)
      BY <2>1 DEF LastTold
    <3>4. ASSUME NEW q, WillKnow(d, q) PROVE WillKnow(d, q)'
      BY <1>w, <3>1, <3>2, <3>3, <3>4, HeardBack
    <3>5. WillKnow(d, LastTold(d)) => WillKnow(d, LastTold(d))'
      BY <3>3, <3>4 DEF WillKnow
    <3>6. d \in online
      BY <1>7, <1>t, <2>2, WalkedIsOnline DEF Process, Walking, c
    <3> QED BY <1>t, <2>1, <3>5, <3>6 DEF Told
  <2>3. CASE d # c
    BY <1>w, <1>o, <2>1, <2>3
  <2> QED BY <2>2, <2>3
<1>8. ASSUME NEW e \in Elector, Update(e) PROVE Told(d)'
  <2> DEFINE c == Head(todo[e])
  <2>1. /\ c \in Client /\ Step(c) /\ UNCHANGED view
        /\ IF attempt'[c].stage # "idle" THEN UNCHANGED <<outbox, missed>>
           ELSE Notify(c)
        /\ c \in online
    BY <1>8, <1>t, WalkedIsOnline DEF Update, Walking
  <2>2. /\ online' = online
        /\ \A x \in Client : x # c =>
              /\ attempt'[x].stage = attempt[x].stage
              /\ attempt'[x].before = attempt[x].before
              /\ role'[x] = role[x]
        /\ attempt[c].stage = "idle" =>
              /\ attempt'[c].stage = "read" /\ attempt'[c].before = role[c]
              /\ role' = role
        /\ attempt[c].stage # "idle" /\ attempt'[c].stage # "idle" =>
              attempt'[c].before = attempt[c].before
    BY <1>t, <2>1, StepAlone
  <2> HIDE DEF c
  <2>3. CASE d # c
    <3>1. outbox'[d] = outbox[d] /\ missed'[d] = missed[d]
      BY <1>w, <2>1, <2>3 DEF Notify
    <3> QED BY <1>t, <2>1, <2>2, <2>3, <3>1, ToldKept
  <2>4. CASE d = c /\ attempt'[c].stage # "idle"
    <3>1. LastTold(d)' = LastTold(d)
      BY <2>2, <2>4 DEF LastTold
    <3>2. WillKnow(d, LastTold(d)) => WillKnow(d, LastTold(d))'
      BY <2>1, <2>4, <3>1 DEF WillKnow
    <3> QED BY <1>t, <2>1, <2>2, <2>4, <3>2 DEF Told
  <2>5. CASE d = c /\ attempt'[c].stage = "idle"
    <3>1. /\ attempt[d].stage # "idle" /\ LastTold(d) = attempt[d].before
          /\ LastTold(d)' = role'[d] /\ Notify(d) /\ d \in online'
      BY <2>1, <2>2, <2>5 DEF LastTold
    <3>2. CASE role'[d] = attempt[d].before
      <4>1. UNCHANGED <<outbox, view, missed>>
        BY <2>1, <3>1, <3>2 DEF Notify
      <4>2. WillKnow(d, LastTold(d)) => WillKnow(d, LastTold(d))'
        BY <3>1, <3>2, <4>1 DEF WillKnow
      <4> QED BY <1>t, <2>1, <2>5, <3>1, <4>1, <4>2 DEF Told
    <3>3. CASE role'[d] # attempt[d].before /\ Room(d) > 0
      <4>1. outbox'[d] = Append(outbox[d], role'[d])
        BY <1>w, <3>1, <3>3 DEF Notify
      <4>2. role'[d] \in Role
        BY <1>t
      <4>3. \A q \in Role : outbox'[d] = Append(outbox[d], q) => WillKnow(d, q)'
        BY <1>w, Written
      <4>4. WillKnow(d, LastTold(d))'
        BY <3>1, <4>1, <4>2, <4>3 DEF WillKnow
      <4> QED BY <3>1, <4>4 DEF Told
    <3>4. CASE role'[d] # attempt[d].before /\ ~(Room(d) > 0)
      <4>1. missed' = [missed EXCEPT ![d] = Room(d) = 0]
        BY <3>1, <3>4 DEF Notify
      <4>2. Room(d) = 0
        <5>1. Len(outbox[d]) \in Nat /\ Len(outbox[d]) <= SendBuffer /\ SendBuffer \in Nat
          BY <1>t, <1>w, LenProperties, LoopAssumption DEF Fits
        <5> QED BY <3>4, <5>1 DEF Room
      <4>3. missed'[d]
        BY <1>w, <4>1, <4>2, Zenon
      <4> QED BY <3>1, <4>3 DEF Told
    <3> QED BY <3>2, <3>3, <3>4
  <2> QED BY <2>3, <2>4, <2>5
<1>9. ASSUME NEW e \in Elector, Reboot(e) PROVE Told(d)'
  <2> DEFINE S == {c \in Client : Host[c] = e}
  <2>1. /\ online' = online \ S
        /\ role'[d] = IF d \in S THEN "unknown" ELSE role[d]
        /\ attempt'[d] = IF d \in S THEN Idle ELSE attempt[d]
        /\ outbox'[d] = IF d \in S THEN <<>> ELSE outbox[d]
        /\ view'[d] = IF d \in S THEN "unknown" ELSE view[d]
        /\ missed'[d] = IF d \in S THEN FALSE ELSE missed[d]
    BY <1>9 DEF Reboot, Restart, Forget
  <2> HIDE DEF S
  <2>2. CASE d \in S
    BY <2>1, <2>2 DEF Told
  <2>3. CASE d \notin S
    BY <1>t, <2>1, <2>3, ToldKept
  <2> QED BY <2>2, <2>3
<1>10. ASSUME Second PROVE Told(d)'
  <2>1. /\ online' = online /\ role' = role
        /\ attempt'[d].stage = attempt[d].stage
        /\ attempt'[d].before = attempt[d].before
    BY <1>10, <1>t, TickAlone DEF Second
  <2>2. UNCHANGED <<outbox, view, missed>>
    BY <1>10 DEF Second
  <2> QED BY <1>t, <2>1, <2>2, ToldKept
<1>11. ASSUME NEW l \in Lease, StoreLate(l), UNCHANGED <<loop, wire>> PROVE Told(d)'
  <2>1. /\ online' = online /\ role' = role
        /\ attempt'[d].stage = attempt[d].stage
        /\ attempt'[d].before = attempt[d].before
    BY <1>11, <1>t, LateAlone
  <2>2. UNCHANGED <<outbox, view, missed>>
    BY <1>11 DEF wire
  <2> QED BY <1>t, <2>1, <2>2, ToldKept
<1>12. CASE UNCHANGED allVars
  BY <1>12, <1>o DEF allVars, vars, wire
<1> QED
  BY <1>1, <1>2, <1>3, <1>4, <1>5, <1>6, <1>7, <1>8, <1>9, <1>10, <1>11, <1>12
  DEF LoopNext, LoopStep, Drop

LEMMA ToldInit == LoopInit => ToldInv
<1>1. ASSUME LoopInit, NEW c \in Client PROVE Told(c)
  BY <1>1 DEF LoopInit, Init, Told
<1>2. LoopInit => Fits
  BY LoopAssumption DEF LoopInit, Fits
<1> QED BY <1>1, <1>2, WalkInit, WireInit DEF ToldInv

\* What a client will know once it has read all that was written to it is the
\* role it has, between any two attempts, unless the last Set_Role_Message
\* found the send buffer full.
THEOREM RoleIsTold == LoopSpec => []ToldUnlessMissed
<1>1. ToldInv => ToldUnlessMissed
  <2> SUFFICES ASSUME ToldInv, NEW c \in online, attempt[c].stage = "idle", ~missed[c]
               PROVE  WillKnow(c, role[c])
    BY DEF ToldUnlessMissed
  <2>1. c \in Client
    BY DEF ToldInv, WalkInv, IInv, TypeInv, TypeOK
  <2> QED BY <2>1 DEF ToldInv, Told, LastTold
<1> QED BY <1>1, ToldInit, ToldStep, PTL DEF LoopSpec
=============================================================================
