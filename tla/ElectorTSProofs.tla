--------------------------- MODULE ElectorTSProofs ---------------------------
(***************************************************************************)
(* The TypeScript elector is type correct, goes on from nothing but a      *)
(* success, and behaves toward the lease as LeaseTenure says, for any      *)
(* number of processes, connections and overlapping calls, and any         *)
(* durations.  Where no calls overlap, a client knows its role.            *)
(***************************************************************************)
EXTENDS ElectorTS, TLAPS

-----------------------------------------------------------------------------
(***************************************************************************)
(* Conditions on a status.                                                 *)
(***************************************************************************)

\* An expectation: only an error throws.
Expectation == {e \in [variable : Replies, severity : E!Severity,
                       result : BOOLEAN, throws : BOOLEAN] :
                   e.throws => e.severity = "error"}

\* Whoever goes on after a condition would have gone on before it, and it is met.
LEMMA NoneIsMadeUpFor ==
    ASSUME NEW e \in Expectation, NEW met \in BOOLEAN
    PROVE  /\ E!Condition(e, met) \in Expectation
           /\ E!Condition(e, met).variable = e.variable
           /\ E!GoesOn(E!Condition(e, met)) => E!GoesOn(e) /\ met
<1>1. CASE e.throws
  BY <1>1 DEF Expectation, E!Condition, E!GoesOn
<1>2. CASE ~e.throws
  <2>1. E!Condition(e, met) = [e EXCEPT !.result = e.result /\ met,
                                        !.throws = e.severity = "error" /\ ~met]
    BY <1>2 DEF Expectation, E!Condition
  <2> QED BY <1>2, <2>1 DEF Expectation, E!GoesOn, E!Severity
<1> QED BY <1>1, <1>2

\* What passes the conditions of a success is a number from 200 to 299: no
\* comparison stops undefined, but expect itself does.
LEMMA SuccessIs2xx ==
    ASSUME NEW status \in Replies, NEW severity \in E!Severity,
           Succeeded(status, severity)
    PROVE  Is2xx(status)
<1> DEFINE e  == [variable |-> status, severity |-> severity,
                  result |-> TRUE, throws |-> FALSE]
           e0 == E!expect(status, severity)
           e1 == E!isGTorEQ(e0, 200)
<1>1. e \in Expectation
  BY DEF Expectation
<1>2. /\ e0 \in Expectation /\ e0.variable = status
      /\ E!GoesOn(e0) => status # E!Undefined
  <2>1. (status # E!Undefined) \in BOOLEAN
    OBVIOUS
  <2> HIDE DEF e
  <2> QED BY <1>1, <2>1, NoneIsMadeUpFor DEF E!expect, e
<1>3. /\ e1 \in Expectation /\ e1.variable = status
      /\ E!GoesOn(e1) => E!GoesOn(e0) /\ ~(status # E!Undefined /\ status.n < 200)
  <2> DEFINE met == ~(e0.variable # E!Undefined /\ e0.variable.n < 200)
  <2>1. met \in BOOLEAN
    OBVIOUS
  <2>2. e1 = E!Condition(e0, met)
    BY DEF E!isGTorEQ
  <2> HIDE DEF e0, e1
  <2>3. /\ E!Condition(e0, met) \in Expectation
        /\ E!Condition(e0, met).variable = e0.variable
        /\ E!GoesOn(E!Condition(e0, met)) => E!GoesOn(e0) /\ met
    BY <1>2, <2>1, NoneIsMadeUpFor
  <2> QED BY <1>2, <2>2, <2>3
<1>4. E!GoesOn(e1) /\ ~(status # E!Undefined /\ status.n > 299)
  <2> DEFINE met == ~(e1.variable # E!Undefined /\ e1.variable.n > 299)
  <2>1. met \in BOOLEAN
    OBVIOUS
  <2>2. E!GoesOn(E!Condition(e1, met))
    BY DEF Succeeded, E!isLTorEQ
  <2> HIDE DEF e0, e1
  <2>3. E!GoesOn(E!Condition(e1, met)) => E!GoesOn(e1) /\ met
    BY <1>3, <2>1, NoneIsMadeUpFor
  <2> QED BY <1>3, <2>2, <2>3
<1> HIDE DEF e0, e1
<1>5. status # E!Undefined /\ ~(status.n < 200) /\ ~(status.n > 299)
  BY <1>2, <1>3, <1>4
<1> QED BY <1>5, ReplyAssumption DEF Is2xx

-----------------------------------------------------------------------------
(***************************************************************************)
(* Types.                                                                  *)
(***************************************************************************)

\* The constants that stand for nothing are values of their types.
LEMMA Defaults == Free \in LeaseRecord /\ Idle \in Call
BY NumberAssumption DEF Free, Idle, LeaseRecord, Call, Known, Role

\* A count down stays within its bounds.
LEMMA ExpireType ==
    \A n \in 0..LeaseDuration + Rollover : Expire(n) \in 0..LeaseDuration + Rollover
BY NumberAssumption DEF Expire

\* To replace one call by another keeps the type of all.
LEMMA OneChanges ==
    ASSUME TypeOK, NEW c \in Connection, NEW s \in Slot, NEW k \in Call,
           calls' = [calls EXCEPT ![c][s] = k]
    PROVE  calls' \in [Connection -> [Slot -> Call]]
BY DEF TypeOK

\* What may be stored late is a lease and a label.
LEMMA SentType ==
    ASSUME TypeOK, NEW c \in Connection, NEW s \in Slot
    PROVE  SentBy(c, s) \subseteq LeaseRecord /\ LabelSentBy(c, s) \subseteq Role
<1>1. calls[c][s].copy \in LeaseRecord /\ calls[c][s].says \in Role
  BY DEF TypeOK, Call
<1> QED BY <1>1 DEF SentBy, LabelSentBy

LEMMA SentFromType ==
    ASSUME TypeOK, NEW p \in Process
    PROVE  /\ \A r \in SentFrom(p) : r \subseteq LeaseRecord
           /\ \A r \in LabelSentFrom(p) : r \subseteq Role
BY SentType DEF SentFrom, LabelSentFrom

\* So it is with the outcome of a call.
LEMMA FinishType ==
    ASSUME TypeOK, NEW c \in Connection, NEW s \in Slot, NEW r \in Role, Finish(c, s, r),
           late' \subseteq LeaseRecord
    PROVE  TypeOK'
<1>1. calls[c][s].prev \in Role
  BY DEF TypeOK, Call
<1>2. CASE Tells(calls[c][s], r)
  <2>1. calls' = [calls EXCEPT ![c][s] =
                     [Idle EXCEPT !.stage = "label", !.prev = calls[c][s].prev]]
    BY <1>2 DEF Finish
  <2>2. [Idle EXCEPT !.stage = "label", !.prev = calls[c][s].prev] \in Call
    BY <1>1, Defaults DEF Call
  <2>3. calls' \in [Connection -> [Slot -> Call]]
    BY <2>1, <2>2, OneChanges
  <2>4. role' \in [Connection -> Role] /\ told' \in [Connection -> Role]
    BY <1>1, <1>2 DEF Finish, TypeOK
  <2> QED BY <2>3, <2>4 DEF Finish, TypeOK
<1>3. CASE ~Tells(calls[c][s], r)
  <2>1. calls' \in [Connection -> [Slot -> Call]]
    BY <1>3, Defaults, OneChanges DEF Finish
  <2> QED BY <1>3, <2>1 DEF Finish, TypeOK
<1> QED BY <1>2, <1>3

\* A lease as Tick leaves it.
LEMMA ExpiredLease ==
    ASSUME NEW r \in LeaseRecord
    PROVE  /\ [r EXCEPT !.left = Expire(@)] \in LeaseRecord
           /\ [r EXCEPT !.left = Expire(@)].holder = r.holder
           /\ [r EXCEPT !.left = Expire(@)].left = Expire(r.left)
BY ExpireType DEF LeaseRecord

\* A call as Tick leaves it.
LEMMA ExpiredCall ==
    ASSUME NEW k \in Call
    PROVE  [k EXCEPT !.copy.left = Expire(@)]
              = [k EXCEPT !.copy = [k.copy EXCEPT !.left = Expire(@)]]
BY Zenon DEF Call

\* A copy that is out of date differs in nothing else.
LEMMA OutdatedType ==
    ASSUME NEW k \in Call
    PROVE  /\ Outdated(k) \in Call
           /\ Outdated(k).stage = k.stage /\ Outdated(k).prev = k.prev
           /\ Outdated(k).ident = k.ident /\ Outdated(k).copy = k.copy
           /\ Outdated(k).good = k.good
           /\ k.stage \in {"read", "write"} => ~Outdated(k).fresh
           /\ k.stage \notin {"read", "write"} => Outdated(k) = k
BY DEF Call, Outdated

LEMMA PodOutdatedType ==
    ASSUME NEW k \in Call, NEW d, NEW p
    PROVE  /\ PodOutdated(d, k, p) \in Call
           /\ PodOutdated(d, k, p).stage = k.stage /\ PodOutdated(d, k, p).prev = k.prev
           /\ PodOutdated(d, k, p).ident = k.ident /\ PodOutdated(d, k, p).copy = k.copy
           /\ PodOutdated(d, k, p).good = k.good /\ PodOutdated(d, k, p).says = k.says
           /\ PodOutdated(d, k, p).fresh => k.fresh
           /\ Host[d] # p => PodOutdated(d, k, p) = k
BY DEF Call, PodOutdated

\* Every step keeps every variable within its type.
LEMMA TypeStep == TypeOK /\ [Next]_vars => TypeOK'
<1> SUFFICES ASSUME TypeOK, [Next]_vars PROVE TypeOK'
  OBVIOUS
<1>1. ASSUME NEW c \in Connection, Connect(c) PROVE TypeOK'
  BY <1>1 DEF Connect, lates, TypeOK, Role
<1>2. ASSUME NEW c \in Connection, Close(c) PROVE TypeOK'
  BY <1>2 DEF Close, lates, TypeOK, Role, Known
<1>3. ASSUME NEW c \in Connection, NEW i \in Identity, Send(c, i) PROVE TypeOK'
  BY <1>3 DEF Send, lates, TypeOK, Known
<1>4. ASSUME NEW p \in Process, Step(p) PROVE TypeOK'
  <2> DEFINE news == {c \in conns : Host[c] = p /\ mail[c] # NoIdentity}
             now(c) == IF c \in news THEN mail[c] ELSE ident[c]
             was(c) == IF c \in news THEN "undefined" ELSE role[c]
             new(c) == [Idle EXCEPT !.stage = "ask", !.prev = was(c), !.ident = now(c)]
  <2>1. ASSUME NEW c \in Connection
        PROVE  now(c) \in Known /\ was(c) \in Role /\ new(c) \in Call
    <3>1. now(c) \in Known /\ was(c) \in Role
      BY DEF TypeOK, Role
    <3> HIDE DEF now, was
    <3> QED BY <3>1, Defaults DEF Call
  <2>2. \A c \in Connection :
           \/ calls'[c] = calls[c]
           \/ calls'[c] = [calls[c] EXCEPT ![Lowest(Vacant(c))] = new(c)]
    BY <1>4 DEF Step
  <2>3. calls' \in [Connection -> [Slot -> Call]]
    <3> HIDE DEF new
    <3>1. ASSUME NEW c \in Connection PROVE calls'[c] \in [Slot -> Call]
      <4>1. calls[c] \in [Slot -> Call] /\ new(c) \in Call
        BY <2>1 DEF TypeOK
      <4>2. [calls[c] EXCEPT ![Lowest(Vacant(c))] = new(c)] \in [Slot -> Call]
        BY <4>1
      <4> QED BY <2>2, <4>1, <4>2
    <3> QED BY <1>4, <3>1 DEF Step
  <2>4. ident' \in [Connection -> Known] /\ role' \in [Connection -> Role]
    <3>1. /\ ident' = [c \in Connection |-> now(c)]
          /\ role' = [c \in Connection |-> was(c)]
      BY <1>4 DEF Step
    <3> HIDE DEF now, was
    <3> QED BY <2>1, <3>1
  <2>5. mail' \in [Connection -> Known]
    BY <1>4 DEF Step, lates, TypeOK, Known
  <2> QED BY <1>4, <2>3, <2>4, <2>5 DEF Step, lates, TypeOK
<1>5. ASSUME NEW p \in Process, Restart(p) PROVE TypeOK'
  <2>1. late' \subseteq LeaseRecord
    BY <1>5, SentFromType DEF Restart, TypeOK
  <2>2. latePod' \in [Process -> SUBSET Role]
    <3>1. PICK some \in {latePod[p]} \cup LabelSentFrom(p) :
             latePod' = [latePod EXCEPT ![p] = some]
      BY <1>5 DEF Restart
    <3>2. some \in SUBSET Role
      BY SentFromType DEF TypeOK
    <3> QED BY <3>1, <3>2 DEF TypeOK
  <2>3. calls' \in [Connection -> [Slot -> Call]]
    BY <1>5, Defaults DEF Restart, TypeOK
  <2> QED BY <1>5, <2>1, <2>2, <2>3 DEF Restart, TypeOK, Role, Known
<1>6. ASSUME Tick PROVE TypeOK'
  <2>1. lease' \in LeaseRecord
    BY <1>6, ExpiredLease DEF Tick, TypeOK
  <2>2. ASSUME NEW c \in Connection, NEW s \in Slot PROVE calls'[c][s] \in Call
    <3>1. calls[c][s] \in Call /\ calls[c][s].copy \in LeaseRecord
      BY DEF TypeOK, Call
    <3>2. calls'[c][s] = [calls[c][s] EXCEPT
                             !.copy = [calls[c][s].copy EXCEPT !.left = Expire(@)]]
      BY <1>6, <3>1, ExpiredCall DEF Tick
    <3>3. [calls[c][s].copy EXCEPT !.left = Expire(@)] \in LeaseRecord
      BY <3>1, ExpiredLease
    <3> QED BY <3>1, <3>2, <3>3 DEF Call
  <2>3. calls' \in [Connection -> [Slot -> Call]]
    BY <1>6, <2>2 DEF Tick
  <2>4. late' \subseteq LeaseRecord
    <3>1. \A r \in late : [r EXCEPT !.left = Expire(@)] \in LeaseRecord
      BY ExpiredLease DEF TypeOK
    <3> QED BY <1>6, <3>1 DEF Tick
  <2> QED BY <1>6, <2>1, <2>3, <2>4 DEF Tick, TypeOK
<1>7. ASSUME NEW c \in Connection, NEW s \in Slot, Advance(c, s) PROVE TypeOK'
  <2> DEFINE call == calls[c][s]
  <2>t. call \in Call /\ calls \in [Connection -> [Slot -> Call]]
    BY DEF TypeOK
  <2>1. ASSUME ReadLease(c, s) PROVE TypeOK'
    <3> PICK status \in Replies :
           calls' = [calls EXCEPT ![c][s] =
              [@ EXCEPT !.stage = "read", !.copy = lease,
                        !.fresh = TRUE, !.good = Is2xx(status)]]
      BY <2>1 DEF ReadLease
    <3> DEFINE k == [call EXCEPT !.stage = "read", !.copy = lease,
                                 !.fresh = TRUE, !.good = Is2xx(status)]
    <3>0. Is2xx(status) \in BOOLEAN /\ lease \in LeaseRecord /\ role[c] \in Role
      BY DEF TypeOK, Is2xx
    <3>1. k \in Call
      <4> HIDE DEF call
      <4> QED BY <2>t, <3>0 DEF Call
    <3>2. calls' = [calls EXCEPT ![c][s] = k]
      BY <2>t
    <3>3. calls' \in [Connection -> [Slot -> Call]]
      BY <3>1, <3>2, OneChanges
    <3> QED BY <2>1, <3>3 DEF ReadLease, lates, TypeOK
  <2>2. ASSUME NEW r \in Role, Finish(c, s, r),
               late' = late \/ late' \in {late, SentBy(c, s)}
        PROVE  TypeOK'
    <3>1. late' \subseteq LeaseRecord
      BY <2>2, SentType DEF TypeOK
    <3> QED BY <2>2, <3>1, FinishType
  <2>3. ASSUME Submit(c, s), call.ident \in Known PROVE TypeOK'
    <3> PICK claim \in Claims(call.ident) :
           calls' = [calls EXCEPT ![c][s] = [@ EXCEPT !.stage = "write", !.copy = claim]]
      BY <2>3 DEF Submit
    <3>1. claim \in LeaseRecord
      BY <2>3, NumberAssumption DEF Claims, LeaseRecord
    <3>2. [call EXCEPT !.stage = "write", !.copy = claim] \in Call
      BY <2>t, <3>1 DEF Call
    <3>3. calls' = [calls EXCEPT ![c][s] = [call EXCEPT !.stage = "write", !.copy = claim]]
      BY <2>t
    <3>4. calls' \in [Connection -> [Slot -> Call]]
      BY <3>2, <3>3, OneChanges
    <3> QED BY <2>3, <3>4 DEF Submit, lates, TypeOK
  <2>4. ASSUME Store(c, s) PROVE TypeOK'
    <3>1. lease' \in LeaseRecord
      BY <2>4, <2>t DEF Store, Call
    <3>2. ASSUME NEW d \in Connection, NEW t \in Slot PROVE calls'[d][t] \in Call
      <4>1. calls[d][t] \in Call
        BY DEF TypeOK
      <4>2. \/ calls'[d][t] = Outdated(calls[d][t])
            \/ calls'[d][t] = [calls[d][t] EXCEPT !.stage = "stored", !.copy = Free,
                                                  !.fresh = FALSE]
        BY <2>4 DEF Store
      <4> QED BY <4>1, <4>2, OutdatedType, Defaults DEF Call
    <3>3. calls' \in [Connection -> [Slot -> Call]]
      BY <2>4, <3>2 DEF Store
    <3> QED BY <2>4, <3>1, <3>3 DEF Store, TypeOK
  <2>5. ASSUME ReadPod(c, s) PROVE TypeOK'
    <3> PICK status \in Replies :
           calls' = [calls EXCEPT ![c][s] =
              [@ EXCEPT !.stage = "pod", !.fresh = TRUE, !.good = Is2xx(status)]]
      BY <2>5 DEF ReadPod
    <3> DEFINE k == [call EXCEPT !.stage = "pod", !.fresh = TRUE, !.good = Is2xx(status)]
    <3>0. Is2xx(status) \in BOOLEAN
      BY DEF Is2xx
    <3>1. k \in Call
      <4> HIDE DEF call
      <4> QED BY <2>t, <3>0 DEF Call
    <3>2. calls' = [calls EXCEPT ![c][s] = k]
      BY <2>t
    <3>3. calls' \in [Connection -> [Slot -> Call]]
      BY <3>1, <3>2, OneChanges
    <3> QED BY <2>5, <3>3 DEF ReadPod, lates, TypeOK
  <2>6. ASSUME Relabel(c, s) PROVE TypeOK'
    <3> DEFINE k == [call EXCEPT !.stage = "relabel", !.says = role[c]]
    <3>0. role[c] \in Role
      BY DEF TypeOK
    <3>1. k \in Call
      <4> HIDE DEF call
      <4> QED BY <2>t, <3>0 DEF Call
    <3>2. calls' = [calls EXCEPT ![c][s] = k]
      BY <2>t, <2>6 DEF Relabel
    <3>3. calls' \in [Connection -> [Slot -> Call]]
      BY <3>1, <3>2, OneChanges
    <3> QED BY <2>6, <3>3 DEF Relabel, lates, TypeOK
  <2>7. ASSUME WritePod(c, s) PROVE TypeOK'
    <3>1. label' \in [Process -> Role] /\ latePod' \in [Process -> SUBSET Role]
      BY <2>7, <2>t, HostAssumption DEF WritePod, TypeOK, Call
    <3>2. ASSUME NEW d \in Connection, NEW t \in Slot PROVE calls'[d][t] \in Call
      <4>1. calls[d][t] \in Call
        BY DEF TypeOK
      <4>2. \/ calls'[d][t] = PodOutdated(d, calls[d][t], Host[c])
            \/ calls'[d][t] = [calls[d][t] EXCEPT !.stage = "labelled", !.fresh = FALSE]
        BY <2>7 DEF WritePod
      <4>3. PodOutdated(d, calls[d][t], Host[c]) \in Call
        BY <4>1, PodOutdatedType
      <4> HIDE DEF call
      <4> QED BY <4>1, <4>2, <4>3 DEF Call
    <3>3. calls' \in [Connection -> [Slot -> Call]]
      BY <2>7, <3>2 DEF WritePod
    <3> QED BY <2>7, <3>1, <3>3 DEF WritePod, TypeOK
  <2>9. ASSUME Labelled(c, s) PROVE TypeOK'
    <3>1. calls' \in [Connection -> [Slot -> Call]]
      BY <2>9, Defaults, OneChanges DEF Labelled
    <3> QED BY <2>9, <3>1 DEF Labelled, lates, TypeOK
  <2>10. ASSUME PodFails(c, s) PROVE TypeOK'
    <3>1. calls' \in [Connection -> [Slot -> Call]]
      BY <2>10, Defaults, OneChanges DEF PodFails
    <3>2. latePod' \in [Process -> SUBSET Role]
      <4>1. PICK some \in {latePod[Host[c]], LabelSentBy(c, s)} :
               latePod' = [latePod EXCEPT ![Host[c]] = some]
        BY <2>10 DEF PodFails
      <4>2. some \in SUBSET Role
        BY SentType, HostAssumption DEF TypeOK
      <4> QED BY <4>1, <4>2, HostAssumption DEF TypeOK
    <3>3. role' \in [Connection -> Role]
      BY <2>10, <2>t DEF PodFails, Reverted, TypeOK, Call
    <3> QED BY <2>10, <3>1, <3>2, <3>3 DEF PodFails, TypeOK
  <2>8. call.prev \in Role /\ call.ident \in Known /\ {"active", "passive"} \subseteq Role
    BY <2>t DEF Call, Role
  <2> QED
    BY <1>7, <2>1, <2>2, <2>3, <2>4, <2>5, <2>6, <2>7, <2>8, <2>9, <2>10
    DEF Advance, Fail, AlreadyHeld, StandBy, TryGrab, Renew, Stored, Conflict
<1>8. ASSUME StoreLate PROVE TypeOK'
  <2>1. PICK r \in late : lease' = r
    BY <1>8 DEF StoreLate
  <2>2. ASSUME NEW d \in Connection, NEW t \in Slot PROVE calls'[d][t] \in Call
    BY <1>8, OutdatedType DEF StoreLate, TypeOK
  <2>3. calls' \in [Connection -> [Slot -> Call]]
    BY <1>8, <2>2 DEF StoreLate
  <2> QED BY <1>8, <2>1, <2>3 DEF StoreLate, TypeOK
<1>9. ASSUME NEW p \in Process, WriteLatePod(p) PROVE TypeOK'
  <2>1. PICK r \in latePod[p] : label' = [label EXCEPT ![p] = r]
    BY <1>9 DEF WriteLatePod
  <2>2. ASSUME NEW d \in Connection, NEW t \in Slot PROVE calls'[d][t] \in Call
    BY <1>9, PodOutdatedType DEF WriteLatePod, TypeOK
  <2>3. calls' \in [Connection -> [Slot -> Call]]
    BY <1>9, <2>2 DEF WriteLatePod
  <2>4. label' \in [Process -> Role] /\ latePod' \in [Process -> SUBSET Role]
    BY <1>9, <2>1 DEF WriteLatePod, TypeOK
  <2> QED BY <1>9, <2>3, <2>4 DEF WriteLatePod, TypeOK
<1>10. CASE UNCHANGED vars
  BY <1>10 DEF vars, lates, TypeOK
<1> QED
  BY <1>1, <1>2, <1>3, <1>4, <1>5, <1>6, <1>7, <1>8, <1>9, <1>10 DEF Next

LEMMA TypeInit == Init => TypeOK
BY Defaults DEF Init, TypeOK, Role, Known

\* Type correctness of the TypeScript elector.
THEOREM TypeCorrect == Spec => []TypeOK
BY TypeInit, TypeStep, PTL DEF Spec

-----------------------------------------------------------------------------
(***************************************************************************)
(* What the calls rest on.  That a write respects the tenure is not        *)
(* inductive: it was decided on a copy of the lease, some requests ago.    *)
(* What saves it is the version: a write that the API server will accept   *)
(* was decided on the lease as it still is, but for the seconds gone by.   *)
(***************************************************************************)

\* To store r in the place of l takes a lease that is available, or takes back no
\* more than a minute.
Takes(l, r) == \/ l.holder = NoIdentity
               \/ l.left = 0
               \/ l.holder = r.holder /\ l.left <= r.left + Rollover

\* A call is made for an identity; a copy that is not out of date is the lease
\* as it is; a write that will be accepted respects the tenure; and each goes on
\* from a success.
Earnest(call) ==
    /\ call.stage \in {"ask", "read", "write", "stored"} => call.ident \in Identity
    /\ call.stage = "read" /\ call.fresh => call.copy = lease
    /\ call.stage = "write" => call.copy.holder = call.ident
    /\ call.stage = "write" /\ call.fresh => Takes(lease, call.copy)
    /\ call.stage \in {"read", "write", "stored", "pod", "relabel", "labelled"}
          => call.good

\* So does one nobody waits for any more.
LateEarnest == \A r \in late : r.holder \in Identity /\ Takes(lease, r)

CallInv == TypeOK /\ LateEarnest /\ \A c \in Connection, s \in Slot : Earnest(calls[c][s])

\* The outcome of a call ends it, or leaves the label to be written.
LEMMA FinishEnds ==
    ASSUME TypeOK, NEW c \in Connection, NEW s \in Slot, NEW r \in Role, Finish(c, s, r)
    PROVE  /\ lease' = lease
           /\ calls'[c][s].stage \in {"idle", "label"}
           /\ \A d \in Connection, t \in Slot :
                 d # c \/ t # s => calls'[d][t] = calls[d][t]
<1>1. CASE Tells(calls[c][s], r)
  <2>1. calls' = [calls EXCEPT ![c][s] =
                     [Idle EXCEPT !.stage = "label", !.prev = calls[c][s].prev]]
    BY <1>1 DEF Finish
  <2>2. calls'[c][s] = [Idle EXCEPT !.stage = "label", !.prev = calls[c][s].prev]
    BY <2>1 DEF TypeOK
  <2>3. calls'[c][s].stage = "label"
    BY <2>2 DEF Idle
  <2> QED BY <2>1, <2>3 DEF Finish, TypeOK
<1>2. CASE ~Tells(calls[c][s], r)
  <2>1. calls'[c][s] = Idle
    BY <1>2 DEF Finish, TypeOK
  <2> QED BY <1>2, <2>1 DEF Finish, Idle, TypeOK
<1> QED BY <1>1, <1>2

\* A step leaves every call alone, or makes one for an identity.
LEMMA StepCalls ==
    ASSUME TypeOK, NEW p \in Process, Step(p), NEW c \in Connection, NEW s \in Slot
    PROVE  \/ calls'[c][s] = calls[c][s]
           \/ calls'[c][s].stage = "ask" /\ calls'[c][s].ident \in Identity
<1> DEFINE news == {d \in conns : Host[d] = p /\ mail[d] # NoIdentity}
           now(d) == IF d \in news THEN mail[d] ELSE ident[d]
           was(d) == IF d \in news THEN "undefined" ELSE role[d]
           new(d) == [Idle EXCEPT !.stage = "ask", !.prev = was(d), !.ident = now(d)]
<1>1. now(c) \in Known
  BY DEF TypeOK
<1>2. \/ calls'[c] = calls[c]
      \/ /\ now(c) # NoIdentity
         /\ calls'[c] = [calls[c] EXCEPT ![Lowest(Vacant(c))] = new(c)]
  BY DEF Step
<1>3. new(c).stage = "ask" /\ new(c).ident = now(c)
  <2> HIDE DEF now, was
  <2> QED BY DEF Idle
<1> HIDE DEF now, new
<1>4. calls[c] \in [Slot -> Call]
  BY DEF TypeOK
<1> QED BY <1>1, <1>2, <1>3, <1>4 DEF Known

\* What a call has sent when it ends respects the tenure, too.
LEMMA SentEarnest ==
    ASSUME CallInv, NEW c \in Connection, NEW s \in Slot
    PROVE  \A r \in SentBy(c, s) : r.holder \in Identity /\ Takes(lease, r)
<1>1. Earnest(calls[c][s])
  BY DEF CallInv
<1> QED BY <1>1 DEF SentBy, Earnest

\* With the seconds gone by a write respects the tenure no less.
LEMMA TakesLater ==
    ASSUME NEW l \in LeaseRecord, NEW r \in LeaseRecord, Takes(l, r)
    PROVE  Takes([l EXCEPT !.left = Expire(@)], [r EXCEPT !.left = Expire(@)])
<1> DEFINE m == [l EXCEPT !.left = Expire(@)]
           q == [r EXCEPT !.left = Expire(@)]
<1>1. /\ q.holder = r.holder /\ q.left = Expire(r.left)
      /\ m.holder = l.holder /\ m.left = Expire(l.left)
  BY ExpiredLease
<1> HIDE DEF m, q
<1>2. r.left \in Nat /\ l.left \in Nat
  BY NumberAssumption DEF LeaseRecord
<1>3. l.left = 0 => m.left = 0
  BY <1>1 DEF Expire
<1>4. l.left <= r.left + Rollover => m.left <= q.left + Rollover
  BY <1>1, <1>2, NumberAssumption DEF Expire
<1>5. Takes(m, q)
  BY <1>1, <1>3, <1>4 DEF Takes
<1> QED BY <1>5 DEF m, q

\* Whatever is stored late respects the tenure.
LEMMA LateStep == CallInv /\ [Next]_vars => LateEarnest'
<1> SUFFICES ASSUME CallInv, [Next]_vars PROVE LateEarnest'
  OBVIOUS
<1>t. TypeOK /\ LateEarnest
  BY DEF CallInv
<1>o. ASSUME lease' = lease, late' = late PROVE LateEarnest'
  BY <1>o, <1>t DEF LateEarnest
<1>s. ASSUME lease' = lease, NEW c \in Connection, NEW s \in Slot, late' = SentBy(c, s)
      PROVE  LateEarnest'
  BY <1>s, SentEarnest DEF LateEarnest
<1>1. ASSUME late' = {} PROVE LateEarnest'
  BY <1>1 DEF LateEarnest
<1>2. ASSUME NEW c \in Connection, NEW s \in Slot, Advance(c, s) PROVE LateEarnest'
  <2>1. \/ late' = {}
        \/ lease' = lease /\ late' \in {late, SentBy(c, s)}
    BY <1>2
    DEF Advance, ReadLease, Fail, AlreadyHeld, StandBy, TryGrab, Renew, Submit, Store,
        Stored, Conflict, ReadPod, Relabel, WritePod, Labelled, PodFails, Finish, lates
  <2> QED BY <1>o, <1>s, <1>1, <2>1
<1>3. ASSUME NEW p \in Process, Restart(p) PROVE LateEarnest'
  <2>1. /\ lease' = lease
        /\ \/ late' = late
           \/ \E c \in Connection, s \in Slot : late' = SentBy(c, s)
    BY <1>3 DEF Restart, SentFrom
  <2> QED BY <1>o, <1>s, <2>1
<1>4. ASSUME Tick PROVE LateEarnest'
  <2>1. lease \in LeaseRecord /\ lease' = [lease EXCEPT !.left = Expire(@)]
    BY <1>4, <1>t DEF Tick, TypeOK
  <2>2. ASSUME NEW r \in late
        PROVE  /\ [r EXCEPT !.left = Expire(@)].holder \in Identity
               /\ Takes(lease', [r EXCEPT !.left = Expire(@)])
    <3>1. r \in LeaseRecord /\ r.holder \in Identity /\ Takes(lease, r)
      BY <1>t DEF TypeOK, LateEarnest
    <3> QED BY <2>1, <3>1, ExpiredLease, TakesLater
  <2>3. late' = {[r EXCEPT !.left = Expire(@)] : r \in late}
    BY <1>4 DEF Tick
  <2> QED BY <2>2, <2>3 DEF LateEarnest
<1> QED
  BY <1>o, <1>1, <1>2, <1>3, <1>4
  DEF Next, vars, lates, Connect, Close, Send, Step, StoreLate, WriteLatePod

LEMMA CallStep == CallInv /\ [Next]_vars => CallInv'
<1> SUFFICES ASSUME CallInv, [Next]_vars, NEW d \in Connection, NEW t \in Slot
             PROVE  Earnest(calls[d][t])'
  BY TypeStep, LateStep DEF CallInv
<1>t. /\ TypeOK /\ TypeOK' /\ Earnest(calls[d][t])
      /\ calls[d][t] \in Call /\ calls'[d][t] \in Call
  BY TypeStep DEF CallInv, TypeOK
<1>o. ASSUME lease' = lease, calls'[d][t] = calls[d][t] PROVE Earnest(calls[d][t])'
  BY <1>o, <1>t DEF Earnest
<1>i. ASSUME calls'[d][t].stage \in {"idle", "label"} PROVE Earnest(calls[d][t])'
  BY <1>i DEF Earnest
<1>p. ASSUME lease' = lease, NEW p, calls'[d][t] = PodOutdated(d, calls[d][t], p)
      PROVE  Earnest(calls[d][t])'
  <2> DEFINE k == calls[d][t]
             o == calls'[d][t]
  <2>1. /\ o.stage = k.stage /\ o.ident = k.ident /\ o.copy = k.copy
        /\ o.good = k.good
        /\ o.fresh => k.fresh
    BY <1>t, <1>p, PodOutdatedType
  <2> QED BY <1>t, <1>p, <2>1 DEF Earnest
<1>x. ASSUME calls'[d][t] = Outdated(calls[d][t]) PROVE Earnest(calls[d][t])'
  <2> DEFINE k == calls[d][t]
             o == calls'[d][t]
  <2>1. /\ o.stage = k.stage /\ o.ident = k.ident /\ o.copy = k.copy
        /\ o.good = k.good
        /\ k.stage \in {"read", "write"} => ~o.fresh
    BY <1>t, <1>x, OutdatedType
  <2> QED BY <1>t, <2>1 DEF Earnest
<1>1. ASSUME NEW c \in Connection, Connect(c) PROVE Earnest(calls[d][t])'
  BY <1>1, <1>o DEF Connect
<1>2. ASSUME NEW c \in Connection, Close(c) PROVE Earnest(calls[d][t])'
  BY <1>2, <1>o DEF Close
<1>3. ASSUME NEW c \in Connection, NEW i \in Identity, Send(c, i)
      PROVE  Earnest(calls[d][t])'
  BY <1>3, <1>o DEF Send
<1>4. ASSUME NEW p \in Process, Step(p) PROVE Earnest(calls[d][t])'
  <2>1. lease' = lease
    BY <1>4 DEF Step
  <2>2. CASE calls'[d][t].stage = "ask" /\ calls'[d][t].ident \in Identity
    BY <2>2 DEF Earnest
  <2> QED BY <1>4, <1>t, <1>o, <2>1, <2>2, StepCalls
<1>5. ASSUME NEW p \in Process, Restart(p) PROVE Earnest(calls[d][t])'
  <2>1. calls'[d][t] = calls[d][t] \/ calls'[d][t] = Idle
    BY <1>5 DEF Restart
  <2> QED BY <1>5, <1>o, <1>i, <2>1 DEF Restart, Idle
<1>6. ASSUME Tick PROVE Earnest(calls[d][t])'
  <2> DEFINE k == calls[d][t]
  <2>1. /\ k.copy \in LeaseRecord /\ lease \in LeaseRecord
        /\ k'.copy = [k.copy EXCEPT !.left = Expire(@)]
        /\ k'.stage = k.stage /\ k'.ident = k.ident
        /\ k'.fresh = k.fresh /\ k'.good = k.good
    <3>1. k' = [k EXCEPT !.copy = [k.copy EXCEPT !.left = Expire(@)]]
      BY <1>6, <1>t, ExpiredCall DEF Tick
    <3> HIDE DEF k
    <3> QED BY <1>t, <3>1 DEF k, Call, TypeOK
  <2>2. lease' = [lease EXCEPT !.left = Expire(@)]
    BY <1>6 DEF Tick
  <2>3. k'.copy.holder = k.copy.holder
    BY <2>1, ExpiredLease
  <2>4. k.stage = "write" /\ k.fresh => Takes(lease', k'.copy)
    <3>1. k.stage = "write" /\ k.fresh => Takes(lease, k.copy)
      BY <1>t DEF Earnest
    <3> HIDE DEF k
    <3> QED BY <2>1, <2>2, <3>1, TakesLater
  <2> HIDE DEF k
  <2>7. k.copy = lease => k'.copy = lease'
    BY <2>1, <2>2
  <2>8. Earnest(k)
    BY <1>t DEF k
  <2>9. Earnest(k)'
    BY <2>1, <2>3, <2>4, <2>7, <2>8 DEF Earnest
  <2> QED BY <2>9 DEF k
<1>7. ASSUME NEW c \in Connection, NEW s \in Slot, Advance(c, s)
      PROVE  Earnest(calls[d][t])'
  <2> DEFINE call == calls[c][s]
  <2>t. call \in Call /\ Earnest(call) /\ calls \in [Connection -> [Slot -> Call]]
    BY DEF CallInv, TypeOK
  <2>1. ASSUME ReadLease(c, s) PROVE Earnest(calls[d][t])'
    <3>p. PICK status \in Replies :
           /\ call.stage = "ask" /\ Succeeded(status, "warning")
           /\ calls' = [calls EXCEPT ![c][s] =
                 [@ EXCEPT !.stage = "read", !.copy = lease,
                           !.fresh = TRUE, !.good = Is2xx(status)]]
           /\ lease' = lease
      BY <2>1 DEF ReadLease
    <3>1. Is2xx(status) /\ lease \in LeaseRecord /\ call.stage = "ask"
      BY <1>t, <3>p, SuccessIs2xx DEF E!Severity, TypeOK
    <3> DEFINE k == [call EXCEPT !.stage = "read", !.copy = lease,
                                 !.fresh = TRUE, !.good = Is2xx(status)]
    <3>2. calls' = [calls EXCEPT ![c][s] = k] /\ lease' = lease
      BY <2>t, <3>p
    <3>3. /\ k.stage = "read" /\ k.copy = lease /\ k.good = Is2xx(status)
          /\ k.ident = call.ident
      <4> HIDE DEF call
      <4> QED BY <2>t DEF Call
    <3> HIDE DEF k
    <3>4. /\ calls'[c][s] = k
          /\ d # c \/ t # s => calls'[d][t] = calls[d][t]
      BY <2>t, <3>2
    <3>5. CASE d = c /\ t = s
      <4>1. calls'[d][t] = k /\ call.ident \in Identity
        BY <2>t, <3>1, <3>4, <3>5 DEF Earnest
      <4> QED BY <3>1, <3>2, <3>3, <4>1 DEF Earnest
    <3> QED BY <1>o, <3>2, <3>4, <3>5
  <2>2. ASSUME NEW r \in Role, Finish(c, s, r) PROVE Earnest(calls[d][t])'
    <3>1. /\ lease' = lease
          /\ calls'[c][s].stage \in {"idle", "label"}
          /\ d # c \/ t # s => calls'[d][t] = calls[d][t]
      BY <1>t, <2>2, FinishEnds
    <3> QED BY <1>o, <1>i, <3>1
  <2>3. ASSUME Submit(c, s), call.stage = "read",
               \/ Renews(call) /\ Owns(call)
               \/ Available(call)
        PROVE  Earnest(calls[d][t])'
    <3>p. PICK claim \in Claims(call.ident) :
           /\ calls' = [calls EXCEPT ![c][s] = [@ EXCEPT !.stage = "write", !.copy = claim]]
           /\ lease' = lease
      BY <2>3 DEF Submit
    <3> DEFINE k == [call EXCEPT !.stage = "write", !.copy = claim]
    <3>1. calls' = [calls EXCEPT ![c][s] = k] /\ lease' = lease
      BY <2>t, <3>p
    <3>2. /\ k.stage = "write" /\ k.copy = claim /\ k.good = call.good
          /\ k.ident = call.ident /\ k.fresh = call.fresh
      <4> HIDE DEF call
      <4> QED BY <2>t DEF Call
    <3> HIDE DEF k
    <3>3. /\ calls'[c][s] = k
          /\ d # c \/ t # s => calls'[d][t] = calls[d][t]
      BY <2>t, <3>1
    <3>4. /\ call.ident \in Identity /\ call.good
          /\ call.fresh => call.copy = lease
      BY <2>t, <2>3 DEF Earnest
    <3>5. /\ claim.holder = call.ident
          /\ \/ claim.left = LeaseDuration
             \/ claim.left = LeaseDuration + Rollover
      BY <3>p DEF Claims
    <3>6. call.copy.left <= claim.left + Rollover
      <4>1. call.copy.left \in 0..LeaseDuration + Rollover
        BY <2>t DEF Call, LeaseRecord
      <4> QED BY <3>5, <4>1, NumberAssumption
    <3>7. CASE d = c /\ t = s
      <4>1. calls'[d][t] = k
        BY <3>3, <3>7
      <4>2. call.fresh => \/ lease.holder = NoIdentity
                          \/ lease.left = 0
                          \/ lease.holder = call.ident /\ lease.left <= claim.left + Rollover
        BY <2>3, <3>4, <3>6 DEF Owns, Available
      <4>3. call.fresh => Takes(lease, claim)
        BY <3>5, <4>2 DEF Takes
      <4> QED BY <3>1, <3>2, <3>4, <3>5, <4>1, <4>3 DEF Earnest
    <3> QED BY <1>o, <3>1, <3>3, <3>7
  <2>4. ASSUME Store(c, s) PROVE Earnest(calls[d][t])'
    <3>1. CASE d = c /\ t = s
      <4>1. /\ calls'[d][t] = [call EXCEPT !.stage = "stored", !.copy = Free, !.fresh = FALSE]
            /\ call.stage = "write"
        BY <2>4, <3>1 DEF Store
      <4>2. /\ calls'[d][t].stage = "stored" /\ calls'[d][t].ident = call.ident
            /\ calls'[d][t].good = call.good
        <5> HIDE DEF call
        <5> QED BY <2>t, <4>1 DEF Call
      <4> QED BY <2>t, <4>1, <4>2 DEF Earnest
    <3>2. CASE d # c \/ t # s
      <4>1. calls'[d][t] = Outdated(calls[d][t])
        BY <2>4, <3>2 DEF Store
      <4> QED BY <1>x, <4>1
    <3> QED BY <3>1, <3>2
  <2>5. ASSUME ReadPod(c, s) PROVE Earnest(calls[d][t])'
    <3>p. PICK status \in Replies :
           /\ Succeeded(status, "error")
           /\ calls' = [calls EXCEPT ![c][s] =
                 [@ EXCEPT !.stage = "pod", !.fresh = TRUE, !.good = Is2xx(status)]]
           /\ lease' = lease
      BY <2>5 DEF ReadPod
    <3>1. Is2xx(status)
      BY <3>p, SuccessIs2xx DEF E!Severity
    <3> DEFINE k == [call EXCEPT !.stage = "pod", !.fresh = TRUE, !.good = Is2xx(status)]
    <3>2. calls' = [calls EXCEPT ![c][s] = k] /\ lease' = lease
      BY <2>t, <3>p
    <3>3. k.stage = "pod" /\ k.good = Is2xx(status)
      <4> HIDE DEF call
      <4> QED BY <2>t DEF Call
    <3> HIDE DEF k
    <3>4. /\ calls'[c][s] = k
          /\ d # c \/ t # s => calls'[d][t] = calls[d][t]
      BY <2>t, <3>2
    <3>5. CASE d = c /\ t = s
      BY <3>1, <3>3, <3>4, <3>5 DEF Earnest
    <3> QED BY <1>o, <3>2, <3>4, <3>5
  <2>6. ASSUME WritePod(c, s) PROVE Earnest(calls[d][t])'
    <3>1. CASE d = c /\ t = s
      <4>1. /\ calls'[d][t] = [call EXCEPT !.stage = "labelled", !.fresh = FALSE]
            /\ call.stage = "relabel"
        BY <2>6, <3>1 DEF WritePod
      <4>2. calls'[d][t].stage = "labelled" /\ calls'[d][t].good = call.good
        <5> HIDE DEF call
        <5> QED BY <2>t, <4>1 DEF Call
      <4> QED BY <2>t, <4>1, <4>2 DEF Earnest
    <3>2. CASE d # c \/ t # s
      <4>1. calls'[d][t] = PodOutdated(d, calls[d][t], Host[c]) /\ lease' = lease
        BY <2>6, <3>2 DEF WritePod
      <4> QED BY <1>p, <4>1
    <3> QED BY <3>1, <3>2
  <2>7. ASSUME PodFails(c, s) PROVE Earnest(calls[d][t])'
    <3>1. /\ calls'[c][s] = Idle
          /\ d # c \/ t # s => calls'[d][t] = calls[d][t]
      BY <2>t, <2>7 DEF PodFails
    <3> QED BY <1>o, <1>i, <2>7, <3>1 DEF PodFails, Idle
  <2>9. ASSUME Relabel(c, s) PROVE Earnest(calls[d][t])'
    <3> DEFINE k == [call EXCEPT !.stage = "relabel", !.says = role[c]]
    <3>1. calls' = [calls EXCEPT ![c][s] = k] /\ lease' = lease /\ call.stage = "pod"
      BY <2>t, <2>9 DEF Relabel
    <3>2. k.stage = "relabel" /\ k.good = call.good
      <4> HIDE DEF call
      <4> QED BY <2>t DEF Call
    <3> HIDE DEF k
    <3>3. /\ calls'[c][s] = k
          /\ d # c \/ t # s => calls'[d][t] = calls[d][t]
      BY <2>t, <3>1
    <3>4. CASE d = c /\ t = s
      BY <2>t, <3>1, <3>2, <3>3, <3>4 DEF Earnest
    <3> QED BY <1>o, <3>1, <3>3, <3>4
  <2>10. ASSUME Labelled(c, s) PROVE Earnest(calls[d][t])'
    <3>1. /\ calls'[c][s] = Idle /\ lease' = lease
          /\ d # c \/ t # s => calls'[d][t] = calls[d][t]
      BY <2>t, <2>10 DEF Labelled
    <3> QED BY <1>o, <1>i, <3>1 DEF Idle
  <2>8. call.prev \in Role /\ {"active", "passive"} \subseteq Role
    BY <2>t DEF Call, Role
  <2> QED
    BY <1>7, <2>1, <2>2, <2>3, <2>4, <2>5, <2>6, <2>7, <2>8, <2>9, <2>10
    DEF Advance, Fail, AlreadyHeld, StandBy, TryGrab, Renew, Stored, Conflict
<1>8. ASSUME StoreLate PROVE Earnest(calls[d][t])'
  BY <1>8, <1>x DEF StoreLate
<1>9. ASSUME NEW p \in Process, WriteLatePod(p) PROVE Earnest(calls[d][t])'
  <2>1. calls'[d][t] = PodOutdated(d, calls[d][t], p) /\ lease' = lease
    BY <1>9 DEF WriteLatePod
  <2> QED BY <1>p, <2>1
<1>10. CASE UNCHANGED vars
  BY <1>10, <1>o DEF vars
<1> QED
  BY <1>1, <1>2, <1>3, <1>4, <1>5, <1>6, <1>7, <1>8, <1>9, <1>10 DEF Next

LEMMA CallInit == Init => CallInv
<1>1. ASSUME Init, NEW c \in Connection, NEW s \in Slot PROVE Earnest(calls[c][s])
  <2>1. calls[c][s] = Idle
    BY <1>1 DEF Init
  <2> QED BY <2>1 DEF Earnest, Idle
<1>2. Init => LateEarnest
  BY DEF Init, LateEarnest
<1> QED BY <1>1, <1>2, TypeInit DEF CallInv

LEMMA CallInvariant == Spec => []CallInv
BY CallInit, CallStep, PTL DEF Spec

\* A call that reads the lease, writes it or writes the pod goes on from a
\* status 2xx.
THEOREM SuccessOnly == Spec => []OnlySuccessGoesOn
<1>1. CallInv => OnlySuccessGoesOn
  BY DEF CallInv, Earnest, OnlySuccessGoesOn
<1> QED BY <1>1, CallInvariant, PTL

-----------------------------------------------------------------------------
(***************************************************************************)
(* The processes implement LeaseTenure, with the rollover for its slack: a *)
(* write the API server accepts is a take-over or a renewal.               *)
(***************************************************************************)
LEMMA WriteImplements ==
    ASSUME CallInv, NEW r \in LeaseRecord, r.holder \in Identity, Takes(lease, r),
           lease' = r
    PROVE  LT!Next
<1> DEFINE leases == [l \in {TheLease} |-> lease]
           i == r.holder
           t == r.left
<1>1. /\ i \in Identity /\ t \in 0..LeaseDuration + Rollover /\ lease \in LeaseRecord
      /\ r = [holder |-> i, left |-> t]
      /\ \/ lease.holder = NoIdentity \/ lease.left = 0
         \/ lease.holder = i /\ lease.left <= t + Rollover
  BY DEF CallInv, TypeOK, Takes, LeaseRecord
<1>2. leases' = [leases EXCEPT ![TheLease] = [holder |-> i, left |-> t]]
  BY <1>1
<1>3. leases[TheLease] = lease
  OBVIOUS
<1> HIDE DEF leases, i, t
<1>4. CASE lease.holder = NoIdentity \/ lease.left = 0
  <2>1. LT!TakeOver(TheLease, i)
    BY <1>1, <1>2, <1>3, <1>4 DEF LT!TakeOver, leases
  <2> QED BY <1>1, <2>1 DEF LT!Next
<1>5. CASE lease.holder = i /\ lease.left <= t + Rollover
  <2>1. LT!Renew(TheLease, i)
    BY <1>1, <1>2, <1>3, <1>5 DEF LT!Renew, leases
  <2> QED BY <1>1, <2>1 DEF LT!Next
<1> QED BY <1>1, <1>4, <1>5

LEMMA ImplementsTenure ==
    CallInv /\ [Next]_vars => [LT!Next]_[l \in {TheLease} |-> lease]
<1> DEFINE leases == [l \in {TheLease} |-> lease]
<1> SUFFICES ASSUME CallInv, [Next]_vars, lease' # lease PROVE LT!Next
  OBVIOUS
<1>1. ASSUME Tick PROVE LT!Next
  <2>1. leases' = [l \in {TheLease} |-> [leases[l] EXCEPT !.left = LT!Expire(@)]]
    BY <1>1 DEF Tick, Expire, LT!Expire
  <2> QED BY <2>1 DEF LT!Next, LT!Tick
<1>2. ASSUME NEW c \in Connection, NEW s \in Slot, Store(c, s) PROVE LT!Next
  <2>1. /\ calls[c][s] \in Call /\ Earnest(calls[c][s])
        /\ calls[c][s].stage = "write" /\ calls[c][s].fresh
        /\ lease' = calls[c][s].copy
    BY <1>2 DEF CallInv, TypeOK, Store
  <2>2. PICK r \in LeaseRecord : r.holder \in Identity /\ Takes(lease, r) /\ lease' = r
    BY <2>1 DEF Earnest, Call
  <2> QED BY <2>2, WriteImplements
<1>3. ASSUME StoreLate PROVE LT!Next
  <2>1. PICK r \in LeaseRecord : r.holder \in Identity /\ Takes(lease, r) /\ lease' = r
    BY <1>3 DEF StoreLate, CallInv, TypeOK, LateEarnest
  <2> QED BY <2>1, WriteImplements
<1>4. ASSUME NEW c \in Connection, NEW s \in Slot, Advance(c, s) PROVE Store(c, s)
  BY <1>4
  DEF Advance, ReadLease, Fail, AlreadyHeld, StandBy, TryGrab, Renew, Submit, Stored,
      Conflict, ReadPod, Relabel, WritePod, Labelled, PodFails, Finish
<1> QED
  BY <1>1, <1>2, <1>3, <1>4
  DEF Next, vars, Connect, Close, Send, Step, Restart, WriteLatePod

\* No write takes the lease from an identity before its tenure has run out, and no
\* renewal takes back more than the minute it may have been given too much.
THEOREM TenureIsRespected == Spec => TenureRespected
<1>1. Init => LT!Init
  BY DEF Init, LT!Init, LeaseRecord, LT!LeaseRecord, Known
<1> QED
  BY <1>1, ImplementsTenure, CallInvariant, PTL
  DEF Spec, TenureRespected, LT!Spec

-----------------------------------------------------------------------------
(***************************************************************************)
(* Processes whose calls never overlap.  There is one call for a           *)
(* connection at a time, and from its start to its end nobody else touches *)
(* the role, what was told or, if the elector has no other client, the     *)
(* label: the three may be compared at any stage of it.                    *)
(***************************************************************************)

\* Only the first slot is ever used.
OneCall(c) == \A s \in Slot : s # 1 => calls[c][s].stage = "idle"

\* Away from the named pod a call starts without a role, and the role it finds is
\* there while it tries to write the label.
Outside(c) == ~NamesItsPod(Host[c]) =>
    /\ calls[c][1].stage # "idle" => calls[c][1].prev = "undefined"
    /\ calls[c][1].stage # "labelled"
    /\ role[c] # "undefined" => calls[c][1].stage \in {"label", "pod", "relabel"}

\* The role of c, if it has one, is known to its client and on the label, and no
\* label sent before can replace it.
Told(c) == c \in conns /\ role[c] # "undefined" => told[c] = role[c]
Agreed(c) == role[c] # "undefined" =>
    label[Host[c]] = role[c] /\ latePod[Host[c]] = {}

\* Beside the named pod, a role that a call found has been told and waits to be
\* labelled, any other is agreed on.  If the call started with a role, nothing can
\* come between reading the pod and writing it.
Inside(c) == NamesItsPod(Host[c]) /\ Calm(Host[c]) /\ Sole(c) =>
    LET call == calls[c][1] IN
    /\ Told(c)
    /\ call.stage \in {"idle", "ask", "read", "write", "stored", "labelled"} => Agreed(c)
    /\ call.stage \in {"ask", "read", "write", "stored"} => role[c] = call.prev
    /\ call.stage \in {"label", "pod", "relabel"} =>
          /\ role[c] = "undefined" => call.prev = "undefined"
          /\ call.prev # "undefined" => latePod[Host[c]] = {}
    /\ call.stage \in {"pod", "relabel"} /\ call.prev # "undefined" => call.fresh
    /\ call.stage = "relabel" => call.says = role[c] /\ role[c] # "undefined"

Orderly(c) == Overlap[Host[c]] = 1 => OneCall(c) /\ Outside(c) /\ Inside(c)

OrderInv == TypeOK /\ \A c \in Connection : Orderly(c)

\* What the invariant says of a connection rests on what is kept for it.
LEMMA OrderlyKept ==
    ASSUME NEW c \in Connection, Orderly(c), conns' \subseteq conns,
           calls'[c] = calls[c], role'[c] = role[c],
           c \in conns' => told'[c] = told[c],
           label'[Host[c]] = label[Host[c]], latePod'[Host[c]] = latePod[Host[c]]
    PROVE  Orderly(c)'
BY DEF Orderly, OneCall, Outside, Inside, Told, Agreed

\* With one call at a time, a call that runs is in the first slot.
LEMMA FirstSlot ==
    ASSUME TypeOK, NEW c \in Connection, Overlap[Host[c]] = 1
    PROVE  /\ 1 \in Slot
           /\ Vacant(c) # {} => calls[c][1].stage = "idle" /\ Lowest(Vacant(c)) = 1
<1>1. 1 \in Slot
  <2>1. Overlap[Host[c]] \in 1..MaxOverlap /\ MaxOverlap \in Nat
    BY HostAssumption, OverlapAssumption, NumberAssumption
  <2> QED BY <2>1 DEF Slot
<1>2. ASSUME Vacant(c) # {} PROVE calls[c][1].stage = "idle" /\ Lowest(Vacant(c)) = 1
  <2>1. Vacant(c) = {1} /\ calls[c][1].stage = "idle"
    BY <1>2 DEF Vacant
  <2> QED BY <2>1 DEF Lowest
<1> QED BY <1>1, <1>2

\* The outcome of a call, in the order the stages rest on.
LEMMA FinishOrder ==
    ASSUME OrderInv, NEW c \in Connection, NEW s \in Slot, NEW r \in Role,
           calls[c][s].stage \in {"ask", "read", "write", "stored"}, Finish(c, s, r)
    PROVE  Orderly(c)'
<1> SUFFICES ASSUME Overlap[Host[c]] = 1
             PROVE  (OneCall(c) /\ Outside(c) /\ Inside(c))'
  BY DEF Orderly
<1> DEFINE call == calls[c][1]
<1>1. /\ TypeOK /\ OneCall(c) /\ Outside(c) /\ Inside(c) /\ 1 \in Slot /\ s = 1
      /\ call.stage \in {"ask", "read", "write", "stored"}
  BY FirstSlot DEF OrderInv, Orderly, OneCall
<1>2. /\ label' = label /\ conns' = conns /\ latePod' = latePod
      /\ \A t \in Slot : t # 1 => calls'[c][t] = calls[c][t]
  BY <1>1 DEF Finish, TypeOK
<1>3. OneCall(c)'
  BY <1>1, <1>2 DEF OneCall
<1>4. CASE Tells(call, r)
  <2>1. /\ calls'[c][1] = [Idle EXCEPT !.stage = "label", !.prev = call.prev]
        /\ \/ role'[c] = r /\ (c \in conns => told'[c] = r)
           \/ role'[c] = call.prev /\ told' = told
        /\ r # "undefined"
    BY <1>1, <1>4 DEF Finish, TypeOK, Tells
  <2>2. calls'[c][1].stage = "label" /\ calls'[c][1].prev = call.prev
    <3> HIDE DEF call
    <3> QED BY <2>1 DEF Idle
  <2>3. Outside(c)'
    BY <1>1, <2>2 DEF Outside
  <2>4. Inside(c)'
    BY <1>1, <1>2, <2>1, <2>2 DEF Inside, Told, Agreed
  <2> QED BY <1>3, <2>3, <2>4
<1>5. CASE ~Tells(call, r)
  <2>1. /\ calls'[c][1] = Idle /\ told' = told /\ role'[c] = r
        /\ r = call.prev \/ r = "undefined"
    BY <1>1, <1>5 DEF Finish, TypeOK, Tells
  <2>2. Outside(c)'
    BY <1>1, <1>2, <2>1 DEF Outside, Idle
  <2>3. Inside(c)'
    BY <1>1, <1>2, <2>1 DEF Inside, Told, Agreed, Idle
  <2> QED BY <1>3, <2>2, <2>3
<1> QED BY <1>4, <1>5

LEMMA OrderStep == OrderInv /\ [Next]_vars => OrderInv'
<1> SUFFICES ASSUME OrderInv, [Next]_vars, NEW d \in Connection PROVE Orderly(d)'
  BY TypeStep DEF OrderInv
<1>t. TypeOK /\ Orderly(d) /\ calls \in [Connection -> [Slot -> Call]]
  BY DEF OrderInv, TypeOK
<1>o. ASSUME conns' \subseteq conns, calls'[d] = calls[d], role'[d] = role[d],
             d \in conns' => told'[d] = told[d],
             label'[Host[d]] = label[Host[d]], latePod'[Host[d]] = latePod[Host[d]]
      PROVE  Orderly(d)'
  BY <1>o, <1>t, OrderlyKept
<1>i. ASSUME calls'[d][1].stage = "idle", role'[d] = "undefined",
             \A s \in Slot : calls'[d][s].stage = "idle"
      PROVE  Orderly(d)'
  BY <1>i DEF Orderly, OneCall, Outside, Inside, Told, Agreed
<1>r. ASSUME UNCHANGED <<conns, role, told, label, latePod>>,
             \A t \in Slot :
                \/ calls'[d][t] = calls[d][t]
                \/ /\ calls[d][t].stage \in {"ask", "read", "write", "stored"}
                   /\ calls'[d][t].stage \in {"read", "write", "stored"}
                   /\ calls'[d][t].prev = calls[d][t].prev
      PROVE  Orderly(d)'
  <2> SUFFICES ASSUME Overlap[Host[d]] = 1
               PROVE  (OneCall(d) /\ Outside(d) /\ Inside(d))'
    BY DEF Orderly
  <2>1. OneCall(d) /\ Outside(d) /\ Inside(d) /\ 1 \in Slot
    BY <1>t, FirstSlot DEF Orderly
  <2>2. OneCall(d)'
    BY <1>r, <2>1 DEF OneCall
  <2>3. Outside(d)'
    BY <1>r, <2>1 DEF Outside
  <2>4. Inside(d)'
    BY <1>r, <2>1 DEF Inside, Told, Agreed
  <2> QED BY <2>2, <2>3, <2>4
<1>k. ASSUME NEW t \in Slot, calls'[d][t] = Outdated(calls[d][t])
      PROVE  \/ calls'[d][t] = calls[d][t]
             \/ /\ calls[d][t].stage \in {"ask", "read", "write", "stored"}
                /\ calls'[d][t].stage \in {"read", "write", "stored"}
                /\ calls'[d][t].prev = calls[d][t].prev
  BY <1>k, <1>t, OutdatedType
<1>q. ASSUME NEW p \in Process, UNCHANGED <<conns, role, told>>,
             calls'[d] = [t \in Slot |-> calls'[d][t]],
             \A t \in Slot : calls'[d][t] = PodOutdated(d, calls[d][t], p),
             \A o \in Process : o # p => label'[o] = label[o] /\ latePod'[o] = latePod[o],
             Host[d] = p => ~Sole(d) \/ latePod[p] # {}
      PROVE  Orderly(d)'
  <2>1. CASE Host[d] # p
    <3>1. \A t \in Slot : calls'[d][t] = calls[d][t]
      BY <1>t, <1>q, <2>1, PodOutdatedType
    <3>2. calls'[d] = calls[d]
      BY <1>t, <1>q, <3>1
    <3> QED BY <1>o, <1>q, <2>1, <3>2, HostAssumption
  <2>2. CASE Host[d] = p /\ Overlap[Host[d]] = 1
    <3>1. \A t \in Slot : /\ calls'[d][t].stage = calls[d][t].stage
                          /\ calls'[d][t].prev = calls[d][t].prev
                          /\ calls'[d][t].says = calls[d][t].says
      BY <1>t, <1>q, PodOutdatedType
    <3>2. 1 \in Slot /\ OneCall(d) /\ Outside(d) /\ Inside(d)
      BY <1>t, <2>2, FirstSlot DEF Orderly
    <3>3. OneCall(d)'
      BY <3>1, <3>2 DEF OneCall
    <3>4. Outside(d)'
      BY <1>q, <3>1, <3>2 DEF Outside, NamesItsPod
    <3>5. Inside(d)'
      BY <1>q, <2>2, <3>1, <3>2 DEF Inside, Told, Agreed, NamesItsPod, Sole, Calm
    <3> QED BY <3>3, <3>4, <3>5 DEF Orderly
  <2> QED BY <2>1, <2>2 DEF Orderly
<1>1. ASSUME NEW c \in Connection, Connect(c) PROVE Orderly(d)'
  <2>1. CASE d = c
    <3>1. /\ role'[d] = "undefined" /\ calls' = calls
          /\ \A s \in Slot : calls[d][s].stage = "idle"
      BY <1>1, <1>t, <2>1 DEF Connect, Rests, TypeOK
    <3>2. CASE Overlap[Host[d]] = 1
      BY <1>t, <1>i, <3>1, <3>2, FirstSlot
    <3>3. Host' = Host /\ Overlap' = Overlap
      OBVIOUS
    <3> QED BY <3>2, <3>3 DEF Orderly
  <2>2. CASE d # c
    <3>1. /\ calls' = calls /\ role'[d] = role[d] /\ told' = told
          /\ label' = label /\ latePod' = latePod
          /\ d \in conns' => d \in conns
      BY <1>1, <1>t, <2>2 DEF Connect, lates, TypeOK
    <3> QED BY <1>t, <3>1 DEF Orderly, OneCall, Outside, Inside, Told, Agreed
  <2> QED BY <2>1, <2>2
<1>2. ASSUME NEW c \in Connection, Close(c) PROVE Orderly(d)'
  BY <1>2, <1>o, <1>t DEF Close, lates, TypeOK
<1>3. ASSUME NEW c \in Connection, NEW i \in Identity, Send(c, i) PROVE Orderly(d)'
  BY <1>3, <1>o DEF Send, lates
<1>4. ASSUME NEW p \in Process, Step(p) PROVE Orderly(d)'
  <2> DEFINE news == {c \in conns : Host[c] = p /\ mail[c] # NoIdentity}
             now(c) == IF c \in news THEN mail[c] ELSE ident[c]
             was(c) == IF c \in news THEN "undefined" ELSE role[c]
             starts == {c \in conns : Host[c] = p /\ now(c) # NoIdentity}
  <2>1. /\ conns' = conns /\ told' = told /\ label' = label /\ latePod' = latePod
        /\ role'[d] = was(d)
        /\ d \notin starts => calls'[d] = calls[d]
        /\ d \in starts => /\ Vacant(d) # {}
                           /\ calls'[d] = [calls[d] EXCEPT ![Lowest(Vacant(d))] =
                                 [Idle EXCEPT !.stage = "ask", !.prev = was(d),
                                              !.ident = now(d)]]
    BY <1>4 DEF Step, lates
  <2>2. d \notin starts => d \notin news
    OBVIOUS
  <2>3. CASE d \notin starts
    BY <1>o, <2>1, <2>2, <2>3
  <2>4. CASE d \in starts /\ Overlap[Host[d]] = 1
    <3>1. /\ 1 \in Slot /\ calls[d][1].stage = "idle" /\ Lowest(Vacant(d)) = 1
          /\ OneCall(d) /\ Outside(d) /\ Inside(d) /\ calls[d] \in [Slot -> Call]
      BY <1>t, <2>1, <2>4, FirstSlot DEF Orderly
    <3> HIDE DEF now, was, starts
    <3>2. /\ calls'[d][1].stage = "ask" /\ calls'[d][1].prev = was(d)
          /\ \A s \in Slot : s # 1 => calls'[d][s] = calls[d][s]
      <4>1. calls[d] \in [Slot -> Call] /\ 1 \in Slot
        BY <3>1
      <4>2. calls'[d] = [calls[d] EXCEPT ![1] =
               [Idle EXCEPT !.stage = "ask", !.prev = was(d), !.ident = now(d)]]
        BY <2>1, <2>4, <3>1
      <4>3. calls'[d][1] =
               [Idle EXCEPT !.stage = "ask", !.prev = was(d), !.ident = now(d)]
        BY <4>1, <4>2
      <4>4. \A s \in Slot : s # 1 => calls'[d][s] = calls[d][s]
        BY <4>1, <4>2
      <4> QED BY <4>3, <4>4 DEF Idle
    <3>3. OneCall(d)'
      BY <3>1, <3>2 DEF OneCall
    <3>4. was(d) = "undefined" \/ was(d) = role[d]
      BY DEF was
    <3>5. Outside(d)'
      BY <2>1, <3>1, <3>2, <3>4 DEF Outside
    <3>6. Inside(d)'
      BY <2>1, <3>1, <3>2, <3>4 DEF Inside, Told, Agreed
    <3> QED BY <3>3, <3>5, <3>6 DEF Orderly
  <2> QED BY <2>3, <2>4 DEF Orderly
<1>5. ASSUME NEW p \in Process, Restart(p) PROVE Orderly(d)'
  <2>1. CASE Host[d] = p
    <3>1. /\ role'[d] = "undefined"
          /\ \A s \in Slot : calls'[d][s] = Idle
      BY <1>5, <2>1 DEF Restart
    <3>2. CASE Overlap[Host[d]] = 1
      BY <1>t, <1>i, <3>1, <3>2, FirstSlot DEF Idle
    <3> QED BY <3>2 DEF Orderly
  <2>2. CASE Host[d] # p
    <3>1. label' = label /\ latePod'[Host[d]] = latePod[Host[d]]
      BY <1>5, <1>t, <2>2 DEF Restart, TypeOK
    <3> QED BY <1>5, <1>o, <2>2, <3>1 DEF Restart
  <2> QED BY <2>1, <2>2
<1>6. ASSUME Tick PROVE Orderly(d)'
  <2>1. \A s \in Slot :
           /\ calls'[d][s].stage = calls[d][s].stage
           /\ calls'[d][s].prev = calls[d][s].prev
           /\ calls'[d][s].fresh = calls[d][s].fresh
           /\ calls'[d][s].says = calls[d][s].says
    <3> SUFFICES ASSUME NEW s \in Slot
                 PROVE  /\ calls'[d][s].stage = calls[d][s].stage
                        /\ calls'[d][s].prev = calls[d][s].prev
                        /\ calls'[d][s].fresh = calls[d][s].fresh
                        /\ calls'[d][s].says = calls[d][s].says
      OBVIOUS
    <3> DEFINE k == calls[d][s]
    <3>1. k \in Call
      BY <1>t
    <3>2. calls'[d][s] = [k EXCEPT !.copy = [k.copy EXCEPT !.left = Expire(@)]]
      BY <1>6, <3>1, ExpiredCall DEF Tick
    <3> HIDE DEF k
    <3>3. /\ calls'[d][s].stage = k.stage /\ calls'[d][s].prev = k.prev
          /\ calls'[d][s].fresh = k.fresh /\ calls'[d][s].says = k.says
      BY <3>1, <3>2 DEF Call
    <3> QED BY <3>3 DEF k
  <2>2. UNCHANGED <<conns, role, told, label, latePod>>
    BY <1>6 DEF Tick
  <2>3. CASE Overlap[Host[d]] = 1
    BY <1>t, <2>1, <2>2, <2>3, FirstSlot
    DEF Orderly, OneCall, Outside, Inside, Told, Agreed
  <2> QED BY <2>3 DEF Orderly
<1>7. ASSUME NEW c \in Connection, NEW s \in Slot, Advance(c, s) PROVE Orderly(d)'
  <2> DEFINE call == calls[c][s]
  <2>t. call \in Call
    BY <1>t
  <2>1. ASSUME calls[c][s].stage \in {"ask", "read", "write", "stored"},
               NEW r \in Role, Finish(c, s, r)
        PROVE  Orderly(d)'
    <3>1. CASE d = c
      BY <2>1, <3>1, FinishOrder
    <3>2. CASE d # c
      BY <2>1, <3>2, <1>o, <1>t DEF Finish, TypeOK
    <3> QED BY <3>1, <3>2
  <2>3. ASSUME ReadLease(c, s) PROVE Orderly(d)'
    <3>p. PICK status \in Replies :
           calls' = [calls EXCEPT ![c][s] =
              [@ EXCEPT !.stage = "read", !.copy = lease,
                        !.fresh = TRUE, !.good = Is2xx(status)]]
      BY <2>3 DEF ReadLease
    <3> DEFINE k == [call EXCEPT !.stage = "read", !.copy = lease,
                                 !.fresh = TRUE, !.good = Is2xx(status)]
    <3>1. calls' = [calls EXCEPT ![c][s] = k]
      BY <1>t, <3>p
    <3>2. k.stage = "read" /\ k.prev = call.prev
      <4> HIDE DEF call
      <4> QED BY <2>t DEF Call
    <3> HIDE DEF k
    <3>3. \A t \in Slot : \/ calls'[d][t] = calls[d][t]
                          \/ d = c /\ t = s /\ calls'[d][t] = k
      BY <1>t, <3>1
    <3>4. UNCHANGED <<conns, role, told, label, latePod>> /\ call.stage = "ask"
      BY <2>3 DEF ReadLease, lates
    <3> QED BY <1>r, <3>2, <3>3, <3>4
  <2>4. ASSUME Submit(c, s), call.stage = "read" PROVE Orderly(d)'
    <3>p. PICK claim \in Claims(call.ident) :
           calls' = [calls EXCEPT ![c][s] = [@ EXCEPT !.stage = "write", !.copy = claim]]
      BY <2>4 DEF Submit
    <3> DEFINE k == [call EXCEPT !.stage = "write", !.copy = claim]
    <3>1. calls' = [calls EXCEPT ![c][s] = k]
      BY <1>t, <3>p
    <3>2. k.stage = "write" /\ k.prev = call.prev
      <4> HIDE DEF call
      <4> QED BY <2>t DEF Call
    <3> HIDE DEF k
    <3>3. \A t \in Slot : \/ calls'[d][t] = calls[d][t]
                          \/ d = c /\ t = s /\ calls'[d][t] = k
      BY <1>t, <3>1
    <3>4. UNCHANGED <<conns, role, told, label, latePod>>
      BY <2>4 DEF Submit, lates
    <3> QED BY <1>r, <2>4, <3>2, <3>3, <3>4
  <2>5. ASSUME Store(c, s) PROVE Orderly(d)'
    <3>1. ASSUME NEW t \in Slot
          PROVE  \/ calls'[d][t] = calls[d][t]
                 \/ /\ calls[d][t].stage \in {"ask", "read", "write", "stored"}
                    /\ calls'[d][t].stage \in {"read", "write", "stored"}
                    /\ calls'[d][t].prev = calls[d][t].prev
      <4>1. CASE d = c /\ t = s
        <5>1. /\ calls'[d][t] = [call EXCEPT !.stage = "stored", !.copy = Free,
                                              !.fresh = FALSE]
              /\ call.stage = "write"
          BY <2>5, <4>1 DEF Store
        <5>2. calls'[d][t].stage = "stored" /\ calls'[d][t].prev = call.prev
          <6> HIDE DEF call
          <6> QED BY <2>t, <5>1 DEF Call
        <5> QED BY <4>1, <5>1, <5>2
      <4>2. CASE d # c \/ t # s
        <5>1. calls'[d][t] = Outdated(calls[d][t])
          BY <2>5, <4>2 DEF Store
        <5> QED BY <1>k, <5>1
      <4> QED BY <4>1, <4>2
    <3>2. UNCHANGED <<conns, role, told, label, latePod>>
      BY <2>5 DEF Store
    <3> QED BY <1>r, <3>1, <3>2
  <2>6. ASSUME d # c, \/ ReadPod(c, s) \/ Relabel(c, s) \/ Labelled(c, s)
        PROVE  Orderly(d)'
    <3>1. UNCHANGED <<conns, role, told, label, latePod>> /\ calls'[d] = calls[d]
      BY <1>t, <2>6 DEF ReadPod, Relabel, Labelled, TypeOK, lates
    <3> QED BY <1>o, <3>1
  <2>7. ASSUME d = c, Overlap[Host[c]] = 1,
               call.stage \in {"label", "pod", "relabel", "labelled"}
        PROVE  /\ s = 1 /\ OneCall(c) /\ Outside(c) /\ Inside(c)
               /\ 1 \in Slot /\ call = calls[c][1]
    BY <1>t, <2>7, FirstSlot DEF Orderly, OneCall
  <2>8. ASSUME d = c, Overlap[Host[c]] = 1, ReadPod(c, s) PROVE Orderly(d)'
    <3>p. PICK status \in Replies :
           calls' = [calls EXCEPT ![c][s] =
              [@ EXCEPT !.stage = "pod", !.fresh = TRUE, !.good = Is2xx(status)]]
      BY <2>8 DEF ReadPod
    <3> DEFINE k == [call EXCEPT !.stage = "pod", !.fresh = TRUE, !.good = Is2xx(status)]
    <3>1. calls' = [calls EXCEPT ![c][s] = k]
      BY <1>t, <3>p
    <3>2. k.stage = "pod" /\ k.prev = call.prev /\ k.fresh
      <4> HIDE DEF call
      <4> QED BY <2>t DEF Call
    <3> HIDE DEF k
    <3>3. /\ calls'[c][1] = k
          /\ \A t \in Slot : t # 1 => calls'[c][t] = calls[c][t]
          /\ OneCall(c) /\ Outside(c) /\ Inside(c)
          /\ calls[c][1].stage = "label" /\ k.prev = calls[c][1].prev
      BY <1>t, <2>7, <2>8, <3>1, <3>2 DEF ReadPod
    <3>4. UNCHANGED <<conns, role, told, label, latePod>>
      BY <2>8 DEF ReadPod, lates
    <3>5. OneCall(c)'
      BY <3>3 DEF OneCall
    <3>6. Outside(c)'
      BY <3>2, <3>3, <3>4 DEF Outside
    <3>7. Inside(c)'
      BY <3>2, <3>3, <3>4 DEF Inside, Told, Agreed
    <3> QED BY <2>8, <3>5, <3>6, <3>7 DEF Orderly
  <2>9. ASSUME d = c, Overlap[Host[c]] = 1, Relabel(c, s) PROVE Orderly(d)'
    <3> DEFINE k == [call EXCEPT !.stage = "relabel", !.says = role[c]]
    <3>1. calls' = [calls EXCEPT ![c][s] = k] /\ call.stage = "pod" /\ role[c] # "undefined"
      BY <1>t, <2>9 DEF Relabel, HasString
    <3>2. /\ k.stage = "relabel" /\ k.prev = call.prev /\ k.fresh = call.fresh
          /\ k.says = role[c]
      <4> HIDE DEF call
      <4> QED BY <2>t DEF Call
    <3> HIDE DEF k
    <3>3. /\ calls'[c][1] = k
          /\ \A t \in Slot : t # 1 => calls'[c][t] = calls[c][t]
          /\ OneCall(c) /\ Outside(c) /\ Inside(c)
          /\ calls[c][1].stage = "pod" /\ k.prev = calls[c][1].prev
          /\ k.fresh = calls[c][1].fresh
      BY <1>t, <2>7, <2>9, <3>1, <3>2
    <3>4. UNCHANGED <<conns, role, told, label, latePod>>
      BY <2>9 DEF Relabel, lates
    <3>5. OneCall(c)'
      BY <3>3 DEF OneCall
    <3>6. Outside(c)'
      BY <3>2, <3>3, <3>4 DEF Outside
    <3>7. Inside(c)'
      BY <3>1, <3>2, <3>3, <3>4 DEF Inside, Told, Agreed
    <3> QED BY <2>9, <3>5, <3>6, <3>7 DEF Orderly
  <2>10. ASSUME d = c, Overlap[Host[c]] = 1, Labelled(c, s) PROVE Orderly(d)'
    <3>1. /\ s = 1 /\ OneCall(c) /\ Outside(c) /\ Inside(c) /\ 1 \in Slot
          /\ calls[c][1].stage = "labelled"
      BY <2>7, <2>10 DEF Labelled
    <3>2. /\ calls'[c][1] = Idle
          /\ \A t \in Slot : t # 1 => calls'[c][t] = calls[c][t]
          /\ UNCHANGED <<conns, role, told, label, latePod>>
      BY <1>t, <2>10, <3>1 DEF Labelled, lates
    <3>3. OneCall(c)'
      BY <3>1, <3>2 DEF OneCall
    <3>4. Outside(c)'
      BY <3>1, <3>2 DEF Outside, Idle
    <3>5. Inside(c)'
      BY <3>1, <3>2 DEF Inside, Told, Agreed, Idle
    <3> QED BY <2>10, <3>3, <3>4, <3>5 DEF Orderly
  <2>11. ASSUME PodFails(c, s) PROVE Orderly(d)'
    <3>1. /\ UNCHANGED <<conns, told, label>>
          /\ call.stage \in {"label", "pod", "relabel", "labelled"}
          /\ latePod' = latePod \/ latePod' = [latePod EXCEPT ![Host[c]] = LabelSentBy(c, s)]
      BY <1>t, <2>11 DEF PodFails, TypeOK
    <3>2. CASE d # c /\ Host[d] # Host[c]
      <4>1. /\ calls'[d] = calls[d] /\ role'[d] = role[d]
            /\ latePod'[Host[d]] = latePod[Host[d]]
        BY <1>t, <2>11, <3>1, <3>2 DEF PodFails, TypeOK
      <4> QED BY <1>o, <3>1, <4>1
    <3>3. CASE d # c /\ Host[d] = Host[c]
      <4>1. ~Sole(d) /\ calls'[d] = calls[d] /\ role'[d] = role[d]
        BY <1>t, <2>11, <3>3 DEF PodFails, TypeOK, Sole
      <4> QED BY <1>t, <4>1 DEF Orderly, OneCall, Outside, Inside, Sole
    <3>4. CASE d = c /\ Overlap[Host[c]] = 1
      <4>1. s = 1 /\ OneCall(c) /\ Outside(c) /\ Inside(c) /\ 1 \in Slot /\ call = calls[c][1]
        BY <2>7, <3>1, <3>4
      <4>2. /\ calls'[c][1] = Idle /\ role'[c] = calls[c][1].prev
            /\ \A t \in Slot : t # 1 => calls'[c][t] = calls[c][t]
        BY <1>t, <2>11, <4>1 DEF PodFails, Reverted, TypeOK
      <4>3. OneCall(c)'
        BY <4>1, <4>2 DEF OneCall
      <4>4. Outside(c)'
        BY <3>1, <4>1, <4>2 DEF Outside, Idle
      <4>5. Inside(c)'
        <5>1. ASSUME NamesItsPod(Host[c]), Calm(Host[c]), Sole(c)
              PROVE  calls[c][1].prev = "undefined"
          BY <2>11, <4>1, <5>1 DEF PodFails, HasString, Inside, Calm
        <5> QED BY <4>2, <5>1 DEF Inside, Told, Agreed, Idle, NamesItsPod, Calm, Sole
      <4> QED BY <3>4, <4>3, <4>4, <4>5 DEF Orderly
    <3> QED BY <3>2, <3>3, <3>4 DEF Orderly
  <2>12. ASSUME WritePod(c, s) PROVE Orderly(d)'
    <3>1. /\ UNCHANGED <<conns, role, told>>
          /\ NamesItsPod(Host[c]) /\ call.stage = "relabel"
          /\ label' = [label EXCEPT ![Host[c]] = call.says]
          /\ latePod' = [latePod EXCEPT ![Host[c]] = {}]
      BY <2>12 DEF WritePod
    <3>2. CASE d # c
      <4>1. ASSUME NEW t \in Slot
            PROVE  calls'[d][t] = PodOutdated(d, calls[d][t], Host[c])
        BY <2>12, <3>2 DEF WritePod
      <4>2. /\ calls'[d] = [t \in Slot |-> calls'[d][t]]
            /\ \A p \in Process : p # Host[c] => label'[p] = label[p] /\ latePod'[p] = latePod[p]
        BY <2>12, <1>t, <3>1 DEF WritePod, TypeOK
      <4> QED BY <1>q, <3>1, <3>2, <4>1, <4>2, HostAssumption DEF Sole
    <3>3. CASE d = c /\ Overlap[Host[c]] = 1
      <4>1. /\ s = 1 /\ OneCall(c) /\ Outside(c) /\ Inside(c) /\ 1 \in Slot
            /\ call = calls[c][1]
        BY <2>7, <3>1, <3>3
      <4>2. /\ calls'[c][1].stage = "labelled"
            /\ \A t \in Slot : t # 1 => calls'[c][t].stage = calls[c][t].stage
        <5>1. calls'[c][1] = [call EXCEPT !.stage = "labelled", !.fresh = FALSE]
          BY <2>12, <4>1 DEF WritePod
        <5>2. calls'[c][1].stage = "labelled"
          <6> HIDE DEF call
          <6> QED BY <2>t, <5>1 DEF Call
        <5>3. \A t \in Slot : t # 1 => calls'[c][t] = PodOutdated(c, calls[c][t], Host[c])
          BY <2>12, <4>1 DEF WritePod
        <5> QED BY <1>t, <5>2, <5>3, PodOutdatedType
      <4>3. OneCall(c)'
        BY <4>1, <4>2 DEF OneCall
      <4>4. Outside(c)'
        BY <3>1 DEF Outside, NamesItsPod
      <4>5. Inside(c)'
        <5>1. label'[Host[c]] = call.says /\ latePod'[Host[c]] = {}
          BY <1>t, <3>1, HostAssumption DEF TypeOK
        <5> QED BY <3>1, <4>1, <4>2, <5>1 DEF Inside, Told, Agreed
      <4> QED BY <3>3, <4>3, <4>4, <4>5 DEF Orderly
    <3> QED BY <3>2, <3>3 DEF Orderly
  <2>13. call.prev \in Role /\ {"active", "passive"} \subseteq Role
    BY <2>t DEF Call, Role
  <2>14. d = c /\ Overlap[Host[c]] # 1 => Orderly(d)'
    BY DEF Orderly
  <2>15. ReadPod(c, s) \/ Relabel(c, s) \/ Labelled(c, s) => Orderly(d)'
    BY <2>6, <2>8, <2>9, <2>10, <2>14
  <2> QED
    BY <1>7, <2>1, <2>3, <2>4, <2>5, <2>11, <2>12, <2>13, <2>15
    DEF Advance, Fail, AlreadyHeld, StandBy, TryGrab, Renew, Stored, Conflict
<1>8. CASE UNCHANGED vars
  BY <1>8, <1>o DEF vars, lates
<1>9. ASSUME StoreLate PROVE Orderly(d)'
  <2>1. /\ UNCHANGED <<conns, role, told, label, latePod>>
        /\ \A t \in Slot : calls'[d][t] = Outdated(calls[d][t])
    BY <1>9 DEF StoreLate
  <2>2. \A t \in Slot :
           \/ calls'[d][t] = calls[d][t]
           \/ /\ calls[d][t].stage \in {"ask", "read", "write", "stored"}
              /\ calls'[d][t].stage \in {"read", "write", "stored"}
              /\ calls'[d][t].prev = calls[d][t].prev
    BY <1>k, <2>1
  <2> QED BY <1>r, <2>1, <2>2
<1>10. ASSUME NEW p \in Process, WriteLatePod(p) PROVE Orderly(d)'
  <2>1. /\ UNCHANGED <<conns, role, told>> /\ latePod[p] # {}
        /\ calls'[d] = [t \in Slot |-> calls'[d][t]]
        /\ \A t \in Slot : calls'[d][t] = PodOutdated(d, calls[d][t], p)
        /\ \A q \in Process : q # p => label'[q] = label[q] /\ latePod'[q] = latePod[q]
    BY <1>10, <1>t DEF WriteLatePod, TypeOK
  <2> QED BY <1>q, <2>1
<1> QED
  BY <1>1, <1>2, <1>3, <1>4, <1>5, <1>6, <1>7, <1>8, <1>9, <1>10 DEF Next

LEMMA OrderInit == Init => OrderInv
<1>1. ASSUME Init, NEW c \in Connection PROVE Orderly(c)
  <2>1. CASE Overlap[Host[c]] = 1
    <3>1. 1 \in Slot
      BY <1>1, <2>1, TypeInit, FirstSlot
    <3> QED BY <1>1, <3>1 DEF Init, Orderly, OneCall, Outside, Inside, Told, Agreed, Idle
  <2> QED BY <2>1 DEF Orderly
<1> QED BY <1>1, TypeInit DEF OrderInv

LEMMA OrderInvariant == Spec => []OrderInv
BY OrderInit, OrderStep, PTL DEF Spec

\* Client, elector and label agree on the role whenever no call is outstanding, for
\* the only client of an elector whose calls do not overlap and whose requests
\* about the pod succeed.
THEOREM SyncedIfCalm == Spec => []SyncedWhenCalm
<1>1. OrderInv => SyncedWhenCalm
  <2> SUFFICES ASSUME OrderInv, NEW c \in Connection, Calm(Host[c]), Sole(c),
                      c \in conns, Rests(c), role[c] # "undefined"
               PROVE  told[c] = role[c] /\ label[Host[c]] = role[c]
    BY DEF SyncedWhenCalm, Synced
  <2>1. Outside(c) /\ Inside(c) /\ calls[c][1].stage = "idle"
    BY FirstSlot DEF OrderInv, Orderly, Calm, Rests
  <2>2. NamesItsPod(Host[c])
    BY <2>1 DEF Outside
  <2> QED BY <2>1, <2>2 DEF Inside, Told, Agreed
<1> QED BY <1>1, OrderInvariant, PTL
=============================================================================
