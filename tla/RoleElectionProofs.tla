------------------------- MODULE RoleElectionProofs -------------------------
(***************************************************************************)
(* RoleElection is type correct, no tenure an elector has learnt of        *)
(* outlives the lease, and the leases behave as LeaseTenure says, for any  *)
(* number of electors, clients, leases and identities and any durations.   *)
(***************************************************************************)
EXTENDS RoleElection, TLAPS

\* A running attempt is for a client that is there and has said what it wants.
Attending ==
    \A c \in Client :
        attempt[c].stage # "idle" => c \in online /\ info[c] \in Info

TypeInv == TypeOK /\ Attending

\* The constants that stand for nothing are values of their types.
LEMMA Defaults ==
    /\ Free \in LeaseRecord
    /\ Idle \in Attempt
    /\ NoGrant \in [to : Info \cup {NoInfo}, left : Time]
    /\ \A i \in Identity : Claim(i) \in LeaseRecord
BY DurationAssumption DEF Free, Idle, NoGrant, Claim, LeaseRecord, Attempt, Time,
   Role

\* A count down stays within its bounds, and keeps its order.
LEMMA ExpireType ==
    /\ \A n \in Time : Expire(n) \in Time /\ (Expire(n) > 0 => n > 0)
    /\ \A m, n \in Time : m <= n => Expire(m) <= Expire(n)
BY DurationAssumption DEF Expire, Time

\* Only an elector that works on no client listens to its clients.
LEMMA NotBusy == ASSUME NEW c \in Client, TypeOK, ~Busy(Host[c])
                 PROVE  attempt[c].stage = "idle"
BY DEF Busy

\* A call that goes on to its write, and one whose write failed.
LEMMA Regrabbed == ASSUME NEW a \in Attempt, NEW r \in LeaseRecord
                   PROVE  [a EXCEPT !.stage = "grab", !.copy = r] \in Attempt
BY DEF Attempt

LEMMA Failing == ASSUME NEW a \in Attempt
                 PROVE  /\ [a EXCEPT !.reply = "failed", !.fresh = FALSE] \in Attempt
                        /\ [a EXCEPT !.reply = "failed", !.fresh = FALSE].stage = a.stage
BY DEF Attempt

\* What is given up is a copy of a lease.
LEMMA GiveUpType ==
    ASSUME TypeInv, NEW c \in Client
    PROVE  GiveUp(c) \in [Lease -> SUBSET LeaseRecord]
<1>1. CASE Waiting(c) /\ attempt[c].fresh
  <2>1. info[c].lease \in Lease /\ attempt[c].copy \in LeaseRecord
    BY <1>1 DEF Waiting, TypeInv, TypeOK, Attending, Attempt, Info
  <2> QED BY <1>1, <2>1 DEF GiveUp, TypeInv, TypeOK
<1>2. CASE ~(Waiting(c) /\ attempt[c].fresh)
  BY <1>2 DEF GiveUp, TypeInv, TypeOK
<1> QED BY <1>1, <1>2

\* Every step keeps every variable within its type.
LEMMA TypeStep == TypeInv /\ [Next]_vars => TypeInv'
<1> SUFFICES ASSUME TypeInv, [Next]_vars PROVE TypeInv'
  OBVIOUS
<1> USE DEF TypeInv, TypeOK, Attending
<1>1. ASSUME NEW c \in Client, Join(c) PROVE TypeInv'
  BY <1>1 DEF Join
<1>2. ASSUME NEW c \in Client, NEW i \in Info \cup {NoInfo}, SetInfo(c, i)
      PROVE  TypeInv'
  <2>1. attempt[c].stage = "idle"
    BY <1>2, NotBusy DEF SetInfo
  <2> QED BY <1>2, <2>1 DEF SetInfo
<1>3. ASSUME NEW S, Forget(S), late' \in [Lease -> SUBSET LeaseRecord] PROVE TypeInv'
  BY <1>3, Defaults DEF Forget, Idle, Role
<1>4. ASSUME NEW c \in Client, GetLease(c) PROVE TypeInv'
  <2>1. lease[info[c].lease] \in LeaseRecord /\ info[c] \in Info
    BY <1>4 DEF GetLease, Info
  <2> QED BY <1>4, <2>1 DEF GetLease, Attempt
<1>5. ASSUME NEW c \in Client, TryGrab(c) PROVE TypeInv'
  <2>1. Claim(info[c].identity) \in LeaseRecord
    BY <1>5, Defaults DEF TryGrab, Info
  <2>2. attempt' = [attempt EXCEPT ![c] =
           [@ EXCEPT !.stage = "grab", !.copy = Claim(info[c].identity)]]
    BY <1>5 DEF TryGrab
  <2>3. [attempt[c] EXCEPT !.stage = "grab", !.copy = Claim(info[c].identity)]
           \in Attempt
    <3>1. attempt[c] \in Attempt
      OBVIOUS
    <3> QED BY <2>1, <3>1, Regrabbed, Zenon
  <2>4. c \in online /\ info[c] \in Info
    BY <1>5 DEF TryGrab
  <2>5. attempt' \in [Client -> Attempt] /\ \A d \in Client : d # c => attempt'[d] = attempt[d]
    BY <2>2, <2>3
  <2>6. UNCHANGED <<lease, late, online, role, info, grant>>
    BY <1>5 DEF TryGrab
  <2>7. TypeOK'
    BY <2>5, <2>6
  <2>8. Attending'
    BY <2>4, <2>5, <2>6
  <2> QED BY <2>7, <2>8
<1>6. ASSUME NEW c \in Client, KeepLease(c) PROVE TypeInv'
  <2>1. info[c] \in Info /\ Claim(info[c].identity) \in LeaseRecord
    BY <1>6, Defaults DEF KeepLease, Info
  <2>2. attempt'[c] \in Attempt
    BY <1>6, <2>1, Defaults DEF KeepLease, Attempt
  <2>3. attempt[c].copy.left \in Time
    BY DEF Attempt, LeaseRecord
  <2> QED BY <1>6, <2>1, <2>2, <2>3 DEF KeepLease, Role
<1>7. ASSUME NEW c \in Client, StandBy(c) PROVE TypeInv'
  BY <1>7, Defaults DEF StandBy, Role, Idle
<1>8. ASSUME NEW c \in Client, ReplaceApplied(c) PROVE TypeInv'
  <2>1. info[c].lease \in Lease /\ attempt[c].copy \in LeaseRecord
    BY <1>8 DEF ReplaceApplied, Waiting, Attempt, Info
  <2>2. lease' \in [Lease -> LeaseRecord] /\ late' \in [Lease -> SUBSET LeaseRecord]
    BY <1>8, <2>1 DEF ReplaceApplied
  <2>3. \A d \in Client :
           attempt'[d] \in Attempt /\ attempt'[d].stage = attempt[d].stage
    <3> SUFFICES ASSUME NEW d \in Client
        PROVE  attempt'[d] \in Attempt /\ attempt'[d].stage = attempt[d].stage
      OBVIOUS
    <3>1. attempt[d] \in Attempt
      OBVIOUS
    <3>2. \/ attempt'[d] = attempt[d]
          \/ attempt'[d] = [attempt[d] EXCEPT !.fresh = FALSE]
          \/ \E reply \in {"ok", "failed"} :
                attempt'[d] = [attempt[d] EXCEPT !.reply = reply, !.fresh = FALSE]
      BY <1>8 DEF ReplaceApplied, Outdated
    <3> QED BY <3>1, <3>2 DEF Attempt
  <2>4. attempt' \in [Client -> Attempt]
    BY <1>8, <2>3 DEF ReplaceApplied
  <2> QED BY <1>8, <2>2, <2>3, <2>4 DEF ReplaceApplied
<1>9. ASSUME NEW c \in Client, ReplaceFailed(c) PROVE TypeInv'
  <2>1. attempt' = [attempt EXCEPT ![c] =
           [@ EXCEPT !.reply = "failed", !.fresh = FALSE]]
    BY <1>9 DEF ReplaceFailed
  <2>2. /\ [attempt[c] EXCEPT !.reply = "failed", !.fresh = FALSE] \in Attempt
        /\ [attempt[c] EXCEPT !.reply = "failed", !.fresh = FALSE].stage
              = attempt[c].stage
    <3>1. attempt[c] \in Attempt
      OBVIOUS
    <3> QED BY <3>1, Failing, Zenon
  <2>3. late' \in [Lease -> SUBSET LeaseRecord]
    BY <1>9, GiveUpType DEF ReplaceFailed
  <2>4. /\ attempt' \in [Client -> Attempt]
        /\ \A d \in Client : attempt'[d].stage = attempt[d].stage
    BY <2>1, <2>2
  <2>5. UNCHANGED <<lease, online, role, info, grant>>
    BY <1>9 DEF ReplaceFailed
  <2>6. TypeOK'
    BY <2>3, <2>4, <2>5
  <2>7. Attending'
    BY <2>4, <2>5
  <2> QED BY <2>6, <2>7
<1>10. ASSUME NEW c \in Client, Conclude(c) PROVE TypeInv'
  <2>1. attempt[c].copy.left \in Time
    BY DEF Attempt, LeaseRecord
  <2> QED BY <1>10, <2>1, Defaults DEF Conclude, Role, Idle
<1>11. ASSUME Tick PROVE TypeInv'
  <2>1. lease' \in [Lease -> LeaseRecord] /\ late' \in [Lease -> SUBSET LeaseRecord]
    <3>1. \A r \in LeaseRecord : [r EXCEPT !.left = Expire(@)] \in LeaseRecord
      BY ExpireType DEF LeaseRecord
    <3> QED BY <1>11, <3>1 DEF Tick
  <2>2. \A c \in Client :
           attempt'[c] \in Attempt /\ attempt'[c].stage = attempt[c].stage
    <3> SUFFICES ASSUME NEW c \in Client
        PROVE  attempt'[c] \in Attempt /\ attempt'[c].stage = attempt[c].stage
      OBVIOUS
    <3>1. attempt[c] \in Attempt /\ Expire(attempt[c].copy.left) \in Time
      BY ExpireType DEF Attempt, LeaseRecord
    <3>2. attempt'[c] = [attempt[c] EXCEPT !.copy.left = Expire(@)]
      BY <1>11 DEF Tick
    <3>3. [attempt[c].copy EXCEPT !.left = Expire(@)] \in LeaseRecord
      BY <3>1 DEF Attempt, LeaseRecord
    <3>4. attempt'[c] = [attempt[c] EXCEPT
                            !.copy = [attempt[c].copy EXCEPT !.left = Expire(@)]]
      BY <3>2, <3>1, Zenon DEF Attempt
    <3> QED BY <3>1, <3>3, <3>4 DEF Attempt
  <2>3. attempt' \in [Client -> Attempt]
    BY <1>11, <2>2 DEF Tick
  <2>4. grant' \in [Client -> [to : Info \cup {NoInfo}, left : Time]]
    BY <1>11, ExpireType DEF Tick
  <2> QED BY <1>11, <2>1, <2>2, <2>3, <2>4 DEF Tick
<1>12. CASE UNCHANGED vars
  BY <1>12 DEF vars
<1>13. ASSUME NEW l \in Lease, StoreLate(l) PROVE TypeInv'
  <2>1. PICK r \in late[l] : lease' = [lease EXCEPT ![l] = r]
    BY <1>13 DEF StoreLate
  <2>2. lease' \in [Lease -> LeaseRecord] /\ late' \in [Lease -> SUBSET LeaseRecord]
    BY <1>13, <2>1 DEF StoreLate
  <2>3. \A d \in Client :
           attempt'[d] \in Attempt /\ attempt'[d].stage = attempt[d].stage
    <3> SUFFICES ASSUME NEW d \in Client
        PROVE  attempt'[d] \in Attempt /\ attempt'[d].stage = attempt[d].stage
      OBVIOUS
    <3>1. attempt[d] \in Attempt
      OBVIOUS
    <3>2. \/ attempt'[d] = attempt[d]
          \/ attempt'[d] = [attempt[d] EXCEPT !.fresh = FALSE]
      BY <1>13 DEF StoreLate, Outdated
    <3> QED BY <3>1, <3>2 DEF Attempt
  <2>4. attempt' \in [Client -> Attempt]
    BY <1>13, <2>3 DEF StoreLate
  <2> QED BY <1>13, <2>2, <2>3, <2>4 DEF StoreLate
<1>14. ASSUME NEW e \in Elector, Restart(e) PROVE TypeInv'
  <2>1. late' \in [Lease -> SUBSET LeaseRecord]
    BY <1>14, GiveUpType DEF Restart
  <2> QED BY <1>3, <1>14, <2>1 DEF Restart
<1>15. ASSUME NEW c \in Client, Leave(c) PROVE TypeInv'
  BY <1>3, <1>15 DEF Leave
<1> QED
  BY <1>1, <1>2, <1>4, <1>5, <1>6, <1>7, <1>8, <1>9, <1>10, <1>11, <1>12, <1>13,
     <1>14, <1>15, PresentsAssumption
  DEF Next, Step

LEMMA TypeInit == Init => TypeInv
BY Defaults DEF Init, TypeInv, TypeOK, Attending, Role, Idle

\* Type correctness of RoleElection.
THEOREM TypeCorrect == Spec => []TypeOK
<1>1. TypeInv => TypeOK
  BY DEF TypeInv
<1> QED
  BY <1>1, TypeInit, TypeStep, PTL DEF Spec

-----------------------------------------------------------------------------
(***************************************************************************)
(* Tenure.  GrantHonoured alone is not inductive: a grant comes from the   *)
(* copy of an attempt, by way of a reply, so those must be honoured too.   *)
(* What makes them last is that a write which the API server accepts was   *)
(* decided on the lease as it still is.                                    *)
(***************************************************************************)

\* Nobody but i has lease i.lease within the next t seconds.
Backed(i, t) == t > 0 => /\ lease[i.lease].holder = i.identity
                         /\ lease[i.lease].left >= t

\* A copy just read is the lease, if it is not out of date, and what it says
\* of a tenure that has time left is honoured in any case.
ReadInv(c) == attempt[c].stage = "read" =>
    /\ attempt[c].fresh => attempt[c].copy = lease[info[c].lease]
    /\ attempt[c].copy.holder = info[c].identity
          => Backed(info[c], attempt[c].copy.left)

\* Only a write is replied to.
ReplyInv(c) == attempt[c].stage \in {"idle", "read"} => attempt[c].reply = "none"

\* To store r in the place of the lease l takes one that is available, or extends a
\* tenure.
Extends(l, r) == Available(l) \/ (l.holder = r.holder /\ l.left <= r.left)

\* A write is for the client's own identity; one that will be accepted takes
\* a lease that is available, or extends the tenure of the same identity.
WriteInv(c) == attempt[c].stage \in {"grab", "renew"} =>
    /\ attempt[c].copy.holder = info[c].identity
    /\ attempt[c].fresh =>
          /\ attempt[c].reply = "none"
          /\ Extends(lease[info[c].lease], attempt[c].copy)
    /\ attempt[c].reply = "ok" => Backed(info[c], attempt[c].copy.left)

GrantInv(c) == grant[c].left > 0 =>
    grant[c].to \in Info /\ Backed(grant[c].to, grant[c].left)

Honest(c) == ReplyInv(c) /\ ReadInv(c) /\ WriteInv(c) /\ GrantInv(c)

\* So does what may be stored though nobody waits for it any more.
LateInv == \A l \in Lease : \A r \in late[l] :
    r.holder \in Identity /\ Extends(lease[l], r)

IInv == TypeInv /\ LateInv /\ \A c \in Client : Honest(c)

\* What the invariants say of a client rests on its own attempt and grant.
LEMMA OthersKept ==
    ASSUME NEW c \in Client, Honest(c), UNCHANGED <<lease, info>>,
           attempt'[c] = attempt[c], grant'[c] = grant[c]
    PROVE  Honest(c)'
BY DEF Honest, ReplyInv, ReadInv, WriteInv, GrantInv, Backed, Extends, Available

\* A tenure survives every accepted write ...
LEMMA WriteKeepsTenure ==
    ASSUME TypeInv, NEW l \in Lease, NEW r \in LeaseRecord, Extends(lease[l], r),
           lease' = [lease EXCEPT ![l] = r],
           NEW i \in Info, NEW t \in Time, Backed(i, t)
    PROVE  Backed(i, t)'
<1>1. lease \in [Lease -> LeaseRecord]
  BY DEF TypeInv, TypeOK
<1>2. CASE i.lease # l
  BY <1>1, <1>2 DEF Backed, Info
<1>3. CASE i.lease = l /\ t > 0
  <2>1. lease[l].holder = i.identity /\ lease[l].left >= t /\ ~Available(lease[l])
    BY <1>1, <1>3, NullAssumption DEF Backed, Available, Info, Time
  <2>2. lease'[l] = r /\ r.holder = i.identity /\ r.left >= t
    BY <1>1, <2>1, DurationAssumption DEF Extends, LeaseRecord, Time
  <2> QED BY <1>3, <2>2 DEF Backed
<1> QED
  BY <1>2, <1>3 DEF Backed

\* ... with it what the attempts of the others rest on, as the version tells them ...
LEMMA WriteKeepsHonest ==
    ASSUME IInv, NEW l \in Lease, NEW r \in LeaseRecord, Extends(lease[l], r),
           lease' = [lease EXCEPT ![l] = r], UNCHANGED <<info, grant>>,
           NEW d \in Client, attempt'[d] = Outdated(d, l)
    PROVE  Honest(d)'
<1>t. /\ TypeInv /\ Honest(d) /\ attempt[d] \in Attempt
      /\ lease \in [Lease -> LeaseRecord] /\ info[d] \in Info \cup {NoInfo}
  BY DEF IInv, TypeInv, TypeOK
<1>2. /\ attempt'[d].stage = attempt[d].stage
      /\ attempt'[d].copy = attempt[d].copy
      /\ attempt'[d].reply = attempt[d].reply
      /\ attempt'[d].fresh => attempt[d].fresh /\ ~Wants(d, l)
  <2>1. \/ ~Wants(d, l) /\ attempt'[d] = attempt[d]
        \/ attempt'[d] = [attempt[d] EXCEPT !.fresh = FALSE]
    BY DEF Outdated
  <2> QED BY <1>t, <2>1 DEF Attempt
<1>3. \A i \in Info, t \in Time : Backed(i, t) => Backed(i, t)'
  BY <1>t, WriteKeepsTenure
<1>4. GrantInv(d)'
  <2>1. grant[d].left \in Time
    BY <1>t DEF TypeInv, TypeOK
  <2> QED BY <1>t, <1>3, <2>1 DEF Honest, GrantInv, Backed
<1>5. /\ attempt[d].stage # "idle" => info[d] \in Info
      /\ attempt[d].copy.left \in Time
  BY <1>t DEF TypeInv, Attending, Attempt, LeaseRecord
<1>6. attempt'[d].fresh /\ attempt[d].stage # "idle"
         => attempt[d].fresh /\ lease'[info[d].lease] = lease[info[d].lease]
  BY <1>t, <1>2, <1>5, NullAssumption DEF Wants, Info
<1>7. ReplyInv(d)'
  BY <1>t, <1>2 DEF Honest, ReplyInv
<1>8. ReadInv(d)'
  <2>1. CASE attempt[d].stage = "read"
    BY <1>t, <1>2, <1>3, <1>5, <1>6, <2>1
    DEF Honest, ReplyInv, ReadInv, Backed
  <2> QED BY <1>2, <2>1 DEF ReadInv
<1>9. WriteInv(d)'
  <2>1. CASE attempt[d].stage \in {"grab", "renew"}
    BY <1>t, <1>2, <1>3, <1>5, <1>6, <2>1
    DEF Honest, WriteInv, Backed, Extends
  <2> QED BY <1>2, <2>1 DEF WriteInv
<1> QED BY <1>4, <1>7, <1>8, <1>9 DEF Honest

\* ... and runs down with the lease.
LEMMA TickKeepsTenure ==
    ASSUME TypeInv, Tick, NEW i \in Info, NEW t \in Time, Backed(i, t)
    PROVE  LET n == Expire(t) IN
           n > 0 => lease'[i.lease].holder = i.identity /\ lease'[i.lease].left >= n
<1>1. lease \in [Lease -> LeaseRecord] /\ i.lease \in Lease
  BY DEF TypeInv, TypeOK, Info
<1>2. /\ lease'[i.lease].holder = lease[i.lease].holder
      /\ lease'[i.lease].left = Expire(lease[i.lease].left)
  BY <1>1 DEF Tick, LeaseRecord
<1> QED
  BY <1>1, <1>2, ExpireType DEF Backed, LeaseRecord, Time

\* What may be stored late extends a tenure as long as it may be stored.
LEMMA GiveUpKeeps ==
    ASSUME IInv, NEW c \in Client, lease' = lease, late' = GiveUp(c)
    PROVE  LateInv'
<1>1. CASE Waiting(c) /\ attempt[c].fresh
  <2>1. /\ info[c].lease \in Lease /\ attempt[c].copy.holder \in Identity
        /\ Extends(lease[info[c].lease], attempt[c].copy)
        /\ late \in [Lease -> SUBSET LeaseRecord]
    BY <1>1 DEF Waiting, IInv, TypeInv, TypeOK, Attending, Honest, WriteInv, Info
  <2>2. late' = [late EXCEPT ![info[c].lease] = {attempt[c].copy}]
    BY <1>1 DEF GiveUp
  <2> QED BY <2>1, <2>2 DEF LateInv, IInv
<1>2. CASE ~(Waiting(c) /\ attempt[c].fresh)
  BY <1>2 DEF GiveUp, IInv, LateInv
<1> QED BY <1>1, <1>2

LEMMA LateStep == IInv /\ [Next]_vars => LateInv'
<1> SUFFICES ASSUME IInv, [Next]_vars PROVE LateInv'
  OBVIOUS
<1>t. /\ TypeInv /\ LateInv
      /\ lease \in [Lease -> LeaseRecord] /\ late \in [Lease -> SUBSET LeaseRecord]
  BY DEF IInv, TypeInv, TypeOK
<1>1. CASE UNCHANGED <<lease, late>>
  BY <1>1, <1>t DEF LateInv
<1>2. ASSUME NEW l \in Lease, NEW r, lease' = [lease EXCEPT ![l] = r],
             late' = [late EXCEPT ![l] = {}]
      PROVE  LateInv'
  BY <1>2, <1>t DEF LateInv
<1>3. ASSUME NEW c \in Client, ReplaceApplied(c) PROVE LateInv'
  <2>1. info[c].lease \in Lease
    BY <1>3, <1>t DEF ReplaceApplied, Waiting, TypeInv, Attending, Info
  <2>2. /\ lease' = [lease EXCEPT ![info[c].lease] = attempt[c].copy]
        /\ late' = [late EXCEPT ![info[c].lease] = {}]
    BY <1>3 DEF ReplaceApplied
  <2> QED BY <1>2, <2>1, <2>2
<1>4. ASSUME NEW c \in Client, ReplaceFailed(c) PROVE LateInv'
  BY <1>4, <1>1, GiveUpKeeps DEF ReplaceFailed
<1>5. ASSUME NEW e \in Elector, Restart(e) PROVE LateInv'
  <2>1. /\ lease' = lease
        /\ late' = late \/ \E c \in Client : late' = GiveUp(c)
    BY <1>5 DEF Restart, Forget
  <2> QED BY <1>1, <2>1, GiveUpKeeps
<1>6. ASSUME NEW l \in Lease, StoreLate(l) PROVE LateInv'
  BY <1>2, <1>6 DEF StoreLate
<1>7. ASSUME Tick PROVE LateInv'
  <2> SUFFICES ASSUME NEW l \in Lease, NEW q \in late'[l]
               PROVE  q.holder \in Identity /\ Extends(lease'[l], q)
    BY DEF LateInv
  <2>1. PICK r \in late[l] : q = [r EXCEPT !.left = Expire(@)]
    BY <1>7 DEF Tick
  <2>2. /\ r \in LeaseRecord /\ r.holder \in Identity /\ Extends(lease[l], r)
        /\ lease[l] \in LeaseRecord
    BY <1>t, <2>1 DEF LateInv
  <2>3. lease'[l] = [lease[l] EXCEPT !.left = Expire(@)]
    BY <1>7 DEF Tick
  <2>4. /\ q.holder = r.holder /\ q.left = Expire(r.left)
        /\ lease'[l].holder = lease[l].holder /\ lease'[l].left = Expire(lease[l].left)
    BY <2>1, <2>2, <2>3 DEF LeaseRecord
  <2>5. lease[l].left <= r.left => lease'[l].left <= q.left
    BY <2>2, <2>4, ExpireType DEF LeaseRecord
  <2>6. Available(lease[l]) => Available(lease'[l])
    BY <2>4 DEF Available, Expire
  <2> QED BY <2>2, <2>4, <2>5, <2>6 DEF Extends
<1> QED
  BY <1>1, <1>3, <1>4, <1>5, <1>6, <1>7
  DEF Next, Step, vars, Join, SetInfo, Leave, Forget, GetLease, TryGrab, KeepLease,
      StandBy, Conclude

LEMMA TenureStep == IInv /\ [Next]_vars => IInv'
<1> SUFFICES ASSUME IInv, [Next]_vars, NEW d \in Client PROVE Honest(d)'
  BY TypeStep, LateStep DEF IInv
<1>t. /\ TypeInv /\ TypeInv' /\ Honest(d) /\ info[d] \in Info \cup {NoInfo}
      /\ attempt[d] \in Attempt /\ attempt'[d] \in Attempt
  BY TypeStep DEF IInv, TypeInv, TypeOK
<1>o. ASSUME UNCHANGED <<lease, info>>, attempt'[d] = attempt[d], grant'[d] = grant[d]
      PROVE  Honest(d)'
  BY <1>o, <1>t, OthersKept
<1>1. ASSUME NEW c \in Client, Join(c) PROVE Honest(d)'
  BY <1>1, <1>o DEF Join
<1>2. ASSUME NEW c \in Client, NEW i \in Info \cup {NoInfo}, SetInfo(c, i) PROVE Honest(d)'
  <2>1. attempt[c].stage = "idle"
    BY <1>2, <1>t, NotBusy DEF SetInfo, TypeInv
  <2>2. attempt[d].stage # "idle" => info'[d] = info[d]
    BY <1>2, <1>t, <2>1 DEF SetInfo, TypeInv, TypeOK
  <2> QED
    BY <1>2, <1>t, <2>2
    DEF SetInfo, Honest, ReplyInv, ReadInv, WriteInv, GrantInv, Backed, Extends, Available
<1>3. ASSUME NEW S, Forget(S) PROVE Honest(d)'
  <2>1. CASE d \in S
    BY <1>3, <2>1 DEF Forget, Honest, ReplyInv, ReadInv, WriteInv, GrantInv, Idle, NoGrant
  <2>2. CASE d \notin S
    BY <1>3, <1>t, <2>2
    DEF Forget, Honest, ReplyInv, ReadInv, WriteInv, GrantInv, Backed, Extends, Available
  <2> QED BY <2>1, <2>2
<1>4. ASSUME NEW c \in Client, GetLease(c) PROVE Honest(d)'
  <2>1. CASE d = c
    <3>1. /\ attempt'[c].stage = "read" /\ attempt'[c].reply = "none"
          /\ attempt'[c].copy = lease[info[c].lease]
      BY <1>4, <1>t DEF GetLease, TypeInv, TypeOK
    <3>2. lease[info[c].lease].left \in Time
      BY <1>4, <1>t, <2>1 DEF GetLease, TypeInv, TypeOK, LeaseRecord, Info
    <3> QED
      BY <1>4, <1>t, <2>1, <3>1, <3>2, DurationAssumption
      DEF GetLease, Honest, ReplyInv, ReadInv, WriteInv, GrantInv, Backed, Time
  <2>2. CASE d # c
    BY <1>4, <1>t, <1>o, <2>2 DEF GetLease, TypeInv, TypeOK
  <2> QED BY <2>1, <2>2
<1>5. ASSUME NEW c \in Client, TryGrab(c) PROVE Honest(d)'
  <2>1. CASE d = c
    <3>1. /\ attempt'[c].stage = "grab" /\ attempt'[c].reply = attempt[c].reply
          /\ attempt'[c].fresh = attempt[c].fresh
          /\ attempt'[c].copy.holder = info[c].identity
      BY <1>5, <1>t DEF TryGrab, TypeInv, TypeOK, Attempt, Claim
    <3> QED
      BY <1>5, <1>t, <2>1, <3>1
      DEF TryGrab, Honest, ReplyInv, ReadInv, WriteInv, GrantInv, Backed, Extends, Available
  <2>2. CASE d # c
    BY <1>5, <1>t, <1>o, <2>2 DEF TryGrab, TypeInv, TypeOK
  <2> QED BY <2>1, <2>2
<1>6. ASSUME NEW c \in Client, KeepLease(c) PROVE Honest(d)'
  <2>1. CASE d = c
    <3>1. /\ grant'[c] = [to |-> info[c], left |-> attempt[c].copy.left]
          /\ info[c] \in Info /\ attempt[c].copy.left \in Time
      BY <1>6, <1>t, <2>1
      DEF KeepLease, TypeInv, TypeOK, Attending, Attempt, LeaseRecord
    <3>2. GrantInv(c)'
      BY <1>6, <1>t, <2>1, <3>1
      DEF KeepLease, Honest, ReplyInv, ReadInv, GrantInv, Backed
    <3>3. CASE attempt[c].copy.left <= RenewWindow
      <4>1. /\ attempt'[c].stage = "renew" /\ attempt'[c].reply = attempt[c].reply
            /\ attempt'[c].fresh = attempt[c].fresh
            /\ attempt'[c].copy = Claim(info[c].identity)
        BY <1>6, <1>t, <3>3 DEF KeepLease, TypeInv, TypeOK, Attempt
      <4>2. attempt[c].copy.left <= LeaseDuration
        BY <3>1 DEF Time
      <4>3. ReadInv(c)' /\ ReplyInv(c)'
        BY <4>1 DEF ReadInv, ReplyInv
      <4>4. WriteInv(c)'
        BY <1>6, <1>t, <2>1, <4>1, <4>2
        DEF KeepLease, Honest, ReplyInv, ReadInv, WriteInv, Claim, Extends
      <4> QED BY <2>1, <3>2, <4>3, <4>4 DEF Honest
    <3>4. CASE ~(attempt[c].copy.left <= RenewWindow)
      <4>1. attempt'[c] = Idle
        BY <1>6, <1>t, <3>4 DEF KeepLease, TypeInv, TypeOK
      <4> QED BY <2>1, <3>2, <4>1 DEF Honest, ReplyInv, ReadInv, WriteInv, Idle
    <3> QED BY <3>3, <3>4
  <2>2. CASE d # c
    BY <1>6, <1>t, <1>o, <2>2 DEF KeepLease, TypeInv, TypeOK
  <2> QED BY <2>1, <2>2
<1>7. ASSUME NEW c \in Client, StandBy(c) PROVE Honest(d)'
  <2>1. CASE d = c
    <3>1. attempt'[c] = Idle
      BY <1>7, <1>t DEF StandBy, TypeInv, TypeOK
    <3> QED
      BY <1>7, <1>t, <2>1, <3>1
      DEF StandBy, Honest, ReplyInv, ReadInv, WriteInv, GrantInv, Backed, Idle
  <2>2. CASE d # c
    BY <1>7, <1>t, <1>o, <2>2 DEF StandBy, TypeInv, TypeOK
  <2> QED BY <2>1, <2>2
<1>8. ASSUME NEW c \in Client, ReplaceApplied(c) PROVE Honest(d)'
  <2> DEFINE l == info[c].lease
             r == attempt[c].copy
  <2>1. /\ info' = info /\ grant' = grant /\ l \in Lease /\ r \in LeaseRecord
        /\ lease \in [Lease -> LeaseRecord] /\ info[c] \in Info
        /\ lease' = [lease EXCEPT ![l] = r]
        /\ r.holder = info[c].identity /\ Extends(lease[l], r)
    BY <1>8 DEF IInv, TypeInv, TypeOK, Attending, Honest, WriteInv, ReplaceApplied,
       Waiting, Accepts, Attempt, Info
  <2>2. CASE d # c
    <3>1. attempt'[d] = Outdated(d, l)
      BY <1>8, <2>2 DEF ReplaceApplied
    <3> QED BY <2>1, <3>1, WriteKeepsHonest
  <2>3. CASE d = c
    <3>1. /\ attempt'[c].stage = attempt[c].stage /\ attempt[c].stage \in {"grab", "renew"}
          /\ attempt'[c].copy = r /\ ~attempt'[c].fresh
      <4>1. \E reply \in {"ok", "failed"} :
               attempt'[c] = [attempt[c] EXCEPT !.reply = reply, !.fresh = FALSE]
        BY <1>8 DEF ReplaceApplied
      <4> QED BY <1>8, <1>t, <2>3, <4>1 DEF ReplaceApplied, Waiting, Attempt
    <3>2. \A i \in Info, t \in Time : Backed(i, t) => Backed(i, t)'
      BY <1>t, <2>1, WriteKeepsTenure
    <3>3. GrantInv(c)'
      <4>1. grant[c].left \in Time
        BY <1>t DEF TypeInv, TypeOK
      <4> QED BY <1>t, <2>1, <2>3, <3>2, <4>1 DEF Honest, GrantInv, Backed
    <3>4. lease'[l] = r /\ r.left \in Nat
      BY <2>1, DurationAssumption DEF LeaseRecord, Time
    <3>5. WriteInv(c)'
      BY <2>1, <3>1, <3>4 DEF WriteInv, Backed
    <3>6. ReadInv(c)' /\ ReplyInv(c)'
      BY <3>1 DEF ReadInv, ReplyInv
    <3> QED BY <2>3, <3>3, <3>5, <3>6 DEF Honest
  <2> QED BY <2>2, <2>3
<1>9. ASSUME NEW c \in Client, ReplaceFailed(c) PROVE Honest(d)'
  <2>1. CASE d = c
    <3>1. /\ attempt'[c].stage = attempt[c].stage /\ attempt'[c].reply = "failed"
          /\ attempt'[c].fresh = FALSE /\ attempt'[c].copy = attempt[c].copy
      BY <1>9, <1>t DEF ReplaceFailed, TypeInv, TypeOK, Attempt
    <3> QED
      BY <1>9, <1>t, <2>1, <3>1
      DEF ReplaceFailed, Waiting, Honest, ReplyInv, ReadInv, WriteInv, GrantInv, Backed
  <2>2. CASE d # c
    BY <1>9, <1>t, <1>o, <2>2 DEF ReplaceFailed, TypeInv, TypeOK
  <2> QED BY <2>1, <2>2
<1>10. ASSUME NEW c \in Client, Conclude(c) PROVE Honest(d)'
  <2>1. CASE d = c
    <3>1. attempt'[c] = Idle
      BY <1>10, <1>t DEF Conclude, TypeInv, TypeOK
    <3>2. GrantInv(c)'
      <4>1. CASE attempt[c].reply = "ok"
        <5>1. attempt[c].stage \in {"grab", "renew"}
          BY <1>t, <2>1, <4>1 DEF Honest, ReplyInv, Attempt
        <5>2. Backed(info[c], attempt[c].copy.left) /\ info[c] \in Info
          BY <1>t, <2>1, <4>1, <5>1 DEF Honest, WriteInv, TypeInv, Attending
        <5>3. grant'[c] = [to |-> info[c], left |-> attempt[c].copy.left]
          BY <1>10, <1>t, <4>1 DEF Conclude, TypeInv, TypeOK
        <5> QED BY <1>10, <5>2, <5>3 DEF Conclude, GrantInv, Backed
      <4>2. CASE attempt[c].reply # "ok"
        BY <1>10, <1>t, <2>1, <4>2 DEF Conclude, Honest, GrantInv, Backed
      <4> QED BY <4>1, <4>2
    <3> QED BY <2>1, <3>1, <3>2 DEF Honest, ReplyInv, ReadInv, WriteInv, Idle
  <2>2. CASE d # c
    BY <1>10, <1>t, <1>o, <2>2 DEF Conclude, TypeInv, TypeOK
  <2> QED BY <2>1, <2>2
<1>11. ASSUME Tick PROVE Honest(d)'
  <2>1. /\ attempt'[d].stage = attempt[d].stage
        /\ attempt'[d].reply = attempt[d].reply
        /\ attempt'[d].fresh = attempt[d].fresh
        /\ attempt'[d].copy.holder = attempt[d].copy.holder
        /\ attempt'[d].copy.left = Expire(attempt[d].copy.left)
        /\ attempt[d].copy \in LeaseRecord /\ attempt'[d].copy \in LeaseRecord
    <3>1. attempt'[d] = [attempt[d] EXCEPT !.copy.left = Expire(@)]
      BY <1>11 DEF Tick
    <3> QED BY <1>t, <3>1 DEF Attempt, LeaseRecord
  <2>2. info' = info /\ grant'[d] = [grant[d] EXCEPT !.left = Expire(@)]
    BY <1>11 DEF Tick
  <2>3. ReplyInv(d)'
    BY <1>t, <2>1 DEF Honest, ReplyInv
  <2> DEFINE BackedNext(i, t) ==
               t > 0 => /\ lease'[i.lease].holder = i.identity
                        /\ lease'[i.lease].left >= t
  <2>4. \A i \in Info, t \in Time : Backed(i, t) => BackedNext(i, Expire(t))
    BY <1>11, <1>t, TickKeepsTenure
  <2>5. \A l \in Lease :
           /\ lease'[l] = [lease[l] EXCEPT !.left = Expire(@)]
           /\ lease[l] \in LeaseRecord
    BY <1>11, <1>t DEF Tick, TypeInv, TypeOK
  <2>6. attempt[d].stage # "idle" => info[d] \in Info /\ info[d].lease \in Lease
    BY <1>t DEF TypeInv, Attending, Info
  <2>7. attempt[d].copy.left \in Time
    BY <2>1 DEF LeaseRecord
  <2>8. ReadInv(d)'
    <3>1. CASE attempt[d].stage = "read"
      <4>1. /\ attempt[d].fresh => attempt[d].copy = lease[info[d].lease]
            /\ attempt[d].copy.holder = info[d].identity
                  => Backed(info[d], attempt[d].copy.left)
        BY <1>t, <3>1 DEF Honest, ReadInv
      <4>2. attempt[d].fresh => attempt'[d].copy = lease'[info[d].lease]
        <5>1. SUFFICES ASSUME attempt[d].fresh
                       PROVE  attempt'[d].copy = lease'[info[d].lease]
          OBVIOUS
        <5>2. attempt[d].copy = lease[info[d].lease]
          BY <4>1, <5>1
        <5>3. /\ lease'[info[d].lease].holder = attempt'[d].copy.holder
              /\ lease'[info[d].lease].left = attempt'[d].copy.left
              /\ lease'[info[d].lease] \in LeaseRecord
          BY <1>t, <2>1, <2>5, <2>6, <3>1, <5>2 DEF LeaseRecord, TypeInv, TypeOK
        <5> QED BY <2>1, <5>3 DEF LeaseRecord
      <4>3. attempt[d].copy.holder = info[d].identity
               => BackedNext(info[d], Expire(attempt[d].copy.left))
        BY <2>4, <2>6, <2>7, <3>1, <4>1
      <4> QED BY <2>1, <2>2, <4>2, <4>3 DEF ReadInv, Backed
    <3> QED BY <2>1, <3>1 DEF ReadInv
  <2>9. WriteInv(d)'
    <3>1. CASE attempt[d].stage \in {"grab", "renew"}
      <4> DEFINE rec == lease[info[d].lease]
      <4>1. /\ attempt[d].copy.holder = info[d].identity
            /\ attempt[d].fresh =>
                  /\ attempt[d].reply = "none"
                  /\ Extends(rec, attempt[d].copy)
            /\ attempt[d].reply = "ok" => Backed(info[d], attempt[d].copy.left)
        BY <1>t, <3>1 DEF Honest, WriteInv
      <4>2. /\ rec'.holder = rec.holder /\ rec'.left = Expire(rec.left)
            /\ rec.left \in Time
        BY <2>2, <2>5, <2>6, <3>1 DEF LeaseRecord
      <4>3. Available(rec) => Available(rec')
        BY <4>2 DEF Available, Expire
      <4>4. rec.left <= attempt[d].copy.left => rec'.left <= attempt'[d].copy.left
        BY <2>1, <2>7, <4>2, ExpireType
      <4>5. attempt[d].reply = "ok"
               => BackedNext(info[d], Expire(attempt[d].copy.left))
        BY <2>4, <2>6, <2>7, <3>1, <4>1
      <4> QED
        BY <2>1, <2>2, <4>1, <4>2, <4>3, <4>4, <4>5 DEF WriteInv, Backed, Extends
    <3> QED BY <2>1, <3>1 DEF WriteInv
  <2>10. GrantInv(d)'
    <3>1. grant[d] \in [to : Info \cup {NoInfo}, left : Time]
      BY <1>t DEF TypeInv, TypeOK
    <3>2. grant'[d].to = grant[d].to /\ grant'[d].left = Expire(grant[d].left)
      BY <2>2, <3>1
    <3>3. Expire(grant[d].left) > 0 => grant[d].left > 0
      BY <3>1, ExpireType
    <3>4. grant[d].left > 0 => grant[d].to \in Info /\ Backed(grant[d].to, grant[d].left)
      BY <1>t DEF Honest, GrantInv
    <3> QED BY <2>4, <3>1, <3>2, <3>3, <3>4 DEF GrantInv, Backed
  <2> QED BY <2>3, <2>8, <2>9, <2>10 DEF Honest
<1>12. CASE UNCHANGED vars
  BY <1>12, <1>o DEF vars
<1>13. ASSUME NEW l \in Lease, StoreLate(l) PROVE Honest(d)'
  <2>1. PICK r \in late[l] : lease' = [lease EXCEPT ![l] = r]
    BY <1>13 DEF StoreLate
  <2>2. r \in LeaseRecord /\ Extends(lease[l], r)
    BY <2>1 DEF IInv, TypeInv, TypeOK, LateInv
  <2> QED BY <1>13, <2>1, <2>2, WriteKeepsHonest DEF StoreLate
<1> QED
  BY <1>1, <1>2, <1>3, <1>4, <1>5, <1>6, <1>7, <1>8, <1>9, <1>10, <1>11, <1>12, <1>13,
     PresentsAssumption
  DEF Next, Step, Leave, Restart

LEMMA TenureInit == Init => IInv
<1>1. ASSUME Init, NEW c \in Client PROVE Honest(c)
  BY <1>1 DEF Init, Honest, ReplyInv, ReadInv, WriteInv, GrantInv, Idle, NoGrant
<1>2. Init => LateInv
  BY DEF Init, LateInv
<1> QED
  BY <1>1, <1>2, TypeInit DEF IInv

LEMMA TenureInvariant == Spec => []IInv
BY TenureInit, TenureStep, PTL DEF Spec

\* No tenure an elector has learnt of outlives the lease.
THEOREM GrantsAreHonoured == Spec => []GrantHonoured
<1>1. IInv => GrantHonoured
  BY DEF IInv, Honest, GrantInv, Backed, GrantHonoured
<1> QED
  BY <1>1, TenureInvariant, PTL

\* Two clients that are active for the same lease within the tenure their
\* electors know of have the same identity.
THEOREM OneActiveWithinTenure == Spec => []SoleActiveWithinTenure
<1>1. IInv => SoleActiveWithinTenure
  <2> SUFFICES ASSUME IInv, NEW c \in Client, NEW d \in Client, Reigns(c), Reigns(d),
                      info[c].lease = info[d].lease
               PROVE  info[c].identity = info[d].identity
    BY DEF SoleActiveWithinTenure
  <2> QED
    BY DEF IInv, Honest, GrantInv, Backed, Reigns
<1> QED
  BY <1>1, TenureInvariant, PTL

-----------------------------------------------------------------------------
(***************************************************************************)
(* The electors implement LeaseTenure: a write the API server accepts is a *)
(* take-over or a renewal, a second is a second, all else is stuttering.   *)
(***************************************************************************)
LEMMA WriteImplements ==
    ASSUME TypeInv, NEW l \in Lease, NEW r \in LeaseRecord, r.holder \in Identity,
           Extends(lease[l], r), lease' = [lease EXCEPT ![l] = r]
    PROVE  LT!Next
<1> DEFINE i == r.holder
           t == r.left
<1>1. /\ i \in Identity /\ lease \in [Lease -> LeaseRecord]
      /\ r = [holder |-> i, left |-> t] /\ t \in Time
      /\ \/ Available(lease[l])
         \/ lease[l].holder = i /\ lease[l].left <= t
  BY DEF TypeInv, TypeOK, Extends, LeaseRecord
<1>2. lease' = [lease EXCEPT ![l] = [holder |-> i, left |-> t]]
  BY <1>1
<1> HIDE DEF i, t
<1>3. CASE Available(lease[l])
  BY <1>1, <1>2, <1>3 DEF Available, LT!Next, LT!TakeOver, Time
<1>4. CASE lease[l].holder = i /\ lease[l].left <= t
  <2>1. t \in 0..LeaseDuration /\ lease[l].left <= t + 0
    BY <1>1, <1>4, DurationAssumption DEF LeaseRecord, Time
  <2>2. LT!Renew(l, i)
    BY <1>2, <1>4, <2>1 DEF LT!Renew
  <2> QED BY <1>1, <2>2 DEF LT!Next
<1> QED BY <1>1, <1>3, <1>4

LEMMA ElectionImplementsTenure ==
    IInv /\ [Next]_vars => [LT!Next]_lease
<1> SUFFICES ASSUME IInv, [Next]_vars, lease' # lease PROVE LT!Next
  OBVIOUS
<1>t. TypeInv
  BY DEF IInv
<1>1. ASSUME Tick PROVE LT!Next
  BY <1>1 DEF Tick, LT!Next, LT!Tick, Expire, LT!Expire
<1>2. ASSUME NEW c \in Client, ReplaceApplied(c) PROVE LT!Next
  <2>1. /\ info[c].lease \in Lease /\ attempt[c].copy \in LeaseRecord
        /\ attempt[c].copy.holder \in Identity
        /\ Extends(lease[info[c].lease], attempt[c].copy)
        /\ lease' = [lease EXCEPT ![info[c].lease] = attempt[c].copy]
    BY <1>2 DEF IInv, TypeInv, TypeOK, Attending, Honest, WriteInv,
       ReplaceApplied, Waiting, Accepts, Attempt, Info
  <2>2. PICK l \in Lease, r \in LeaseRecord :
           r.holder \in Identity /\ Extends(lease[l], r) /\ lease' = [lease EXCEPT ![l] = r]
    BY <2>1
  <2> QED BY <1>t, <2>2, WriteImplements
<1>3. ASSUME NEW l \in Lease, StoreLate(l) PROVE LT!Next
  <2>1. PICK r \in late[l] : lease' = [lease EXCEPT ![l] = r]
    BY <1>3 DEF StoreLate
  <2>2. r \in LeaseRecord /\ r.holder \in Identity /\ Extends(lease[l], r)
    BY <2>1 DEF IInv, TypeInv, TypeOK, LateInv
  <2> QED BY <1>t, <2>1, <2>2, WriteImplements
<1> QED
  BY <1>1, <1>2, <1>3
  DEF Next, Step, vars, Join, SetInfo, Leave, Restart, Forget, GetLease, TryGrab,
      KeepLease, StandBy, ReplaceFailed, Conclude

\* No write of an elector takes a lease before its tenure has run out or
\* shortens a tenure.
THEOREM TenureIsRespected == Spec => TenureRespected
<1>1. Init => LT!Init
  BY DEF Init, LT!Init, LeaseRecord, LT!LeaseRecord, Time
<1> QED
  BY <1>1, ElectionImplementsTenure, TenureInvariant, PTL
  DEF Spec, TenureRespected, LT!Spec
=============================================================================
