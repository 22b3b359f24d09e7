------------------------------ MODULE ElectorTS ------------------------------
(***************************************************************************)
(* The elector in TypeScript (active-passive-elector-ts/src): the function *)
(* step of index.ts with transitionToActiveIfAppropriate and               *)
(* renewActiveLease, run by several processes, each beside a pod, against  *)
(* one lease.  The lease is fixed in the code; of the lease information a  *)
(* client sends, only the identity is used.                                *)
(*                                                                         *)
(* Once a second a step takes the messages that have arrived and calls an  *)
(* asynchronous function for every connection, without waiting for it.     *)
(* What runs between two awaits is one step here.  A call goes through     *)
(* up to four requests: read the lease, write it, read the pod, write its  *)
(* label.  The next step may call again for a connection whose last call   *)
(* has not ended, and assigns conn.role under its feet.                    *)
(*                                                                         *)
(* Time and leases are as in RoleElection, and so is a request that failed *)
(* or whose sender ended: it may still be stored, until the object has     *)
(* another version.  The code writes acquireTime with every holder: a      *)
(* lease without one is a lease nobody holds.                              *)
(***************************************************************************)
EXTENDS Integers

E == INSTANCE Expect

CONSTANTS Process,        \* elector processes, one beside each pod
          Connection,     \* connections, each to one process
          Host,           \* Host[c] is the process c connects to
          Identity,       \* identities a client may present
          Presents,       \* Presents[c] are those the client of c may
          NoIdentity,     \* holder of a lease nobody holds
          LeaseDuration,  \* spec.leaseDurationSeconds
          Rollover,       \* the seconds of a minute: by so many a lease is given too
                          \* long when the minute ends between two looks at the clock
          Replies,        \* what response.statusCode may be
          MaxOverlap,     \* calls of a connection that may overlap (bound)
          Overlap,        \* Overlap[p] is that bound for the process p; with 1
                          \* every call has ended when the next step comes
          NamedPod,       \* the process beside the one pod replaceNamespacedPod
                          \* is called for
          PodFaults,      \* the processes whose requests about their pod may
                          \* fail at any time
          SocketFaults    \* the processes where a write to a socket may throw

ASSUME HostAssumption == Host \in [Connection -> Process]
ASSUME NumberAssumption == {LeaseDuration, Rollover, MaxOverlap} \subseteq Nat
ASSUME IdentityAssumption == Presents \in [Connection -> SUBSET Identity]
ASSUME OverlapAssumption == Overlap \in [Process -> 1..MaxOverlap]
ASSUME ReplyAssumption ==
    \A r \in Replies : r = E!Undefined \/ (r.n \in Int /\ r = E!Number(r.n))
ASSUME NoIdentityAssumption == NoIdentity \notin Identity
ASSUME FaultAssumption == PodFaults \subseteq Process /\ SocketFaults \subseteq Process

VARIABLES lease,   \* the lease object kept by the API server
          label,   \* metadata.labels.role of the pods
          late,    \* a copy of the lease that is not waited for any more, and may
                   \* still be stored; of several only one can be, so one is kept
          latePod, \* so with the pods: the label in such a copy
          due,     \* the processes whose timer has run out
          conns,   \* connections
          mail,    \* identity in the last message that waits to be read
          ident,   \* conn.leaseInformation
          role,    \* conn.role
          told,    \* the role last sent to the client
          calls    \* calls[c][s] is an outstanding call for c

lates == <<late, latePod>>
vars == <<lease, label, lates, due, conns, mail, ident, role, told, calls>>

Role == {"undefined", "passive", "active"}
Slot == 1..MaxOverlap
Known == Identity \cup {NoIdentity}
LeaseRecord == [holder : Known, left : 0..LeaseDuration + Rollover]
Call == [stage : {"idle", "ask", "read", "write", "stored",
                  "label", "pod", "relabel", "labelled"},
         prev  : Role,          \* prevRole, and the argument `role`
         ident : Known,         \* the argument `identity`
         copy  : LeaseRecord,   \* the lease as read, then as modified
         fresh : BOOLEAN,       \* the copy has the version of the original
         good  : BOOLEAN,       \* the last thing read came with a status 2xx
         says  : Role]          \* the label in the copy of the pod

Free == [holder |-> NoIdentity, left |-> 0]
Idle == [stage |-> "idle", prev |-> "undefined", ident |-> NoIdentity,
         copy |-> Free, fresh |-> FALSE, good |-> FALSE, says |-> "undefined"]

Rests(c) == \A s \in Slot : calls[c][s].stage = "idle"

-----------------------------------------------------------------------------
\* Clients.

Connect(c) ==
    /\ c \notin conns /\ Rests(c)
    /\ conns' = conns \cup {c}
    /\ role' = [role EXCEPT ![c] = "undefined"]
    /\ UNCHANGED <<lease, label, lates, due, mail, ident, told, calls>>

\* Only the last message counts: any sets the role to undefined, and each
\* replaces the lease information of the one before.
Send(c, i) ==
    /\ c \in conns /\ i \in Presents[c]
    /\ mail' = [mail EXCEPT ![c] = i]
    /\ UNCHANGED <<lease, label, lates, due, conns, ident, role, told, calls>>

\* The connection is taken off the list; calls for it go on, and still look at
\* its role.
Close(c) ==
    /\ c \in conns
    /\ conns' = conns \ {c}
    /\ mail' = [mail EXCEPT ![c] = NoIdentity]
    /\ ident' = [ident EXCEPT ![c] = NoIdentity]
    /\ told' = [told EXCEPT ![c] = "undefined"]
    /\ UNCHANGED <<lease, label, lates, due, role, calls>>

-----------------------------------------------------------------------------
\* step

Lowest(S) == CHOOSE s \in S : \A t \in S : s <= t
Vacant(c) == {s \in 1..Overlap[Host[c]] : calls[c][s].stage = "idle"}

\* Messages are worked off, then a call is started for every connection that
\* has lease information.
Step(p) ==
    LET news == {c \in conns : Host[c] = p /\ mail[c] # NoIdentity}
        now(c) == IF c \in news THEN mail[c] ELSE ident[c]
        was(c) == IF c \in news THEN "undefined" ELSE role[c]
        starts == {c \in conns : Host[c] = p /\ now(c) # NoIdentity}
    IN
    /\ p \in due /\ \A c \in starts : Vacant(c) # {}
    /\ due' = due \ {p}
    /\ mail' = [c \in Connection |-> IF c \in news THEN NoIdentity ELSE mail[c]]
    /\ ident' = [c \in Connection |-> now(c)]
    /\ role' = [c \in Connection |-> was(c)]
    /\ calls' = [c \in Connection |->
          IF c \in starts
          THEN [calls[c] EXCEPT ![Lowest(Vacant(c))] =
                   [Idle EXCEPT !.stage = "ask", !.prev = was(c), !.ident = now(c)]]
          ELSE calls[c]]
    /\ UNCHANGED <<lease, label, lates, conns, told>>

-----------------------------------------------------------------------------
\* A call, from await to await.

\* Mutant: only a client that becomes active is told.
TellsIfActive(call, r) == r # call.prev /\ r = "active"

\* roleChanged && conn.role !== undefined
Tells(call, r) == r # call.prev /\ r # "undefined"

\* conn.role is the outcome r; if it differs from the role at the start of the
\* call the client is told, and the label of the pod is to follow.  If writing to
\* the socket throws, the role goes back to that at the start, and the label still
\* follows.
Finish(c, s, r) == LET call == calls[c][s] IN
    /\ IF Tells(call, r)
       THEN /\ \/ /\ role' = [role EXCEPT ![c] = r]
                  /\ told' = [told EXCEPT ![c] = IF c \in conns THEN r ELSE @]
               \/ /\ Host[c] \in SocketFaults
                  /\ role' = [role EXCEPT ![c] = call.prev] /\ UNCHANGED told
            /\ calls' = [calls EXCEPT ![c][s] =
                  [Idle EXCEPT !.stage = "label", !.prev = call.prev]]
       ELSE /\ role' = [role EXCEPT ![c] = r]
            /\ calls' = [calls EXCEPT ![c][s] = Idle] /\ UNCHANGED told
    /\ UNCHANGED <<lease, label, latePod, due, conns, mail, ident>>

\* The label goes into a copy of the pod the process runs in (hostname), the name in
\* the request is fixed.  The API server wants them to agree.
NamesItsPod(p) == p = NamedPod

\* The call is over, but what it sent may be on its way - and be stored later than
\* anything else that is, or not at all.
SentBy(c, s) == IF calls[c][s].stage = "write" /\ calls[c][s].fresh
                THEN {calls[c][s].copy} ELSE {}
LabelSentBy(c, s) ==
    IF calls[c][s].stage = "relabel" /\ calls[c][s].fresh /\ NamesItsPod(Host[c])
    THEN {calls[c][s].says} ELSE {}

\* A status is looked at with expect, and for a success it must be 2xx.
Succeeded(status, severity) ==
    E!GoesOn(E!isLTorEQ(E!isGTorEQ(E!expect(status, severity), 200), 299))
Is2xx(status) == status \in {E!Number(n) : n \in 200..299}

\* readNamespacedLease is served.
ReadLease(c, s) == \E status \in Replies :
    /\ calls[c][s].stage = "ask" /\ Succeeded(status, "warning")
    /\ calls' = [calls EXCEPT ![c][s] =
          [@ EXCEPT !.stage = "read", !.copy = lease,
                    !.fresh = TRUE, !.good = Is2xx(status)]]
    /\ UNCHANGED <<lease, label, lates, due, conns, mail, ident, role, told>>

\* A request for the lease, or the reply to it, is lost, or read with another
\* status, or the lease has no spec: the role is what it was when the call started.
Fail(c, s) ==
    /\ calls[c][s].stage \in {"ask", "write", "stored"}
    /\ Finish(c, s, calls[c][s].prev)
    /\ late' \in {late, SentBy(c, s)}

Renews(call) == call.prev = "active"
Owns(call) == call.copy.holder = call.ident
\* Mutant: the time is not looked at.
Nobodys(call) == call.copy.holder = NoIdentity

Available(call) == call.copy.holder = NoIdentity \/ call.copy.left = 0

\* A passive that finds its identity on the lease is active, whether or not the
\* lease has expired.
AlreadyHeld(c, s) ==
    /\ calls[c][s].stage = "read" /\ ~Renews(calls[c][s]) /\ Owns(calls[c][s])
    /\ Finish(c, s, "active")
    /\ UNCHANGED late

\* Somebody else has the lease; an active does not look whether it expired.
StandBy(c, s) ==
    /\ calls[c][s].stage = "read" /\ ~Owns(calls[c][s])
    /\ Renews(calls[c][s]) \/ ~Available(calls[c][s])
    /\ Finish(c, s, "passive")
    /\ UNCHANGED late

\* Mutant: a second too much.
ClaimsLonger(i) == [holder : {i}, left : {LeaseDuration + 1, LeaseDuration + 1 + Rollover}]

\* A full duration from now: added to the seconds of one look at the clock, in the
\* minute of another.
Claims(i) == [holder : {i}, left : {LeaseDuration, LeaseDuration + Rollover}]

Submit(c, s) == \E claim \in Claims(calls[c][s].ident) :
    /\ calls' = [calls EXCEPT ![c][s] = [@ EXCEPT !.stage = "write", !.copy = claim]]
    /\ UNCHANGED <<lease, label, lates, due, conns, mail, ident, role, told>>

\* Attempt to grab the lease.
TryGrab(c, s) ==
    /\ calls[c][s].stage = "read" /\ ~Renews(calls[c][s])
    /\ ~Owns(calls[c][s]) /\ Available(calls[c][s])
    /\ Submit(c, s)

\* Mutant: the lease is not looked at before it is renewed.
RenewAnyway(c, s) ==
    /\ calls[c][s].stage = "read" /\ Renews(calls[c][s])
    /\ Submit(c, s)

\* Attempt to renew the lease.
Renew(c, s) ==
    /\ calls[c][s].stage = "read" /\ Renews(calls[c][s]) /\ Owns(calls[c][s])
    /\ Submit(c, s)

\* A copy that was read before the lease was written is out of date.
Outdated(call) == IF call.stage \in {"read", "write"} THEN [call EXCEPT !.fresh = FALSE]
                  ELSE call

\* replaceNamespacedLease stores the copy; every copy read before is stale.
Store(c, s) ==
    /\ calls[c][s].stage = "write" /\ calls[c][s].fresh
    /\ lease' = calls[c][s].copy
    /\ late' = {}
    /\ calls' = [d \in Connection |-> [t \in Slot |->
          IF d = c /\ t = s
          THEN [calls[d][t] EXCEPT !.stage = "stored", !.copy = Free, !.fresh = FALSE]
          ELSE Outdated(calls[d][t])]]
    /\ UNCHANGED <<label, latePod, due, conns, mail, ident, role, told>>

\* So is a copy nobody waits for any more.
StoreLate == \E r \in late :
    /\ lease' = r
    /\ late' = {}
    /\ calls' = [d \in Connection |-> [t \in Slot |-> Outdated(calls[d][t])]]
    /\ UNCHANGED <<label, latePod, due, conns, mail, ident, role, told>>

\* The API server says that the copy is stored.
Stored(c, s) ==
    /\ calls[c][s].stage = "stored"
    /\ Finish(c, s, "active")
    /\ UNCHANGED late

\* Or that it is not: the version is out of date (409), or the status is not 2xx.
Conflict(c, s) ==
    /\ calls[c][s].stage = "write"
    /\ Finish(c, s, IF Renews(calls[c][s]) THEN calls[c][s].prev ELSE "passive")
    /\ late' \in {late, SentBy(c, s)}

\* readNamespacedPod is served.
ReadPod(c, s) == \E status \in Replies :
    /\ calls[c][s].stage = "label" /\ Succeeded(status, "error")
    /\ calls' = [calls EXCEPT ![c][s] =
          [@ EXCEPT !.stage = "pod", !.fresh = TRUE, !.good = Is2xx(status)]]
    /\ UNCHANGED <<lease, label, lates, due, conns, mail, ident, role, told>>

\* roleToString throws if there is no role.
HasString(r) == r # "undefined"

\* The label to be is that of the role by then.
Relabel(c, s) ==
    /\ calls[c][s].stage = "pod" /\ HasString(role[c])
    /\ calls' = [calls EXCEPT ![c][s] = [@ EXCEPT !.stage = "relabel", !.says = role[c]]]
    /\ UNCHANGED <<lease, label, lates, due, conns, mail, ident, role, told>>

\* A copy that was read before the pod of p was written is out of date.
PodOutdated(d, call, p) ==
    IF Host[d] = p /\ call.stage \in {"pod", "relabel"} THEN [call EXCEPT !.fresh = FALSE]
    ELSE call

\* replaceNamespacedPod stores the pod.
WritePod(c, s) ==
    /\ calls[c][s].stage = "relabel" /\ calls[c][s].fresh /\ NamesItsPod(Host[c])
    /\ label' = [label EXCEPT ![Host[c]] = calls[c][s].says]
    /\ latePod' = [latePod EXCEPT ![Host[c]] = {}]
    /\ calls' = [d \in Connection |-> [t \in Slot |->
          IF d = c /\ t = s THEN [calls[d][t] EXCEPT !.stage = "labelled", !.fresh = FALSE]
          ELSE PodOutdated(d, calls[d][t], Host[c])]]
    /\ UNCHANGED <<lease, late, due, conns, mail, ident, role, told>>

\* It stores one nobody waits for any more.
WriteLatePod(p) == \E r \in latePod[p] :
    /\ label' = [label EXCEPT ![p] = r]
    /\ latePod' = [latePod EXCEPT ![p] = {}]
    /\ calls' = [d \in Connection |-> [t \in Slot |-> PodOutdated(d, calls[d][t], p)]]
    /\ UNCHANGED <<lease, late, due, conns, mail, ident, role, told>>

\* The reply says so.
Labelled(c, s) ==
    /\ calls[c][s].stage = "labelled"
    /\ calls' = [calls EXCEPT ![c][s] = Idle]
    /\ UNCHANGED <<lease, label, lates, due, conns, mail, ident, role, told>>

\* The role goes back to that before the call.
Reverted(c, s) == calls[c][s].prev

\* A request about the pod fails, roleToString is given undefined, the pod was
\* written meanwhile, or is not that of the name.
PodFails(c, s) == LET call == calls[c][s] IN
    /\ \/ call.stage \in {"label", "pod", "relabel", "labelled"} /\ Host[c] \in PodFaults
       \/ call.stage = "pod" /\ ~HasString(role[c])
       \/ call.stage = "relabel" /\ (~call.fresh \/ ~NamesItsPod(Host[c]))
    /\ role' = [role EXCEPT ![c] = Reverted(c, s)]
    /\ calls' = [calls EXCEPT ![c][s] = Idle]
    /\ \E some \in {latePod[Host[c]], LabelSentBy(c, s)} :
          latePod' = [latePod EXCEPT ![Host[c]] = some]
    /\ UNCHANGED <<lease, label, late, due, conns, mail, ident, told>>

-----------------------------------------------------------------------------
\* What is on its way from p when it ends.
SentFrom(p) == {SentBy(c, s) : c \in {d \in Connection : Host[d] = p}, s \in Slot}
LabelSentFrom(p) ==
    {LabelSentBy(c, s) : c \in {d \in Connection : Host[d] = p}, s \in Slot}

\* The process ends, by itself or as nobody listens to the errors of a socket,
\* and is started anew.
Restart(p) ==
    LET hit == {c \in Connection : Host[c] = p} IN
    /\ due' = due \cup {p}
    /\ conns' = conns \ hit
    /\ mail' = [c \in Connection |-> IF c \in hit THEN NoIdentity ELSE mail[c]]
    /\ ident' = [c \in Connection |-> IF c \in hit THEN NoIdentity ELSE ident[c]]
    /\ role' = [c \in Connection |-> IF c \in hit THEN "undefined" ELSE role[c]]
    /\ told' = [c \in Connection |-> IF c \in hit THEN "undefined" ELSE told[c]]
    /\ calls' = [c \in Connection |->
                    IF c \in hit THEN [s \in Slot |-> Idle] ELSE calls[c]]
    /\ late' \in {late} \cup SentFrom(p)
    /\ \E some \in {latePod[p]} \cup LabelSentFrom(p) : latePod' = [latePod EXCEPT ![p] = some]
    /\ UNCHANGED <<lease, label>>

Expire(n) == IF n = 0 THEN 0 ELSE n - 1

\* A second passes, and the timers of setTimeout run out.
Tick ==
    /\ lease' = [lease EXCEPT !.left = Expire(@)]
    /\ late' = {[r EXCEPT !.left = Expire(@)] : r \in late}
    /\ calls' = [c \in Connection |-> [s \in Slot |->
                    [calls[c][s] EXCEPT !.copy.left = Expire(@)]]]
    /\ due' = Process
    /\ UNCHANGED <<label, latePod, conns, mail, ident, role, told>>

Init ==
    /\ lease \in LeaseRecord
    /\ label = [p \in Process |-> "undefined"]
    /\ late = {} /\ latePod = [p \in Process |-> {}]
    /\ due = Process
    /\ conns = {}
    /\ mail = [c \in Connection |-> NoIdentity]
    /\ ident = [c \in Connection |-> NoIdentity]
    /\ role = [c \in Connection |-> "undefined"]
    /\ told = [c \in Connection |-> "undefined"]
    /\ calls = [c \in Connection |-> [s \in Slot |-> Idle]]

Advance(c, s) ==
    \/ ReadLease(c, s) \/ Fail(c, s) \/ AlreadyHeld(c, s) \/ StandBy(c, s)
    \/ TryGrab(c, s) \/ Renew(c, s) \/ Store(c, s) \/ Stored(c, s)
    \/ Conflict(c, s) \/ ReadPod(c, s) \/ Relabel(c, s) \/ WritePod(c, s)
    \/ Labelled(c, s) \/ PodFails(c, s)

Next ==
    \/ \E c \in Connection : \/ Connect(c) \/ Close(c)
                             \/ \E i \in Identity : Send(c, i)
                             \/ \E s \in Slot : Advance(c, s)
    \/ \E p \in Process : Step(p) \/ WriteLatePod(p) \/ Restart(p)
    \/ StoreLate \/ Tick

Spec == Init /\ [][Next]_vars

\* The clock runs, the processes in P make their steps, and their calls go on; a
\* server that is asked for ever answers now and then, and stores a fresh copy
\* before the tenure in it has run out.
InTime(c, s) == calls[c][s].copy.left > 0 /\ Store(c, s)
FairCall(c, s) ==
    WF_vars(Advance(c, s)) /\ SF_vars(ReadLease(c, s)) /\ SF_vars(InTime(c, s))
Fairness(P) ==
    /\ WF_vars(Tick) /\ \A p \in P : WF_vars(Step(p))
    /\ \A c \in Connection : Host[c] \in P => \A s \in Slot : FairCall(c, s)

\* Nothing is assumed of the processes that are not named.
FairSpec == Spec /\ Fairness({NamedPod} \cap Process)

AllFairSpec == Spec /\ Fairness(Process)

-----------------------------------------------------------------------------
\* Type invariant of the TypeScript elector.
TypeOK ==
    /\ lease \in LeaseRecord
    /\ label \in [Process -> Role]
    /\ late \subseteq LeaseRecord /\ latePod \in [Process -> SUBSET Role]
    /\ due \subseteq Process
    /\ conns \subseteq Connection
    /\ mail \in [Connection -> Known] /\ ident \in [Connection -> Known]
    /\ role \in [Connection -> Role] /\ told \in [Connection -> Role]
    /\ calls \in [Connection -> [Slot -> Call]]

\* The processes keep the promise of the lease however their calls overlap: no
\* write takes it from an identity whose tenure has not run out, and no renewal
\* shortens a tenure by more than the minute it may have been given too much.
TheLease == "distribute-zone-simulation-active"
LT == INSTANCE LeaseTenure WITH Lease <- {TheLease},
                                lease <- [l \in {TheLease} |-> lease],
                                LeaseDuration <- LeaseDuration + Rollover,
                                Slack <- Rollover
TenureRespected == LT!Spec

\* A call goes on from what it has read, to a write in the end, only if that was
\* read with success: no condition that holds makes up for one that does not.
OnlySuccessGoesOn == \A c \in Connection, s \in Slot :
    calls[c][s].stage \in {"read", "write", "stored", "pod", "relabel", "labelled"}
        => calls[c][s].good

\* "Handle changing and syncing roles" (index.ts:69): when no call for a
\* connection is outstanding, its client was last told the role it has, and the
\* pod, if it has no other client, is labelled with it.
Sole(c) == \A d \in Connection : Host[d] = Host[c] => d = c
Synced(c) ==
    c \in conns /\ Rests(c) /\ role[c] # "undefined" =>
        told[c] = role[c] /\ (Sole(c) => label[Host[c]] = role[c])

\* The calls of p never overlap, and its requests about the pod succeed.
Calm(p) == Overlap[p] = 1 /\ p \notin PodFaults

\* Client, elector and pod agree on the role as long as every call ends before
\* the next step and the elector has no other client, whatever the requests for
\* the lease come to.  (Of two clients one may write the label while a call for the
\* other is between reading the pod and writing it.)
SyncedWhenCalm == \A c \in Connection : Calm(Host[c]) /\ Sole(c) => Synced(c)

\* Where the pod can be labelled and the client told, a client that all the others
\* have left, by closing or with the end of their processes, gets the lease in the
\* end, whoever held it last, and again whenever it runs out; though one that finds
\* its own name on a lease that has run out takes itself for active at first
\* without renewing.
Remains(c) == conns = {c} /\ mail[c] = NoIdentity /\ ident[c] # NoIdentity
Regains(c) == <>[]Remains(c) => []<>(lease.holder = ident[c] /\ lease.left > 0)
TakesOver == \A c \in Connection :
    NamesItsPod(Host[c]) /\ Calm(Host[c]) /\ Host[c] \notin SocketFaults
        => Regains(c)

\* So it is in any pod, the readme says: "Allow clients to claim a lease and become
\* sole active" (active-passive-elector-ts/readme.md:5).
TakesOverAnywhere == \A c \in Connection :
    Calm(Host[c]) /\ Host[c] \notin SocketFaults => Regains(c)

\* They agree on it, the code and its comment suggest, in any case; but a call
\* that overlaps with another compares its outcome with the role at its own
\* start, finds no change, and tells nobody.
AlwaysSynced == \A c \in Connection : Synced(c)
=============================================================================
