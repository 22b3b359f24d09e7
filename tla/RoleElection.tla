---------------------------- MODULE RoleElection ----------------------------
(***************************************************************************)
(* How the active-passive-elector gives its clients a role: the function   *)
(* attempt_to_update_role of active-passive-elector/source/main.c, run by  *)
(* several elector processes (one per pod) against the same leases.        *)
(*                                                                         *)
(* An attempt reads the lease, decides, and may write the lease back.  The *)
(* API server accepts a write only if the lease still has the version that *)
(* was read; `fresh` says that it does.  Requests and replies take time:   *)
(* other electors, clients and the clock move between any two steps, and a *)
(* write that was given up, or whose sender has ended, may still be        *)
(* stored.  An elector has one thread: it works on one client at a time.   *)
(*                                                                         *)
(* Time is kept as seconds left until the renew time of a lease, counted   *)
(* down by Tick; 0 stands for expired, and for no renew time at all, which *)
(* the code treats alike.  The clocks of all electors agree.               *)
(***************************************************************************)
EXTENDS Naturals

CONSTANTS Elector,        \* elector processes
          Client,         \* connections of servicers, each to one elector
          Host,           \* Host[c] is the elector c connects to
          Identity,       \* identities a client may present
          Lease,          \* leases, each a name in a namespace
          NoIdentity,     \* holder of a lease nobody holds
          NoInfo,         \* lease information not provided, or not all of it
          Presents,       \* Presents[c] is the lease information c may provide
          LeaseDuration,  \* seconds a grant is good for
          RenewWindow     \* SECONDS_BEFORE_EXPIRY_BEFORE_RENEWING

ASSUME HostAssumption == Host \in [Client -> Elector]
ASSUME DurationAssumption == LeaseDuration \in Nat /\ RenewWindow \in Nat

Info == [identity : Identity, lease : Lease]

ASSUME PresentsAssumption == Presents \in [Client -> SUBSET (Info \cup {NoInfo})]
ASSUME NullAssumption == NoIdentity \notin Identity /\ NoInfo \notin Info

VARIABLES lease,    \* the lease objects kept by the API server
          late,     \* a copy of each that is not waited for any more, and may
                    \* still be stored; of several only one can be, so one is kept
          online,   \* clients accepted and not yet disconnected
          role,     \* Client.role
          info,     \* Client.identity, lease_name and lease_namespace
          attempt,  \* the attempt_to_update_role running for a client
          grant     \* what the elector last learnt of the tenure of a client
                    \* it made active (history variable, no step reads it)

vars == <<lease, late, online, role, info, attempt, grant>>

Time == 0..LeaseDuration
Role == {"unknown", "passive", "active"}
LeaseRecord == [holder : Identity \cup {NoIdentity}, left : Time]
Attempt == [stage  : {"idle", "read", "grab", "renew"},
            before : Role,          \* role_before_changes
            copy   : LeaseRecord,   \* the lease as read, then as modified
            fresh  : BOOLEAN,       \* the copy has the version of the lease
            reply  : {"none", "ok", "failed"}]

Free == [holder |-> NoIdentity, left |-> 0]
Idle == [stage |-> "idle", before |-> "unknown", copy |-> Free,
         fresh |-> FALSE, reply |-> "none"]
NoGrant == [to |-> NoInfo, left |-> 0]

\* Attempts of e are serialised: the event loop calls them one by one.
Busy(e) == \E c \in Client : Host[c] = e /\ attempt[c].stage # "idle"

\* Mutant: a lease that is about to be renewed counts as expired.
AvailableEarly(rec) == rec.holder = NoIdentity \/ rec.left <= RenewWindow

\* Mutant: the renew time is not looked at.
AvailableIfUnowned(rec) == rec.holder = NoIdentity

\* holder_identity or renew_time missing, or seconds_until_lease_expiry <= 0.
Available(rec) == rec.holder = NoIdentity \/ rec.left = 0

\* Mutant: the renew time leaves room for the renewal.
ClaimPadded(i) == [holder |-> i, left |-> LeaseDuration + RenewWindow]

\* calculate_lease_next_renew_time: a full duration from now.
Claim(i) == [holder |-> i, left |-> LeaseDuration]

Wants(c, l) == info[c] # NoInfo /\ info[c].lease = l

-----------------------------------------------------------------------------
\* Clients come, tell what lease they compete for, and go.

\* The client is accepted with the fields init_next_client gave it.
Join(c) ==
    /\ c \notin online /\ ~Busy(Host[c])
    /\ online' = online \cup {c}
    /\ UNCHANGED <<lease, late, role, info, attempt, grant>>

\* A Set_Lease_Info_Message is stored; with an empty field it is as good as
\* none.  The role is left as it was.
SetInfo(c, i) ==
    /\ c \in online /\ ~Busy(Host[c])
    /\ info' = [info EXCEPT ![c] = i]
    /\ UNCHANGED <<lease, late, online, role, attempt, grant>>

\* Everything an elector knows of the clients in S is freed; the lease is
\* not given back, it runs out.
Forget(S) ==
    /\ online' = online \ S
    /\ role' = [c \in Client |-> IF c \in S THEN "unknown" ELSE role[c]]
    /\ info' = [c \in Client |-> IF c \in S THEN NoInfo ELSE info[c]]
    /\ grant' = [c \in Client |-> IF c \in S THEN NoGrant ELSE grant[c]]
    /\ attempt' = [c \in Client |-> IF c \in S THEN Idle ELSE attempt[c]]
    /\ UNCHANGED lease

\* disconnect_client: the connection failed, sent nonsense, or timed out.
Leave(c) == c \in online /\ ~Busy(Host[c]) /\ Forget({c}) /\ UNCHANGED late

Waiting(c) == attempt[c].stage \in {"grab", "renew"} /\ attempt[c].reply = "none"

\* What c waits for is given up, and may be on its way.
GiveUp(c) == IF Waiting(c) /\ attempt[c].fresh
             THEN [late EXCEPT ![info[c].lease] = {attempt[c].copy}] ELSE late

\* The process of elector e ends, at any point, and starts anew.
Restart(e) ==
    LET S == {c \in Client : Host[c] = e} IN
    Forget(S) /\ late' \in {late} \cup {GiveUp(c) : c \in S}

-----------------------------------------------------------------------------
\* attempt_to_update_role(db, client).

\* get_lease answers with the lease as it is now.  (When it fails nothing
\* changes, which is a stuttering step.)
GetLease(c) ==
    /\ c \in online /\ info[c] # NoInfo /\ ~Busy(Host[c])
    /\ attempt' = [attempt EXCEPT ![c] =
          [stage |-> "read", before |-> role[c],
           copy |-> lease[info[c].lease], fresh |-> TRUE, reply |-> "none"]]
    /\ UNCHANGED <<lease, late, online, role, info, grant>>

\* Mutant: the lease is grabbed without a look at its holder.
TryGrabAlways(c) ==
    /\ attempt[c].stage = "read"
    /\ attempt' = [attempt EXCEPT ![c].stage = "grab",
                                  ![c].copy = Claim(info[c].identity)]
    /\ UNCHANGED <<lease, late, online, role, info, grant>>

\* Lease expired or unowned: try to grab it.
TryGrab(c) ==
    /\ attempt[c].stage = "read" /\ Available(attempt[c].copy)
    /\ attempt' = [attempt EXCEPT ![c].stage = "grab",
                                  ![c].copy = Claim(info[c].identity)]
    /\ UNCHANGED <<lease, late, online, role, info, grant>>

\* Lease owned by this identity: active, and renew it if it is about to expire.
KeepLease(c) ==
    LET copy == attempt[c].copy IN
    /\ attempt[c].stage = "read" /\ ~Available(copy)
    /\ copy.holder = info[c].identity
    /\ role' = [role EXCEPT ![c] = "active"]
    /\ grant' = [grant EXCEPT ![c] = [to |-> info[c], left |-> copy.left]]
    /\ attempt' = [attempt EXCEPT ![c] =
          IF copy.left <= RenewWindow
          THEN [@ EXCEPT !.stage = "renew", !.copy = Claim(info[c].identity)]
          ELSE Idle]
    /\ UNCHANGED <<lease, late, online, info>>

\* Mutant: the role is left alone when somebody else has the lease.
StandByIdly(c) ==
    /\ attempt[c].stage = "read" /\ ~Available(attempt[c].copy)
    /\ attempt[c].copy.holder # info[c].identity
    /\ attempt' = [attempt EXCEPT ![c] = Idle]
    /\ UNCHANGED <<lease, late, online, role, info, grant>>

\* Lease owned by somebody else: passive.
StandBy(c) ==
    /\ attempt[c].stage = "read" /\ ~Available(attempt[c].copy)
    /\ attempt[c].copy.holder # info[c].identity
    /\ role' = [role EXCEPT ![c] = "passive"]
    /\ attempt' = [attempt EXCEPT ![c] = Idle]
    /\ UNCHANGED <<lease, late, online, info, grant>>

\* The API server compares the version of the copy with that of the lease.
Accepts(c) == attempt[c].fresh

\* Every copy of l that was read before it is stored is out of date.
Outdated(d, l) == IF Wants(d, l) THEN [attempt[d] EXCEPT !.fresh = FALSE] ELSE attempt[d]

\* The API server stores the copy, and the reply may still get lost.
ReplaceApplied(c) ==
    LET l == info[c].lease IN
    /\ Waiting(c) /\ Accepts(c)
    /\ lease' = [lease EXCEPT ![l] = attempt[c].copy]
    /\ late' = [late EXCEPT ![l] = {}]
    /\ \E reply \in {"ok", "failed"} :
          attempt' = [d \in Client |->
             IF d = c THEN [attempt[d] EXCEPT !.reply = reply, !.fresh = FALSE]
             ELSE Outdated(d, l)]
    /\ UNCHANGED <<online, role, info, grant>>

\* It stores one nobody waits for any more.
StoreLate(l) == \E r \in late[l] :
    /\ lease' = [lease EXCEPT ![l] = r]
    /\ late' = [late EXCEPT ![l] = {}]
    /\ attempt' = [d \in Client |-> Outdated(d, l)]
    /\ UNCHANGED <<online, role, info, grant>>

\* The version is out of date (409), or the request is given up.
ReplaceFailed(c) ==
    /\ Waiting(c)
    /\ attempt' = [attempt EXCEPT ![c].reply = "failed", ![c].fresh = FALSE]
    /\ late' \in {late, GiveUp(c)}
    /\ UNCHANGED <<lease, online, role, info, grant>>

\* Mutant: the response code is not looked at.
ConcludeBlindly(c) ==
    LET a == attempt[c] IN
    /\ a.reply # "none"
    /\ role' = IF a.stage = "grab" THEN [role EXCEPT ![c] = "active"] ELSE role
    /\ grant' = [grant EXCEPT ![c] = [to |-> info[c], left |-> a.copy.left]]
    /\ attempt' = [attempt EXCEPT ![c] = Idle]
    /\ UNCHANGED <<lease, late, online, info>>

\* A grab made the client active or not; a renewal does not change the role.
Conclude(c) ==
    LET a == attempt[c] IN
    /\ a.reply # "none"
    /\ role' = IF a.stage = "grab"
               THEN [role EXCEPT ![c] = IF a.reply = "ok" THEN "active" ELSE "passive"]
               ELSE role
    /\ grant' = IF a.reply = "ok"
                THEN [grant EXCEPT ![c] = [to |-> info[c], left |-> a.copy.left]]
                ELSE grant
    /\ attempt' = [attempt EXCEPT ![c] = Idle]
    /\ UNCHANGED <<lease, late, online, info>>

-----------------------------------------------------------------------------
Expire(n) == IF n = 0 THEN 0 ELSE n - 1

\* One second passes: every renew time on record is one second nearer.
Tick ==
    /\ lease' = [l \in Lease |-> [lease[l] EXCEPT !.left = Expire(@)]]
    /\ late' = [l \in Lease |-> {[r EXCEPT !.left = Expire(@)] : r \in late[l]}]
    /\ attempt' = [c \in Client |-> [attempt[c] EXCEPT !.copy.left = Expire(@)]]
    /\ grant' = [c \in Client |-> [grant[c] EXCEPT !.left = Expire(@)]]
    /\ UNCHANGED <<online, role, info>>

\* Any lease may be left over from earlier processes.
Init ==
    /\ lease \in [Lease -> LeaseRecord]
    /\ late = [l \in Lease |-> {}]
    /\ online = {}
    /\ role = [c \in Client |-> "unknown"]
    /\ info = [c \in Client |-> NoInfo]
    /\ attempt = [c \in Client |-> Idle]
    /\ grant = [c \in Client |-> NoGrant]

Step(c) ==
    \/ GetLease(c) \/ TryGrab(c) \/ KeepLease(c) \/ StandBy(c)
    \/ ReplaceApplied(c) \/ ReplaceFailed(c) \/ Conclude(c)

Next ==
    \/ \E c \in Client : \/ Join(c) \/ Leave(c) \/ Step(c)
                         \/ \E i \in Presents[c] : SetInfo(c, i)
    \/ \E e \in Elector : Restart(e)
    \/ \E l \in Lease : StoreLate(l)
    \/ Tick

Spec == Init /\ [][Next]_vars

\* The API server stores the copy and says so.
ReplaceAnswered(c) == ReplaceApplied(c) /\ attempt'[c].reply = "ok"

\* The loop of an elector comes round to every client for ever, and an API
\* server that is asked for ever answers now and then; nothing is assumed of
\* the clients.
Fairness ==
    /\ WF_vars(Tick)
    /\ \A c \in Client :
          /\ SF_vars(GetLease(c))
          /\ SF_vars(ReplaceAnswered(c))
          /\ WF_vars(TryGrab(c) \/ KeepLease(c) \/ StandBy(c))
          /\ WF_vars(ReplaceApplied(c) \/ ReplaceFailed(c))
          /\ WF_vars(Conclude(c))

FairSpec == Spec /\ Fairness

-----------------------------------------------------------------------------
\* Type invariant: the fields of Client, of v1_lease_t and of an attempt.
TypeOK ==
    /\ lease \in [Lease -> LeaseRecord]
    /\ late \in [Lease -> SUBSET LeaseRecord]
    /\ online \subseteq Client
    /\ role \in [Client -> Role]
    /\ info \in [Client -> Info \cup {NoInfo}]
    /\ attempt \in [Client -> Attempt]
    /\ grant \in [Client -> [to : Info \cup {NoInfo}, left : Time]]

\* What the elector believes of a tenure never outlives the lease: while a
\* grant it has learnt of has time left, the lease is held by the identity it
\* was granted to and runs at least as long, whatever requests of other
\* electors, late replies and restarts came in between.
GrantHonoured ==
    \A c \in Client : grant[c].left > 0 =>
        /\ lease[grant[c].to.lease].holder = grant[c].to.identity
        /\ lease[grant[c].to.lease].left >= grant[c].left

\* c acts as active, within the tenure its elector knows of.
Reigns(c) == role[c] = "active" /\ grant[c].to = info[c] /\ grant[c].left > 0

\* Of the clients that are active for a lease within the tenure their elector
\* knows of, no two have different identities: the promise of a sole active,
\* as far as attempt_to_update_role keeps it.
SoleActiveWithinTenure ==
    \A c, d \in Client :
        Reigns(c) /\ Reigns(d) /\ info[c].lease = info[d].lease
            => info[c].identity = info[d].identity

\* The electors keep the promise of a lease: whatever their requests and
\* replies interleave to, no write takes a lease from an identity whose tenure
\* has not run out, and no renewal shortens one.
LT == INSTANCE LeaseTenure WITH Slack <- 0
TenureRespected == LT!Spec

\* Once clients stop coming, going and changing their minds, a lease that is
\* competed for has an active client again and again, though replies get lost
\* and the last holder may have died without giving the lease back.
Settled == <>[][UNCHANGED <<online, info>>]_vars
Failover ==
    Settled => \A l \in Lease :
        []<>(\E c \in Client : Wants(c, l))
            => []<>(\E c \in Client : Wants(c, l) /\ role[c] = "active")

\* A client that is active for a lease another identity has taken stands down,
\* or gets the lease back.
StaleActiveStandsDown ==
    \A c \in Client, i \in Info :
        (role[c] = "active" /\ info[c] = i
            /\ lease[i.lease].holder \notin {NoIdentity, i.identity})
        ~> (role[c] # "active" \/ lease[i.lease].holder = i.identity
            \/ info[c] # i)

\* What the README promises, "one is active (performing mutations) and one is
\* passive" (active-passive-elector/README.md:5): no two clients of different
\* identity are active for the same lease at once.
SoleActive ==
    \A c, d \in Client :
        role[c] = "active" /\ role[d] = "active"
            /\ grant[c].to = info[c] /\ grant[d].to = info[d]
            /\ info[c].lease = info[d].lease
        => info[c].identity = info[d].identity
=============================================================================
