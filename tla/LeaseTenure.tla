----------------------------- MODULE LeaseTenure -----------------------------
(***************************************************************************)
(* What a Kubernetes lease promises to those who elect an active by it:    *)
(* once a lease is held by an identity, nobody else gets it before that    *)
(* tenure has run out, and a write by the holder never shortens it, or by  *)
(* no more than a slack.                                                   *)
(*                                                                         *)
(* `left` is the number of seconds until the renew time stored on the      *)
(* lease, counted down to 0 as time passes; the elector treats a lease     *)
(* without a renew time as an expired one, so both are left = 0.           *)
(***************************************************************************)
EXTENDS Naturals

CONSTANTS Lease,          \* the leases, each a name in a namespace
          Identity,       \* the identities that may hold a lease
          NoIdentity,     \* the holder of a lease nobody holds
          LeaseDuration,  \* seconds a grant is good for
          Slack           \* seconds of a tenure its holder may take back

VARIABLE lease

LeaseRecord == [holder : Identity \cup {NoIdentity}, left : 0..LeaseDuration]

Expire(n) == IF n = 0 THEN 0 ELSE n - 1

Init == lease \in [Lease -> LeaseRecord]

\* The lease is free or has run out: anybody may take it.
TakeOver(l, i) ==
    /\ lease[l].holder = NoIdentity \/ lease[l].left = 0
    /\ \E t \in 0..LeaseDuration :
          lease' = [lease EXCEPT ![l] = [holder |-> i, left |-> t]]

\* The holder pushes the end of its tenure out, or not far back.
Renew(l, i) ==
    /\ lease[l].holder = i
    /\ \E t \in 0..LeaseDuration :
          /\ lease[l].left <= t + Slack
          /\ lease' = [lease EXCEPT ![l] = [holder |-> i, left |-> t]]

Tick == lease' = [l \in Lease |-> [lease[l] EXCEPT !.left = Expire(@)]]

Next == \/ \E l \in Lease, i \in Identity : TakeOver(l, i) \/ Renew(l, i)
        \/ Tick

Spec == Init /\ [][Next]_lease
=============================================================================
