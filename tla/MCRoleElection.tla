--------------------------- MODULE MCRoleElection ---------------------------
(* Instances of RoleElection for TLC: who connects to which elector.        *)
EXTENDS RoleElection, TLC

CONSTANTS e1, e2, c1, c2, i1, i2, l1, l2

\* Two pods, a servicer each.
OneEach == (c1 :> e1) @@ (c2 :> e2)

\* What lease information the servicers may provide: anything, or one of them
\* always its own name.
Anything == [c \in Client |-> Info \cup {NoInfo}]
OneFixed == (c1 :> Info) @@ (c2 :> {i \in Info : i.identity = i2})

\* Names mean nothing to the electors, and in OneEach the two pods are alike.
Swap == (c1 :> c2) @@ (c2 :> c1) @@ (e1 :> e2) @@ (e2 :> e1)
Alike ==
    {f @@ g @@ h : f \in Permutations(Identity), g \in Permutations(Lease),
                   h \in {<<>>, Swap}}
=============================================================================
