----------------------------- MODULE MCElectorTS -----------------------------
(* Instances of ElectorTS for TLC: a process and its client.                 *)
EXTENDS ElectorTS, TLC

CONSTANTS p1, p2, c1, i1, i2

One == c1 :> p1

\* A client may present any name.
AnyName == [c \in Connection |-> Identity]

Statuses == {E!Undefined, E!Number(199), E!Number(200), E!Number(299), E!Number(300)}

Success == {E!Number(200)}

\* The bound on overlapping calls is that of every process.
Alike == [p \in Process |-> MaxOverlap]

Names == Permutations(Identity)
=============================================================================
