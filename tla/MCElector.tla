------------------------------ MODULE MCElector ------------------------------
(* One elector with two servicers, for TLC.                                  *)
EXTENDS Elector, TLC

CONSTANTS e1, c1, c2, i1, i2, l1

Together == (c1 :> e1) @@ (c2 :> e1)

Competing == [identity |-> i1, lease |-> l1]

\* c1 competes for the lease, which may be held by another identity; c2 has not
\* said what it wants.  Both may send heartbeats or stop to.
Talk == (c1 :> {Competing}) @@ (c2 :> {})
Speech == (c1 :> {Heartbeat, Competing}) @@ (c2 :> {Heartbeat})
==============================================================================
