---------------------------- MODULE MCSlotServer ----------------------------
(* Two slots and one client more: the demo, ann, who may send a message of   *)
(* no known type, and bob, who may send one too long.  The third takes the   *)
(* slot of another, or is written behind the array, or finds no descriptor   *)
(* left.                                                                     *)
EXTENDS SlotServer, TLC

CONSTANTS demo, ann, bob, none

AllClients == {demo, ann, bob}
DemoClients == {demo}
SomeMessages ==
    (demo :> {}) @@ (ann :> {<<"lease">>, <<"lease", "role">>})
    @@ (bob :> {<<"lease">>, <<"long", "lease">>})
DescriptorLimits == {2, 3}
=============================================================================
