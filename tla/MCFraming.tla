------------------------------ MODULE MCFraming ------------------------------
(* Streams of up to three messages for Framing.  A heartbeat is 2 words      *)
(* long (C only), a Set_Role_Message 3, a Set_Lease_Info_Message more.       *)
EXTENDS Framing

UpTo3(lengths) == UNION {[1..n -> lengths] : n \in 1..3}

\* What TCP may do to the C loop.
Wild == [stream : UpTo3({2, 3, 5}), loop : {"c"}, cut : {"any"}]

Both == [stream : UpTo3({3, 4, 5}), loop : {"ts"}, cut : {"any"}]
        \cup [stream : UpTo3({2, 3, 5}), loop : {"c"}, cut : {"tame"}]
        \cup Wild
=============================================================================
