------------------------------ MODULE MCSession ------------------------------
(* Servicers for Session.  In C the name is the argument of the test client, *)
(* of any length, and the lease is fixed; MaxField and Capacity are such     *)
(* that a name may be empty, fit, be too long for the elector, or be too     *)
(* long to be sent.  In TypeScript any string may be empty, ASCII, or have   *)
(* characters of several bytes, of which its length cuts some.               *)
EXTENDS Session, SequencesExt

\* The f-th string of a message, with its own characters of the given sizes.
\* One of four bytes counts as two UTF-16 units.
Text(f, sizes) ==
    [text |-> FlattenSeq([k \in 1..Len(sizes) |->
                  [i \in 1..sizes[k] |-> Byte(10 * f + k, i, sizes[k])]]),
     units |-> Len(sizes) + Len(SelectSeq(sizes, LAMBDA m : m = 4))]

Ascii(f, length) == Text(f, [k \in 1..length |-> 1])

Named(length) == <<Ascii(1, length), Ascii(2, 2), Ascii(3, 1)>>
NoNames == <<Ascii(1, 0), Ascii(2, 0), Ascii(3, 0)>>

Scripted ==
    {NoNames, Named(2),
     <<Text(1, <<3>>), Ascii(2, 0), Ascii(3, 2)>>,    \* the tail is written over
     <<Ascii(1, 1), Text(2, <<1, 3>>), Text(3, <<3>>)>>, \* the last tail is cut off
     <<Text(1, <<3, 1, 1>>), Text(2, <<2>>), Ascii(3, 1)>>, \* a character is kept
     <<Text(1, <<4>>), Ascii(2, 1), Text(3, <<2, 1>>)>>, \* half of one is kept
     <<Ascii(1, 3), Ascii(2, 2), Text(3, <<3>>)>>,    \* the last does not fit whole
     <<Ascii(1, 3), Ascii(2, 2), Ascii(3, 4)>>,       \* the last does not fit
     <<Ascii(1, 4), Ascii(2, 4), Ascii(3, 1)>>}       \* its length does not fit

Servicers ==
    [kind : {"test"}, says : {Named(n) : n \in {0, 2, 3, 4}}]
    \cup [kind : {"stub"}, says : {NoNames}]
    \cup [kind : {"ts"}, says : Scripted]
=============================================================================
