------------------------------- MODULE Framing -------------------------------
(***************************************************************************)
(* How the messages of a connection are cut out of its byte stream.        *)
(*                                                                         *)
(* A message starts with a header that holds its length, header included.  *)
(* TCP delivers bytes, not messages: a read may end anywhere.  What has    *)
(* arrived is kept in a buffer that starts at a message; a loop hands on   *)
(* the messages in it and keeps the rest for the next read.                *)
(*                                                                         *)
(* There are two such loops: that of process_messages_for_client (the C    *)
(* elector, and word for word the C test client) and that of step in the   *)
(* TypeScript elector.  Lengths are counted in words of four bytes.        *)
(***************************************************************************)
EXTENDS Integers, Sequences

CONSTANT Cases       \* what is sent, the loop that reads it ("c", "ts"), and
                     \* where reads may end ("any", "tame")

Header == 2          \* length and type

\* No message consists of a header alone in the protocol of the TypeScript
\* elector; in that of the C elector a heartbeat does.
ASSUME CaseAssumption ==
    \A case \in Cases :
        /\ case \in [stream : Seq(Nat), loop : {"c", "ts"}, cut : {"any", "tame"}]
        /\ \A k \in DOMAIN case.stream : case.stream[k] >= Header
        /\ case.loop = "ts" => \A k \in DOMAIN case.stream : case.stream[k] > Header

VARIABLES this,     \* the case at hand
          coming,   \* words that have not arrived yet
          phase,    \* "read", "parse", or "wrecked" after undefined behaviour
          have,     \* recv_buffered
          pos,      \* bytes_processed
          next,     \* the message of the stream that starts at pos
          seen      \* the messages handed on, and whether they were whole

vars == <<this, coming, phase, have, pos, next, seen>>

stream == this.stream    \* the lengths of the messages sent

\* Offset[n] is where in the stream its first n messages end.
Offset ==
    LET upTo[n \in 0..Len(stream)] == IF n = 0 THEN 0 ELSE upTo[n - 1] + stream[n]
    IN  upTo

\* Reads that leave in the buffer either whole messages only or, after its
\* header, a part of one message only.
Tame(n) ==
    LET first == Offset[next - 1] IN
    \/ \E k \in next - 1..Len(stream) : have + n = Offset[k] - first
    \/ next <= Len(stream) /\ have + n \in Header..stream[next]

\* buffer_data_from_connection, or socket.read.
Read(n) ==
    /\ phase = "read" /\ n <= coming
    /\ this.cut = "tame" => Tame(n)
    /\ coming' = coming - n
    /\ have' = have + n
    /\ pos' = 0
    /\ phase' = "parse"
    /\ UNCHANGED <<this, next, seen>>

\* Mutant: asks for a word more than a header.
EntersLate == IF this.loop = "c" THEN pos + 1 < have ELSE have - pos > Header + 1

\* The loop condition.
Enters == IF this.loop = "c" THEN pos < have ELSE have - pos > Header

\* Mutant: both loops compare with all that is buffered.
FitsBuffered(len) == len <= have

\* The message the header at pos announces is taken to be there: the C loop
\* compares its length with all that is buffered, not with what is left of it.
Fits(len) == IF this.loop = "c" THEN len <= have ELSE len <= have - pos

\* The header at pos has arrived.
Announced == have - pos >= Header

\* A message is handed on.
HandOn ==
    /\ phase = "parse" /\ Enters /\ Announced /\ Fits(stream[next])
    /\ seen' = Append(seen, [msg |-> next, whole |-> pos + stream[next] <= have])
    /\ pos' = pos + stream[next]
    /\ next' = next + 1
    /\ UNCHANGED <<this, coming, phase, have>>

\* The header has not arrived in full: the missing words are whatever the buffer
\* held before.  They may announce a message that seems to be there.
HandOnNonsense ==
    /\ phase = "parse" /\ Enters /\ ~Announced
    /\ seen' = Append(seen, [msg |-> 0, whole |-> FALSE])
    /\ phase' = "wrecked"
    /\ UNCHANGED <<this, coming, have, pos, next>>

\* Mutants: the rest is thrown away; the operands are swapped.
RestDropped == 0
RestSwapped == pos - have

\* bytes_unprocessed
Rest == have - pos

\* The rest is moved to the front.  The C loop may have gone past what is
\* buffered and moves a negative number of bytes then.
Compact ==
    /\ phase = "parse"
    /\ Enters => (Announced => ~Fits(stream[next]))
    /\ IF have >= pos THEN have' = Rest /\ phase' = "read"
       ELSE UNCHANGED have /\ phase' = "wrecked"
    /\ pos' = 0
    /\ UNCHANGED <<this, coming, next, seen>>

Init ==
    /\ this \in Cases
    /\ coming = Offset[Len(stream)]
    /\ phase = "read" /\ have = 0 /\ pos = 0 /\ next = 1 /\ seen = <<>>

Next == (\E n \in 0..coming : Read(n)) \/ HandOn \/ HandOnNonsense \/ Compact

Spec == Init /\ [][Next]_vars

\* The loop comes round, and what was sent arrives.
FairSpec == /\ Spec
            /\ WF_vars(HandOn \/ HandOnNonsense \/ Compact)
            /\ SF_vars(\E n \in 1..coming : Read(n))

-----------------------------------------------------------------------------
\* Type invariant of the framing loop.
TypeOK ==
    /\ this \in Cases
    /\ phase \in {"read", "parse", "wrecked"}
    /\ coming \in Nat /\ have \in Nat /\ pos \in Nat
    /\ next \in 1..Len(stream) + 1
    /\ seen \in Seq([msg : 0..Len(stream), whole : BOOLEAN])

\* The cases the loops are meant for: the TypeScript loop takes reads as they
\* come; the C loop is right when no read ends within a message that has another
\* one before it in the buffer, or within a header.
Sound == this.loop = "ts" \/ this.cut = "tame"

HandedOnWhole == \A k \in DOMAIN seen : seen[k].whole

\* "Process any messages ready for processing" (main.c:174): a message is handed
\* on only when all of it has arrived.
OnlyWholeMessages == Sound => HandedOnWhole

\* The same of the C loop whatever TCP does, of the messages whose header has
\* arrived: it is not so, the loop does not look at how much of the buffer is
\* left behind the messages before.
ReadyForProcessing == \A k \in DOMAIN seen : seen[k].msg # 0 => seen[k].whole

\* The buffer starts at the message the loop takes to be next: the messages
\* handed on, the words buffered and the words coming make up the stream, so
\* that no message is skipped, handed on twice or read from its middle.
InStep == Sound =>
    /\ phase # "wrecked"
    /\ \A k \in DOMAIN seen : seen[k].msg = k
    /\ next = Len(seen) + 1
    /\ Offset[next - 1] + (have - pos) + coming = Offset[Len(stream)]

\* Every message of the stream is handed on in the end.
AllHandedOn == Sound => <>(Len(seen) = Len(stream))
=============================================================================
