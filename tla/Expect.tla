-------------------------------- MODULE Expect --------------------------------
(***************************************************************************)
(* expect.ts: a value and a chain of conditions on it.  A condition that   *)
(* is not met throws or, for a warning, makes the result false.  Nothing   *)
(* makes it true again.                                                    *)
(***************************************************************************)
EXTENDS Integers

Severity == {"warning", "error"}

\* A JavaScript value, as far as conditions tell values apart.
Undefined == [kind |-> "undefined", n |-> 0]
Number(n) == [kind |-> "number", n |-> n]

\* Mutant: the last condition decides.
ConditionAlone(e, met) ==
    [e EXCEPT !.result = met, !.throws = @ \/ (e.severity = "error" /\ ~met)]

\* What has thrown goes no further.
Condition(e, met) ==
    IF e.throws THEN e
    ELSE [e EXCEPT !.result = @ /\ met, !.throws = e.severity = "error" /\ ~met]

expect(variable, severity) ==
    Condition([variable |-> variable, severity |-> severity,
               result |-> TRUE, throws |-> FALSE],
              variable # Undefined)

\* Every comparison with undefined is false, so none says a condition is not met.
isGTorEQ(e, value) == Condition(e, ~(e.variable # Undefined /\ e.variable.n < value))
isLTorEQ(e, value) == Condition(e, ~(e.variable # Undefined /\ e.variable.n > value))

\* Whether the caller goes on: by the result of a warning; after an error, unless
\* it has thrown.
GoesOn(e) == IF e.severity = "warning" THEN e.result ELSE ~e.throws
=============================================================================
