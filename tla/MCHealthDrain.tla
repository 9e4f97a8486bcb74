--------------------------- MODULE MCHealthDrain ---------------------------
(***************************************************************************)
(* A small instance of HealthDrain: an instance of one backend, and a      *)
(* second backend that the sweep visits before or after the first.         *)
(***************************************************************************)
EXTENDS HealthDrain, TLC

CONSTANTS b1, b2, i1, sweep, panel

InFirst == i1 :> b1

Draining == [checked |-> TRUE, drain |-> TRUE, down |-> 2, up |-> 2]
Watching == [Draining EXCEPT !.drain = FALSE]
Off      == [Draining EXCEPT !.checked = FALSE]

AllSettings == {Draining, Watching, Off}

\* The operator switches the checks and the draining of the first backend.
FirstIsEdited == [b \in Backends |-> IF b = b1 THEN AllSettings ELSE {Draining}]

=============================================================================
