---------------------------- MODULE MCInterrupts ----------------------------
(* Small instances of Interrupts for TLC.                                   *)
EXTENDS Interrupts

\* Status values: everything off, and enabled with one or both lines.
StatusBoth  == {<<FALSE, FALSE, {}>>, <<TRUE, FALSE, {"RCP", "TIMER"}>>}
StatusTimer == {<<FALSE, FALSE, {}>>, <<TRUE, FALSE, {"TIMER"}>>}
=============================================================================
