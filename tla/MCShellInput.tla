----------------------------- MODULE MCShellInput -----------------------------
(* ShellInput for TLC: no action and no invariant reads the command a step   *)
(* issued, so states that differ in it alone are one.                         *)
EXTENDS ShellInput

NoIssued == <<phase, skip, exit, pads, place, input, held, quiet, joint, lost>>
=============================================================================
