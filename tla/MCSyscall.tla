----------------------------- MODULE MCSyscall ------------------------------
(***************************************************************************)
(* Syscall on small instances.                                             *)
(***************************************************************************)
EXTENDS Syscall

CONSTANTS p, q, f, g, h1, h2, h3

Two == {p, q}
TwoFiles == {f, g}
Handles == {h1, h2, h3}

\* Keyboard, console, one of the two descriptors, one never in use.
SomeFd == {0, 1, 3, 5}
=============================================================================
