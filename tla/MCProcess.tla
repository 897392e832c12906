------------------------------ MODULE MCProcess ------------------------------
(***************************************************************************)
(* Process on small instances.                                             *)
(***************************************************************************)
EXTENDS Process

CONSTANTS a, b

Pages3 == {main, a, b}
Pages2 == {main, a}
OneStatus == {0}
=============================================================================
