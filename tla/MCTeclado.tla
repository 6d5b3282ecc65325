----------------------------- MODULE MCTeclado -----------------------------
(* Small instances of Teclado for TLC.                                     *)
EXTENDS Teclado

CONSTANT letra   \* a text that is not a number
=============================================================================
