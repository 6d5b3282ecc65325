------------------------------ MODULE MCRunner ------------------------------
(* Small instances of Runner for TLC: e1 and e2 post to the loop.          *)
EXTENDS Runner, TLC

CONSTANTS e1, e2

(* e1 posts twice, so that its events can be told in order; a handler of   *)
(* the loop posts once.                                                    *)
DosUno == (e1 :> 2) @@ (e2 :> 1) @@ (Run :> 1)
UnoUno == (e1 :> 1) @@ (e2 :> 1) @@ (Run :> 0)
=============================================================================
