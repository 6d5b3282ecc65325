---------------------------- MODULE MCConexiones ----------------------------
(* Small instances of Conexiones for TLC.                                  *)
EXTENDS Conexiones, TLC

CONSTANTS ana, beto, caro, sal, verdura

(* A chain with beto in the middle.                                        *)
VecinoCadena == (ana  :> <<beto, Nadie>>) @@ (beto :> <<caro, ana>>) @@
                (caro :> <<beto, Nadie>>)

(* ana and beto without caro.                                              *)
VecinoPar == (ana :> <<beto, Nadie>>) @@ (beto :> <<Nadie, ana>>)

(* What ana and caro buy, beto sells.                                      *)
ConfigPar == (ana  :> [compra |-> sal, venta |-> verdura]) @@
             (beto :> [compra |-> verdura, venta |-> sal])
ConfigBeto == ConfigPar @@ (caro :> [compra |-> sal, venta |-> verdura])

(* What ana buys, only caro sells.                                         *)
ConfigCaro == (ana  :> [compra |-> sal, venta |-> verdura]) @@
              (beto :> [compra |-> sal, venta |-> verdura]) @@
              (caro :> [compra |-> verdura, venta |-> sal])

-----------------------------------------------------------------------------
Veces(N) == [n \in Node |-> IF n \in N THEN 1 ELSE 0]

(* The whole chain is connected; only ana and beto are, and caro, if there *)
(* is one, never starts.                                                   *)
Cadena == [enlaces |-> <<<<ana, 1>>, <<beto, 1>>, <<caro, 1>>, <<beto, 2>>>>,
           frios |-> {}, pedidos |-> Veces({}), reconexiones |-> 0,
           salidas |-> 0, arranques |-> Veces({})]
Par == [Cadena EXCEPT !.enlaces = <<<<ana, 1>>, <<beto, 2>>>>,
                      !.frios = Node \ {ana, beto}]

(* ana buys while any one node ends.                                       *)
CompraConCaida == [Cadena EXCEPT !.pedidos = Veces({ana}), !.salidas = 1]

(* ana orders twice and nobody sells: two LOOKUPs are on their way to beto *)
(* or to ana when one of them ends.                                        *)
DosLookups == [Par EXCEPT !.pedidos = [Veces({}) EXCEPT ![ana] = 2], !.salidas = 1]

EscenasCompra == {CompraConCaida, DosLookups}

(* ana and beto start, and one may end at any step.                        *)
Arranque == [Cadena EXCEPT !.enlaces = <<>>, !.frios = Node, !.salidas = 1,
                           !.arranques = Veces({ana, beto})]

(* ana or beto ends and comes back, to a node that accepts no more than    *)
(* one client, and option 6 is chosen.                                     *)
Vuelta == [Par EXCEPT !.reconexiones = 1, !.salidas = 1,
                      !.arranques = Veces({ana, beto})]

EscenasArranque == {Arranque, Vuelta}

(* Two buyers and one seller.                                              *)
EscenasDos == {[Cadena EXCEPT !.pedidos = Veces({ana, caro})]}

(* One purchase from the neighbour.                                        *)
EscenasPar == {[Par EXCEPT !.pedidos = Veces({ana})]}

(* The theorems with hypotheses of their own speak of these scenes.        *)
ASSUME Escenas \in {EscenasCompra, EscenasPar} => SinMezcla /\ SinVueltas /\ UnComprador
ASSUME Escenas = EscenasDos => SinMezcla /\ SinVueltas /\ Completas
=============================================================================
