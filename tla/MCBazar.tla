------------------------------ MODULE MCBazar ------------------------------
(* Small instances of Bazar for TLC.                                       *)
EXTENDS Bazar

CONSTANTS ana, beto, caro, sal, verdura, oro

(* Three nodes in a ring, each connected to the two others.                *)
VecinoAnillo == (ana  :> <<beto, caro>>) @@ (beto :> <<caro, ana>>) @@
                (caro :> <<ana, beto>>)

(* A chain: only beto in the middle has both its connections.              *)
VecinoCadena == (ana  :> <<beto, Nadie>>) @@ (beto :> <<caro, ana>>) @@
                (caro :> <<beto, Nadie>>)

(* Two sellers for what ana buys, none for what caro buys.                 *)
ConfigAnillo == (ana  :> [compra |-> sal, venta |-> verdura]) @@
                (beto :> [compra |-> sal, venta |-> sal]) @@
                (caro :> [compra |-> oro, venta |-> sal])

(* beto and caro sell what ana buys, beto sells what caro buys.            *)
ConfigCadena == (ana  :> [compra |-> sal, venta |-> verdura]) @@
                (beto :> [compra |-> verdura, venta |-> sal]) @@
                (caro :> [compra |-> sal, venta |-> sal])

(* A negative order, and what an int that is not set may happen to hold.   *)
PedibleNegativo == {-1, 1}
BasuraNegativa == {-1, 2}
=============================================================================
