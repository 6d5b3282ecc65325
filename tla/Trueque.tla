------------------------------ MODULE Trueque ------------------------------
(***************************************************************************)
(* What the bazaar promises about the goods, without nodes that talk: a    *)
(* purchase is agreed on once; a seller that has its units debits them, or *)
(* the purchase comes to nothing; the units debited are on their way for a *)
(* while, and enter the stock of one node, once, or are lost.  Nothing     *)
(* else changes a stock but the user of the node.                          *)
(*                                                                         *)
(* A purchase is a record [ts, producto, cantidad].  Two facts about the   *)
(* ints of the code show even here, as operators that the user of this     *)
(* module provides: a sum may wrap around (Entero), and a node need not    *)
(* read the quantity that another one wrote (Leido).                       *)
(***************************************************************************)
EXTENDS Integers

CONSTANTS
  Node, Producto, StockInicial,
  Reponible,  \* what the user of a node may write in its stock
  Entero(_),  \* the int that a sum gives
  Leido(_)    \* what a node may read where another one wrote a number

VARIABLES
  stock,      \* stock[n][p]: units of p in the stock map of n
  acordadas,  \* the times of the purchases ever agreed on
  tratos,     \* purchases agreed on that no seller has answered
  enCamino    \* purchases whose units were debited and not yet credited

vars == <<stock, acordadas, tratos, enCamino>>

Init ==
  /\ stock = [n \in Node |-> [p \in Producto |-> StockInicial]]
  /\ acordadas = {} /\ tratos = {} /\ enCamino = {}

Pone(n, p, c) ==
  stock' = [stock EXCEPT ![n] =
              [q \in DOMAIN stock[n] \cup {p} |->
                 IF q = p THEN c ELSE stock[n][q]]]

(* A buyer takes an offer, the first one for this purchase.                *)
Acuerda(u) ==
  /\ u.ts \notin acordadas
  /\ acordadas' = acordadas \cup {u.ts}
  /\ tratos' = tratos \cup {u}
  /\ UNCHANGED <<stock, enCamino>>

(* Node n has the units that it reads it must sell, and debits them.       *)
Vende(n, u, c) ==
  /\ u.producto \in DOMAIN stock[n]
  /\ c <= stock[n][u.producto]
  /\ Pone(n, u.producto, Entero(stock[n][u.producto] - c))
  /\ tratos' = tratos \ {u}
  /\ enCamino' = enCamino \cup {[u EXCEPT !.cantidad = c]}
  /\ UNCHANGED acordadas

(* The purchase is refused, or its order does not arrive.  A node that is  *)
(* asked for a product it has no entry for may make an empty entry.        *)
SeDeshace(u) ==
  /\ tratos' = tratos \ {u}
  /\ \/ UNCHANGED stock
     \/ \E n \in Node : u.producto \notin DOMAIN stock[n] /\ Pone(n, u.producto, 0)
  /\ UNCHANGED <<acordadas, enCamino>>

(* Node n credits the units it reads it was sent.                          *)
Acredita(n, u, c) ==
  /\ u.producto \in DOMAIN stock[n]
  /\ Pone(n, u.producto, Entero(stock[n][u.producto] + c))
  /\ enCamino' = enCamino \ {u}
  /\ UNCHANGED <<acordadas, tratos>>

SePierde(u) ==
  /\ enCamino' = enCamino \ {u}
  /\ UNCHANGED <<stock, acordadas, tratos>>

(* The user of n writes the units of p.                                    *)
Repone(n, p, c) ==
  /\ Pone(n, p, c)
  /\ UNCHANGED <<acordadas, tratos, enCamino>>

Next ==
  \/ \E u \in tratos' \ tratos : Acuerda(u)
  \/ \E u \in tratos :
       \/ SeDeshace(u)
       \/ \E n \in Node, c \in Leido(u.cantidad) : Vende(n, u, c)
  \/ \E u \in enCamino :
       \/ SePierde(u)
       \/ \E n \in Node, c \in Leido(u.cantidad) : Acredita(n, u, c)
  \/ \E n \in Node, p \in Producto, c \in Reponible : Repone(n, p, c)

Spec == Init /\ [][Next]_vars
=============================================================================
