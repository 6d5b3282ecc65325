------------------------------ MODULE Mensajes ------------------------------
(***************************************************************************)
(* The messages two nodes of the bazaar exchange: class Mensaje of         *)
(* common/mensaje.cpp, the list of Nodo it carries, and the builders of    *)
(* src/logic.cpp that turn the message received into its answer.           *)
(*                                                                         *)
(* A message is one record whatever its code, as in the source: a field a  *)
(* code has no use for keeps the value the builder gave it (hopcount is -1 *)
(* everywhere but in a LOOKUP, vendedor is the empty string in a LOOKUP,   *)
(* nodos is empty in the three BUY codes).                                 *)
(***************************************************************************)
EXTENDS Integers, Sequences

CONSTANTS
  Node,       \* the node names of the configuration file
  Nombre,     \* the product names a user or a configuration file can write
  Producto,   \* the names Stock has an entry for: sal, pescado and verdura
  Basura,     \* what an int that nobody initialised may hold
  Nadie,      \* the empty node name
  Hopcount    \* hopcount of the configuration file

ASSUME MensajesAssumption ==
  /\ Producto \subseteq Nombre
  /\ Basura \subseteq Int /\ Basura # {}
  /\ Nadie \notin Node
  /\ Hopcount \in Nat

Codigo == {"LOOKUP", "REPLY", "BUY", "BUY_OK", "BUY_ERR"}

Mensaje == [code     : Codigo,
            producto : Nombre,
            vendedor : Node \cup {Nadie},
            cantidad : Int,
            hopcount : Int,
            ts       : Nat,
            nodos    : Seq(Node)]

(***************************************************************************)
(* What Mensaje::load reads back from what Mensaje::to_string wrote.  A    *)
(* negative number is not written, and the constructor of the receiver's   *)
(* Mensaje leaves the two ints uninitialised: the receiver then sees       *)
(* whatever the memory held.                                               *)
(***************************************************************************)
Leido(x) == IF x >= 0 THEN {x} ELSE Basura

Lectura(m, c, h) == [m EXCEPT !.cantidad = c, !.hopcount = h]

Load(m) == {Lectura(m, c, h) : c \in Leido(m.cantidad), h \in Leido(m.hopcount)}

(* The node at the back of the list, where a REPLY must go next, and the   *)
(* node at the front, which created the LOOKUP.                            *)
get_next_node_name(m) ==
  IF m.nodos = <<>> THEN Nadie ELSE m.nodos[Len(m.nodos)]

get_creator_node_name(m) ==
  IF m.nodos = <<>> THEN Nadie ELSE m.nodos[1]

add_nodo(m, n) == [m EXCEPT !.nodos = Append(@, n)]

less_nodo(m) == [m EXCEPT !.nodos = SubSeq(@, 1, Len(@) - 1)]

less_hopcount(m) == [m EXCEPT !.hopcount = @ - 1]

-----------------------------------------------------------------------------
(* The builders.  A new Mensaje takes the time of its construction, which  *)
(* only the LOOKUP keeps: the others copy the time of the message answered *)
(* and so all the messages of one purchase carry the same ts.              *)

(* Fault: the constructor does not read the time.                          *)
build_look_up_msg_sin_hora(producto, cantidad, ts) ==
  [code |-> "LOOKUP", producto |-> producto, vendedor |-> Nadie,
   cantidad |-> cantidad, hopcount |-> Hopcount, ts |-> -1, nodos |-> <<>>]

build_look_up_msg(producto, cantidad, ts) ==
  [code |-> "LOOKUP", producto |-> producto, vendedor |-> Nadie,
   cantidad |-> cantidad, hopcount |-> Hopcount, ts |-> ts, nodos |-> <<>>]

build_reply_msg(m, n) ==
  [m EXCEPT !.code = "REPLY", !.vendedor = n, !.hopcount = -1]

build_buy_msg(m) ==
  [m EXCEPT !.code = "BUY", !.hopcount = -1, !.nodos = <<>>]

build_buy_reply_ok_msg(m) ==
  [m EXCEPT !.code = "BUY_OK", !.hopcount = -1, !.nodos = <<>>]

build_buy_reply_err_msg(m) ==
  [m EXCEPT !.code = "BUY_ERR", !.hopcount = -1, !.nodos = <<>>]
=============================================================================
