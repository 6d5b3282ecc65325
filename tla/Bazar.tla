------------------------------- MODULE Bazar -------------------------------
(***************************************************************************)
(* The bazaar: the Logic threads of all the nodes, joined by what their    *)
(* Routers send and their Listeners deliver.                               *)
(*                                                                         *)
(* This module is the protocol's view of the transport.  The connections   *)
(* with the neighbours are up (Vecino says which), and everything between  *)
(* a Router's send and the CLIENT_MSG that the receiving Listener posts is *)
(* the bag red: a message arrives at most once, in any order, or never     *)
(* (recv keeps one of the messages that arrive together, a Listener        *)
(* discards a BUY that is not from its p2p socket, a send to a socket that *)
(* is closed fails).  Which connection sock_p2p is at the moment of an     *)
(* answer is not represented: the answer may go to any node.               *)
(***************************************************************************)
EXTENDS Logic, BagsExt, Bags

CONSTANTS
  Vecino,      \* Vecino[n]: the peers of sock_vecino1 and sock_vecino2 of n,
               \* Nadie where there is no connection
  Perdida,     \* whether the transport loses messages
  Pedible,     \* the quantities a user may ask for
  Reponible,   \* the quantities a user may set in stock
  Elegible,    \* the products a user may choose to buy or to sell
  MaxOrdenes   \* bound: orders given at all the keyboards together

ASSUME BazarAssumption ==
  /\ Vecino \in [Node -> [1..2 -> Node \cup {Nadie}]]
  /\ Perdida \in BOOLEAN
  /\ Pedible \subseteq Int /\ Reponible \subseteq Int
  /\ Elegible \subseteq Producto
  /\ MaxOrdenes \in Nat

VARIABLES
  red,         \* messages sent and not yet delivered: a bag of [dst, tag]
  ordenes      \* orders given so far (for the bound)

vars == <<logicVars, red, ordenes>>

Paquete == [dst : Node, tag : Mensaje]

-----------------------------------------------------------------------------
(* The Router thread of node n.                                            *)

AtiendeRouter(n, id) ==
  /\ routerEvents[n] # <<>>
  /\ Head(routerEvents[n]).id = id
  /\ routerEvents' = [routerEvents EXCEPT ![n] = Tail(@)]
  /\ UNCHANGED <<logicEvents, mapa_stock, compro, vendo, mapaPedidos, reloj,
                 ordenes>>

Cabeza(n) == Head(routerEvents[n]).tag

(* The bag b with m sent to dst; a socket that is SOCK_ERRONEO sends       *)
(* nothing.                                                                *)
Envia(b, dst, m) ==
  IF dst = Nadie THEN b ELSE BagAdd(b, [dst |-> dst, tag |-> m])

send_first_broadcast_message(n) ==
  /\ AtiendeRouter(n, "RT_FIRST_BROADCAST")
  /\ red' = Envia(Envia(red, Vecino[n][1], Cabeza(n)), Vecino[n][2], Cabeza(n))

(* The name nodo_socket_cliente_map gives to the socket of neighbour k.    *)
(* The map is keyed by name: when both neighbours are the same node, only  *)
(* its second socket is in the map and the first one has no name.          *)
find_in_client_sockets_nodo_nombre(n, k) ==
  IF k = 1 /\ Vecino[n][1] = Vecino[n][2] THEN Nadie ELSE Vecino[n][k]

(* Fault: the name is compared with that of the last node.                 *)
DestinoBroadcast_ultimo(n, k) ==
  IF find_in_client_sockets_nodo_nombre(n, k) = get_next_node_name(Cabeza(n))
  THEN Nadie ELSE Vecino[n][k]

(* A neighbour is skipped when the name found is the creator's.            *)
DestinoBroadcast(n, k) ==
  IF find_in_client_sockets_nodo_nombre(n, k) = get_creator_node_name(Cabeza(n))
  THEN Nadie ELSE Vecino[n][k]

send_broadcast_message(n) ==
  /\ AtiendeRouter(n, "RT_BROADCAST")
  /\ red' = Envia(Envia(red, DestinoBroadcast(n, 1), Cabeza(n)),
                  DestinoBroadcast(n, 2), Cabeza(n))

(* nodo_socket_servidor_map of n has the nodes that connected to n.  For   *)
(* any other name it yields 0 and the message is sent nowhere.             *)
EsVecino(a, b) == b \in {Vecino[a][1], Vecino[a][2]}

DestinoReply(n) ==
  LET siguiente == get_next_node_name(Cabeza(n))
  IN  IF siguiente \in Node /\ EsVecino(siguiente, n) THEN siguiente ELSE Nadie

send_to_next_node_message(n) ==
  /\ AtiendeRouter(n, "RT_SEND_TO_SOCKET")
  /\ red' = Envia(red, DestinoReply(n), Cabeza(n))

(* The connection with the seller is made, or it cannot be made and the    *)
(* BUY is dropped.                                                         *)
start_p2p_connect(n) ==
  /\ AtiendeRouter(n, "RT_START_P2P_CONNECT")
  /\ \/ red' = Envia(red, Cabeza(n).vendedor, Cabeza(n))
     \/ Perdida /\ UNCHANGED red

(* sock_p2p leads to some node, or it is SOCK_ERRONEO.                     *)
send_to_p2p_socket_message(n) ==
  /\ AtiendeRouter(n, "RT_SEND_TO_P2P_SOCKET")
  /\ \E dst \in IF Perdida THEN Node \cup {Nadie} ELSE Node :
       red' = Envia(red, dst, Cabeza(n))

close_p2p_connect(n) ==
  /\ AtiendeRouter(n, "RT_CLOSE_P2P_CONNECT")
  /\ UNCHANGED red

RouterStep(n) ==
  \/ send_first_broadcast_message(n)
  \/ send_broadcast_message(n)
  \/ send_to_next_node_message(n)
  \/ start_p2p_connect(n)
  \/ send_to_p2p_socket_message(n)
  \/ close_p2p_connect(n)

-----------------------------------------------------------------------------
(* The transport and the Listener thread of the node a message is for.     *)

Entrega(p) ==
  /\ logicEvents' = [logicEvents EXCEPT ![p.dst] =
                       Append(@, [id |-> "CLIENT_MSG", tag |-> p.tag])]
  /\ red' = BagRemove(red, p)
  /\ UNCHANGED <<routerEvents, mapa_stock, compro, vendo, mapaPedidos, reloj,
                 ordenes>>

Pierde(p) ==
  /\ Perdida
  /\ red' = BagRemove(red, p)
  /\ UNCHANGED <<logicVars, ordenes>>

EntregaA(n) == \E p \in BagToSet(red) : p.dst = n /\ Entrega(p)

-----------------------------------------------------------------------------
(* The Keyboard thread of node n: what the user orders is posted to Logic. *)

Ordena(n, ev) ==
  /\ ordenes < MaxOrdenes
  /\ ordenes' = ordenes + 1
  /\ logicEvents' = [logicEvents EXCEPT ![n] = Append(@, ev)]
  /\ UNCHANGED <<routerEvents, mapa_stock, compro, vendo, mapaPedidos, reloj,
                 red>>

procesar_lanzar(n) ==
  \E c \in Pedible : Ordena(n, [id |-> "DO_LOOKUP", cantidad |-> c])

procesar_add_stock(n) ==
  \E p \in Elegible, c \in Reponible :
     Ordena(n, [id |-> "SET_STOCK", producto |-> p, cantidad |-> c])

procesar_set_producto_compra(n) ==
  \E p \in Elegible : Ordena(n, [id |-> "SET_CUR_PROD_COMPRA", producto |-> p])

procesar_set_producto_venta(n) ==
  \E p \in Elegible : Ordena(n, [id |-> "SET_CUR_PROD_VENTA", producto |-> p])

Teclado(n) ==
  \/ procesar_lanzar(n)
  \/ procesar_add_stock(n)
  \/ procesar_set_producto_compra(n)
  \/ procesar_set_producto_venta(n)

-----------------------------------------------------------------------------
Init ==
  /\ LogicInit
  /\ red = EmptyBag
  /\ ordenes = 0

Next ==
  \/ \E n \in Node :
       \/ LogicStep(n) /\ UNCHANGED <<red, ordenes>>
       \/ RouterStep(n)
       \/ Teclado(n)
  \/ \E p \in BagToSet(red) : Entrega(p) \/ Pierde(p)

Spec == Init /\ [][Next]_vars

(* Each thread handles what its queue holds, and each Listener reads what  *)
(* its sockets hold.  The user and the losses owe nothing.                 *)
Fairness ==
  \A n \in Node :
    /\ WF_vars(LogicStep(n) /\ UNCHANGED <<red, ordenes>>)
    /\ WF_vars(RouterStep(n))
    /\ WF_vars(EntregaA(n))

FairSpec == Spec /\ Fairness

-----------------------------------------------------------------------------
(* Type invariant.                                                         *)
TypeOK ==
  /\ logicEvents \in [Node -> Seq(LogicEvent)]
  /\ routerEvents \in [Node -> Seq(RouterEvent)]
  /\ DOMAIN mapa_stock = Node
  /\ \A n \in Node : /\ mapa_stock[n] \in [DOMAIN mapa_stock[n] -> Int]
                     /\ Producto \subseteq DOMAIN mapa_stock[n]
                     /\ DOMAIN mapa_stock[n] \subseteq Nombre
  /\ compro \in [Node -> Nombre]
  /\ vendo \in [Node -> Nombre]
  /\ DOMAIN mapaPedidos = Node
  /\ \A n \in Node : /\ mapaPedidos[n] \in [DOMAIN mapaPedidos[n] -> EstadoPedido]
                     /\ DOMAIN mapaPedidos[n] \subseteq Nat
  /\ reloj \in Nat
  /\ IsABag(red)
  /\ BagToSet(red) \subseteq Paquete
  /\ ordenes \in Nat

-----------------------------------------------------------------------------
(* The way a message has gone and has still to go.                         *)

Camino(s) == \A i \in 1..(Len(s) - 1) : EsVecino(s[i], s[i + 1])

(* A LOOKUP that has come to node n: it has spent exactly the hops it      *)
(* names, each on a connection, the last of which leads to n.              *)
LookupLlega(m, n) ==
  /\ m.hopcount \in 0..Hopcount
  /\ Len(m.nodos) + m.hopcount = Hopcount + 1
  /\ Camino(Append(m.nodos, n))

(* A LOOKUP that node n is about to send: n is the last of its nodes.      *)
LookupSale(m, n) ==
  /\ m.code = "LOOKUP"
  /\ m.hopcount \in 0..Hopcount
  /\ Len(m.nodos) + m.hopcount = Hopcount + 1
  /\ Camino(m.nodos)
  /\ m.nodos[Len(m.nodos)] = n

(* A REPLY that has come to node n names its seller, and what it still has *)
(* of the way of its LOOKUP ends in n.                                     *)
ReplyLlega(m, n) ==
  /\ m.vendedor \in Node
  /\ Len(m.nodos) \in 1..(Hopcount + 1)
  /\ Camino(m.nodos)
  /\ m.nodos[Len(m.nodos)] = n

(* A REPLY that node n is about to send: the node it must go to next has n *)
(* as its neighbour, so n has a socket for it.                             *)
ReplySale(m, n) ==
  /\ m.code = "REPLY"
  /\ m.vendedor \in Node
  /\ Len(m.nodos) \in 1..(Hopcount + 1)
  /\ Camino(Append(m.nodos, n))

MensajeLlega(m, n) ==
  /\ m.code = "LOOKUP" => LookupLlega(m, n)
  /\ m.code = "REPLY" => ReplyLlega(m, n)
  /\ m.code = "BUY" => m.vendedor \in Node

LogicEventOK(n, ev) ==
  /\ ev.id = "CLIENT_MSG" => MensajeLlega(ev.tag, n)
  /\ ev.id \in {"DO_LOOKUP_FORWARD", "DO_REPLY"} =>
       ev.tag.code = "LOOKUP" /\ LookupLlega(ev.tag, n)
  /\ ev.id = "DO_REPLY_FORWARD" =>
       ev.tag.code = "REPLY" /\ ReplyLlega(ev.tag, n) /\ Len(ev.tag.nodos) > 1
  /\ ev.id = "DO_BUY" => ev.tag.code = "REPLY" /\ ev.tag.vendedor \in Node

RouterEventOK(n, ev) ==
  /\ ev.id \in {"RT_FIRST_BROADCAST", "RT_BROADCAST"} => LookupSale(ev.tag, n)
  /\ ev.id = "RT_SEND_TO_SOCKET" => ReplySale(ev.tag, n)
  /\ ev.id = "RT_START_P2P_CONNECT" =>
       ev.tag.code = "BUY" /\ ev.tag.vendedor \in Node
  /\ ev.id = "RT_SEND_TO_P2P_SOCKET" => ev.tag.code \in {"BUY_OK", "BUY_ERR"}

(* RutasCorrectas: a LOOKUP, wherever it is, has used as many of its hops  *)
(* as nodes have added themselves to it, along connections that exist; and *)
(* a REPLY goes back over those same connections: every node it comes to   *)
(* is the last of its list (so "No deberia llegar aqui" of on_receive_     *)
(* replay is not reached), and the node it must go to next is always one   *)
(* the Router has a socket for (so nodo_socket_servidor_map[] never makes  *)
(* up socket 0), and the seller a BUY is for is never an empty name (so    *)
(* try_connection never ends the process).                                 *)
RutasCorrectas ==
  /\ \A n \in Node :
       /\ \A i \in 1..Len(logicEvents[n]) : LogicEventOK(n, logicEvents[n][i])
       /\ \A i \in 1..Len(routerEvents[n]) : RouterEventOK(n, routerEvents[n][i])
  /\ \A p \in BagToSet(red) : MensajeLlega(p.tag, p.dst)

-----------------------------------------------------------------------------
(* Everything that some queue or the transport holds, as events with the   *)
(* place where they are.                                                   *)
Pendientes ==
  (UNION {{[en |-> <<n, "Logic", i>>, ev |-> logicEvents[n][i]] :
             i \in 1..Len(logicEvents[n])} : n \in Node})
  \cup
  (UNION {{[en |-> <<n, "Router", i>>, ev |-> routerEvents[n][i]] :
             i \in 1..Len(routerEvents[n])} : n \in Node})
  \cup
  (UNION {{[en |-> <<p.dst, "red", i>>, ev |-> [id |-> "red", tag |-> p.tag]] :
             i \in 1..red[p]} : p \in BagToSet(red)})

ConMensaje == {x \in Pendientes : x.ev.id \in MensajeId \cup RouterId \cup {"red"}}

(* PedidoConocido: a LOOKUP or a REPLY, wherever it is, carries the time   *)
(* of a purchase that the first of its nodes has in mapaPedidos; so the    *)
(* test of on_receive_replay never reads an entry it has just made up.     *)
PedidoConocido ==
  \A x \in ConMensaje :
    LET m == x.ev.tag
    IN  m.code \in {"LOOKUP", "REPLY"} =>
          m.ts \in DOMAIN mapaPedidos[get_creator_node_name(m)]

(* The steps of the negotiation of purchase ts: from the DO_BUY that its   *)
(* first REPLY causes to the answer of the seller.                         *)
Trato(ts) ==
  {x \in ConMensaje : /\ x.ev.tag.ts = ts
                     /\ \/ x.ev.id = "DO_BUY"
                        \/ x.ev.tag.code \in {"BUY", "BUY_OK", "BUY_ERR"}}

(* NegociaUnaVez: however many sellers answer a LOOKUP, in whatever order  *)
(* and however late, its purchase is negotiated with one of them at a time *)
(* and only after a REPLY has been taken for it.                           *)
NegociaUnaVez ==
  \A ts \in 0..(reloj - 1) :
    /\ \A x, y \in Trato(ts) : x = y
    /\ Trato(ts) # {} => \E n \in Node : estadoPedido(n, ts) = "REPLY_RECIBIDO"

(* NadieRegala: a node has never less than no units of a product, however  *)
(* long ago the stock was compared with what a LOOKUP asked for.           *)
NadieRegala ==
  \A n \in Node : \A p \in DOMAIN mapa_stock[n] : mapa_stock[n][p] >= 0

(* SinEco: no LOOKUP is on its way to the node that created it.            *)
SinEco ==
  \A p \in BagToSet(red) :
    p.tag.code = "LOOKUP" => p.dst # get_creator_node_name(p.tag)

-----------------------------------------------------------------------------
(* What a message says of a purchase.                                      *)
Ficha(m) == [ts |-> m.ts, producto |-> m.producto, cantidad |-> m.cantidad]

(* The purchases for which a REPLY was taken.                              *)
Acordadas ==
  UNION {{ts \in DOMAIN mapaPedidos[n] : mapaPedidos[n][ts] = "REPLY_RECIBIDO"} :
           n \in Node}

(* Those of them that on_receive_buy has not answered: from the DO_BUY to  *)
(* the BUY that comes to the seller.                                       *)
Acuerdo ==
  {x \in ConMensaje :
     \/ x.ev.id = "DO_BUY"
     \/ /\ x.ev.tag.code = "BUY"
        /\ x.ev.id \notin {"DO_BUY_REPLY_OK", "DO_BUY_REPLY_ERR"}}

(* The goods on their way: debited by on_receive_buy, and in a BUY_OK that *)
(* is being made, sent or received.                                        *)
Abono ==
  {x \in ConMensaje : \/ x.ev.id = "DO_BUY_REPLY_OK"
                     \/ /\ x.ev.tag.code = "BUY_OK"
                        /\ x.ev.id # "RT_CLOSE_P2P_CONNECT"}

Tratos == {Ficha(x.ev.tag) : x \in Acuerdo}

EnCamino == {Ficha(x.ev.tag) : x \in Abono}

T == INSTANCE Trueque WITH
       stock <- mapa_stock, acordadas <- Acordadas,
       tratos <- Tratos, enCamino <- EnCamino

(* CumpleTrueque: the nodes exchange goods as Trueque allows: a purchase   *)
(* is agreed on once and debited once at most, every credit comes from one *)
(* debit of the same purchase, and no unit is made.                        *)
CumpleTrueque == T!Spec

(* CreditoCabe: a BUY_OK, to whichever node it comes, credits a sum that   *)
(* is an int: the units of a purchase are credited once, so a stock grows  *)
(* by no more than the users have ordered.                                 *)
CreditoCabe ==
  \A x \in Abono : \A n \in Node :
    LET m == x.ev.tag
    IN  m.producto \in DOMAIN mapa_stock[n] =>
          mapa_stock[n][m.producto] + m.cantidad <= MaxInt

-----------------------------------------------------------------------------
(* InundacionTermina: a LOOKUP or its REPLYs do not go round for ever: the *)
(* messages of every purchase are all handled in the end.                  *)
Activo(ts) == \E x \in ConMensaje : x.ev.tag.ts = ts

InundacionTermina ==
  \A ts \in 0..(MaxOrdenes - 1) : Activo(ts) ~> ~Activo(ts)

(* PedidoRespondido: where nothing is lost and no stock changes meanwhile, *)
(* if a neighbour of the buyer sells what its LOOKUP asks for, the buyer   *)
(* takes some REPLY and negotiates the purchase.                           *)
HayVendedor(n) == \E v \in Node : EsVecino(n, v) /\ vendo[v] = compro[n]

PedidoRespondido ==
  \A n \in Node, ts \in 0..(MaxOrdenes - 1) :
    (ts \in DOMAIN mapaPedidos[n] /\ HayVendedor(n))
      ~> estadoPedido(n, ts) = "REPLY_RECIBIDO"
=============================================================================
