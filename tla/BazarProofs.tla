---------------------------- MODULE BazarProofs ----------------------------
(***************************************************************************)
(* Theorems about Bazar, for any nodes, neighbours, hopcount, products and *)
(* orders of the users, and with or without losses.                        *)
(***************************************************************************)
EXTENDS Bazar, TLAPS

-----------------------------------------------------------------------------
(* Queues: what is in a queue after its head is taken, after an event is   *)
(* put at its end, and after both.                                         *)

LEMMA ColaTail ==
  ASSUME NEW S, NEW q \in Seq(S), q # <<>>
  PROVE  /\ Head(q) \in S
         /\ Tail(q) \in Seq(S)
         /\ \A i \in 1..Len(Tail(q)) : \E j \in 1..Len(q) : Tail(q)[i] = q[j]
         /\ 1 \in 1..Len(q) /\ Head(q) = q[1]
  OBVIOUS

LEMMA ColaAppend ==
  ASSUME NEW S, NEW q \in Seq(S), NEW e \in S
  PROVE  /\ Append(q, e) \in Seq(S)
         /\ \A i \in 1..Len(Append(q, e)) :
              \/ Append(q, e)[i] = e
              \/ \E j \in 1..Len(q) : Append(q, e)[i] = q[j]
  OBVIOUS

LEMMA ColaSigue ==
  ASSUME NEW S, NEW q \in Seq(S), q # <<>>, NEW e \in S
  PROVE  /\ Append(Tail(q), e) \in Seq(S)
         /\ \A i \in 1..Len(Append(Tail(q), e)) :
              \/ Append(Tail(q), e)[i] = e
              \/ \E j \in 1..Len(q) : Append(Tail(q), e)[i] = q[j]
<1>1. Tail(q) \in Seq(S)
  BY ColaTail
<1>2. /\ Append(Tail(q), e) \in Seq(S)
      /\ \A i \in 1..Len(Append(Tail(q), e)) :
           \/ Append(Tail(q), e)[i] = e
           \/ \E j \in 1..Len(Tail(q)) : Append(Tail(q), e)[i] = Tail(q)[j]
  BY <1>1, ColaAppend
<1> QED
  BY <1>2, ColaTail

(* Bags: one more copy, and one copy less.                                 *)

LEMMA BagAddLemma ==
  ASSUME NEW B, IsABag(B), NEW x
  PROVE  IsABag(BagAdd(B, x)) /\ BagToSet(BagAdd(B, x)) = BagToSet(B) \cup {x}
  BY DEF IsABag, BagAdd, BagToSet

LEMMA BagRemoveLemma ==
  ASSUME NEW B, IsABag(B), NEW x
  PROVE  /\ IsABag(BagRemove(B, x))
         /\ BagToSet(BagRemove(B, x)) \subseteq BagToSet(B)
  BY DEF IsABag, BagRemove, BagToSet
-----------------------------------------------------------------------------
(* Messages: what the builders and Load return.                            *)

LEMMA LoadLemma ==
  ASSUME NEW m \in Mensaje, NEW r \in Load(m)
  PROVE  /\ r \in Mensaje
         /\ r.code = m.code /\ r.nodos = m.nodos /\ r.vendedor = m.vendedor
         /\ m.hopcount >= 0 => r.hopcount = m.hopcount
<1>1. PICK c \in Leido(m.cantidad), h \in Leido(m.hopcount) :
        r = Lectura(m, c, h)
  BY DEF Load
<1>2. /\ c \in Int /\ h \in Int
      /\ m.hopcount >= 0 => h = m.hopcount
  BY DEF Leido, Mensaje
<1> QED
  BY <1>1, <1>2 DEF Mensaje, Lectura

LEMMA BuildersTyped ==
  ASSUME NEW m \in Mensaje, NEW n \in Node
  PROVE  /\ build_reply_msg(m, n) \in Mensaje
         /\ build_buy_msg(m) \in Mensaje
         /\ build_buy_reply_ok_msg(m) \in Mensaje
         /\ build_buy_reply_err_msg(m) \in Mensaje
         /\ add_nodo(m, n) \in Mensaje
         /\ less_hopcount(m) \in Mensaje
         /\ Len(m.nodos) > 1 => less_nodo(m) \in Mensaje
<1>1. <<>> \in Seq(Node) /\ -1 \in Int
  OBVIOUS
<1>2. Append(m.nodos, n) \in Seq(Node)
  BY DEF Mensaje
<1>3. ASSUME Len(m.nodos) > 1
      PROVE  SubSeq(m.nodos, 1, Len(m.nodos) - 1) \in Seq(Node)
  BY <1>3 DEF Mensaje
<1>4. build_reply_msg(m, n) \in Mensaje
  BY <1>1 DEF Mensaje, Codigo, build_reply_msg
<1>5. build_buy_msg(m) \in Mensaje
  BY <1>1 DEF Mensaje, Codigo, build_buy_msg
<1>6. build_buy_reply_ok_msg(m) \in Mensaje
  BY <1>1 DEF Mensaje, Codigo, build_buy_reply_ok_msg
<1>7. build_buy_reply_err_msg(m) \in Mensaje
  BY <1>1 DEF Mensaje, Codigo, build_buy_reply_err_msg
<1>8. add_nodo(m, n) \in Mensaje
  BY <1>2 DEF Mensaje, add_nodo
<1>9. less_hopcount(m) \in Mensaje
  BY DEF Mensaje, less_hopcount
<1>10. Len(m.nodos) > 1 => less_nodo(m) \in Mensaje
  BY <1>3 DEF Mensaje, less_nodo
<1> QED
  BY <1>4, <1>5, <1>6, <1>7, <1>8, <1>9, <1>10

(* A LOOKUP that leaves its creator, and one that is passed on.            *)

LEMMA LookupNuevo ==
  ASSUME NEW p \in Nombre, NEW c \in Int, NEW t \in Nat, NEW n \in Node
  PROVE  LET m == add_nodo(build_look_up_msg(p, c, t), n)
         IN  m \in Mensaje /\ LookupSale(m, n)
<1> DEFINE m == add_nodo(build_look_up_msg(p, c, t), n)
<1> DEFINE b == build_look_up_msg(p, c, t)
<1>1. b \in Mensaje /\ b.nodos = <<>> /\ b.code = "LOOKUP" /\ b.hopcount = Hopcount
  <2>1. <<>> \in Seq(Node) /\ Hopcount \in Int
    BY MensajesAssumption
  <2> QED
    BY <2>1 DEF build_look_up_msg, Mensaje, Codigo
<1> HIDE DEF b
<1>2. /\ m.nodos = Append(b.nodos, n) /\ m.code = b.code
      /\ m.hopcount = b.hopcount /\ m \in Mensaje
  <2>1. b \in Mensaje => add_nodo(b, n) \in Mensaje
    BY BuildersTyped
  <2> QED
    BY <1>1, <2>1 DEF b, add_nodo, Mensaje
<1>3. m.nodos = <<n>>
  BY <1>1, <1>2
<1> HIDE DEF m
<1>4. LookupSale(m, n)
  BY <1>1, <1>2, <1>3, MensajesAssumption DEF LookupSale, Camino
<1> QED
  BY <1>2, <1>4 DEF m

LEMMA LookupSigue ==
  ASSUME NEW m \in Mensaje, NEW n \in Node, m.code = "LOOKUP",
         LookupLlega(m, n), m.hopcount > 0
  PROVE  LET r == add_nodo(less_hopcount(m), n)
         IN  r \in Mensaje /\ LookupSale(r, n)
<1> DEFINE r == add_nodo(less_hopcount(m), n)
<1>1. /\ r \in Mensaje /\ r.code = "LOOKUP"
      /\ r.hopcount = m.hopcount - 1 /\ r.nodos = Append(m.nodos, n)
  <2>1. less_hopcount(m) \in Mensaje
    BY BuildersTyped
  <2>2. /\ less_hopcount(m).nodos = m.nodos /\ less_hopcount(m).code = "LOOKUP"
        /\ less_hopcount(m).hopcount = m.hopcount - 1
    BY DEF less_hopcount, Mensaje
  <2>3. r \in Mensaje
    BY <2>1, BuildersTyped
  <2> QED
    BY <2>1, <2>2, <2>3 DEF add_nodo, Mensaje
<1> HIDE DEF r
<1>2. m.nodos \in Seq(Node) /\ m.hopcount \in Int
  BY DEF Mensaje
<1>3. /\ Len(r.nodos) = Len(m.nodos) + 1
      /\ r.nodos[Len(r.nodos)] = n
  BY <1>1, <1>2
<1>4. LookupSale(r, n)
  BY <1>1, <1>2, <1>3, MensajesAssumption DEF LookupSale, LookupLlega
<1> QED
  BY <1>1, <1>4 DEF r

(* What a neighbour of the sender gets of a LOOKUP.                        *)

LEMMA LookupViaja ==
  ASSUME NEW m \in Mensaje, NEW n \in Node, NEW d \in Node,
         LookupSale(m, n), EsVecino(n, d)
  PROVE  MensajeLlega(m, d)
<1>1. m.nodos \in Seq(Node) /\ m.hopcount \in Int
  BY DEF Mensaje
<1>2. Camino(Append(m.nodos, d))
  BY <1>1 DEF LookupSale, Camino
<1> QED
  BY <1>2 DEF MensajeLlega, LookupSale, LookupLlega

(* A REPLY that its seller sends, one that is passed on, and what the next *)
(* node of its list gets.                                                  *)

LEMMA ReplyNuevo ==
  ASSUME NEW m \in Mensaje, NEW n \in Node, LookupLlega(m, n)
  PROVE  ReplySale(build_reply_msg(m, n), n)
<1>1. m.nodos \in Seq(Node) /\ m.hopcount \in Int
  BY DEF Mensaje
<1>2. Len(m.nodos) \in 1..(Hopcount + 1)
  BY <1>1, MensajesAssumption DEF LookupLlega
<1> DEFINE r == build_reply_msg(m, n)
<1>3. r.code = "REPLY" /\ r.vendedor = n /\ r.nodos = m.nodos
  BY DEF build_reply_msg, Mensaje
<1> HIDE DEF r
<1>4. ReplySale(r, n)
  BY <1>2, <1>3 DEF LookupLlega, ReplySale
<1> QED
  BY <1>4 DEF r

LEMMA ReplySigue ==
  ASSUME NEW m \in Mensaje, NEW n \in Node, m.code = "REPLY",
         ReplyLlega(m, n), Len(m.nodos) > 1
  PROVE  ReplySale(less_nodo(m), n)
<1> DEFINE r == less_nodo(m)
<1>1. /\ r.nodos = SubSeq(m.nodos, 1, Len(m.nodos) - 1)
      /\ r.code = "REPLY" /\ r.vendedor = m.vendedor
  BY DEF less_nodo, Mensaje
<1> HIDE DEF r
<1>2. m.nodos \in Seq(Node) /\ m.nodos[Len(m.nodos)] = n
  BY DEF Mensaje, ReplyLlega
<1>3. /\ Len(r.nodos) = Len(m.nodos) - 1
      /\ Append(r.nodos, n) = m.nodos
  BY <1>1, <1>2
<1>4. Len(r.nodos) \in 1..(Hopcount + 1)
  BY <1>2, <1>3, MensajesAssumption DEF ReplyLlega
<1>5. ReplySale(r, n)
  BY <1>1, <1>3, <1>4 DEF ReplySale, ReplyLlega
<1> QED
  BY <1>5 DEF r

LEMMA ReplyViaja ==
  ASSUME NEW m \in Mensaje, NEW n \in Node, ReplySale(m, n)
  PROVE  MensajeLlega(m, get_next_node_name(m))
<1>1. m.nodos \in Seq(Node) /\ Len(m.nodos) >= 1
  BY DEF Mensaje, ReplySale
<1>2. get_next_node_name(m) = m.nodos[Len(m.nodos)]
  BY <1>1 DEF get_next_node_name
<1>3. Camino(m.nodos)
  BY <1>1 DEF ReplySale, Camino
<1> QED
  BY <1>1, <1>2, <1>3 DEF MensajeLlega, ReplySale, ReplyLlega
-----------------------------------------------------------------------------
(* The queues of all the nodes.  ColasLogic and ColasRouter say of them    *)
(* what TypeOK and RutasCorrectas say of logicEvents and routerEvents.     *)

ColasLogic(f) ==
  /\ f \in [Node -> Seq(LogicEvent)]
  /\ \A n \in Node : \A i \in 1..Len(f[n]) : LogicEventOK(n, f[n][i])

ColasRouter(f) ==
  /\ f \in [Node -> Seq(RouterEvent)]
  /\ \A n \in Node : \A i \in 1..Len(f[n]) : RouterEventOK(n, f[n][i])

RedOK(b) ==
  /\ IsABag(b)
  /\ BagToSet(b) \subseteq Paquete
  /\ \A p \in BagToSet(b) : MensajeLlega(p.tag, p.dst)

LEMMA LogicTail ==
  ASSUME NEW f, ColasLogic(f), NEW n \in Node, f[n] # <<>>
  PROVE  /\ Head(f[n]) \in LogicEvent
         /\ LogicEventOK(n, Head(f[n]))
         /\ ColasLogic([f EXCEPT ![n] = Tail(@)])
  BY ColaTail DEF ColasLogic

LEMMA LogicSigue ==
  ASSUME NEW f, ColasLogic(f), NEW n \in Node, f[n] # <<>>,
         NEW e \in LogicEvent, LogicEventOK(n, e)
  PROVE  ColasLogic([f EXCEPT ![n] = Append(Tail(@), e)])
  BY ColaSigue DEF ColasLogic

LEMMA LogicAppend ==
  ASSUME NEW f, ColasLogic(f), NEW n \in Node,
         NEW e \in LogicEvent, LogicEventOK(n, e)
  PROVE  ColasLogic([f EXCEPT ![n] = Append(@, e)])
  BY ColaAppend DEF ColasLogic

LEMMA RouterTail ==
  ASSUME NEW f, ColasRouter(f), NEW n \in Node, f[n] # <<>>
  PROVE  /\ Head(f[n]) \in RouterEvent
         /\ RouterEventOK(n, Head(f[n]))
         /\ ColasRouter([f EXCEPT ![n] = Tail(@)])
  BY ColaTail DEF ColasRouter

LEMMA RouterAppend ==
  ASSUME NEW f, ColasRouter(f), NEW n \in Node,
         NEW e \in RouterEvent, RouterEventOK(n, e)
  PROVE  ColasRouter([f EXCEPT ![n] = Append(@, e)])
  BY ColaAppend DEF ColasRouter

LEMMA RedEnvia ==
  ASSUME NEW b, RedOK(b), NEW d \in Node \cup {Nadie}, NEW m \in Mensaje,
         d # Nadie => MensajeLlega(m, d)
  PROVE  RedOK(Envia(b, d, m))
<1>1. CASE d = Nadie
  BY <1>1 DEF Envia
<1>2. CASE d # Nadie
  <2> DEFINE p == [dst |-> d, tag |-> m]
  <2>1. p \in Paquete /\ p.dst = d /\ p.tag = m
    BY <1>2 DEF Paquete
  <2> HIDE DEF p
  <2>2. RedOK(BagAdd(b, p))
    BY <1>2, <2>1, BagAddLemma DEF RedOK
  <2> QED
    BY <1>2, <2>2 DEF Envia, p
<1> QED
  BY <1>1, <1>2

LEMMA RedQuita ==
  ASSUME NEW b, RedOK(b), NEW p
  PROVE  RedOK(BagRemove(b, p))
  BY BagRemoveLemma DEF RedOK
-----------------------------------------------------------------------------
(* The maps of Logic and Stock.                                            *)

StockOK(f) ==
  /\ DOMAIN f = Node
  /\ \A n \in Node : /\ f[n] \in [DOMAIN f[n] -> Int]
                     /\ Producto \subseteq DOMAIN f[n]
                     /\ DOMAIN f[n] \subseteq Nombre

PedidosOK(f) ==
  /\ DOMAIN f = Node
  /\ \A n \in Node : /\ f[n] \in [DOMAIN f[n] -> EstadoPedido]
                     /\ DOMAIN f[n] \subseteq Nat

LEMMA PonLemma ==
  ASSUME NEW S, NEW f, f \in [DOMAIN f -> S], NEW k, NEW v \in S
  PROVE  /\ DOMAIN Pon(f, k, v) = DOMAIN f \cup {k}
         /\ Pon(f, k, v) \in [DOMAIN Pon(f, k, v) -> S]
  BY DEF Pon

LEMMA StockPon ==
  ASSUME NEW f, StockOK(f), NEW n \in Node, NEW p \in Nombre, NEW c \in Int
  PROVE  StockOK([f EXCEPT ![n] = Pon(@, p, c)])
<1>1. f[n] \in [DOMAIN f[n] -> Int]
  BY DEF StockOK
<1>2. /\ DOMAIN Pon(f[n], p, c) = DOMAIN f[n] \cup {p}
      /\ Pon(f[n], p, c) \in [DOMAIN Pon(f[n], p, c) -> Int]
  BY <1>1, PonLemma
<1> QED
  BY <1>2 DEF StockOK

LEMMA PedidosPon ==
  ASSUME NEW f, PedidosOK(f), NEW n \in Node, NEW t \in Nat,
         NEW e \in EstadoPedido
  PROVE  PedidosOK([f EXCEPT ![n] = Pon(@, t, e)])
<1>1. f[n] \in [DOMAIN f[n] -> EstadoPedido]
  BY DEF PedidosOK
<1>2. /\ DOMAIN Pon(f[n], t, e) = DOMAIN f[n] \cup {t}
      /\ Pon(f[n], t, e) \in [DOMAIN Pon(f[n], t, e) -> EstadoPedido]
  BY <1>1, PonLemma
<1> QED
  BY <1>2 DEF PedidosOK

LEMMA EnteroLemma ==
  ASSUME NEW x \in Int
  PROVE  Entero(x) \in Int
<1>1. 2 * MaxInt + 2 \in Nat /\ 2 * MaxInt + 2 > 0 /\ x + MaxInt + 1 \in Int
  BY LogicAssumption
<1>2. (x + MaxInt + 1) % (2 * MaxInt + 2) \in Int
  BY <1>1
<1> QED
  BY <1>2, LogicAssumption DEF Entero

(* The inductive invariant: TypeOK and RutasCorrectas are its parts.       *)

Inv ==
  /\ ColasLogic(logicEvents)
  /\ ColasRouter(routerEvents)
  /\ RedOK(red)
  /\ StockOK(mapa_stock)
  /\ PedidosOK(mapaPedidos)
  /\ compro \in [Node -> Nombre]
  /\ vendo \in [Node -> Nombre]
  /\ reloj \in Nat
  /\ ordenes \in Nat

LEMMA InvPartes == Inv <=> TypeOK /\ RutasCorrectas
  BY DEF Inv, TypeOK, RutasCorrectas, ColasLogic, ColasRouter, RedOK, StockOK,
         PedidosOK

LEMMA InvInit == Init => Inv
<1> SUFFICES ASSUME Init PROVE Inv
  OBVIOUS
<1>1. ColasLogic(logicEvents) /\ ColasRouter(routerEvents)
  BY DEF Init, LogicInit, ColasLogic, ColasRouter
<1>2. RedOK(red)
  BY DEF Init, RedOK, IsABag, BagToSet, EmptyBag, SetToBag
<1>3. StockOK(mapa_stock)
  BY MensajesAssumption, LogicAssumption DEF Init, LogicInit, StockOK
<1>4. PedidosOK(mapaPedidos)
  BY DEF Init, LogicInit, PedidosOK
<1>5. compro \in [Node -> Nombre] /\ vendo \in [Node -> Nombre]
  BY LogicAssumption DEF Init, LogicInit
<1> QED
  BY <1>1, <1>2, <1>3, <1>4, <1>5 DEF Init, LogicInit, Inv

-----------------------------------------------------------------------------
(* The handlers of Logic.                                                  *)

(* What the event at the head of the queue of n is when n handles it.      *)
LEMMA Atendido ==
  ASSUME Inv, NEW n \in Node, NEW id, Atiende(n, id)
  PROVE  /\ logicEvents[n] # <<>>
         /\ Head(logicEvents[n]).id = id
         /\ Head(logicEvents[n]) \in LogicEvent
         /\ LogicEventOK(n, Head(logicEvents[n]))
         /\ id \in MensajeId => Head(logicEvents[n]).tag \in Mensaje
         /\ id = "DO_LOOKUP" => Head(logicEvents[n]).cantidad \in Int
         /\ id = "SET_STOCK" => /\ Head(logicEvents[n]).producto \in Producto
                                /\ Head(logicEvents[n]).cantidad \in Int
         /\ id \in {"SET_CUR_PROD_COMPRA", "SET_CUR_PROD_VENTA"} =>
              Head(logicEvents[n]).producto \in Producto
<1>1. /\ logicEvents[n] # <<>> /\ Head(logicEvents[n]).id = id
      /\ Head(logicEvents[n]) \in LogicEvent
      /\ LogicEventOK(n, Head(logicEvents[n]))
  BY LogicTail DEF Atiende, Inv
<1> DEFINE ev == Head(logicEvents[n])
<1>2. /\ ev \in LogicEvent /\ ev.id = id
  BY <1>1
<1> HIDE DEF ev
<1>3. /\ id \in MensajeId => ev.tag \in Mensaje
      /\ id = "DO_LOOKUP" => ev.cantidad \in Int
      /\ id = "SET_STOCK" => ev.producto \in Producto /\ ev.cantidad \in Int
      /\ id \in {"SET_CUR_PROD_COMPRA", "SET_CUR_PROD_VENTA"} =>
           ev.producto \in Producto
  BY <1>2 DEF LogicEvent, MensajeId
<1> QED
  BY <1>1, <1>3 DEF ev

LEMMA HechoLemma ==
  ASSUME Inv, NEW n \in Node, logicEvents[n] # <<>>, Hecho(n)
  PROVE  ColasLogic(logicEvents')
  BY LogicTail DEF Inv, Hecho

LEMMA HechoYPosteaLemma ==
  ASSUME Inv, NEW n \in Node, logicEvents[n] # <<>>,
         NEW id \in MensajeId, NEW m \in Mensaje,
         LogicEventOK(n, [id |-> id, tag |-> m]), HechoYPostea(n, id, m)
  PROVE  ColasLogic(logicEvents')
<1>1. [id |-> id, tag |-> m] \in LogicEvent
  BY DEF LogicEvent
<1> QED
  BY <1>1, LogicSigue DEF Inv, HechoYPostea

LEMMA PosteaRouterLemma ==
  ASSUME Inv, NEW n \in Node, NEW id \in RouterId, NEW m \in Mensaje,
         RouterEventOK(n, [id |-> id, tag |-> m]), PosteaRouter(n, id, m)
  PROVE  ColasRouter(routerEvents')
<1>1. [id |-> id, tag |-> m] \in RouterEvent
  BY DEF RouterEvent
<1> QED
  BY <1>1, RouterAppend DEF Inv, PosteaRouter

(* The orders of the keyboard.                                             *)

LEMMA OrdenesPreservan ==
  ASSUME Inv, NEW n \in Node, UNCHANGED <<red, ordenes>>,
         \/ set_stock_product(n)
         \/ set_cur_prod_compra(n)
         \/ set_cur_prod_venta(n)
         \/ on_send_look_up(n)
  PROVE  Inv'
<1> DEFINE ev == Head(logicEvents[n])
<1>1. CASE set_stock_product(n)
  <2>1. logicEvents[n] # <<>> /\ ev.producto \in Producto /\ ev.cantidad \in Int
    BY <1>1, Atendido DEF set_stock_product
  <2>2. ColasLogic(logicEvents')
    BY <1>1, <2>1, HechoLemma DEF set_stock_product
  <2>3. StockOK(mapa_stock')
    BY <1>1, <2>1, StockPon, MensajesAssumption
    DEF set_stock_product, set_stock, Inv
  <2> QED
    BY <1>1, <2>2, <2>3 DEF Inv, set_stock_product
<1>2. CASE set_cur_prod_compra(n)
  <2>1. logicEvents[n] # <<>> /\ ev.producto \in Nombre
    BY <1>2, Atendido, MensajesAssumption DEF set_cur_prod_compra
  <2>2. ColasLogic(logicEvents')
    BY <1>2, <2>1, HechoLemma DEF set_cur_prod_compra
  <2>3. compro' \in [Node -> Nombre]
    BY <1>2, <2>1 DEF set_cur_prod_compra, Inv
  <2> QED
    BY <1>2, <2>2, <2>3 DEF Inv, set_cur_prod_compra
<1>3. CASE set_cur_prod_venta(n)
  <2>1. logicEvents[n] # <<>> /\ ev.producto \in Nombre
    BY <1>3, Atendido, MensajesAssumption DEF set_cur_prod_venta
  <2>2. ColasLogic(logicEvents')
    BY <1>3, <2>1, HechoLemma DEF set_cur_prod_venta
  <2>3. vendo' \in [Node -> Nombre]
    BY <1>3, <2>1 DEF set_cur_prod_venta, Inv
  <2> QED
    BY <1>3, <2>2, <2>3 DEF Inv, set_cur_prod_venta
<1>4. CASE on_send_look_up(n)
  <2> DEFINE m == add_nodo(build_look_up_msg(compro[n], ev.cantidad, reloj), n)
  <2>1. logicEvents[n] # <<>> /\ ev.cantidad \in Int
    BY <1>4, Atendido DEF on_send_look_up
  <2>2. m \in Mensaje /\ LookupSale(m, n)
    BY <2>1, LookupNuevo DEF Inv
  <2>3. PosteaRouter(n, "RT_FIRST_BROADCAST", m)
    BY <1>4 DEF on_send_look_up
  <2> HIDE DEF m
  <2>4. ColasRouter(routerEvents')
    BY <2>2, <2>3, PosteaRouterLemma DEF RouterEventOK, RouterId
  <2>5. ColasLogic(logicEvents')
    BY <1>4, <2>1, HechoLemma DEF on_send_look_up
  <2>6. PedidosOK(mapaPedidos')
    BY <1>4, PedidosPon DEF on_send_look_up, setEstadoPedido, Inv, EstadoPedido
  <2> QED
    BY <1>4, <2>4, <2>5, <2>6 DEF Inv, on_send_look_up
<1> QED
  BY <1>1, <1>2, <1>3, <1>4

(* The handlers that pass a message to the Router.                         *)

LEMMA EnviosPreservan ==
  ASSUME Inv, NEW n \in Node, UNCHANGED <<red, ordenes>>,
         \/ on_send_look_up_forward(n)
         \/ on_send_replay(n)
         \/ on_send_replay_forward(n)
         \/ on_send_buy(n)
         \/ on_send_buy_reply_ok(n)
         \/ on_send_buy_reply_err(n)
  PROVE  Inv'
<1> DEFINE m == Head(logicEvents[n]).tag
<1> SUFFICES ColasLogic(logicEvents') /\ ColasRouter(routerEvents')
  BY DEF Inv, on_send_look_up_forward, on_send_replay, on_send_replay_forward,
         on_send_buy, on_send_buy_reply_ok, on_send_buy_reply_err
<1>1. CASE on_send_look_up_forward(n)
  <2>1. /\ logicEvents[n] # <<>> /\ m \in Mensaje
        /\ m.code = "LOOKUP" /\ LookupLlega(m, n)
    BY <1>1, Atendido DEF on_send_look_up_forward, LogicEventOK, MensajeId
  <2>2. ColasLogic(logicEvents')
    BY <1>1, <2>1, HechoLemma DEF on_send_look_up_forward
  <2>3. CASE m.hopcount > 0
    <3> DEFINE r == add_nodo(less_hopcount(m), n)
    <3>1. r \in Mensaje /\ LookupSale(r, n)
      BY <2>1, <2>3, LookupSigue
    <3>2. PosteaRouter(n, "RT_BROADCAST", r)
      BY <1>1, <2>3 DEF on_send_look_up_forward
    <3> HIDE DEF r
    <3>3. ColasRouter(routerEvents')
      BY <3>1, <3>2, PosteaRouterLemma DEF RouterEventOK, RouterId
    <3> QED
      BY <2>2, <3>3
  <2>4. CASE ~(m.hopcount > 0)
    BY <1>1, <2>2, <2>4 DEF on_send_look_up_forward, Inv
  <2> QED
    BY <2>3, <2>4
<1>2. CASE on_send_replay(n)
  <2> DEFINE r == build_reply_msg(m, n)
  <2>1. logicEvents[n] # <<>> /\ m \in Mensaje /\ LookupLlega(m, n)
    BY <1>2, Atendido DEF on_send_replay, LogicEventOK, MensajeId
  <2>2. ColasLogic(logicEvents')
    BY <1>2, <2>1, HechoLemma DEF on_send_replay
  <2>3. r \in Mensaje /\ ReplySale(r, n)
    BY <2>1, BuildersTyped, ReplyNuevo
  <2>4. PosteaRouter(n, "RT_SEND_TO_SOCKET", r)
    BY <1>2 DEF on_send_replay
  <2> HIDE DEF r
  <2>5. ColasRouter(routerEvents')
    BY <2>3, <2>4, PosteaRouterLemma DEF RouterEventOK, RouterId
  <2> QED
    BY <2>2, <2>5
<1>3. CASE on_send_replay_forward(n)
  <2> DEFINE r == less_nodo(m)
  <2>1. /\ logicEvents[n] # <<>> /\ m \in Mensaje /\ m.code = "REPLY"
        /\ ReplyLlega(m, n) /\ Len(m.nodos) > 1
    BY <1>3, Atendido DEF on_send_replay_forward, LogicEventOK, MensajeId
  <2>2. ColasLogic(logicEvents')
    BY <1>3, <2>1, HechoLemma DEF on_send_replay_forward
  <2>3. r \in Mensaje /\ ReplySale(r, n)
    BY <2>1, BuildersTyped, ReplySigue
  <2>4. PosteaRouter(n, "RT_SEND_TO_SOCKET", r)
    BY <1>3 DEF on_send_replay_forward
  <2> HIDE DEF r
  <2>5. ColasRouter(routerEvents')
    BY <2>3, <2>4, PosteaRouterLemma DEF RouterEventOK, RouterId
  <2> QED
    BY <2>2, <2>5
<1>4. CASE on_send_buy(n)
  <2> DEFINE r == build_buy_msg(m)
  <2>1. logicEvents[n] # <<>> /\ m \in Mensaje /\ m.vendedor \in Node
    BY <1>4, Atendido DEF on_send_buy, LogicEventOK, MensajeId
  <2>2. ColasLogic(logicEvents')
    BY <1>4, <2>1, HechoLemma DEF on_send_buy
  <2>3. r \in Mensaje /\ r.code = "BUY" /\ r.vendedor \in Node
    BY <2>1, BuildersTyped DEF build_buy_msg, Mensaje
  <2>4. PosteaRouter(n, "RT_START_P2P_CONNECT", r)
    BY <1>4 DEF on_send_buy
  <2> HIDE DEF r
  <2>5. ColasRouter(routerEvents')
    BY <2>3, <2>4, PosteaRouterLemma DEF RouterEventOK, RouterId
  <2> QED
    BY <2>2, <2>5
<1>5. CASE on_send_buy_reply_ok(n)
  <2> DEFINE r == build_buy_reply_ok_msg(m)
  <2>1. logicEvents[n] # <<>> /\ m \in Mensaje
    BY <1>5, Atendido DEF on_send_buy_reply_ok, MensajeId
  <2>2. ColasLogic(logicEvents')
    BY <1>5, <2>1, HechoLemma DEF on_send_buy_reply_ok
  <2>3. r \in Mensaje /\ r.code = "BUY_OK"
    BY <2>1, BuildersTyped DEF build_buy_reply_ok_msg, Mensaje
  <2>4. PosteaRouter(n, "RT_SEND_TO_P2P_SOCKET", r)
    BY <1>5 DEF on_send_buy_reply_ok
  <2> HIDE DEF r
  <2>5. ColasRouter(routerEvents')
    BY <2>3, <2>4, PosteaRouterLemma DEF RouterEventOK, RouterId
  <2> QED
    BY <2>2, <2>5
<1>6. CASE on_send_buy_reply_err(n)
  <2> DEFINE r == build_buy_reply_err_msg(m)
  <2>1. logicEvents[n] # <<>> /\ m \in Mensaje
    BY <1>6, Atendido DEF on_send_buy_reply_err, MensajeId
  <2>2. ColasLogic(logicEvents')
    BY <1>6, <2>1, HechoLemma DEF on_send_buy_reply_err
  <2>3. r \in Mensaje /\ r.code = "BUY_ERR"
    BY <2>1, BuildersTyped DEF build_buy_reply_err_msg, Mensaje
  <2>4. PosteaRouter(n, "RT_SEND_TO_P2P_SOCKET", r)
    BY <1>6 DEF on_send_buy_reply_err
  <2> HIDE DEF r
  <2>5. ColasRouter(routerEvents')
    BY <2>3, <2>4, PosteaRouterLemma DEF RouterEventOK, RouterId
  <2> QED
    BY <2>2, <2>5
<1> QED
  BY <1>1, <1>2, <1>3, <1>4, <1>5, <1>6

(* The handlers of a message that has come in.                             *)

LEMMA StockCambia ==
  ASSUME Inv, NEW n \in Node, NEW p \in Nombre, NEW c \in Int
  PROVE  /\ decrement_stock(n, p, c) => StockOK(mapa_stock')
         /\ increment_stock(n, p, c) => StockOK(mapa_stock')
<1>1. p \in DOMAIN mapa_stock[n] =>
        /\ Entero(mapa_stock[n][p] - c) \in Int
        /\ Entero(mapa_stock[n][p] + c) \in Int
  BY EnteroLemma DEF Inv, StockOK
<1>2. ASSUME NEW x \in Int, set_stock(n, p, x)
      PROVE  StockOK(mapa_stock')
  BY <1>2, StockPon DEF set_stock, Inv
<1> QED
  BY <1>1, <1>2 DEF decrement_stock, increment_stock, Inv

LEMMA ClientMsgPreserva ==
  ASSUME Inv, NEW n \in Node, UNCHANGED <<red, ordenes>>, on_client_msg(n)
  PROVE  Inv'
<1> DEFINE t == Head(logicEvents[n]).tag
<1>1. logicEvents[n] # <<>> /\ t \in Mensaje /\ MensajeLlega(t, n)
  BY Atendido DEF on_client_msg, LogicEventOK, MensajeId
<1>2. PICK m \in Load(t) :
        \/ m.code = "LOOKUP"  /\ on_receive_look_up(n, m)
        \/ m.code = "REPLY"   /\ on_receive_replay(n, m)
        \/ m.code = "BUY"     /\ on_receive_buy(n, m)
        \/ m.code = "BUY_OK"  /\ on_receive_buy_reply_ok(n, m)
        \/ m.code = "BUY_ERR" /\ on_receive_buy_reply_err(n, m)
  BY DEF on_client_msg
<1> HIDE DEF t
<1>3. /\ m \in Mensaje /\ m.code = t.code /\ m.nodos = t.nodos
      /\ m.vendedor = t.vendedor
      /\ t.hopcount >= 0 => m.hopcount = t.hopcount
  BY <1>1, LoadLemma
<1>4. MensajeLlega(m, n)
  BY <1>1, <1>3 DEF MensajeLlega, LookupLlega, ReplyLlega, Mensaje
<1>5. /\ m.producto \in Nombre /\ m.cantidad \in Int /\ m.ts \in Nat
      /\ m.nodos \in Seq(Node)
  BY <1>3 DEF Mensaje
<1> SUFFICES /\ ColasLogic(logicEvents') /\ ColasRouter(routerEvents')
             /\ StockOK(mapa_stock') /\ PedidosOK(mapaPedidos')
  BY DEF Inv, on_client_msg
<1>6. CASE m.code = "LOOKUP" /\ on_receive_look_up(n, m)
  <2>1. PICK id \in {"DO_REPLY", "DO_LOOKUP_FORWARD"} : HechoYPostea(n, id, m)
    BY <1>6 DEF on_receive_look_up
  <2>2. ColasLogic(logicEvents')
    BY <1>1, <1>3, <1>4, <1>6, <2>1, HechoYPosteaLemma
    DEF LogicEventOK, MensajeLlega, MensajeId
  <2> QED
    BY <1>6, <2>2 DEF on_receive_look_up, Inv
<1>7. CASE m.code = "REPLY" /\ on_receive_replay(n, m)
  <2>1. ReplyLlega(m, n)
    BY <1>4, <1>7 DEF MensajeLlega
  <2>2. CASE HechoYPostea(n, "DO_REPLY_FORWARD", m) /\ Len(m.nodos) > 1
             /\ UNCHANGED mapaPedidos
    <3>1. ColasLogic(logicEvents')
      BY <1>1, <1>3, <1>7, <2>1, <2>2, HechoYPosteaLemma
      DEF LogicEventOK, MensajeId
    <3> QED
      BY <1>7, <2>2, <3>1 DEF on_receive_replay, Inv
  <2>3. CASE HechoYPostea(n, "DO_BUY", m)
             /\ setEstadoPedido(n, m.ts, "REPLY_RECIBIDO")
    <3>1. ColasLogic(logicEvents')
      BY <1>1, <1>3, <1>7, <2>1, <2>3, HechoYPosteaLemma
      DEF LogicEventOK, MensajeId, ReplyLlega
    <3>2. PedidosOK(mapaPedidos')
      BY <1>5, <2>3, PedidosPon DEF setEstadoPedido, Inv, EstadoPedido
    <3> QED
      BY <1>7, <3>1, <3>2 DEF on_receive_replay, Inv
  <2>4. CASE Hecho(n) /\ UNCHANGED mapaPedidos
    BY <1>1, <1>7, <2>4, HechoLemma DEF on_receive_replay, Inv
  <2> QED
    BY <1>7, <2>2, <2>3, <2>4 DEF on_receive_replay
<1>8. CASE m.code = "BUY" /\ on_receive_buy(n, m)
  <2>1. PICK id \in {"DO_BUY_REPLY_OK", "DO_BUY_REPLY_ERR"} :
          HechoYPostea(n, id, m)
    BY <1>8 DEF on_receive_buy
  <2>2. ColasLogic(logicEvents')
    BY <1>1, <1>3, <2>1, HechoYPosteaLemma DEF LogicEventOK, MensajeId
  <2>3. StockOK(mapa_stock')
    BY <1>5, <1>8, StockCambia DEF on_receive_buy, Inv
  <2> QED
    BY <1>8, <2>2, <2>3 DEF on_receive_buy, Inv
<1>9. CASE m.code = "BUY_OK" /\ on_receive_buy_reply_ok(n, m)
  <2>1. ColasLogic(logicEvents')
    BY <1>1, <1>9, HechoLemma DEF on_receive_buy_reply_ok
  <2>2. ColasRouter(routerEvents')
    BY <1>3, <1>9, PosteaRouterLemma
    DEF on_receive_buy_reply_ok, RouterEventOK, RouterId
  <2>3. StockOK(mapa_stock')
    BY <1>5, <1>9, StockCambia DEF on_receive_buy_reply_ok
  <2> QED
    BY <1>9, <2>1, <2>2, <2>3 DEF on_receive_buy_reply_ok, Inv
<1>10. CASE m.code = "BUY_ERR" /\ on_receive_buy_reply_err(n, m)
  <2>1. ColasLogic(logicEvents')
    BY <1>1, <1>10, HechoLemma DEF on_receive_buy_reply_err
  <2>2. ColasRouter(routerEvents')
    BY <1>3, <1>10, PosteaRouterLemma
    DEF on_receive_buy_reply_err, RouterEventOK, RouterId
  <2> QED
    BY <1>10, <2>1, <2>2 DEF on_receive_buy_reply_err, Inv
<1> QED
  BY <1>2, <1>6, <1>7, <1>8, <1>9, <1>10

-----------------------------------------------------------------------------
(* The Router.                                                             *)

LEMMA AtendidoRouter ==
  ASSUME Inv, NEW n \in Node, NEW id, AtiendeRouter(n, id)
  PROVE  /\ routerEvents[n] # <<>>
         /\ Cabeza(n) \in Mensaje
         /\ RouterEventOK(n, Head(routerEvents[n]))
         /\ Head(routerEvents[n]).id = id
         /\ ColasRouter(routerEvents')
<1>1. routerEvents[n] # <<>> /\ ColasRouter(routerEvents)
  BY DEF AtiendeRouter, Inv
<1>2. /\ Head(routerEvents[n]) \in RouterEvent
      /\ RouterEventOK(n, Head(routerEvents[n]))
      /\ ColasRouter([routerEvents EXCEPT ![n] = Tail(@)])
  BY <1>1, RouterTail
<1> QED
  BY <1>1, <1>2 DEF AtiendeRouter, Cabeza, RouterEvent

(* A Router's step is known by what it does to red.                        *)
LEMMA RouterRed ==
  ASSUME Inv, NEW n \in Node, NEW id, AtiendeRouter(n, id), RedOK(red')
  PROVE  Inv'
  BY AtendidoRouter DEF Inv, AtiendeRouter

LEMMA VecinoLemma ==
  ASSUME NEW n \in Node, NEW k \in 1..2
  PROVE  /\ Vecino[n][k] \in Node \cup {Nadie}
         /\ Vecino[n][k] # Nadie => EsVecino(n, Vecino[n][k])
<1>1. k = 1 \/ k = 2
  OBVIOUS
<1> QED
  BY <1>1, BazarAssumption DEF EsVecino

LEMMA RouterPreserva ==
  ASSUME Inv, NEW n \in Node, RouterStep(n)
  PROVE  Inv'
<1> DEFINE m == Cabeza(n)
<1>0. RedOK(red)
  BY DEF Inv
<1>1. CASE send_first_broadcast_message(n)
  <2>1. m \in Mensaje /\ LookupSale(m, n)
    BY <1>1, AtendidoRouter DEF send_first_broadcast_message, RouterEventOK, Cabeza
  <2>2. \A k \in 1..2 : Vecino[n][k] # Nadie => MensajeLlega(m, Vecino[n][k])
    BY <2>1, VecinoLemma, LookupViaja
  <2>3. RedOK(Envia(red, Vecino[n][1], m))
    BY <1>0, <2>1, <2>2, VecinoLemma, RedEnvia
  <2>4. RedOK(Envia(Envia(red, Vecino[n][1], m), Vecino[n][2], m))
    BY <2>1, <2>2, <2>3, VecinoLemma, RedEnvia
  <2> QED
    BY <1>1, <2>4, RouterRed DEF send_first_broadcast_message
<1>2. CASE send_broadcast_message(n)
  <2> DEFINE d(k) == DestinoBroadcast(n, k)
  <2>1. m \in Mensaje /\ LookupSale(m, n)
    BY <1>2, AtendidoRouter DEF send_broadcast_message, RouterEventOK, Cabeza
  <2>2. \A k \in 1..2 : /\ d(k) \in Node \cup {Nadie}
                        /\ d(k) # Nadie => EsVecino(n, d(k))
    BY VecinoLemma DEF DestinoBroadcast
  <2> HIDE DEF d
  <2>3. \A k \in 1..2 : d(k) # Nadie => MensajeLlega(m, d(k))
    BY <2>1, <2>2, LookupViaja
  <2>4. RedOK(Envia(red, d(1), m))
    BY <1>0, <2>1, <2>2, <2>3, RedEnvia
  <2>5. RedOK(Envia(Envia(red, d(1), m), d(2), m))
    BY <2>1, <2>2, <2>3, <2>4, RedEnvia
  <2> QED
    BY <1>2, <2>5, RouterRed DEF send_broadcast_message, d
<1>3. CASE send_to_next_node_message(n)
  <2>1. m \in Mensaje /\ ReplySale(m, n)
    BY <1>3, AtendidoRouter DEF send_to_next_node_message, RouterEventOK, Cabeza
  <2>2. /\ DestinoReply(n) \in Node \cup {Nadie}
        /\ DestinoReply(n) # Nadie => MensajeLlega(m, DestinoReply(n))
    BY <2>1, ReplyViaja DEF DestinoReply
  <2>3. RedOK(Envia(red, DestinoReply(n), m))
    BY <1>0, <2>1, <2>2, RedEnvia
  <2> QED
    BY <1>3, <2>3, RouterRed DEF send_to_next_node_message
<1>4. CASE start_p2p_connect(n)
  <2>1. m \in Mensaje /\ m.code = "BUY" /\ m.vendedor \in Node
    BY <1>4, AtendidoRouter DEF start_p2p_connect, RouterEventOK, Cabeza
  <2>2. MensajeLlega(m, m.vendedor)
    BY <2>1 DEF MensajeLlega
  <2>3. RedOK(Envia(red, m.vendedor, m))
    BY <1>0, <2>1, <2>2, RedEnvia
  <2> QED
    BY <1>0, <1>4, <2>3, RouterRed DEF start_p2p_connect
<1>5. CASE send_to_p2p_socket_message(n)
  <2>1. m \in Mensaje /\ m.code \in {"BUY_OK", "BUY_ERR"}
    BY <1>5, AtendidoRouter
    DEF send_to_p2p_socket_message, RouterEventOK, Cabeza
  <2>2. PICK dst \in Node \cup {Nadie} : red' = Envia(red, dst, m)
    BY <1>5 DEF send_to_p2p_socket_message
  <2>3. MensajeLlega(m, dst)
    BY <2>1 DEF MensajeLlega
  <2>4. RedOK(Envia(red, dst, m))
    BY <1>0, <2>1, <2>3, RedEnvia
  <2> QED
    BY <1>5, <2>2, <2>4, RouterRed DEF send_to_p2p_socket_message
<1>6. CASE close_p2p_connect(n)
  BY <1>0, <1>6, RouterRed DEF close_p2p_connect
<1> QED
  BY <1>1, <1>2, <1>3, <1>4, <1>5, <1>6 DEF RouterStep

-----------------------------------------------------------------------------
(* The transport and the keyboard.                                         *)

LEMMA RedPreserva ==
  ASSUME Inv, NEW p \in BagToSet(red), Entrega(p) \/ Pierde(p)
  PROVE  Inv'
<1>1. /\ p \in Paquete /\ MensajeLlega(p.tag, p.dst)
      /\ RedOK(BagRemove(red, p))
  BY RedQuita DEF Inv, RedOK
<1>2. CASE Entrega(p)
  <2> DEFINE e == [id |-> "CLIENT_MSG", tag |-> p.tag]
  <2>1. /\ p.dst \in Node /\ e \in LogicEvent /\ LogicEventOK(p.dst, e)
    BY <1>1 DEF Paquete, LogicEvent, MensajeId, LogicEventOK
  <2> HIDE DEF e
  <2>2. ColasLogic([logicEvents EXCEPT ![p.dst] = Append(@, e)])
    BY <2>1, LogicAppend DEF Inv
  <2> QED
    BY <1>1, <1>2, <2>2 DEF Entrega, Inv, e
<1>3. CASE Pierde(p)
  BY <1>1, <1>3 DEF Pierde, Inv, logicVars
<1> QED
  BY <1>2, <1>3

LEMMA OrdenaPreserva ==
  ASSUME Inv, NEW n \in Node, NEW ev \in LogicEvent, LogicEventOK(n, ev),
         Ordena(n, ev)
  PROVE  Inv'
<1>1. ColasLogic([logicEvents EXCEPT ![n] = Append(@, ev)])
  BY LogicAppend DEF Inv
<1> QED
  BY <1>1 DEF Ordena, Inv

LEMMA TecladoPreserva ==
  ASSUME Inv, NEW n \in Node, Teclado(n)
  PROVE  Inv'
<1>1. CASE procesar_lanzar(n)
  <2>1. PICK c \in Pedible : Ordena(n, [id |-> "DO_LOOKUP", cantidad |-> c])
    BY <1>1 DEF procesar_lanzar
  <2> DEFINE ev == [id |-> "DO_LOOKUP", cantidad |-> c]
  <2>2. ev \in LogicEvent /\ LogicEventOK(n, ev)
    BY BazarAssumption DEF LogicEvent, LogicEventOK
  <2> QED
    BY <2>1, <2>2, OrdenaPreserva
<1>2. CASE procesar_add_stock(n)
  <2>1. PICK p \in Elegible, c \in Reponible :
          Ordena(n, [id |-> "SET_STOCK", producto |-> p, cantidad |-> c])
    BY <1>2 DEF procesar_add_stock
  <2> DEFINE ev == [id |-> "SET_STOCK", producto |-> p, cantidad |-> c]
  <2>2. ev \in LogicEvent /\ LogicEventOK(n, ev)
    BY BazarAssumption DEF LogicEvent, LogicEventOK
  <2> QED
    BY <2>1, <2>2, OrdenaPreserva
<1>3. ASSUME NEW id \in {"SET_CUR_PROD_COMPRA", "SET_CUR_PROD_VENTA"},
             NEW p \in Elegible, Ordena(n, [id |-> id, producto |-> p])
      PROVE  Inv'
  <2> DEFINE ev == [id |-> id, producto |-> p]
  <2>1. ev \in LogicEvent /\ LogicEventOK(n, ev)
    BY BazarAssumption DEF LogicEvent, LogicEventOK
  <2> QED
    BY <1>3, <2>1, OrdenaPreserva
<1> QED
  BY <1>1, <1>2, <1>3
  DEF Teclado, procesar_set_producto_compra, procesar_set_producto_venta

-----------------------------------------------------------------------------
(* The inductive invariant holds.                                          *)

LEMMA InvNext == Inv /\ [Next]_vars => Inv'
<1> SUFFICES ASSUME Inv, [Next]_vars PROVE Inv'
  OBVIOUS
<1>1. ASSUME NEW n \in Node, LogicStep(n), UNCHANGED <<red, ordenes>>
      PROVE  Inv'
  BY <1>1, OrdenesPreservan, EnviosPreservan, ClientMsgPreserva DEF LogicStep
<1>2. ASSUME NEW n \in Node, RouterStep(n)
      PROVE  Inv'
  BY <1>2, RouterPreserva
<1>3. ASSUME NEW n \in Node, Teclado(n)
      PROVE  Inv'
  BY <1>3, TecladoPreserva
<1>4. ASSUME NEW p \in BagToSet(red), Entrega(p) \/ Pierde(p)
      PROVE  Inv'
  BY <1>4, RedPreserva
<1>5. CASE UNCHANGED vars
  BY <1>5 DEF vars, logicVars, Inv
<1> QED
  BY <1>1, <1>2, <1>3, <1>4, <1>5 DEF Next

LEMMA InvSiempre == Spec => []Inv
  BY InvInit, InvNext, PTL DEF Spec

(* TypeCorrect: every queue, message, map and counter of the system has    *)
(* its type in every reachable state, whatever the users order and         *)
(* whatever an uninitialised int holds.                                    *)
THEOREM TypeCorrect == Spec => []TypeOK
<1>1. Inv => TypeOK
  BY InvPartes
<1> QED
  BY <1>1, InvSiempre, PTL

(* RutasSiempreCorrectas: in any network of neighbours, with any hopcount, *)
(* and whatever is lost or overtaken, a LOOKUP never has more or fewer     *)
(* hops than it started with less those it made, and each REPLY goes back  *)
(* over the connections its LOOKUP came by.                                *)
THEOREM RutasSiempreCorrectas == Spec => []RutasCorrectas
<1>1. Inv => RutasCorrectas
  BY InvPartes
<1> QED
  BY <1>1, InvSiempre, PTL

-----------------------------------------------------------------------------
(* The purchases.  Every LOOKUP and REPLY belongs to a purchase that its   *)
(* creator has written down, in any network; and no LOOKUP comes back to   *)
(* its creator, in any network in which the two neighbours of a node are   *)
(* two nodes.  Both rest on Inv: a REPLY that is passed on has more than   *)
(* one node.                                                               *)

(* The first node of m has a purchase of that time in the maps P.          *)
Conocido(m, P) ==
  m.code \in {"LOOKUP", "REPLY"} =>
    /\ m.nodos # <<>>
    /\ m.nodos[1] \in Node
    /\ m.ts \in DOMAIN P[m.nodos[1]]

SabeLogic(f, P) ==
  \A n \in Node : \A i \in 1..Len(f[n]) :
    f[n][i].id \in MensajeId => Conocido(f[n][i].tag, P)

SabeRouter(f, P) ==
  \A n \in Node : \A i \in 1..Len(f[n]) : Conocido(f[n][i].tag, P)

SabeRed(b, P) == \A p \in BagToSet(b) : Conocido(p.tag, P)

Saben ==
  /\ SabeLogic(logicEvents, mapaPedidos)
  /\ SabeRouter(routerEvents, mapaPedidos)
  /\ SabeRed(red, mapaPedidos)

(* No entry of mapaPedidos is ever taken away.                             *)
Crece(P, Q) == \A n \in Node : DOMAIN P[n] \subseteq DOMAIN Q[n]

LEMMA CreceConocido ==
  ASSUME NEW P, NEW Q, Crece(P, Q), NEW m, Conocido(m, P)
  PROVE  Conocido(m, Q)
  BY DEF Crece, Conocido

LEMMA CreceSaben ==
  ASSUME Saben, NEW Q, Crece(mapaPedidos, Q)
  PROVE  SabeLogic(logicEvents, Q) /\ SabeRouter(routerEvents, Q) /\ SabeRed(red, Q)
  BY CreceConocido DEF Saben, SabeLogic, SabeRouter, SabeRed

LEMMA CrecePedido ==
  ASSUME Inv, NEW n \in Node, NEW t \in Nat, NEW e \in EstadoPedido,
         setEstadoPedido(n, t, e)
  PROVE  Crece(mapaPedidos, mapaPedidos') /\ t \in DOMAIN mapaPedidos'[n]
<1>1. /\ DOMAIN mapaPedidos = Node
      /\ mapaPedidos[n] \in [DOMAIN mapaPedidos[n] -> EstadoPedido]
  BY DEF Inv, PedidosOK
<1>2. DOMAIN Pon(mapaPedidos[n], t, e) = DOMAIN mapaPedidos[n] \cup {t}
  BY DEF Pon
<1>3. mapaPedidos' = [mapaPedidos EXCEPT ![n] = Pon(@, t, e)]
  BY DEF setEstadoPedido
<1>4. \A k \in Node :
        mapaPedidos'[k] = IF k = n THEN Pon(mapaPedidos[n], t, e) ELSE mapaPedidos[k]
  BY <1>1, <1>3
<1> QED
  BY <1>2, <1>4 DEF Crece

-----------------------------------------------------------------------------
(* The queues, as above.                                                   *)

LEMMA HechoSabe ==
  ASSUME Inv, NEW P, SabeLogic(logicEvents, P), NEW n \in Node,
         logicEvents[n] # <<>>, Hecho(n)
  PROVE  SabeLogic(logicEvents', P)
  BY ColaTail DEF Inv, ColasLogic, SabeLogic, Hecho

LEMMA HechoYPosteaSabe ==
  ASSUME Inv, NEW P, SabeLogic(logicEvents, P), NEW n \in Node,
         logicEvents[n] # <<>>, NEW id \in MensajeId, NEW m \in Mensaje,
         Conocido(m, P), HechoYPostea(n, id, m)
  PROVE  SabeLogic(logicEvents', P)
<1> DEFINE e == [id |-> id, tag |-> m]
<1>1. e \in LogicEvent /\ e.tag = m
  BY DEF LogicEvent
<1>2. logicEvents' = [logicEvents EXCEPT ![n] = Append(Tail(@), e)]
  BY DEF HechoYPostea
<1> HIDE DEF e
<1> QED
  BY <1>1, <1>2, ColaSigue DEF Inv, ColasLogic, SabeLogic

LEMMA PosteaRouterSabe ==
  ASSUME Inv, NEW P, SabeRouter(routerEvents, P), NEW n \in Node,
         NEW id \in RouterId, NEW m \in Mensaje, Conocido(m, P),
         PosteaRouter(n, id, m)
  PROVE  SabeRouter(routerEvents', P)
<1> DEFINE e == [id |-> id, tag |-> m]
<1>1. e \in RouterEvent /\ e.tag = m
  BY DEF RouterEvent
<1>2. routerEvents' = [routerEvents EXCEPT ![n] = Append(@, e)]
  BY DEF PosteaRouter
<1> HIDE DEF e
<1> QED
  BY <1>1, <1>2, ColaAppend DEF Inv, ColasRouter, SabeRouter

LEMMA EnviaSabe ==
  ASSUME NEW P, NEW b, IsABag(b), SabeRed(b, P), NEW d, NEW m, Conocido(m, P)
  PROVE  IsABag(Envia(b, d, m)) /\ SabeRed(Envia(b, d, m), P)
<1> DEFINE p == [dst |-> d, tag |-> m]
<1>1. p.tag = m
  OBVIOUS
<1> HIDE DEF p
<1>2. IsABag(BagAdd(b, p)) /\ SabeRed(BagAdd(b, p), P)
  BY <1>1, BagAddLemma DEF SabeRed
<1> QED
  BY <1>2 DEF Envia, p

(* The message that n is handling.                                         *)
LEMMA AtendidoSabe ==
  ASSUME Inv, Saben, NEW n \in Node, NEW id \in MensajeId, Atiende(n, id)
  PROVE  /\ logicEvents[n] # <<>>
         /\ Head(logicEvents[n]).tag \in Mensaje
         /\ Conocido(Head(logicEvents[n]).tag, mapaPedidos)
<1>1. logicEvents[n] # <<>> /\ Head(logicEvents[n]).id = id
      /\ Head(logicEvents[n]).tag \in Mensaje
  BY Atendido
<1>2. 1 \in 1..Len(logicEvents[n]) /\ Head(logicEvents[n]) = logicEvents[n][1]
  BY <1>1, ColaTail DEF Inv, ColasLogic
<1> QED
  BY <1>1, <1>2 DEF Saben, SabeLogic

LEMMA AtendidoRouterSabe ==
  ASSUME Inv, Saben, NEW n \in Node, NEW id, AtiendeRouter(n, id)
  PROVE  /\ Conocido(Cabeza(n), mapaPedidos)
         /\ SabeRouter(routerEvents', mapaPedidos)
<1>1. routerEvents[n] # <<>> /\ routerEvents[n] \in Seq(RouterEvent)
  BY DEF AtiendeRouter, Inv, ColasRouter
<1>2. 1 \in 1..Len(routerEvents[n]) /\ Head(routerEvents[n]) = routerEvents[n][1]
  BY <1>1, ColaTail
<1>3. Conocido(Cabeza(n), mapaPedidos)
  BY <1>2 DEF Saben, SabeRouter, Cabeza
<1>4. SabeRouter(routerEvents', mapaPedidos)
  BY <1>1, ColaTail DEF AtiendeRouter, Inv, ColasRouter, Saben, SabeRouter
<1> QED
  BY <1>3, <1>4

(* The steps of the lists keep the first node and the time.                *)
LEMMA ConocidoBuilders ==
  ASSUME NEW m \in Mensaje, NEW n \in Node, NEW P, Conocido(m, P)
  PROVE  /\ m.code = "LOOKUP" => Conocido(add_nodo(less_hopcount(m), n), P)
         /\ m.code = "LOOKUP" => Conocido(build_reply_msg(m, n), P)
         /\ m.code = "REPLY" /\ Len(m.nodos) > 1 => Conocido(less_nodo(m), P)
         /\ Conocido(build_buy_msg(m), P)
         /\ Conocido(build_buy_reply_ok_msg(m), P)
         /\ Conocido(build_buy_reply_err_msg(m), P)
<1>1. m.nodos \in Seq(Node)
  BY DEF Mensaje
<1>2. ASSUME m.code = "LOOKUP" PROVE Conocido(add_nodo(less_hopcount(m), n), P)
  <2> DEFINE r == add_nodo(less_hopcount(m), n)
  <2>1. r.code = "LOOKUP" /\ r.ts = m.ts /\ r.nodos = Append(m.nodos, n)
    <3>1. less_hopcount(m) \in Mensaje
      BY BuildersTyped
    <3>2. /\ less_hopcount(m).nodos = m.nodos /\ less_hopcount(m).ts = m.ts
          /\ less_hopcount(m).code = "LOOKUP"
      BY <1>2 DEF less_hopcount, Mensaje
    <3> QED
      BY <3>1, <3>2 DEF add_nodo, Mensaje
  <2> HIDE DEF r
  <2>2. m.nodos # <<>> => r.nodos # <<>> /\ r.nodos[1] = m.nodos[1]
    BY <1>1, <2>1
  <2>3. Conocido(r, P)
    BY <1>2, <2>1, <2>2 DEF Conocido
  <2> QED
    BY <2>3 DEF r
<1>3. ASSUME m.code = "LOOKUP" PROVE Conocido(build_reply_msg(m, n), P)
  <2>1. /\ build_reply_msg(m, n).ts = m.ts
        /\ build_reply_msg(m, n).nodos = m.nodos
    BY DEF build_reply_msg, Mensaje
  <2> QED
    BY <1>3, <2>1 DEF Conocido
<1>4. ASSUME m.code = "REPLY", Len(m.nodos) > 1 PROVE Conocido(less_nodo(m), P)
  <2> DEFINE r == less_nodo(m)
  <2>1. /\ r.code = "REPLY" /\ r.ts = m.ts
        /\ r.nodos = SubSeq(m.nodos, 1, Len(m.nodos) - 1)
    BY <1>4 DEF less_nodo, Mensaje
  <2> HIDE DEF r
  <2>2. r.nodos # <<>> /\ r.nodos[1] = m.nodos[1]
    <3>1. Len(m.nodos) - 1 \in Nat /\ Len(m.nodos) - 1 >= 1
      BY <1>1, <1>4
    <3>2. r.nodos \in Seq(Node) /\ Len(r.nodos) = Len(m.nodos) - 1
      BY <1>1, <2>1, <3>1
    <3>3. \A i \in 1..(Len(m.nodos) - 1) : r.nodos[i] = m.nodos[i]
      BY <1>1, <2>1, <3>1
    <3> QED
      BY <3>1, <3>2, <3>3
  <2>3. Conocido(r, P)
    BY <1>4, <2>1, <2>2 DEF Conocido
  <2> QED
    BY <2>3 DEF r
<1>5. build_buy_msg(m).code = "BUY"
  BY DEF build_buy_msg, Mensaje
<1>6. build_buy_reply_ok_msg(m).code = "BUY_OK"
  BY DEF build_buy_reply_ok_msg, Mensaje
<1>7. build_buy_reply_err_msg(m).code = "BUY_ERR"
  BY DEF build_buy_reply_err_msg, Mensaje
<1> QED
  BY <1>2, <1>3, <1>4, <1>5, <1>6, <1>7 DEF Conocido

-----------------------------------------------------------------------------
LEMMA SabenInit == Init => Saben
  BY DEF Init, LogicInit, Saben, SabeLogic, SabeRouter, SabeRed, BagToSet,
         EmptyBag, SetToBag

(* The handlers of Logic.                                                  *)

LEMMA OrdenesSaben ==
  ASSUME Inv, Saben, NEW n \in Node, UNCHANGED red,
         \/ set_stock_product(n)
         \/ set_cur_prod_compra(n)
         \/ set_cur_prod_venta(n)
         \/ on_send_look_up(n)
  PROVE  Saben'
<1>1. CASE set_stock_product(n) \/ set_cur_prod_compra(n) \/ set_cur_prod_venta(n)
  <2>1. Hecho(n) /\ UNCHANGED <<routerEvents, mapaPedidos>> /\ logicEvents[n] # <<>>
    BY <1>1 DEF set_stock_product, set_cur_prod_compra, set_cur_prod_venta, Atiende
  <2>2. SabeLogic(logicEvents', mapaPedidos)
    BY <2>1, HechoSabe DEF Saben
  <2> QED
    BY <2>1, <2>2 DEF Saben
<1>2. CASE on_send_look_up(n)
  <2> DEFINE b == build_look_up_msg(compro[n], Head(logicEvents[n]).cantidad, reloj)
             m == add_nodo(b, n)
  <2>1. logicEvents[n] # <<>> /\ Head(logicEvents[n]).cantidad \in Int
    BY <1>2, Atendido DEF on_send_look_up
  <2>2. m \in Mensaje
    BY <2>1, LookupNuevo DEF Inv
  <2>3. /\ PosteaRouter(n, "RT_FIRST_BROADCAST", m) /\ Hecho(n)
        /\ setEstadoPedido(n, reloj, "LOOKUP_ENVIADO")
    BY <1>2 DEF on_send_look_up
  <2>4. m.ts = reloj /\ m.nodos = <<n>>
    BY DEF add_nodo, build_look_up_msg
  <2> HIDE DEF m
  <2>5. Crece(mapaPedidos, mapaPedidos') /\ reloj \in DOMAIN mapaPedidos'[n]
    BY <2>3, CrecePedido DEF Inv, EstadoPedido
  <2>6. Conocido(m, mapaPedidos')
    BY <2>4, <2>5 DEF Conocido
  <2>7. SabeLogic(logicEvents', mapaPedidos')
    BY <2>1, <2>3, <2>5, CreceSaben, HechoSabe
  <2>8. SabeRouter(routerEvents', mapaPedidos')
    BY <2>2, <2>3, <2>5, <2>6, CreceSaben, PosteaRouterSabe DEF RouterId
  <2>9. SabeRed(red', mapaPedidos')
    BY <2>5, CreceSaben
  <2> QED
    BY <2>7, <2>8, <2>9 DEF Saben
<1> QED
  BY <1>1, <1>2

LEMMA EnviosSaben ==
  ASSUME Inv, Saben, NEW n \in Node, UNCHANGED red,
         \/ on_send_look_up_forward(n)
         \/ on_send_replay(n)
         \/ on_send_replay_forward(n)
         \/ on_send_buy(n)
         \/ on_send_buy_reply_ok(n)
         \/ on_send_buy_reply_err(n)
  PROVE  Saben'
<1> DEFINE m == Head(logicEvents[n]).tag
<1>1. ASSUME NEW id \in RouterId, NEW r \in Mensaje, Conocido(r, mapaPedidos),
             logicEvents[n] # <<>>, Hecho(n), UNCHANGED mapaPedidos,
             PosteaRouter(n, id, r)
      PROVE  Saben'
  BY <1>1, HechoSabe, PosteaRouterSabe DEF Saben
<1>2. CASE on_send_look_up_forward(n)
  <2>1. /\ logicEvents[n] # <<>> /\ m \in Mensaje /\ Conocido(m, mapaPedidos)
        /\ m.code = "LOOKUP"
    BY <1>2, Atendido, AtendidoSabe
    DEF on_send_look_up_forward, LogicEventOK, MensajeId
  <2>2. add_nodo(less_hopcount(m), n) \in Mensaje
    BY <2>1, BuildersTyped
  <2>3. Conocido(add_nodo(less_hopcount(m), n), mapaPedidos)
    BY <2>1, ConocidoBuilders
  <2>4. Hecho(n) /\ UNCHANGED mapaPedidos
    BY <1>2 DEF on_send_look_up_forward
  <2>5. CASE m.hopcount > 0
    <3>1. PosteaRouter(n, "RT_BROADCAST", add_nodo(less_hopcount(m), n))
      BY <1>2, <2>5 DEF on_send_look_up_forward
    <3> QED
      BY <1>1, <2>1, <2>2, <2>3, <2>4, <3>1 DEF RouterId
  <2>6. CASE ~(m.hopcount > 0)
    <3>1. UNCHANGED routerEvents
      BY <1>2, <2>6 DEF on_send_look_up_forward
    <3> QED
      BY <2>1, <2>4, <3>1, HechoSabe DEF Saben
  <2> QED
    BY <2>5, <2>6
<1>3. CASE on_send_replay(n)
  <2>1. /\ logicEvents[n] # <<>> /\ m \in Mensaje /\ Conocido(m, mapaPedidos)
        /\ m.code = "LOOKUP"
    BY <1>3, Atendido, AtendidoSabe DEF on_send_replay, LogicEventOK, MensajeId
  <2>2. build_reply_msg(m, n) \in Mensaje
    BY <2>1, BuildersTyped
  <2>3. Conocido(build_reply_msg(m, n), mapaPedidos)
    BY <2>1, ConocidoBuilders
  <2> QED
    BY <1>1, <1>3, <2>1, <2>2, <2>3 DEF on_send_replay, RouterId
<1>4. CASE on_send_replay_forward(n)
  <2>1. /\ logicEvents[n] # <<>> /\ m \in Mensaje /\ Conocido(m, mapaPedidos)
        /\ m.code = "REPLY" /\ Len(m.nodos) > 1
    BY <1>4, Atendido, AtendidoSabe
    DEF on_send_replay_forward, LogicEventOK, MensajeId
  <2>2. less_nodo(m) \in Mensaje
    BY <2>1, BuildersTyped
  <2>3. Conocido(less_nodo(m), mapaPedidos)
    BY <2>1, ConocidoBuilders
  <2> QED
    BY <1>1, <1>4, <2>1, <2>2, <2>3 DEF on_send_replay_forward, RouterId
<1>5. CASE on_send_buy(n)
  <2>1. logicEvents[n] # <<>> /\ m \in Mensaje /\ Conocido(m, mapaPedidos)
    BY <1>5, AtendidoSabe DEF on_send_buy, MensajeId
  <2>2. build_buy_msg(m) \in Mensaje /\ Conocido(build_buy_msg(m), mapaPedidos)
    BY <2>1, BuildersTyped, ConocidoBuilders
  <2> QED
    BY <1>1, <1>5, <2>1, <2>2 DEF on_send_buy, RouterId
<1>6. CASE on_send_buy_reply_ok(n)
  <2>1. logicEvents[n] # <<>> /\ m \in Mensaje /\ Conocido(m, mapaPedidos)
    BY <1>6, AtendidoSabe DEF on_send_buy_reply_ok, MensajeId
  <2>2. /\ build_buy_reply_ok_msg(m) \in Mensaje
        /\ Conocido(build_buy_reply_ok_msg(m), mapaPedidos)
    BY <2>1, BuildersTyped, ConocidoBuilders
  <2> QED
    BY <1>1, <1>6, <2>1, <2>2 DEF on_send_buy_reply_ok, RouterId
<1>7. CASE on_send_buy_reply_err(n)
  <2>1. logicEvents[n] # <<>> /\ m \in Mensaje /\ Conocido(m, mapaPedidos)
    BY <1>7, AtendidoSabe DEF on_send_buy_reply_err, MensajeId
  <2>2. /\ build_buy_reply_err_msg(m) \in Mensaje
        /\ Conocido(build_buy_reply_err_msg(m), mapaPedidos)
    BY <2>1, BuildersTyped, ConocidoBuilders
  <2> QED
    BY <1>1, <1>7, <2>1, <2>2 DEF on_send_buy_reply_err, RouterId
<1> QED
  BY <1>2, <1>3, <1>4, <1>5, <1>6, <1>7

(* A message that comes in is handled with the nodes and the time that it  *)
(* was sent with.                                                          *)
LEMMA ClientMsgSabe ==
  ASSUME Inv, Saben, NEW n \in Node, UNCHANGED red, on_client_msg(n)
  PROVE  Saben'
<1> DEFINE t == Head(logicEvents[n]).tag
<1>1. logicEvents[n] # <<>> /\ t \in Mensaje /\ Conocido(t, mapaPedidos)
  BY AtendidoSabe DEF on_client_msg, MensajeId
<1>2. PICK m \in Load(t) :
        \/ m.code = "LOOKUP"  /\ on_receive_look_up(n, m)
        \/ m.code = "REPLY"   /\ on_receive_replay(n, m)
        \/ m.code = "BUY"     /\ on_receive_buy(n, m)
        \/ m.code = "BUY_OK"  /\ on_receive_buy_reply_ok(n, m)
        \/ m.code = "BUY_ERR" /\ on_receive_buy_reply_err(n, m)
  BY DEF on_client_msg
<1> HIDE DEF t
<1>3. m \in Mensaje /\ Conocido(m, mapaPedidos)
  <2>1. PICK c \in Leido(t.cantidad), h \in Leido(t.hopcount) : m = Lectura(t, c, h)
    BY DEF Load
  <2>2. m.ts = t.ts /\ m.nodos = t.nodos /\ m.code = t.code
    BY <1>1, <2>1 DEF Lectura, Mensaje
  <2> QED
    BY <1>1, <2>2, LoadLemma DEF Conocido
<1>4. ASSUME NEW id \in MensajeId, HechoYPostea(n, id, m),
             UNCHANGED <<routerEvents, mapaPedidos>>
      PROVE  Saben'
  BY <1>1, <1>3, <1>4, HechoYPosteaSabe DEF Saben
<1>5. ASSUME PosteaRouter(n, "RT_CLOSE_P2P_CONNECT", m), Hecho(n),
             UNCHANGED mapaPedidos
      PROVE  Saben'
  BY <1>1, <1>3, <1>5, HechoSabe, PosteaRouterSabe DEF Saben, RouterId
<1>6. CASE m.code = "LOOKUP" /\ on_receive_look_up(n, m)
  BY <1>4, <1>6 DEF on_receive_look_up, MensajeId
<1>7. CASE m.code = "REPLY" /\ on_receive_replay(n, m)
  <2>1. CASE HechoYPostea(n, "DO_REPLY_FORWARD", m) /\ UNCHANGED mapaPedidos
    BY <1>4, <1>7, <2>1 DEF on_receive_replay, MensajeId
  <2>2. CASE HechoYPostea(n, "DO_BUY", m)
             /\ setEstadoPedido(n, m.ts, "REPLY_RECIBIDO")
    <3>1. Crece(mapaPedidos, mapaPedidos')
      BY <1>3, <2>2, CrecePedido DEF EstadoPedido, Mensaje
    <3>2. UNCHANGED routerEvents
      BY <1>7 DEF on_receive_replay
    <3>3. /\ SabeLogic(logicEvents, mapaPedidos')
          /\ SabeRouter(routerEvents, mapaPedidos')
          /\ SabeRed(red, mapaPedidos')
      BY <3>1, CreceSaben
    <3>4. SabeLogic(logicEvents', mapaPedidos')
      BY <1>1, <1>3, <2>2, <3>1, <3>3, CreceConocido, HechoYPosteaSabe DEF MensajeId
    <3> QED
      BY <3>2, <3>3, <3>4 DEF Saben
  <2>3. CASE Hecho(n) /\ UNCHANGED mapaPedidos
    <3>1. UNCHANGED routerEvents
      BY <1>7 DEF on_receive_replay
    <3> QED
      BY <1>1, <2>3, <3>1, HechoSabe DEF Saben
  <2> QED
    BY <1>7, <2>1, <2>2, <2>3 DEF on_receive_replay
<1>8. CASE m.code = "BUY" /\ on_receive_buy(n, m)
  BY <1>4, <1>8 DEF on_receive_buy, MensajeId
<1>9. CASE m.code = "BUY_OK" /\ on_receive_buy_reply_ok(n, m)
  BY <1>5, <1>9 DEF on_receive_buy_reply_ok
<1>10. CASE m.code = "BUY_ERR" /\ on_receive_buy_reply_err(n, m)
  BY <1>5, <1>10 DEF on_receive_buy_reply_err
<1> QED
  BY <1>2, <1>6, <1>7, <1>8, <1>9, <1>10

-----------------------------------------------------------------------------
(* The Router, the transport and the keyboard.                             *)

LEMMA RouterSabe ==
  ASSUME Inv, Saben, NEW n \in Node, RouterStep(n)
  PROVE  Saben'
<1>1. IsABag(red)
  BY DEF Inv, RedOK
<1>2. ASSUME NEW id, AtiendeRouter(n, id), SabeRed(red', mapaPedidos)
      PROVE  Saben'
  <2>1. SabeRouter(routerEvents', mapaPedidos)
    BY <1>2, AtendidoRouterSabe
  <2> QED
    BY <1>2, <2>1 DEF Saben, AtiendeRouter
<1>3. ASSUME NEW id, AtiendeRouter(n, id), NEW d
      PROVE  /\ IsABag(Envia(red, d, Cabeza(n)))
             /\ SabeRed(Envia(red, d, Cabeza(n)), mapaPedidos)
             /\ \A e : SabeRed(Envia(Envia(red, d, Cabeza(n)), e, Cabeza(n)),
                               mapaPedidos)
  <2>1. Conocido(Cabeza(n), mapaPedidos)
    BY <1>3, AtendidoRouterSabe
  <2> DEFINE b == Envia(red, d, Cabeza(n))
  <2>2. IsABag(b) /\ SabeRed(b, mapaPedidos)
    BY <1>1, <2>1, EnviaSabe DEF Saben
  <2> HIDE DEF b
  <2>3. \A e : SabeRed(Envia(b, e, Cabeza(n)), mapaPedidos)
    BY <2>1, <2>2, EnviaSabe
  <2> QED
    BY <2>2, <2>3 DEF b
<1>4. SabeRed(red, mapaPedidos)
  BY DEF Saben
<1>5. CASE send_first_broadcast_message(n)
  BY <1>2, <1>3, <1>5 DEF send_first_broadcast_message
<1>6. CASE send_broadcast_message(n)
  BY <1>2, <1>3, <1>6 DEF send_broadcast_message
<1>7. CASE send_to_next_node_message(n)
  BY <1>2, <1>3, <1>7 DEF send_to_next_node_message
<1>8. CASE start_p2p_connect(n)
  BY <1>2, <1>3, <1>4, <1>8 DEF start_p2p_connect
<1>9. CASE send_to_p2p_socket_message(n)
  BY <1>2, <1>3, <1>9 DEF send_to_p2p_socket_message
<1>10. CASE close_p2p_connect(n)
  BY <1>2, <1>4, <1>10 DEF close_p2p_connect
<1> QED
  BY <1>5, <1>6, <1>7, <1>8, <1>9, <1>10 DEF RouterStep

LEMMA RedSabe ==
  ASSUME Inv, Saben, NEW p \in BagToSet(red), Entrega(p) \/ Pierde(p)
  PROVE  Saben'
<1>1. /\ p \in Paquete /\ Conocido(p.tag, mapaPedidos)
      /\ SabeRed(BagRemove(red, p), mapaPedidos)
  BY BagRemoveLemma DEF Inv, RedOK, Saben, SabeRed
<1>2. CASE Entrega(p)
  <2> DEFINE e == [id |-> "CLIENT_MSG", tag |-> p.tag]
  <2>1. p.dst \in Node /\ e \in LogicEvent /\ e.tag = p.tag
    BY <1>1 DEF Paquete, LogicEvent, MensajeId
  <2>2. logicEvents' = [logicEvents EXCEPT ![p.dst] = Append(@, e)]
    BY <1>2 DEF Entrega
  <2> HIDE DEF e
  <2>3. SabeLogic(logicEvents', mapaPedidos)
    BY <1>1, <2>1, <2>2, ColaAppend DEF Inv, ColasLogic, Saben, SabeLogic
  <2> QED
    BY <1>1, <1>2, <2>3 DEF Entrega, Saben
<1>3. CASE Pierde(p)
  BY <1>1, <1>3 DEF Pierde, logicVars, Saben
<1> QED
  BY <1>2, <1>3

LEMMA OrdenaSabe ==
  ASSUME Inv, Saben, NEW n \in Node, NEW ev \in LogicEvent, ev.id \notin MensajeId,
         Ordena(n, ev)
  PROVE  Saben'
<1>1. SabeLogic(logicEvents', mapaPedidos)
  BY ColaAppend DEF Ordena, Inv, ColasLogic, Saben, SabeLogic
<1> QED
  BY <1>1 DEF Ordena, Saben

LEMMA TecladoSabe ==
  ASSUME Inv, Saben, NEW n \in Node, Teclado(n)
  PROVE  Saben'
<1>1. CASE procesar_lanzar(n)
  <2>1. PICK c \in Pedible : Ordena(n, [id |-> "DO_LOOKUP", cantidad |-> c])
    BY <1>1 DEF procesar_lanzar
  <2> DEFINE ev == [id |-> "DO_LOOKUP", cantidad |-> c]
  <2>2. ev \in LogicEvent /\ ev.id \notin MensajeId
    BY BazarAssumption DEF LogicEvent, MensajeId
  <2> QED
    BY <2>1, <2>2, OrdenaSabe
<1>2. CASE procesar_add_stock(n)
  <2>1. PICK p \in Elegible, c \in Reponible :
          Ordena(n, [id |-> "SET_STOCK", producto |-> p, cantidad |-> c])
    BY <1>2 DEF procesar_add_stock
  <2> DEFINE ev == [id |-> "SET_STOCK", producto |-> p, cantidad |-> c]
  <2>2. ev \in LogicEvent /\ ev.id \notin MensajeId
    BY BazarAssumption DEF LogicEvent, MensajeId
  <2> QED
    BY <2>1, <2>2, OrdenaSabe
<1>3. ASSUME NEW id \in {"SET_CUR_PROD_COMPRA", "SET_CUR_PROD_VENTA"},
             NEW p \in Elegible, Ordena(n, [id |-> id, producto |-> p])
      PROVE  Saben'
  <2> DEFINE ev == [id |-> id, producto |-> p]
  <2>1. ev \in LogicEvent /\ ev.id \notin MensajeId
    BY BazarAssumption DEF LogicEvent, MensajeId
  <2> QED
    BY <1>3, <2>1, OrdenaSabe
<1> QED
  BY <1>1, <1>2, <1>3
  DEF Teclado, procesar_set_producto_compra, procesar_set_producto_venta

-----------------------------------------------------------------------------
LEMMA SabenNext == Inv /\ Saben /\ [Next]_vars => Saben'
<1> SUFFICES ASSUME Inv, Saben, [Next]_vars PROVE Saben'
  OBVIOUS
<1>1. ASSUME NEW n \in Node, LogicStep(n), UNCHANGED <<red, ordenes>>
      PROVE  Saben'
  BY <1>1, OrdenesSaben, EnviosSaben, ClientMsgSabe DEF LogicStep
<1>2. ASSUME NEW n \in Node, RouterStep(n)
      PROVE  Saben'
  BY <1>2, RouterSabe
<1>3. ASSUME NEW n \in Node, Teclado(n)
      PROVE  Saben'
  BY <1>3, TecladoSabe
<1>4. ASSUME NEW p \in BagToSet(red), Entrega(p) \/ Pierde(p)
      PROVE  Saben'
  BY <1>4, RedSabe
<1>5. CASE UNCHANGED vars
  BY <1>5 DEF vars, logicVars, Saben
<1> QED
  BY <1>1, <1>2, <1>3, <1>4, <1>5 DEF Next

(* What Saben says of every queue is what PedidoConocido says of all of    *)
(* them together.                                                          *)
LEMMA SabenPedido ==
  ASSUME Inv, Saben PROVE PedidoConocido
<1>1. ASSUME NEW x \in ConMensaje
      PROVE  Conocido(x.ev.tag, mapaPedidos)
  <2>1. x \in Pendientes /\ x.ev.id \in MensajeId \cup RouterId \cup {"red"}
    BY <1>1 DEF ConMensaje
  <2>2. ASSUME NEW n \in Node, NEW i \in 1..Len(logicEvents[n]),
               x = [en |-> <<n, "Logic", i>>, ev |-> logicEvents[n][i]]
        PROVE  Conocido(x.ev.tag, mapaPedidos)
    <3>1. x.ev = logicEvents[n][i]
      BY <2>2
    <3>2. logicEvents[n][i] \in LogicEvent
      BY DEF Inv, ColasLogic
    <3>3. x.ev.id \in MensajeId
      BY <2>1, <3>1, <3>2 DEF LogicEvent, MensajeId, RouterId
    <3> QED
      BY <3>1, <3>3 DEF Saben, SabeLogic
  <2>3. ASSUME NEW n \in Node, NEW i \in 1..Len(routerEvents[n]),
               x = [en |-> <<n, "Router", i>>, ev |-> routerEvents[n][i]]
        PROVE  Conocido(x.ev.tag, mapaPedidos)
    BY <2>3 DEF Saben, SabeRouter
  <2>4. ASSUME NEW p \in BagToSet(red), NEW i \in 1..red[p],
               x = [en |-> <<p.dst, "red", i>>, ev |-> [id |-> "red", tag |-> p.tag]]
        PROVE  Conocido(x.ev.tag, mapaPedidos)
    <3>1. x.ev.tag = p.tag
      BY <2>4
    <3> QED
      BY <3>1 DEF Saben, SabeRed
  <2> DEFINE
        A == UNION {{[en |-> <<n, "Logic", i>>, ev |-> logicEvents[n][i]] :
                       i \in 1..Len(logicEvents[n])} : n \in Node}
        B == UNION {{[en |-> <<n, "Router", i>>, ev |-> routerEvents[n][i]] :
                       i \in 1..Len(routerEvents[n])} : n \in Node}
        C == UNION {{[en |-> <<p.dst, "red", i>>, ev |-> [id |-> "red", tag |-> p.tag]] :
                       i \in 1..red[p]} : p \in BagToSet(red)}
  <2>5. CASE x \in A
    <3>1. PICK n \in Node :
            x \in {[en |-> <<n, "Logic", i>>, ev |-> logicEvents[n][i]] :
                     i \in 1..Len(logicEvents[n])}
      BY <2>5
    <3> QED
      BY <2>2, <3>1
  <2>6. CASE x \in B
    <3>1. PICK n \in Node :
            x \in {[en |-> <<n, "Router", i>>, ev |-> routerEvents[n][i]] :
                     i \in 1..Len(routerEvents[n])}
      BY <2>6
    <3> QED
      BY <2>3, <3>1
  <2>7. CASE x \in C
    <3>1. PICK p \in BagToSet(red) :
            x \in {[en |-> <<p.dst, "red", i>>, ev |-> [id |-> "red", tag |-> p.tag]] :
                     i \in 1..red[p]}
      BY <2>7
    <3> QED
      BY <2>4, <3>1
  <2>8. Pendientes = A \cup B \cup C
    BY Zenon DEF Pendientes
  <2> HIDE DEF A, B, C
  <2> QED
    BY <2>1, <2>5, <2>6, <2>7, <2>8
<1> QED
  BY <1>1 DEF PedidoConocido, Conocido, get_creator_node_name

(* SiemprePedidoConocido: however a LOOKUP is flooded and whatever order   *)
(* its REPLYs come back in, mapaPedidos of its creator has its entry, so   *)
(* the test of on_receive_replay never reads one it has just made up.      *)
THEOREM SiemprePedidoConocido == Spec => []PedidoConocido
<1>1. Spec => []Saben
  BY SabenInit, SabenNext, InvSiempre, PTL DEF Spec
<1>2. Inv /\ Saben => PedidoConocido
  BY SabenPedido
<1> QED
  BY <1>1, <1>2, InvSiempre, PTL

-----------------------------------------------------------------------------
(* When no LOOKUP comes back to its creator.  The test of send_broadcast_  *)
(* message is enough where the neighbours are two nodes, since a LOOKUP    *)
(* that has made one hop is sent by others, and its creator sends it once, *)
(* to its neighbours.                                                      *)

(* The configurations meant: no node is its own neighbour, nor twice the   *)
(* neighbour of another.                                                   *)
VecinosDistintos ==
  \A n \in Node :
    /\ \A k \in 1..2 : Vecino[n][k] # n
    /\ Vecino[n][1] = Vecino[n][2] => Vecino[n][1] = Nadie

(* The messages of the bag b are as SinEco says.                           *)
RedSinEco(b) ==
  \A p \in BagToSet(b) :
    p.tag.code = "LOOKUP" => p.dst # get_creator_node_name(p.tag)

(* What a Router sends to both its neighbours without a test is a LOOKUP   *)
(* that its own node has just created.                                     *)
Primero(f) ==
  \A n \in Node : \A i \in 1..Len(f[n]) :
    f[n][i].id = "RT_FIRST_BROADCAST" => f[n][i].tag.nodos = <<n>>

EcoInv == RedSinEco(red) /\ Primero(routerEvents)

-----------------------------------------------------------------------------
LEMMA PrimeroPostea ==
  ASSUME Inv, Primero(routerEvents), NEW n \in Node,
         NEW id \in RouterId, NEW m \in Mensaje, PosteaRouter(n, id, m),
         id = "RT_FIRST_BROADCAST" => m.nodos = <<n>>
  PROVE  Primero(routerEvents')
<1> DEFINE e == [id |-> id, tag |-> m]
<1>1. e \in RouterEvent /\ (e.id = "RT_FIRST_BROADCAST" => e.tag.nodos = <<n>>)
  BY DEF RouterEvent
<1>2. routerEvents' = [routerEvents EXCEPT ![n] = Append(@, e)]
  BY DEF PosteaRouter
<1> HIDE DEF e
<1> QED
  BY <1>1, <1>2, ColaAppend DEF Inv, ColasRouter, Primero

LEMMA PrimeroAtiende ==
  ASSUME Inv, Primero(routerEvents), NEW n \in Node, NEW id, AtiendeRouter(n, id)
  PROVE  /\ Primero(routerEvents')
         /\ id = "RT_FIRST_BROADCAST" => Cabeza(n).nodos = <<n>>
<1>1. /\ routerEvents[n] # <<>> /\ routerEvents[n] \in Seq(RouterEvent)
      /\ Head(routerEvents[n]).id = id
  BY DEF AtiendeRouter, Inv, ColasRouter
<1>2. 1 \in 1..Len(routerEvents[n]) /\ Head(routerEvents[n]) = routerEvents[n][1]
  BY <1>1, ColaTail
<1>3. id = "RT_FIRST_BROADCAST" => Cabeza(n).nodos = <<n>>
  BY <1>1, <1>2 DEF Primero, Cabeza
<1>4. Primero(routerEvents')
  BY <1>1, ColaTail DEF AtiendeRouter, Inv, ColasRouter, Primero
<1> QED
  BY <1>3, <1>4

LEMMA EnviaSinEco ==
  ASSUME NEW b, IsABag(b), RedSinEco(b), NEW d, NEW m,
         d # Nadie /\ m.code = "LOOKUP" => d # get_creator_node_name(m)
  PROVE  IsABag(Envia(b, d, m)) /\ RedSinEco(Envia(b, d, m))
<1> DEFINE p == [dst |-> d, tag |-> m]
<1>1. p.dst = d /\ p.tag = m
  OBVIOUS
<1> HIDE DEF p
<1>2. IsABag(BagAdd(b, p)) /\ BagToSet(BagAdd(b, p)) = BagToSet(b) \cup {p}
  BY BagAddLemma
<1>3. CASE d = Nadie
  BY <1>3 DEF Envia
<1>4. CASE d # Nadie
  <2>1. RedSinEco(BagAdd(b, p))
    BY <1>1, <1>2, <1>4 DEF RedSinEco
  <2> QED
    BY <1>2, <1>4, <2>1 DEF Envia, p
<1> QED
  BY <1>3, <1>4

LEMMA EnviaDos ==
  ASSUME NEW b, IsABag(b), RedSinEco(b), NEW m, NEW d, NEW e,
         \A x \in {d, e} :
           x # Nadie /\ m.code = "LOOKUP" => x # get_creator_node_name(m)
  PROVE  RedSinEco(Envia(Envia(b, d, m), e, m))
<1>1. IsABag(Envia(b, d, m)) /\ RedSinEco(Envia(b, d, m))
  BY EnviaSinEco
<1> HIDE DEF Envia
<1> QED
  BY <1>1, EnviaSinEco

-----------------------------------------------------------------------------
LEMMA EcoInit == Init => EcoInv
  BY DEF Init, LogicInit, EcoInv, RedSinEco, Primero, BagToSet, EmptyBag, SetToBag

(* Only on_send_look_up posts RT_FIRST_BROADCAST.                          *)
LEMMA LogicEco ==
  ASSUME Inv, EcoInv, NEW n \in Node, UNCHANGED red, LogicStep(n)
  PROVE  EcoInv'
<1>0. Primero(routerEvents) /\ RedSinEco(red)
  BY DEF EcoInv
<1> SUFFICES Primero(routerEvents')
  BY <1>0 DEF EcoInv
<1>1. CASE on_send_look_up(n)
  <2> DEFINE b == build_look_up_msg(compro[n], Head(logicEvents[n]).cantidad, reloj)
             m == add_nodo(b, n)
  <2>1. Head(logicEvents[n]).cantidad \in Int
    BY <1>1, Atendido DEF on_send_look_up
  <2>2. m \in Mensaje
    BY <2>1, LookupNuevo DEF Inv
  <2>3. PosteaRouter(n, "RT_FIRST_BROADCAST", m)
    BY <1>1 DEF on_send_look_up
  <2>4. m.nodos = <<n>>
    BY DEF add_nodo, build_look_up_msg
  <2> HIDE DEF m
  <2> QED
    BY <1>0, <2>2, <2>3, <2>4, PrimeroPostea DEF RouterId
<1>2. ASSUME NEW id \in RouterId \ {"RT_FIRST_BROADCAST"}, NEW m \in Mensaje,
             PosteaRouter(n, id, m)
      PROVE  Primero(routerEvents')
  BY <1>0, <1>2, PrimeroPostea
<1>3. CASE UNCHANGED routerEvents
  BY <1>0, <1>3
<1> DEFINE t == Head(logicEvents[n]).tag
<1>4. ASSUME NEW id \in MensajeId, Atiende(n, id)
      PROVE  t \in Mensaje /\ LogicEventOK(n, Head(logicEvents[n]))
  BY <1>4, Atendido
<1>5. CASE on_send_look_up_forward(n)
  <2>1. t \in Mensaje
    BY <1>4, <1>5 DEF on_send_look_up_forward, MensajeId
  <2>2. add_nodo(less_hopcount(t), n) \in Mensaje
    BY <2>1, BuildersTyped
  <2> QED
    BY <1>2, <1>3, <1>5, <2>2 DEF on_send_look_up_forward, RouterId
<1>6. CASE on_send_replay(n)
  <2>1. t \in Mensaje
    BY <1>4, <1>6 DEF on_send_replay, MensajeId
  <2> QED
    BY <1>2, <1>6, <2>1, BuildersTyped DEF on_send_replay, RouterId
<1>7. CASE on_send_replay_forward(n)
  <2>1. t \in Mensaje /\ Len(t.nodos) > 1
    BY <1>7, Atendido DEF on_send_replay_forward, MensajeId, LogicEventOK
  <2> QED
    BY <1>2, <1>7, <2>1, BuildersTyped DEF on_send_replay_forward, RouterId
<1>8. CASE on_send_buy(n) \/ on_send_buy_reply_ok(n) \/ on_send_buy_reply_err(n)
  <2>1. t \in Mensaje
    BY <1>4, <1>8
    DEF on_send_buy, on_send_buy_reply_ok, on_send_buy_reply_err, MensajeId
  <2> QED
    BY <1>2, <1>8, <2>1, BuildersTyped
    DEF on_send_buy, on_send_buy_reply_ok, on_send_buy_reply_err, RouterId
<1>9. CASE on_client_msg(n)
  <2>1. t \in Mensaje
    BY <1>4, <1>9 DEF on_client_msg, MensajeId
  <2>2. PICK m \in Load(t) :
          \/ UNCHANGED routerEvents
          \/ PosteaRouter(n, "RT_CLOSE_P2P_CONNECT", m)
    BY <1>9 DEF on_client_msg, on_receive_look_up, on_receive_replay,
                on_receive_buy, on_receive_buy_reply_ok, on_receive_buy_reply_err
  <2>3. m \in Mensaje
    BY <2>1, LoadLemma
  <2> QED
    BY <1>2, <1>3, <2>2, <2>3 DEF RouterId
<1>10. CASE set_stock_product(n) \/ set_cur_prod_compra(n) \/ set_cur_prod_venta(n)
  BY <1>3, <1>10 DEF set_stock_product, set_cur_prod_compra, set_cur_prod_venta
<1> QED
  BY <1>1, <1>5, <1>6, <1>7, <1>8, <1>9, <1>10 DEF LogicStep

LEMMA RouterEco ==
  ASSUME VecinosDistintos, Inv, EcoInv, NEW n \in Node, RouterStep(n)
  PROVE  EcoInv'
<1> DEFINE m == Cabeza(n)
<1>0. IsABag(red) /\ RedSinEco(red) /\ Primero(routerEvents)
  BY DEF Inv, RedOK, EcoInv
<1>1. ASSUME NEW id, AtiendeRouter(n, id), RedSinEco(red')
      PROVE  EcoInv'
  BY <1>0, <1>1, PrimeroAtiende DEF EcoInv
<1>2. CASE send_first_broadcast_message(n)
  <2>1. m.nodos = <<n>> /\ get_creator_node_name(m) = n
    <3>1. m.nodos = <<n>>
      BY <1>0, <1>2, PrimeroAtiende DEF send_first_broadcast_message
    <3> QED
      BY <3>1 DEF get_creator_node_name
  <2>2. Vecino[n][1] # n /\ Vecino[n][2] # n
    BY DEF VecinosDistintos
  <2>3. RedSinEco(Envia(Envia(red, Vecino[n][1], m), Vecino[n][2], m))
    BY <1>0, <2>1, <2>2, EnviaDos
  <2> QED
    BY <1>1, <1>2, <2>3 DEF send_first_broadcast_message
<1>3. CASE send_broadcast_message(n)
  <2>1. \A k \in 1..2 : LET d == DestinoBroadcast(n, k)
                        IN  d # Nadie => d # get_creator_node_name(m)
    BY DEF VecinosDistintos, DestinoBroadcast, find_in_client_sockets_nodo_nombre
  <2>2. RedSinEco(Envia(Envia(red, DestinoBroadcast(n, 1), m),
                        DestinoBroadcast(n, 2), m))
    <3>1. \A x \in {DestinoBroadcast(n, 1), DestinoBroadcast(n, 2)} :
            x # Nadie => x # get_creator_node_name(m)
      BY <2>1
    <3> QED
      BY <1>0, <3>1, EnviaDos
  <2> QED
    BY <1>1, <1>3, <2>2 DEF send_broadcast_message
<1>4. CASE send_to_next_node_message(n)
  <2>1. m.code # "LOOKUP"
    BY <1>4, AtendidoRouter
    DEF send_to_next_node_message, RouterEventOK, ReplySale, Cabeza
  <2> QED
    BY <1>0, <1>1, <1>4, <2>1, EnviaSinEco DEF send_to_next_node_message
<1>5. CASE start_p2p_connect(n)
  <2>1. m.code # "LOOKUP"
    BY <1>5, AtendidoRouter DEF start_p2p_connect, RouterEventOK, Cabeza
  <2> QED
    BY <1>0, <1>1, <1>5, <2>1, EnviaSinEco DEF start_p2p_connect
<1>6. CASE send_to_p2p_socket_message(n)
  <2>1. m.code # "LOOKUP"
    BY <1>6, AtendidoRouter DEF send_to_p2p_socket_message, RouterEventOK, Cabeza
  <2> QED
    BY <1>0, <1>1, <1>6, <2>1, EnviaSinEco DEF send_to_p2p_socket_message
<1>7. CASE close_p2p_connect(n)
  BY <1>0, <1>1, <1>7 DEF close_p2p_connect
<1> QED
  BY <1>2, <1>3, <1>4, <1>5, <1>6, <1>7 DEF RouterStep

LEMMA RestoEco ==
  ASSUME Inv, EcoInv,
         \/ \E n \in Node : Teclado(n)
         \/ \E p \in BagToSet(red) : Entrega(p) \/ Pierde(p)
         \/ UNCHANGED vars
  PROVE  EcoInv'
<1>1. CASE \E n \in Node : Teclado(n)
  <2>1. UNCHANGED <<routerEvents, red>>
    BY <1>1 DEF Teclado, procesar_lanzar, procesar_add_stock, Ordena,
                procesar_set_producto_compra, procesar_set_producto_venta
  <2> QED
    BY <2>1 DEF EcoInv
<1>2. CASE \E p \in BagToSet(red) : Entrega(p) \/ Pierde(p)
  <2>1. PICK p \in BagToSet(red) : Entrega(p) \/ Pierde(p)
    BY <1>2
  <2>2. UNCHANGED routerEvents /\ red' = BagRemove(red, p)
    BY <2>1 DEF Entrega, Pierde, logicVars
  <2>3. RedSinEco(BagRemove(red, p))
    BY BagRemoveLemma DEF Inv, RedOK, EcoInv, RedSinEco
  <2> QED
    BY <2>2, <2>3 DEF EcoInv
<1>3. CASE UNCHANGED vars
  BY <1>3 DEF vars, logicVars, EcoInv
<1> QED
  BY <1>1, <1>2, <1>3

LEMMA EcoNext == VecinosDistintos => (Inv /\ EcoInv /\ [Next]_vars => EcoInv')
  BY LogicEco, RouterEco, RestoEco DEF Next

(* SinEcoSiDistintos: where the two neighbours of a node are two nodes, no *)
(* LOOKUP is ever sent to the node that created it, whatever is lost or    *)
(* overtaken.                                                              *)
THEOREM SinEcoSiDistintos == ASSUME VecinosDistintos PROVE Spec => []SinEco
<1>1. Inv /\ EcoInv /\ [Next]_vars => EcoInv'
  BY EcoNext
<1>2. EcoInv => SinEco
  BY DEF EcoInv, RedSinEco, SinEco
<1> QED
  BY <1>1, <1>2, EcoInit, InvSiempre, PTL DEF Spec

-----------------------------------------------------------------------------
(* Queues and bags of which at most one element is of a set X.             *)

NingunoEn(f, X) == \A n \in Node : \A i \in 1..Len(f[n]) : f[n][i] \notin X

UnoEn(f, X) ==
  \A n, k \in Node : \A i \in 1..Len(f[n]), j \in 1..Len(f[k]) :
    f[n][i] \in X /\ f[k][j] \in X => n = k /\ i = j

NingunoDe(b, X) == \A p \in BagToSet(b) : p \notin X

UnoDe(b, X) ==
  \A p, q \in BagToSet(b) : p \in X /\ q \in X => p = q /\ b[p] = 1

LEMMA TomaDeCola ==
  ASSUME NEW S, NEW X, NEW f \in [Node -> Seq(S)], NEW n \in Node,
         f[n] # <<>>, UnoEn(f, X)
  PROVE  LET g == [f EXCEPT ![n] = Tail(@)]
         IN  /\ g \in [Node -> Seq(S)]
             /\ UnoEn(g, X)
             /\ Head(f[n]) \in X => NingunoEn(g, X)
             /\ NingunoEn(f, X) => NingunoEn(g, X) /\ Head(f[n]) \notin X
<1> DEFINE g == [f EXCEPT ![n] = Tail(@)]
<1>1. /\ f[n] \in Seq(S) /\ 1 \in 1..Len(f[n]) /\ Head(f[n]) = f[n][1]
      /\ Tail(f[n]) \in Seq(S) /\ Len(Tail(f[n])) = Len(f[n]) - 1
      /\ \A i \in 1..Len(Tail(f[n])) : /\ i + 1 \in 1..Len(f[n])
                                       /\ Tail(f[n])[i] = f[n][i + 1]
  OBVIOUS
<1>2. /\ g \in [Node -> Seq(S)] /\ g[n] = Tail(f[n])
      /\ \A k \in Node \ {n} : g[k] = f[k]
  BY <1>1
<1> HIDE DEF g
<1>3. ASSUME NEW k \in Node, NEW i \in 1..Len(g[k])
      PROVE  \E j \in 1..Len(f[k]) : /\ g[k][i] = f[k][j]
                                     /\ k = n => j = i + 1
                                     /\ k # n => j = i
  BY <1>1, <1>2
<1>4. UnoEn(g, X)
  <2> SUFFICES ASSUME NEW k \in Node, NEW l \in Node,
                      NEW i \in 1..Len(g[k]), NEW j \in 1..Len(g[l]),
                      g[k][i] \in X, g[l][j] \in X
               PROVE  k = l /\ i = j
    BY DEF UnoEn
  <2>1. PICK a \in 1..Len(f[k]) : /\ g[k][i] = f[k][a]
                                  /\ k = n => a = i + 1
                                  /\ k # n => a = i
    BY <1>3
  <2>2. PICK b \in 1..Len(f[l]) : /\ g[l][j] = f[l][b]
                                  /\ l = n => b = j + 1
                                  /\ l # n => b = j
    BY <1>3
  <2>3. k = l /\ a = b
    BY <2>1, <2>2 DEF UnoEn
  <2>4. i \in Int /\ j \in Int
    OBVIOUS
  <2> QED
    BY <2>1, <2>2, <2>3, <2>4
<1>5. ASSUME Head(f[n]) \in X PROVE NingunoEn(g, X)
  <2> SUFFICES ASSUME NEW k \in Node, NEW i \in 1..Len(g[k]), g[k][i] \in X
               PROVE  FALSE
    BY DEF NingunoEn
  <2>1. PICK j \in 1..Len(f[k]) : g[k][i] = f[k][j] /\ (k = n => j = i + 1)
    BY <1>3
  <2>2. k = n /\ j = 1
    BY <1>1, <1>5, <2>1 DEF UnoEn
  <2> QED
    BY <2>1, <2>2
<1>6. NingunoEn(f, X) => NingunoEn(g, X)
  BY <1>3 DEF NingunoEn
<1>7. NingunoEn(f, X) => Head(f[n]) \notin X
  BY <1>1 DEF NingunoEn
<1> QED
  BY <1>2, <1>4, <1>5, <1>6, <1>7 DEF g

LEMMA DaACola ==
  ASSUME NEW S, NEW X, NEW f \in [Node -> Seq(S)], NEW n \in Node, NEW e \in S,
         UnoEn(f, X), e \in X => NingunoEn(f, X)
  PROVE  LET g == [f EXCEPT ![n] = Append(@, e)]
         IN  /\ UnoEn(g, X)
             /\ NingunoEn(f, X) /\ e \notin X => NingunoEn(g, X)
<1> DEFINE g == [f EXCEPT ![n] = Append(@, e)]
<1>1. /\ f[n] \in Seq(S) /\ Len(Append(f[n], e)) = Len(f[n]) + 1
      /\ \A i \in 1..Len(Append(f[n], e)) :
           \/ i \in 1..Len(f[n]) /\ Append(f[n], e)[i] = f[n][i]
           \/ i = Len(f[n]) + 1 /\ Append(f[n], e)[i] = e
  OBVIOUS
<1>2. /\ g[n] = Append(f[n], e)
      /\ \A k \in Node \ {n} : g[k] = f[k]
  OBVIOUS
<1> HIDE DEF g
<1>3. ASSUME NEW k \in Node, NEW i \in 1..Len(g[k])
      PROVE  \/ i \in 1..Len(f[k]) /\ g[k][i] = f[k][i]
             \/ k = n /\ i = Len(f[n]) + 1 /\ g[k][i] = e
  BY <1>1, <1>2
<1>4. NingunoEn(f, X) /\ e \notin X => NingunoEn(g, X)
  BY <1>3 DEF NingunoEn
<1>5. UnoEn(g, X)
  <2> SUFFICES ASSUME NEW k \in Node, NEW l \in Node,
                      NEW i \in 1..Len(g[k]), NEW j \in 1..Len(g[l]),
                      g[k][i] \in X, g[l][j] \in X
               PROVE  k = l /\ i = j
    BY DEF UnoEn
  <2>1. CASE e \in X
    <3>1. NingunoEn(f, X)
      BY <2>1
    <3>2. k = n /\ i = Len(f[n]) + 1
      BY <1>3, <3>1 DEF NingunoEn
    <3>3. l = n /\ j = Len(f[n]) + 1
      BY <1>3, <3>1 DEF NingunoEn
    <3> QED
      BY <3>2, <3>3
  <2>2. CASE e \notin X
    <3>1. i \in 1..Len(f[k]) /\ g[k][i] = f[k][i]
      BY <1>3, <2>2
    <3>2. j \in 1..Len(f[l]) /\ g[l][j] = f[l][j]
      BY <1>3, <2>2
    <3> QED
      BY <3>1, <3>2 DEF UnoEn
  <2> QED
    BY <2>1, <2>2
<1> QED
  BY <1>4, <1>5 DEF g

LEMMA TomaDeBolsa ==
  ASSUME NEW X, NEW b, IsABag(b), NEW p \in BagToSet(b), UnoDe(b, X)
  PROVE  /\ UnoDe(BagRemove(b, p), X)
         /\ p \in X => NingunoDe(BagRemove(b, p), X)
         /\ NingunoDe(b, X) => NingunoDe(BagRemove(b, p), X) /\ p \notin X
<1> DEFINE c == BagRemove(b, p)
<1>1. /\ BagToSet(c) \subseteq BagToSet(b)
      /\ b[p] = 1 => p \notin BagToSet(c)
      /\ \A q \in BagToSet(c) : q # p => c[q] = b[q]
  BY DEF IsABag, BagRemove, BagToSet
<1> HIDE DEF c
<1>2. p \in X => NingunoDe(c, X)
  BY <1>1 DEF UnoDe, NingunoDe
<1>3. p \notin X => UnoDe(c, X)
  BY <1>1 DEF UnoDe
<1>4. NingunoDe(c, X) => UnoDe(c, X)
  BY DEF UnoDe, NingunoDe
<1>5. NingunoDe(b, X) => NingunoDe(c, X) /\ p \notin X
  BY <1>1 DEF NingunoDe
<1> QED
  BY <1>2, <1>3, <1>4, <1>5 DEF c

LEMMA DaABolsa ==
  ASSUME NEW X, NEW b, IsABag(b), NEW p,
         UnoDe(b, X), p \in X => NingunoDe(b, X)
  PROVE  /\ UnoDe(BagAdd(b, p), X)
         /\ NingunoDe(b, X) /\ p \notin X => NingunoDe(BagAdd(b, p), X)
<1> DEFINE c == BagAdd(b, p)
<1>1. /\ BagToSet(c) = BagToSet(b) \cup {p}
      /\ \A q \in BagToSet(b) : q # p => c[q] = b[q]
      /\ p \notin BagToSet(b) => c[p] = 1
  BY DEF IsABag, BagAdd, BagToSet
<1> HIDE DEF c
<1>2. CASE p \in X
  <2>1. \A q \in BagToSet(c) : q \in X => q = p
    BY <1>1, <1>2 DEF NingunoDe
  <2>2. p \notin BagToSet(b)
    BY <1>2 DEF NingunoDe
  <2> QED
    BY <1>1, <1>2, <2>1, <2>2 DEF UnoDe, c
<1>3. CASE p \notin X
  BY <1>1, <1>3 DEF UnoDe, NingunoDe, c
<1> QED
  BY <1>2, <1>3

-----------------------------------------------------------------------------
(* The steps of the negotiation of the purchase of time t, wherever they   *)
(* are: what Trato says, queue by queue.                                   *)
EsTrato(m, t) == m.ts = t /\ m.code \in {"BUY", "BUY_OK", "BUY_ERR"}

TratoLogic(t) ==
  {ev \in LogicEvent : /\ ev.id \in MensajeId
                       /\ \/ EsTrato(ev.tag, t)
                          \/ ev.id = "DO_BUY" /\ ev.tag.ts = t}

TratoRouter(t) == {ev \in RouterEvent : EsTrato(ev.tag, t)}

TratoRed(t) == {p \in Paquete : EsTrato(p.tag, t)}

(* No step of the negotiation of t, and at most one.                       *)
Libre(L, R, b, t) ==
  /\ NingunoEn(L, TratoLogic(t))
  /\ NingunoEn(R, TratoRouter(t))
  /\ NingunoDe(b, TratoRed(t))

AMasUno(L, R, b, t) ==
  /\ UnoEn(L, TratoLogic(t))
  /\ UnoEn(R, TratoRouter(t))
  /\ UnoDe(b, TratoRed(t))
  /\ \/ NingunoEn(L, TratoLogic(t)) /\ NingunoEn(R, TratoRouter(t))
     \/ NingunoEn(L, TratoLogic(t)) /\ NingunoDe(b, TratoRed(t))
     \/ NingunoEn(R, TratoRouter(t)) /\ NingunoDe(b, TratoRed(t))

LEMMA TomaLogic ==
  ASSUME NEW L \in [Node -> Seq(LogicEvent)], NEW R, NEW b, NEW t, NEW n \in Node,
         L[n] # <<>>, AMasUno(L, R, b, t)
  PROVE  LET K == [L EXCEPT ![n] = Tail(@)]
         IN  /\ K \in [Node -> Seq(LogicEvent)]
             /\ AMasUno(K, R, b, t)
             /\ Head(L[n]) \in TratoLogic(t) => Libre(K, R, b, t)
             /\ Libre(L, R, b, t) => Libre(K, R, b, t)
<1> DEFINE K == [L EXCEPT ![n] = Tail(@)]
           X == TratoLogic(t)
<1> HIDE DEF X
<1>1. UnoEn(L, X)
  BY DEF AMasUno, X
<1>2. /\ K \in [Node -> Seq(LogicEvent)]
      /\ UnoEn(K, X)
      /\ Head(L[n]) \in X => NingunoEn(K, X)
      /\ NingunoEn(L, X) => NingunoEn(K, X) /\ Head(L[n]) \notin X
  BY <1>1, TomaDeCola
<1> HIDE DEF K
<1> QED
  BY <1>2 DEF AMasUno, Libre, X, K

LEMMA DaLogic ==
  ASSUME NEW L \in [Node -> Seq(LogicEvent)], NEW R, NEW b, NEW t, NEW n \in Node,
         NEW e \in LogicEvent, AMasUno(L, R, b, t),
         e \in TratoLogic(t) => Libre(L, R, b, t)
  PROVE  LET K == [L EXCEPT ![n] = Append(@, e)]
         IN  /\ AMasUno(K, R, b, t)
             /\ Libre(L, R, b, t) /\ e \notin TratoLogic(t) => Libre(K, R, b, t)
<1> DEFINE K == [L EXCEPT ![n] = Append(@, e)]
           X == TratoLogic(t)
<1> HIDE DEF X
<1>1. UnoEn(L, X) /\ (e \in X => NingunoEn(L, X))
  BY DEF AMasUno, Libre, X
<1>2. /\ UnoEn(K, X)
      /\ NingunoEn(L, X) /\ e \notin X => NingunoEn(K, X)
  BY <1>1, DaACola
<1> HIDE DEF K
<1> QED
  BY <1>2 DEF AMasUno, Libre, X, K

LEMMA TomaRouter ==
  ASSUME NEW L, NEW R \in [Node -> Seq(RouterEvent)], NEW b, NEW t, NEW n \in Node,
         R[n] # <<>>, AMasUno(L, R, b, t)
  PROVE  LET K == [R EXCEPT ![n] = Tail(@)]
         IN  /\ AMasUno(L, K, b, t)
             /\ Head(R[n]) \in TratoRouter(t) => Libre(L, K, b, t)
             /\ Libre(L, R, b, t) => Libre(L, K, b, t)
<1> DEFINE K == [R EXCEPT ![n] = Tail(@)]
           X == TratoRouter(t)
<1> HIDE DEF X
<1>1. UnoEn(R, X)
  BY DEF AMasUno, X
<1>2. /\ UnoEn(K, X)
      /\ Head(R[n]) \in X => NingunoEn(K, X)
      /\ NingunoEn(R, X) => NingunoEn(K, X) /\ Head(R[n]) \notin X
  BY <1>1, TomaDeCola
<1> HIDE DEF K
<1> QED
  BY <1>2 DEF AMasUno, Libre, X, K

LEMMA DaRouter ==
  ASSUME NEW L, NEW R \in [Node -> Seq(RouterEvent)], NEW b, NEW t, NEW n \in Node,
         NEW e \in RouterEvent, AMasUno(L, R, b, t),
         e \in TratoRouter(t) => Libre(L, R, b, t)
  PROVE  LET K == [R EXCEPT ![n] = Append(@, e)]
         IN  /\ AMasUno(L, K, b, t)
             /\ Libre(L, R, b, t) /\ e \notin TratoRouter(t) => Libre(L, K, b, t)
<1> DEFINE K == [R EXCEPT ![n] = Append(@, e)]
           X == TratoRouter(t)
<1> HIDE DEF X
<1>1. UnoEn(R, X) /\ (e \in X => NingunoEn(R, X))
  BY DEF AMasUno, Libre, X
<1>2. /\ UnoEn(K, X)
      /\ NingunoEn(R, X) /\ e \notin X => NingunoEn(K, X)
  BY <1>1, DaACola
<1> HIDE DEF K
<1> QED
  BY <1>2 DEF AMasUno, Libre, X, K

LEMMA TomaRed ==
  ASSUME NEW L, NEW R, NEW b, IsABag(b), NEW t, NEW p \in BagToSet(b),
         AMasUno(L, R, b, t)
  PROVE  /\ AMasUno(L, R, BagRemove(b, p), t)
         /\ p \in TratoRed(t) => Libre(L, R, BagRemove(b, p), t)
         /\ Libre(L, R, b, t) => Libre(L, R, BagRemove(b, p), t)
<1> DEFINE X == TratoRed(t)
           c == BagRemove(b, p)
<1> HIDE DEF X, c
<1>1. UnoDe(b, X)
  BY DEF AMasUno, X
<1>2. /\ UnoDe(c, X)
      /\ p \in X => NingunoDe(c, X)
      /\ NingunoDe(b, X) => NingunoDe(c, X) /\ p \notin X
  BY <1>1, TomaDeBolsa DEF c
<1> QED
  BY <1>2 DEF AMasUno, Libre, X, c

LEMMA DaRed ==
  ASSUME NEW L, NEW R, NEW b, IsABag(b), NEW t, NEW d, NEW m,
         AMasUno(L, R, b, t), EsTrato(m, t) => Libre(L, R, b, t)
  PROVE  /\ AMasUno(L, R, Envia(b, d, m), t)
         /\ Libre(L, R, b, t) /\ ~EsTrato(m, t) => Libre(L, R, Envia(b, d, m), t)
         /\ IsABag(Envia(b, d, m))
<1>1. CASE d = Nadie
  BY <1>1 DEF Envia
<1>2. CASE d # Nadie
  <2> DEFINE X == TratoRed(t)
             p == [dst |-> d, tag |-> m]
             c == BagAdd(b, p)
  <2>1. p \in X => EsTrato(m, t)
    BY DEF TratoRed
  <2>2. Envia(b, d, m) = c
    BY <1>2 DEF Envia
  <2>3. IsABag(c)
    BY BagAddLemma
  <2> HIDE DEF X, p
  <2>4. UnoDe(b, X) /\ (p \in X => NingunoDe(b, X))
    BY <2>1 DEF AMasUno, Libre, X
  <2>5. /\ UnoDe(c, X)
        /\ NingunoDe(b, X) /\ p \notin X => NingunoDe(c, X)
    BY <2>4, DaABolsa
  <2> HIDE DEF c
  <2> QED
    BY <2>1, <2>2, <2>3, <2>5 DEF AMasUno, Libre, X
<1> QED
  BY <1>1, <1>2

-----------------------------------------------------------------------------
(* A REPLY has been taken for the purchase of time t.                      *)
Recibido(P, t) == \E n \in Node : t \in DOMAIN P[n] /\ P[n][t] = "REPLY_RECIBIDO"

Bien(L, R, b, P) ==
  \A t \in Nat : AMasUno(L, R, b, t) /\ (Libre(L, R, b, t) \/ Recibido(P, t))

(* A purchase is in the map of one node, and the clock is past it.         *)
UnDueno ==
  \A n, k \in Node : \A t \in DOMAIN mapaPedidos[n] :
    t < reloj /\ (t \in DOMAIN mapaPedidos[k] => n = k)

(* What is answered is a BUY.                                              *)
RespuestaId == {"DO_BUY_REPLY_OK", "DO_BUY_REPLY_ERR"}

Respuestas(L) ==
  \A n \in Node : \A i \in 1..Len(L[n]) :
    L[n][i].id \in RespuestaId => L[n][i].tag.code = "BUY"

Negocios ==
  /\ Bien(logicEvents, routerEvents, red, mapaPedidos)
  /\ UnDueno
  /\ Respuestas(logicEvents)

LEMMA NegociosInit == Init => Negocios
<1> SUFFICES ASSUME Init PROVE Negocios
  OBVIOUS
<1>1. UnDueno /\ Respuestas(logicEvents)
  BY DEF Init, LogicInit, UnDueno, Respuestas
<1>2. \A t \in Nat : Libre(logicEvents, routerEvents, red, t)
  BY DEF Init, LogicInit, Libre, NingunoEn, NingunoDe, BagToSet, EmptyBag, SetToBag
<1>3. ASSUME NEW L, NEW R, NEW b, NEW t, Libre(L, R, b, t)
      PROVE  AMasUno(L, R, b, t)
  BY <1>3 DEF Libre, AMasUno, NingunoEn, UnoEn, NingunoDe, UnoDe
<1> QED
  BY <1>1, <1>2, <1>3 DEF Negocios, Bien

(* A step that makes no new Trato of any purchase.                         *)
Sigue(t) ==
  /\ AMasUno(logicEvents', routerEvents', red', t)
  /\ Libre(logicEvents, routerEvents, red, t)
       => Libre(logicEvents', routerEvents', red', t)

LEMMA SigueBien ==
  ASSUME Bien(logicEvents, routerEvents, red, mapaPedidos),
         \A t \in Nat : Recibido(mapaPedidos, t) => Recibido(mapaPedidos', t),
         \A t \in Nat : Sigue(t)
  PROVE  Bien(logicEvents', routerEvents', red', mapaPedidos')
  BY DEF Bien, Sigue

LEMMA HechoSigue ==
  ASSUME Inv, NEW n \in Node, logicEvents[n] # <<>>, Hecho(n), NEW t,
         AMasUno(logicEvents, routerEvents, red, t),
         UNCHANGED <<routerEvents, red>>
  PROVE  Sigue(t)
<1>1. /\ logicEvents \in [Node -> Seq(LogicEvent)]
      /\ logicEvents' = [logicEvents EXCEPT ![n] = Tail(@)]
  BY DEF Inv, ColasLogic, Hecho
<1> QED
  BY <1>1, TomaLogic DEF Sigue

LEMMA LogicLogicSigue ==
  ASSUME Inv, NEW n \in Node, logicEvents[n] # <<>>,
         NEW id \in MensajeId, NEW m \in Mensaje, HechoYPostea(n, id, m), NEW t,
         AMasUno(logicEvents, routerEvents, red, t),
         [id |-> id, tag |-> m] \in TratoLogic(t)
           => \/ Head(logicEvents[n]) \in TratoLogic(t)
              \/ Libre(logicEvents, routerEvents, red, t),
         UNCHANGED <<routerEvents, red>>
  PROVE  /\ AMasUno(logicEvents', routerEvents', red', t)
         /\ [id |-> id, tag |-> m] \notin TratoLogic(t) => Sigue(t)
         /\ Head(logicEvents[n]) \in TratoLogic(t) => Sigue(t)
<1> DEFINE e == [id |-> id, tag |-> m]
           K == [logicEvents EXCEPT ![n] = Tail(@)]
<1>1. logicEvents \in [Node -> Seq(LogicEvent)]
  BY DEF Inv, ColasLogic
<1>2. e \in LogicEvent
  BY DEF LogicEvent
<1>3. logicEvents' = [K EXCEPT ![n] = Append(@, e)]
  BY <1>1 DEF HechoYPostea
<1>4. /\ K \in [Node -> Seq(LogicEvent)]
      /\ AMasUno(K, routerEvents, red, t)
      /\ Head(logicEvents[n]) \in TratoLogic(t) => Libre(K, routerEvents, red, t)
      /\ Libre(logicEvents, routerEvents, red, t) => Libre(K, routerEvents, red, t)
  BY <1>1, TomaLogic
<1>5. Libre(logicEvents, routerEvents, red, t)
        => Head(logicEvents[n]) \notin TratoLogic(t)
  BY ColaTail, <1>1 DEF Libre, NingunoEn
<1> HIDE DEF e, K
<1>6. /\ AMasUno(logicEvents', routerEvents, red, t)
      /\ Libre(K, routerEvents, red, t) /\ e \notin TratoLogic(t)
           => Libre(logicEvents', routerEvents, red, t)
  BY <1>2, <1>3, <1>4, DaLogic DEF e
<1> QED
  BY <1>4, <1>5, <1>6 DEF Sigue, e

LEMMA LogicRouterSigue ==
  ASSUME Inv, NEW n \in Node, logicEvents[n] # <<>>, Hecho(n),
         NEW id \in RouterId, NEW m \in Mensaje, PosteaRouter(n, id, m), NEW t,
         AMasUno(logicEvents, routerEvents, red, t),
         EsTrato(m, t) => Head(logicEvents[n]) \in TratoLogic(t),
         UNCHANGED red
  PROVE  Sigue(t)
<1> DEFINE e == [id |-> id, tag |-> m]
<1>1. /\ logicEvents \in [Node -> Seq(LogicEvent)]
      /\ routerEvents \in [Node -> Seq(RouterEvent)]
      /\ logicEvents' = [logicEvents EXCEPT ![n] = Tail(@)]
  BY DEF Inv, ColasLogic, ColasRouter, Hecho
<1>2. /\ AMasUno(logicEvents', routerEvents, red, t)
      /\ Head(logicEvents[n]) \in TratoLogic(t)
           => Libre(logicEvents', routerEvents, red, t)
      /\ Libre(logicEvents, routerEvents, red, t)
           => Libre(logicEvents', routerEvents, red, t)
  BY <1>1, TomaLogic
<1>3. Libre(logicEvents, routerEvents, red, t)
        => Head(logicEvents[n]) \notin TratoLogic(t)
  BY ColaTail, <1>1 DEF Libre, NingunoEn
<1>4. /\ e \in RouterEvent
      /\ e \in TratoRouter(t) => EsTrato(m, t)
  BY DEF RouterEvent, TratoRouter
<1>5. EsTrato(m, t) => e \in TratoRouter(t)
  BY <1>4 DEF TratoRouter
<1>6. routerEvents' = [routerEvents EXCEPT ![n] = Append(@, e)]
  BY DEF PosteaRouter
<1> HIDE DEF e
<1>7. /\ AMasUno(logicEvents', routerEvents', red, t)
      /\ Libre(logicEvents', routerEvents, red, t) /\ e \notin TratoRouter(t)
           => Libre(logicEvents', routerEvents', red, t)
  BY <1>1, <1>2, <1>4, <1>6, DaRouter
<1> QED
  BY <1>2, <1>3, <1>4, <1>7 DEF Sigue

-----------------------------------------------------------------------------
(* mapaPedidos: who has a purchase, and whether a REPLY was taken for it.  *)

LEMMA PonPedido ==
  ASSUME Inv, NEW n \in Node, NEW t \in Nat, NEW e \in EstadoPedido,
         setEstadoPedido(n, t, e)
  PROVE  /\ DOMAIN mapaPedidos'[n] = DOMAIN mapaPedidos[n] \cup {t}
         /\ mapaPedidos'[n][t] = e
         /\ \A x \in DOMAIN mapaPedidos[n] \ {t} :
              mapaPedidos'[n][x] = mapaPedidos[n][x]
         /\ \A k \in Node \ {n} : mapaPedidos'[k] = mapaPedidos[k]
<1>1. DOMAIN mapaPedidos = Node
  BY DEF Inv, PedidosOK
<1>2. mapaPedidos' = [mapaPedidos EXCEPT ![n] = Pon(@, t, e)]
  BY DEF setEstadoPedido
<1>3. /\ mapaPedidos'[n] = Pon(mapaPedidos[n], t, e)
      /\ \A k \in Node \ {n} : mapaPedidos'[k] = mapaPedidos[k]
  BY <1>1, <1>2
<1> QED
  BY <1>3 DEF Pon

LEMMA NuevoPedido ==
  ASSUME Inv, UnDueno, NEW n \in Node, setEstadoPedido(n, reloj, "LOOKUP_ENVIADO"),
         reloj' = reloj + 1
  PROVE  /\ UnDueno'
         /\ \A t \in Nat : Recibido(mapaPedidos, t) => Recibido(mapaPedidos', t)
<1>1. /\ reloj \in Nat
      /\ \A k \in Node : DOMAIN mapaPedidos[k] \subseteq Nat
  BY DEF Inv, PedidosOK
<1>2. \A k \in Node : reloj \notin DOMAIN mapaPedidos[k]
  BY <1>1 DEF UnDueno
<1>3. /\ DOMAIN mapaPedidos'[n] = DOMAIN mapaPedidos[n] \cup {reloj}
      /\ \A x \in DOMAIN mapaPedidos[n] \ {reloj} :
           mapaPedidos'[n][x] = mapaPedidos[n][x]
      /\ \A k \in Node \ {n} : mapaPedidos'[k] = mapaPedidos[k]
  BY <1>1, PonPedido DEF EstadoPedido
<1>4. UnDueno'
  <2> SUFFICES ASSUME NEW a \in Node, NEW k \in Node, NEW t \in DOMAIN mapaPedidos'[a]
               PROVE  t < reloj' /\ (t \in DOMAIN mapaPedidos'[k] => a = k)
    BY DEF UnDueno
  <2>1. CASE t = reloj
    BY <1>1, <1>2, <1>3, <2>1
  <2>2. CASE t # reloj
    <3>1. t \in DOMAIN mapaPedidos[a]
      BY <1>3, <2>2
    <3>2. t \in DOMAIN mapaPedidos'[k] => t \in DOMAIN mapaPedidos[k]
      BY <1>3, <2>2
    <3>3. t \in Nat
      BY <1>1, <3>1
    <3> QED
      BY <1>1, <3>1, <3>2, <3>3 DEF UnDueno
  <2> QED
    BY <2>1, <2>2
<1>5. ASSUME NEW t \in Nat, Recibido(mapaPedidos, t)
      PROVE  Recibido(mapaPedidos', t)
  <2>1. PICK k \in Node : t \in DOMAIN mapaPedidos[k]
                          /\ mapaPedidos[k][t] = "REPLY_RECIBIDO"
    BY <1>5 DEF Recibido
  <2>2. t # reloj
    BY <1>2, <2>1
  <2>3. t \in DOMAIN mapaPedidos'[k] /\ mapaPedidos'[k][t] = "REPLY_RECIBIDO"
    BY <1>3, <2>1, <2>2
  <2> QED
    BY <2>3 DEF Recibido
<1> QED
  BY <1>4, <1>5

LEMMA TomaReply ==
  ASSUME Inv, UnDueno, NEW n \in Node, NEW t \in DOMAIN mapaPedidos[n],
         setEstadoPedido(n, t, "REPLY_RECIBIDO"), UNCHANGED reloj
  PROVE  /\ UnDueno'
         /\ Recibido(mapaPedidos', t)
         /\ \A x \in Nat : Recibido(mapaPedidos, x) => Recibido(mapaPedidos', x)
<1>1. t \in Nat
  BY DEF Inv, PedidosOK
<1>2. /\ DOMAIN mapaPedidos'[n] = DOMAIN mapaPedidos[n]
      /\ mapaPedidos'[n][t] = "REPLY_RECIBIDO"
      /\ \A x \in DOMAIN mapaPedidos[n] \ {t} :
           mapaPedidos'[n][x] = mapaPedidos[n][x]
      /\ \A k \in Node \ {n} : mapaPedidos'[k] = mapaPedidos[k]
  BY <1>1, PonPedido DEF EstadoPedido
<1>3. UnDueno'
  BY <1>2 DEF UnDueno
<1>4. Recibido(mapaPedidos', t)
  BY <1>2 DEF Recibido
<1>5. ASSUME NEW x \in Nat, Recibido(mapaPedidos, x)
      PROVE  Recibido(mapaPedidos', x)
  <2>1. PICK k \in Node : x \in DOMAIN mapaPedidos[k]
                          /\ mapaPedidos[k][x] = "REPLY_RECIBIDO"
    BY <1>5 DEF Recibido
  <2>2. x \in DOMAIN mapaPedidos'[k] /\ mapaPedidos'[k][x] = "REPLY_RECIBIDO"
    BY <1>2, <2>1
  <2> QED
    BY <2>2 DEF Recibido
<1> QED
  BY <1>3, <1>4, <1>5

(* Nobody but n can have taken a REPLY for a purchase of n.                *)
LEMMA SinReply ==
  ASSUME Inv, Negocios, NEW n \in Node, NEW t \in DOMAIN mapaPedidos[n],
         estadoPedido(n, t) # "REPLY_RECIBIDO"
  PROVE  Libre(logicEvents, routerEvents, red, t)
<1>1. t \in Nat
  BY DEF Inv, PedidosOK
<1>2. ~Recibido(mapaPedidos, t)
  BY DEF Recibido, Negocios, UnDueno, estadoPedido
<1> QED
  BY <1>1, <1>2 DEF Negocios, Bien

(* Respuestas, which only on_receive_buy can disturb.                      *)
LEMMA HechoRespuestas ==
  ASSUME Inv, Negocios, NEW n \in Node, logicEvents[n] # <<>>, Hecho(n)
  PROVE  Respuestas(logicEvents')
  BY ColaTail DEF Inv, ColasLogic, Negocios, Respuestas, Hecho

LEMMA HechoYPosteaRespuestas ==
  ASSUME Inv, Negocios, NEW n \in Node, logicEvents[n] # <<>>,
         NEW id \in MensajeId, NEW m \in Mensaje,
         id \in RespuestaId => m.code = "BUY", HechoYPostea(n, id, m)
  PROVE  Respuestas(logicEvents')
<1> DEFINE e == [id |-> id, tag |-> m]
<1>1. e \in LogicEvent /\ (e.id \in RespuestaId => e.tag.code = "BUY")
  BY DEF LogicEvent
<1>2. logicEvents' = [logicEvents EXCEPT ![n] = Append(Tail(@), e)]
  BY DEF HechoYPostea
<1> HIDE DEF e
<1> QED
  BY <1>1, <1>2, ColaSigue DEF Inv, ColasLogic, Negocios, Respuestas

(* The two shapes of a handler that leaves mapaPedidos alone.              *)
LEMMA HechoNegocios ==
  ASSUME Inv, Negocios, NEW n \in Node, logicEvents[n] # <<>>, Hecho(n),
         UNCHANGED <<routerEvents, red, mapaPedidos, reloj>>
  PROVE  Negocios'
<1>1. \A t \in Nat : Sigue(t)
  BY HechoSigue DEF Negocios, Bien
<1>2. Bien(logicEvents', routerEvents', red', mapaPedidos')
  BY <1>1, SigueBien DEF Negocios
<1> QED
  BY <1>2, HechoRespuestas DEF Negocios, UnDueno

LEMMA LogicLogicNegocios ==
  ASSUME Inv, Negocios, NEW n \in Node, logicEvents[n] # <<>>,
         NEW id \in MensajeId, NEW m \in Mensaje,
         id \in RespuestaId => m.code = "BUY", HechoYPostea(n, id, m),
         \A t \in Nat : [id |-> id, tag |-> m] \in TratoLogic(t)
                          => Head(logicEvents[n]) \in TratoLogic(t),
         UNCHANGED <<routerEvents, red, mapaPedidos, reloj>>
  PROVE  Negocios'
<1>1. ASSUME NEW t \in Nat PROVE Sigue(t)
  <2>1. AMasUno(logicEvents, routerEvents, red, t)
    BY DEF Negocios, Bien
  <2> QED
    BY <2>1, LogicLogicSigue
<1>2. Bien(logicEvents', routerEvents', red', mapaPedidos')
  BY <1>1, SigueBien DEF Negocios
<1> QED
  BY <1>2, HechoYPosteaRespuestas DEF Negocios, UnDueno

LEMMA LogicRouterNegocios ==
  ASSUME Inv, Negocios, NEW n \in Node, logicEvents[n] # <<>>, Hecho(n),
         NEW id \in RouterId, NEW m \in Mensaje, PosteaRouter(n, id, m),
         \A t \in Nat : EsTrato(m, t) => Head(logicEvents[n]) \in TratoLogic(t),
         UNCHANGED <<red, mapaPedidos, reloj>>
  PROVE  Negocios'
<1>1. ASSUME NEW t \in Nat PROVE Sigue(t)
  <2>1. AMasUno(logicEvents, routerEvents, red, t)
    BY DEF Negocios, Bien
  <2> QED
    BY <2>1, LogicRouterSigue
<1>2. Bien(logicEvents', routerEvents', red', mapaPedidos')
  BY <1>1, SigueBien DEF Negocios
<1> QED
  BY <1>2, HechoRespuestas DEF Negocios, UnDueno

-----------------------------------------------------------------------------
(* The handlers of Logic.                                                  *)

LEMMA BuildersTrato ==
  ASSUME NEW m \in Mensaje, NEW n \in Node, NEW t
  PROVE  /\ m.code = "LOOKUP" => ~EsTrato(add_nodo(less_hopcount(m), n), t)
         /\ ~EsTrato(build_reply_msg(m, n), t)
         /\ m.code = "REPLY" => ~EsTrato(less_nodo(m), t)
         /\ EsTrato(build_buy_msg(m), t) => m.ts = t
         /\ EsTrato(build_buy_reply_ok_msg(m), t) => m.ts = t
         /\ EsTrato(build_buy_reply_err_msg(m), t) => m.ts = t
<1>1. add_nodo(less_hopcount(m), n).code = m.code
  BY DEF add_nodo, less_hopcount, Mensaje
<1>2. build_reply_msg(m, n).code = "REPLY"
  BY DEF build_reply_msg, Mensaje
<1>3. less_nodo(m).code = m.code
  BY DEF less_nodo, Mensaje
<1>4. build_buy_msg(m).ts = m.ts
  BY DEF build_buy_msg, Mensaje
<1>5. build_buy_reply_ok_msg(m).ts = m.ts
  BY DEF build_buy_reply_ok_msg, Mensaje
<1>6. build_buy_reply_err_msg(m).ts = m.ts
  BY DEF build_buy_reply_err_msg, Mensaje
<1> QED
  BY <1>1, <1>2, <1>3, <1>4, <1>5, <1>6 DEF EsTrato

LEMMA OrdenesNegocian ==
  ASSUME Inv, Negocios, NEW n \in Node, UNCHANGED red,
         \/ set_stock_product(n)
         \/ set_cur_prod_compra(n)
         \/ set_cur_prod_venta(n)
         \/ on_send_look_up(n)
  PROVE  Negocios'
<1>1. CASE set_stock_product(n) \/ set_cur_prod_compra(n) \/ set_cur_prod_venta(n)
  <2>1. /\ Hecho(n) /\ UNCHANGED <<routerEvents, mapaPedidos, reloj>>
        /\ logicEvents[n] # <<>>
    BY <1>1 DEF set_stock_product, set_cur_prod_compra, set_cur_prod_venta, Atiende
  <2> QED
    BY <2>1, HechoNegocios
<1>2. CASE on_send_look_up(n)
  <2> DEFINE b == build_look_up_msg(compro[n], Head(logicEvents[n]).cantidad, reloj)
             m == add_nodo(b, n)
  <2>1. logicEvents[n] # <<>> /\ Head(logicEvents[n]).cantidad \in Int
    BY <1>2, Atendido DEF on_send_look_up
  <2>2. m \in Mensaje
    BY <2>1, LookupNuevo DEF Inv
  <2>3. /\ PosteaRouter(n, "RT_FIRST_BROADCAST", m) /\ Hecho(n)
        /\ setEstadoPedido(n, reloj, "LOOKUP_ENVIADO") /\ reloj' = reloj + 1
    BY <1>2 DEF on_send_look_up
  <2>4. m.code = "LOOKUP"
    BY DEF add_nodo, build_look_up_msg
  <2> HIDE DEF m
  <2>5. ASSUME NEW t \in Nat PROVE Sigue(t)
    <3>1. AMasUno(logicEvents, routerEvents, red, t) /\ ~EsTrato(m, t)
      BY <2>4 DEF Negocios, Bien, EsTrato
    <3> QED
      BY <2>1, <2>2, <2>3, <3>1, LogicRouterSigue DEF RouterId
  <2>6. /\ UnDueno'
        /\ \A t \in Nat : Recibido(mapaPedidos, t) => Recibido(mapaPedidos', t)
    BY <2>3, NuevoPedido DEF Negocios
  <2>7. Bien(logicEvents', routerEvents', red', mapaPedidos')
    BY <2>5, <2>6, SigueBien DEF Negocios
  <2> QED
    BY <2>1, <2>3, <2>6, <2>7, HechoRespuestas DEF Negocios
<1> QED
  BY <1>1, <1>2

LEMMA EnviosNegocian ==
  ASSUME Inv, Negocios, NEW n \in Node, UNCHANGED red,
         \/ on_send_look_up_forward(n)
         \/ on_send_replay(n)
         \/ on_send_replay_forward(n)
         \/ on_send_buy(n)
         \/ on_send_buy_reply_ok(n)
         \/ on_send_buy_reply_err(n)
  PROVE  Negocios'
<1> DEFINE h == Head(logicEvents[n])
           m == h.tag
<1>1. CASE on_send_look_up_forward(n)
  <2>1. /\ logicEvents[n] # <<>> /\ m \in Mensaje /\ m.code = "LOOKUP"
        /\ Hecho(n) /\ UNCHANGED <<mapaPedidos, reloj>>
    BY <1>1, Atendido DEF on_send_look_up_forward, LogicEventOK, MensajeId
  <2>2. /\ add_nodo(less_hopcount(m), n) \in Mensaje
        /\ \A t \in Nat : ~EsTrato(add_nodo(less_hopcount(m), n), t)
    BY <2>1, BuildersTyped, BuildersTrato
  <2>3. CASE m.hopcount > 0
    <3>1. PosteaRouter(n, "RT_BROADCAST", add_nodo(less_hopcount(m), n))
      BY <1>1, <2>3 DEF on_send_look_up_forward
    <3> QED
      BY <2>1, <2>2, <3>1, LogicRouterNegocios DEF RouterId
  <2>4. CASE ~(m.hopcount > 0)
    <3>1. UNCHANGED routerEvents
      BY <1>1, <2>4 DEF on_send_look_up_forward
    <3> QED
      BY <2>1, <3>1, HechoNegocios
  <2> QED
    BY <2>3, <2>4
<1>2. CASE on_send_replay(n)
  <2>1. /\ logicEvents[n] # <<>> /\ m \in Mensaje
        /\ Hecho(n) /\ UNCHANGED <<mapaPedidos, reloj>>
        /\ PosteaRouter(n, "RT_SEND_TO_SOCKET", build_reply_msg(m, n))
    BY <1>2, Atendido DEF on_send_replay, MensajeId
  <2>2. /\ build_reply_msg(m, n) \in Mensaje
        /\ \A t \in Nat : ~EsTrato(build_reply_msg(m, n), t)
    BY <2>1, BuildersTyped, BuildersTrato
  <2> QED
    BY <2>1, <2>2, LogicRouterNegocios DEF RouterId
<1>3. CASE on_send_replay_forward(n)
  <2>1. /\ logicEvents[n] # <<>> /\ m \in Mensaje
        /\ m.code = "REPLY" /\ Len(m.nodos) > 1
        /\ Hecho(n) /\ UNCHANGED <<mapaPedidos, reloj>>
        /\ PosteaRouter(n, "RT_SEND_TO_SOCKET", less_nodo(m))
    BY <1>3, Atendido DEF on_send_replay_forward, LogicEventOK, MensajeId
  <2>2. less_nodo(m) \in Mensaje /\ \A t \in Nat : ~EsTrato(less_nodo(m), t)
    BY <2>1, BuildersTyped, BuildersTrato
  <2> QED
    BY <2>1, <2>2, LogicRouterNegocios DEF RouterId
<1>4. CASE on_send_buy(n)
  <2>1. /\ logicEvents[n] # <<>> /\ m \in Mensaje
        /\ h \in LogicEvent /\ h.id = "DO_BUY"
        /\ Hecho(n) /\ UNCHANGED <<mapaPedidos, reloj>>
        /\ PosteaRouter(n, "RT_START_P2P_CONNECT", build_buy_msg(m))
    BY <1>4, Atendido DEF on_send_buy, MensajeId
  <2>2. \A t \in Nat : m.ts = t => h \in TratoLogic(t)
    BY <2>1 DEF TratoLogic, MensajeId
  <2>3. /\ build_buy_msg(m) \in Mensaje
        /\ \A t \in Nat : EsTrato(build_buy_msg(m), t) => h \in TratoLogic(t)
    BY <2>1, <2>2, BuildersTyped, BuildersTrato
  <2> QED
    BY <2>1, <2>3, LogicRouterNegocios DEF RouterId
<1>5. ASSUME NEW id \in RespuestaId, Atiende(n, id)
      PROVE  /\ logicEvents[n] # <<>> /\ m \in Mensaje
             /\ \A t \in Nat : m.ts = t => h \in TratoLogic(t)
  <2>1. /\ logicEvents[n] # <<>> /\ m \in Mensaje
        /\ h \in LogicEvent /\ h.id = id /\ id \in MensajeId
    BY <1>5, Atendido DEF RespuestaId, MensajeId
  <2>2. 1 \in 1..Len(logicEvents[n]) /\ h = logicEvents[n][1]
    BY <2>1, ColaTail DEF Inv, ColasLogic
  <2>3. m.code = "BUY"
    BY <2>1, <2>2 DEF Negocios, Respuestas
  <2> QED
    BY <2>1, <2>3 DEF TratoLogic, EsTrato
<1>6. CASE on_send_buy_reply_ok(n)
  <2>1. /\ logicEvents[n] # <<>> /\ m \in Mensaje
        /\ \A t \in Nat : m.ts = t => h \in TratoLogic(t)
        /\ Hecho(n) /\ UNCHANGED <<mapaPedidos, reloj>>
        /\ PosteaRouter(n, "RT_SEND_TO_P2P_SOCKET", build_buy_reply_ok_msg(m))
    BY <1>5, <1>6 DEF on_send_buy_reply_ok, RespuestaId
  <2>2. /\ build_buy_reply_ok_msg(m) \in Mensaje
        /\ \A t \in Nat : EsTrato(build_buy_reply_ok_msg(m), t) => h \in TratoLogic(t)
    BY <2>1, BuildersTyped, BuildersTrato
  <2> QED
    BY <2>1, <2>2, LogicRouterNegocios DEF RouterId
<1>7. CASE on_send_buy_reply_err(n)
  <2>1. /\ logicEvents[n] # <<>> /\ m \in Mensaje
        /\ \A t \in Nat : m.ts = t => h \in TratoLogic(t)
        /\ Hecho(n) /\ UNCHANGED <<mapaPedidos, reloj>>
        /\ PosteaRouter(n, "RT_SEND_TO_P2P_SOCKET", build_buy_reply_err_msg(m))
    BY <1>5, <1>7 DEF on_send_buy_reply_err, RespuestaId
  <2>2. /\ build_buy_reply_err_msg(m) \in Mensaje
        /\ \A t \in Nat : EsTrato(build_buy_reply_err_msg(m), t) => h \in TratoLogic(t)
    BY <2>1, BuildersTyped, BuildersTrato
  <2> QED
    BY <2>1, <2>2, LogicRouterNegocios DEF RouterId
<1> QED
  BY <1>1, <1>2, <1>3, <1>4, <1>6, <1>7

(* A REPLY that is taken was not taken before, by anybody.                 *)
LEMMA ClientMsgNegocia ==
  ASSUME Inv, Saben, Negocios, NEW n \in Node, UNCHANGED red, on_client_msg(n)
  PROVE  Negocios'
<1> DEFINE h == Head(logicEvents[n])
<1>1. /\ logicEvents[n] # <<>> /\ h \in LogicEvent /\ h.id = "CLIENT_MSG"
      /\ h.tag \in Mensaje /\ LogicEventOK(n, h)
      /\ Conocido(h.tag, mapaPedidos)
  BY Atendido, AtendidoSabe DEF on_client_msg, MensajeId
<1>2. PICK m \in Load(h.tag) :
        \/ m.code = "LOOKUP"  /\ on_receive_look_up(n, m)
        \/ m.code = "REPLY"   /\ on_receive_replay(n, m)
        \/ m.code = "BUY"     /\ on_receive_buy(n, m)
        \/ m.code = "BUY_OK"  /\ on_receive_buy_reply_ok(n, m)
        \/ m.code = "BUY_ERR" /\ on_receive_buy_reply_err(n, m)
  BY DEF on_client_msg
<1>3. UNCHANGED reloj
  BY DEF on_client_msg
<1>4. m \in Mensaje /\ m.ts = h.tag.ts /\ m.nodos = h.tag.nodos /\ m.code = h.tag.code
  <2>1. PICK c \in Leido(h.tag.cantidad), x \in Leido(h.tag.hopcount) :
          m = Lectura(h.tag, c, x)
    BY <1>2 DEF Load
  <2>2. m.ts = h.tag.ts
    BY <1>1, <2>1 DEF Lectura, Mensaje
  <2> QED
    BY <1>1, <1>2, <2>2, LoadLemma
<1>5. \A t \in Nat : EsTrato(m, t) => h \in TratoLogic(t)
  BY <1>1, <1>4 DEF TratoLogic, EsTrato, MensajeId
<1> HIDE DEF h
<1>6. ASSUME NEW id \in MensajeId, id # "DO_BUY", HechoYPostea(n, id, m),
             id \in RespuestaId => m.code = "BUY",
             UNCHANGED <<routerEvents, mapaPedidos>>
      PROVE  Negocios'
  <2>1. \A t \in Nat : [id |-> id, tag |-> m] \in TratoLogic(t) => EsTrato(m, t)
    BY <1>6 DEF TratoLogic
  <2> QED
    BY <1>1, <1>3, <1>4, <1>5, <1>6, <2>1, LogicLogicNegocios DEF h
<1>7. ASSUME PosteaRouter(n, "RT_CLOSE_P2P_CONNECT", m), Hecho(n),
             UNCHANGED mapaPedidos
      PROVE  Negocios'
  BY <1>1, <1>3, <1>4, <1>5, <1>7, LogicRouterNegocios DEF RouterId, h
<1>8. CASE m.code = "LOOKUP" /\ on_receive_look_up(n, m)
  BY <1>6, <1>8 DEF on_receive_look_up, MensajeId, RespuestaId
<1>9. CASE m.code = "REPLY" /\ on_receive_replay(n, m)
  <2>0. UNCHANGED routerEvents
    BY <1>9 DEF on_receive_replay
  <2>1. CASE HechoYPostea(n, "DO_REPLY_FORWARD", m) /\ UNCHANGED mapaPedidos
    BY <1>6, <2>0, <2>1 DEF MensajeId, RespuestaId
  <2>2. CASE /\ Len(m.nodos) <= 1
             /\ get_next_node_name(m) = n
             /\ estadoPedido(n, m.ts) # "REPLY_RECIBIDO"
             /\ setEstadoPedido(n, m.ts, "REPLY_RECIBIDO")
             /\ HechoYPostea(n, "DO_BUY", m)
    <3> DEFINE e == [id |-> "DO_BUY", tag |-> m]
    <3>1. m.nodos \in Seq(Node) /\ m.ts \in Nat
      BY <1>4 DEF Mensaje
    <3>2. m.nodos # <<>> /\ m.ts \in DOMAIN mapaPedidos[m.nodos[1]]
      BY <1>1, <1>4, <1>9 DEF Conocido
    <3>3. m.nodos[1] = n
      BY <2>2, <3>1, <3>2 DEF get_next_node_name
    <3>4. Libre(logicEvents, routerEvents, red, m.ts)
      BY <2>2, <3>2, <3>3, SinReply
    <3>5. /\ UnDueno'
          /\ Recibido(mapaPedidos', m.ts)
          /\ \A x \in Nat : Recibido(mapaPedidos, x) => Recibido(mapaPedidos', x)
      BY <1>3, <2>2, <3>2, <3>3, TomaReply DEF Negocios
    <3>6. ASSUME NEW t \in Nat
          PROVE  /\ AMasUno(logicEvents', routerEvents', red', t)
                 /\ \/ Libre(logicEvents', routerEvents', red', t)
                    \/ Recibido(mapaPedidos', t)
      <4>1. /\ AMasUno(logicEvents, routerEvents, red, t)
            /\ Libre(logicEvents, routerEvents, red, t) \/ Recibido(mapaPedidos, t)
        BY DEF Negocios, Bien
      <4>2. e \in TratoLogic(t) => t = m.ts
        BY DEF TratoLogic, EsTrato
      <4>3. /\ AMasUno(logicEvents', routerEvents', red', t)
            /\ e \notin TratoLogic(t) => Sigue(t)
        BY <1>1, <1>4, <2>0, <2>2, <3>4, <4>1, <4>2, LogicLogicSigue DEF MensajeId
      <4> QED
        BY <3>5, <4>1, <4>2, <4>3 DEF Sigue
    <3>7. Respuestas(logicEvents')
      BY <1>1, <1>4, <2>2, HechoYPosteaRespuestas DEF MensajeId, RespuestaId
    <3> QED
      BY <3>5, <3>6, <3>7 DEF Negocios, Bien
  <2>3. CASE Hecho(n) /\ UNCHANGED mapaPedidos
    BY <1>1, <1>3, <2>0, <2>3, HechoNegocios
  <2> QED
    BY <1>9, <2>1, <2>2, <2>3 DEF on_receive_replay
<1>10. CASE m.code = "BUY" /\ on_receive_buy(n, m)
  BY <1>6, <1>10 DEF on_receive_buy, MensajeId, RespuestaId
<1>11. CASE m.code = "BUY_OK" /\ on_receive_buy_reply_ok(n, m)
  BY <1>7, <1>11 DEF on_receive_buy_reply_ok
<1>12. CASE m.code = "BUY_ERR" /\ on_receive_buy_reply_err(n, m)
  BY <1>7, <1>12 DEF on_receive_buy_reply_err
<1> QED
  BY <1>2, <1>8, <1>9, <1>10, <1>11, <1>12

-----------------------------------------------------------------------------
(* The Router, the transport and the keyboard.                             *)

LEMMA RouterSigue ==
  ASSUME Inv, Negocios, NEW n \in Node, NEW id, AtiendeRouter(n, id),
         NEW t \in Nat
  PROVE  /\ AMasUno(logicEvents', routerEvents', red, t)
         /\ EsTrato(Cabeza(n), t) => Libre(logicEvents', routerEvents', red, t)
         /\ Libre(logicEvents, routerEvents, red, t)
              => /\ ~EsTrato(Cabeza(n), t)
                 /\ Libre(logicEvents', routerEvents', red, t)
<1> DEFINE h == Head(routerEvents[n])
<1>1. /\ routerEvents \in [Node -> Seq(RouterEvent)] /\ routerEvents[n] # <<>>
      /\ routerEvents' = [routerEvents EXCEPT ![n] = Tail(@)]
      /\ logicEvents' = logicEvents
      /\ AMasUno(logicEvents, routerEvents, red, t)
  BY DEF Inv, ColasRouter, AtiendeRouter, Negocios, Bien
<1>2. /\ AMasUno(logicEvents, routerEvents', red, t)
      /\ h \in TratoRouter(t) => Libre(logicEvents, routerEvents', red, t)
      /\ Libre(logicEvents, routerEvents, red, t)
           => Libre(logicEvents, routerEvents', red, t)
  BY <1>1, TomaRouter
<1>3. /\ h \in RouterEvent /\ 1 \in 1..Len(routerEvents[n])
      /\ h = routerEvents[n][1]
  BY <1>1, ColaTail
<1>4. EsTrato(Cabeza(n), t) => h \in TratoRouter(t)
  BY <1>3 DEF TratoRouter, Cabeza
<1>5. Libre(logicEvents, routerEvents, red, t) => h \notin TratoRouter(t)
  BY <1>3 DEF Libre, NingunoEn
<1> QED
  BY <1>1, <1>2, <1>4, <1>5

(* A Router's step is known by what it does to red.                        *)
LEMMA RouterRedNegocia ==
  ASSUME Inv, Negocios, NEW n \in Node, NEW id, AtiendeRouter(n, id),
         \A t \in Nat : Sigue(t)
  PROVE  Negocios'
<1>1. UNCHANGED <<logicEvents, mapaPedidos, reloj>>
  BY DEF AtiendeRouter
<1>2. Bien(logicEvents', routerEvents', red', mapaPedidos')
  BY <1>1, SigueBien DEF Negocios
<1> QED
  BY <1>1, <1>2 DEF Negocios, UnDueno, Respuestas

LEMMA RouterNegocia ==
  ASSUME Inv, Negocios, NEW n \in Node, RouterStep(n)
  PROVE  Negocios'
<1> DEFINE m == Cabeza(n)
<1>1. IsABag(red)
  BY DEF Inv, RedOK
<1>2. ASSUME NEW id, AtiendeRouter(n, id), NEW d, red' = Envia(red, d, m)
      PROVE  Negocios'
  <2>1. ASSUME NEW t \in Nat PROVE Sigue(t)
    BY <1>1, <1>2, DaRed, RouterSigue DEF Sigue
  <2> QED
    BY <1>2, <2>1, RouterRedNegocia
<1>3. ASSUME NEW id, AtiendeRouter(n, id), UNCHANGED red
      PROVE  Negocios'
  <2>1. ASSUME NEW t \in Nat PROVE Sigue(t)
    BY <1>3, RouterSigue DEF Sigue
  <2> QED
    BY <1>3, <2>1, RouterRedNegocia
<1>4. ASSUME NEW id, AtiendeRouter(n, id), m.code = "LOOKUP", NEW d, NEW e,
             red' = Envia(Envia(red, d, m), e, m)
      PROVE  Negocios'
  <2>1. ASSUME NEW t \in Nat PROVE Sigue(t)
    <3> DEFINE b == Envia(red, d, m)
    <3>1. ~EsTrato(m, t)
      BY <1>4 DEF EsTrato
    <3>2. /\ AMasUno(logicEvents', routerEvents', red, t)
          /\ Libre(logicEvents, routerEvents, red, t)
               => Libre(logicEvents', routerEvents', red, t)
      BY <1>4, RouterSigue
    <3>3. /\ AMasUno(logicEvents', routerEvents', b, t) /\ IsABag(b)
          /\ Libre(logicEvents', routerEvents', red, t)
               => Libre(logicEvents', routerEvents', b, t)
      BY <1>1, <3>1, <3>2, DaRed
    <3> HIDE DEF b
    <3>4. /\ AMasUno(logicEvents', routerEvents', Envia(b, e, m), t)
          /\ Libre(logicEvents', routerEvents', b, t)
               => Libre(logicEvents', routerEvents', Envia(b, e, m), t)
      BY <3>1, <3>3, DaRed
    <3> QED
      BY <1>4, <3>2, <3>3, <3>4 DEF Sigue, b
  <2> QED
    BY <1>4, <2>1, RouterRedNegocia
<1>5. CASE send_first_broadcast_message(n)
  <2>1. m.code = "LOOKUP"
    BY <1>5, AtendidoRouter
    DEF send_first_broadcast_message, RouterEventOK, LookupSale, Cabeza
  <2> QED
    BY <1>4, <1>5, <2>1 DEF send_first_broadcast_message
<1>6. CASE send_broadcast_message(n)
  <2>1. m.code = "LOOKUP"
    BY <1>6, AtendidoRouter
    DEF send_broadcast_message, RouterEventOK, LookupSale, Cabeza
  <2> QED
    BY <1>4, <1>6, <2>1 DEF send_broadcast_message
<1>7. CASE send_to_next_node_message(n)
  BY <1>2, <1>7 DEF send_to_next_node_message
<1>8. CASE start_p2p_connect(n)
  BY <1>2, <1>3, <1>8 DEF start_p2p_connect
<1>9. CASE send_to_p2p_socket_message(n)
  BY <1>2, <1>9 DEF send_to_p2p_socket_message
<1>10. CASE close_p2p_connect(n)
  BY <1>3, <1>10 DEF close_p2p_connect
<1> QED
  BY <1>5, <1>6, <1>7, <1>8, <1>9, <1>10 DEF RouterStep

LEMMA RedNegocia ==
  ASSUME Inv, Negocios, NEW p \in BagToSet(red), Entrega(p) \/ Pierde(p)
  PROVE  Negocios'
<1>1. /\ p \in Paquete /\ IsABag(red)
      /\ logicEvents \in [Node -> Seq(LogicEvent)]
  BY DEF Inv, RedOK, ColasLogic
<1>2. red' = BagRemove(red, p)
  BY DEF Entrega, Pierde
<1>3. UNCHANGED <<routerEvents, mapaPedidos, reloj>>
  BY DEF Entrega, Pierde, logicVars
<1>4. ASSUME NEW t \in Nat
      PROVE  /\ AMasUno(logicEvents, routerEvents, red', t)
             /\ p \in TratoRed(t) => Libre(logicEvents, routerEvents, red', t)
             /\ Libre(logicEvents, routerEvents, red, t)
                  => /\ Libre(logicEvents, routerEvents, red', t)
                     /\ p \notin TratoRed(t)
  BY <1>1, <1>2, TomaRed DEF Negocios, Bien, Libre, NingunoDe
<1>5. CASE Entrega(p)
  <2> DEFINE e == [id |-> "CLIENT_MSG", tag |-> p.tag]
  <2>1. p.dst \in Node /\ e \in LogicEvent
    BY <1>1 DEF Paquete, LogicEvent, MensajeId
  <2>2. logicEvents' = [logicEvents EXCEPT ![p.dst] = Append(@, e)]
    BY <1>5 DEF Entrega
  <2>3. \A t \in Nat : e \in TratoLogic(t) => p \in TratoRed(t)
    BY <1>1 DEF TratoLogic, TratoRed
  <2>4. e.id \notin RespuestaId
    BY DEF RespuestaId
  <2> HIDE DEF e
  <2>5. ASSUME NEW t \in Nat PROVE Sigue(t)
    <3>1. /\ AMasUno(logicEvents', routerEvents, red', t)
          /\ Libre(logicEvents, routerEvents, red', t) /\ e \notin TratoLogic(t)
               => Libre(logicEvents', routerEvents, red', t)
      BY <1>1, <1>4, <2>1, <2>2, <2>3, DaLogic
    <3> QED
      BY <1>3, <1>4, <2>3, <3>1 DEF Sigue
  <2>6. Bien(logicEvents', routerEvents', red', mapaPedidos')
    BY <1>3, <2>5, SigueBien DEF Negocios
  <2>7. Respuestas(logicEvents')
    BY <1>1, <2>1, <2>2, <2>4, ColaAppend DEF Negocios, Respuestas
  <2> QED
    BY <1>3, <2>6, <2>7 DEF Negocios, UnDueno
<1>6. CASE Pierde(p)
  <2>1. UNCHANGED logicEvents
    BY <1>6 DEF Pierde, logicVars
  <2>2. \A t \in Nat : Sigue(t)
    BY <1>3, <1>4, <2>1 DEF Sigue
  <2>3. Bien(logicEvents', routerEvents', red', mapaPedidos')
    BY <1>3, <2>2, SigueBien DEF Negocios
  <2> QED
    BY <1>3, <2>1, <2>3 DEF Negocios, UnDueno
<1> QED
  BY <1>5, <1>6

LEMMA OrdenaNegocia ==
  ASSUME Inv, Negocios, NEW n \in Node, NEW ev \in LogicEvent,
         ev.id \notin MensajeId, Ordena(n, ev)
  PROVE  Negocios'
<1>1. /\ logicEvents \in [Node -> Seq(LogicEvent)]
      /\ logicEvents' = [logicEvents EXCEPT ![n] = Append(@, ev)]
      /\ UNCHANGED <<routerEvents, red, mapaPedidos, reloj>>
  BY DEF Inv, ColasLogic, Ordena
<1>2. ASSUME NEW t \in Nat PROVE Sigue(t)
  <2>1. AMasUno(logicEvents, routerEvents, red, t) /\ ev \notin TratoLogic(t)
    BY DEF Negocios, Bien, TratoLogic
  <2> QED
    BY <1>1, <2>1, DaLogic DEF Sigue
<1>3. Bien(logicEvents', routerEvents', red', mapaPedidos')
  BY <1>1, <1>2, SigueBien DEF Negocios
<1>4. ev.id \notin RespuestaId
  BY DEF RespuestaId, MensajeId
<1>5. Respuestas(logicEvents')
  BY <1>1, <1>4, ColaAppend DEF Negocios, Respuestas
<1> QED
  BY <1>1, <1>3, <1>5 DEF Negocios, UnDueno

LEMMA TecladoNegocia ==
  ASSUME Inv, Negocios, NEW n \in Node, Teclado(n)
  PROVE  Negocios'
<1>1. \E ev \in LogicEvent : ev.id \notin MensajeId /\ Ordena(n, ev)
  <2>1. ASSUME NEW c \in Pedible
        PROVE  LET ev == [id |-> "DO_LOOKUP", cantidad |-> c]
               IN  ev \in LogicEvent /\ ev.id \notin MensajeId
    BY BazarAssumption DEF LogicEvent, MensajeId
  <2>2. ASSUME NEW p \in Elegible, NEW c \in Reponible
        PROVE  LET ev == [id |-> "SET_STOCK", producto |-> p, cantidad |-> c]
               IN  ev \in LogicEvent /\ ev.id \notin MensajeId
    BY BazarAssumption DEF LogicEvent, MensajeId
  <2>3. ASSUME NEW p \in Elegible,
               NEW id \in {"SET_CUR_PROD_COMPRA", "SET_CUR_PROD_VENTA"}
        PROVE  LET ev == [id |-> id, producto |-> p]
               IN  ev \in LogicEvent /\ ev.id \notin MensajeId
    BY BazarAssumption DEF LogicEvent, MensajeId
  <2> QED
    BY <2>1, <2>2, <2>3
    DEF Teclado, procesar_lanzar, procesar_add_stock,
        procesar_set_producto_compra, procesar_set_producto_venta
<1> QED
  BY <1>1, OrdenaNegocia

-----------------------------------------------------------------------------
LEMMA NegociosNext == Inv /\ Saben /\ Negocios /\ [Next]_vars => Negocios'
<1> SUFFICES ASSUME Inv, Saben, Negocios, [Next]_vars PROVE Negocios'
  OBVIOUS
<1>1. ASSUME NEW n \in Node, LogicStep(n), UNCHANGED <<red, ordenes>>
      PROVE  Negocios'
  BY <1>1, OrdenesNegocian, EnviosNegocian, ClientMsgNegocia DEF LogicStep
<1>2. ASSUME NEW n \in Node, RouterStep(n)
      PROVE  Negocios'
  BY <1>2, RouterNegocia
<1>3. ASSUME NEW n \in Node, Teclado(n)
      PROVE  Negocios'
  BY <1>3, TecladoNegocia
<1>4. ASSUME NEW p \in BagToSet(red), Entrega(p) \/ Pierde(p)
      PROVE  Negocios'
  BY <1>4, RedNegocia
<1>5. CASE UNCHANGED vars
  BY <1>5 DEF vars, logicVars, Negocios, UnDueno
<1> QED
  BY <1>1, <1>2, <1>3, <1>4, <1>5 DEF Next

(* The set Trato is what the three parts of AMasUno speak of.              *)
LEMMA TratoPartes ==
  ASSUME Inv, NEW t \in Nat, NEW x \in Trato(t)
  PROVE  \/ \E n \in Node : \E i \in 1..Len(logicEvents[n]) :
              /\ logicEvents[n][i] \in TratoLogic(t)
              /\ x = [en |-> <<n, "Logic", i>>, ev |-> logicEvents[n][i]]
         \/ \E n \in Node : \E i \in 1..Len(routerEvents[n]) :
              /\ routerEvents[n][i] \in TratoRouter(t)
              /\ x = [en |-> <<n, "Router", i>>, ev |-> routerEvents[n][i]]
         \/ \E p \in BagToSet(red) : \E i \in 1..red[p] :
              /\ p \in TratoRed(t)
              /\ x = [en |-> <<p.dst, "red", i>>, ev |-> [id |-> "red", tag |-> p.tag]]
<1>1. /\ x \in Pendientes /\ x.ev.id \in MensajeId \cup RouterId \cup {"red"}
      /\ x.ev.tag.ts = t
      /\ x.ev.id = "DO_BUY" \/ x.ev.tag.code \in {"BUY", "BUY_OK", "BUY_ERR"}
  BY DEF Trato, ConMensaje
<1> DEFINE
      A == UNION {{[en |-> <<n, "Logic", i>>, ev |-> logicEvents[n][i]] :
                     i \in 1..Len(logicEvents[n])} : n \in Node}
      B == UNION {{[en |-> <<n, "Router", i>>, ev |-> routerEvents[n][i]] :
                     i \in 1..Len(routerEvents[n])} : n \in Node}
      C == UNION {{[en |-> <<p.dst, "red", i>>, ev |-> [id |-> "red", tag |-> p.tag]] :
                     i \in 1..red[p]} : p \in BagToSet(red)}
<1>2. Pendientes = A \cup B \cup C
  BY Zenon DEF Pendientes
<1>3. CASE x \in A
  <2>1. PICK n \in Node :
          x \in {[en |-> <<n, "Logic", i>>, ev |-> logicEvents[n][i]] :
                   i \in 1..Len(logicEvents[n])}
    BY <1>3
  <2>2. PICK i \in 1..Len(logicEvents[n]) :
          x = [en |-> <<n, "Logic", i>>, ev |-> logicEvents[n][i]]
    BY <2>1
  <2>3. logicEvents[n][i] \in LogicEvent
    BY DEF Inv, ColasLogic
  <2>4. x.ev = logicEvents[n][i]
    BY <2>2
  <2>5. x.ev.id \in MensajeId
    BY <1>1, <2>3, <2>4 DEF LogicEvent, MensajeId, RouterId
  <2>6. logicEvents[n][i] \in TratoLogic(t)
    BY <1>1, <2>3, <2>4, <2>5 DEF TratoLogic, EsTrato
  <2> QED
    BY <2>2, <2>6
<1>4. CASE x \in B
  <2>1. PICK n \in Node :
          x \in {[en |-> <<n, "Router", i>>, ev |-> routerEvents[n][i]] :
                   i \in 1..Len(routerEvents[n])}
    BY <1>4
  <2>2. PICK i \in 1..Len(routerEvents[n]) :
          x = [en |-> <<n, "Router", i>>, ev |-> routerEvents[n][i]]
    BY <2>1
  <2>3. routerEvents[n][i] \in RouterEvent
    BY DEF Inv, ColasRouter
  <2>4. x.ev = routerEvents[n][i]
    BY <2>2
  <2>5. x.ev.id # "DO_BUY"
    BY <2>3, <2>4 DEF RouterEvent, RouterId
  <2>6. routerEvents[n][i] \in TratoRouter(t)
    BY <1>1, <2>3, <2>4, <2>5 DEF TratoRouter, EsTrato
  <2> QED
    BY <2>2, <2>6
<1>5. CASE x \in C
  <2>1. PICK p \in BagToSet(red) :
          x \in {[en |-> <<p.dst, "red", i>>, ev |-> [id |-> "red", tag |-> p.tag]] :
                   i \in 1..red[p]}
    BY <1>5
  <2>2. PICK i \in 1..red[p] :
          x = [en |-> <<p.dst, "red", i>>, ev |-> [id |-> "red", tag |-> p.tag]]
    BY <2>1
  <2>3. x.ev.tag = p.tag /\ x.ev.id = "red"
    BY <2>2
  <2>4. p \in TratoRed(t)
    BY <1>1, <2>3 DEF TratoRed, EsTrato, Inv, RedOK
  <2> QED
    BY <2>2, <2>4
<1> HIDE DEF A, B, C
<1> QED
  BY <1>1, <1>2, <1>3, <1>4, <1>5

LEMMA TratoUno ==
  ASSUME Inv, Negocios, NEW t \in Nat, NEW x \in Trato(t), NEW y \in Trato(t)
  PROVE  x = y
<1>1. /\ UnoEn(logicEvents, TratoLogic(t))
      /\ UnoEn(routerEvents, TratoRouter(t))
      /\ UnoDe(red, TratoRed(t))
      /\ \/ /\ NingunoEn(logicEvents, TratoLogic(t))
            /\ NingunoEn(routerEvents, TratoRouter(t))
         \/ /\ NingunoEn(logicEvents, TratoLogic(t))
            /\ NingunoDe(red, TratoRed(t))
         \/ /\ NingunoEn(routerEvents, TratoRouter(t))
            /\ NingunoDe(red, TratoRed(t))
  BY DEF Negocios, Bien, AMasUno
<1> DEFINE EnLogic(z) == \E n \in Node : \E i \in 1..Len(logicEvents[n]) :
             /\ logicEvents[n][i] \in TratoLogic(t)
             /\ z = [en |-> <<n, "Logic", i>>, ev |-> logicEvents[n][i]]
           EnRouter(z) == \E n \in Node : \E i \in 1..Len(routerEvents[n]) :
             /\ routerEvents[n][i] \in TratoRouter(t)
             /\ z = [en |-> <<n, "Router", i>>, ev |-> routerEvents[n][i]]
           EnRed(z) == \E p \in BagToSet(red) : \E i \in 1..red[p] :
             /\ p \in TratoRed(t)
             /\ z = [en |-> <<p.dst, "red", i>>, ev |-> [id |-> "red", tag |-> p.tag]]
<1>2. /\ EnLogic(x) \/ EnRouter(x) \/ EnRed(x)
      /\ EnLogic(y) \/ EnRouter(y) \/ EnRed(y)
  BY TratoPartes
<1>3. \A z : EnLogic(z) => ~NingunoEn(logicEvents, TratoLogic(t))
  BY DEF NingunoEn
<1>4. \A z : EnRouter(z) => ~NingunoEn(routerEvents, TratoRouter(t))
  BY DEF NingunoEn
<1>5. \A z : EnRed(z) => ~NingunoDe(red, TratoRed(t))
  BY DEF NingunoDe
<1>6. EnLogic(x) /\ EnLogic(y) => x = y
  BY <1>1 DEF UnoEn
<1>7. EnRouter(x) /\ EnRouter(y) => x = y
  BY <1>1 DEF UnoEn
<1>8. ASSUME EnRed(x), EnRed(y) PROVE x = y
  <2>1. PICK p \in BagToSet(red) : \E i \in 1..red[p] :
          /\ p \in TratoRed(t)
          /\ x = [en |-> <<p.dst, "red", i>>, ev |-> [id |-> "red", tag |-> p.tag]]
    BY <1>8
  <2>2. PICK q \in BagToSet(red) : \E j \in 1..red[q] :
          /\ q \in TratoRed(t)
          /\ y = [en |-> <<q.dst, "red", j>>, ev |-> [id |-> "red", tag |-> q.tag]]
    BY <1>8
  <2>3. p = q /\ red[p] = 1
    BY <1>1, <2>1, <2>2 DEF UnoDe
  <2>4. \A i \in 1..red[p] : i = 1
    BY <2>3
  <2> QED
    BY <2>1, <2>2, <2>3, <2>4
<1> HIDE DEF EnLogic, EnRouter, EnRed
<1> QED
  BY <1>1, <1>2, <1>3, <1>4, <1>5, <1>6, <1>7, <1>8

LEMMA NegociosNegocia ==
  ASSUME Inv, Negocios PROVE NegociaUnaVez
<1> SUFFICES ASSUME NEW t \in 0..(reloj - 1)
             PROVE  /\ \A x, y \in Trato(t) : x = y
                    /\ Trato(t) # {} =>
                         \E n \in Node : estadoPedido(n, t) = "REPLY_RECIBIDO"
  BY DEF NegociaUnaVez
<1>1. t \in Nat
  OBVIOUS
<1>2. \A x, y \in Trato(t) : x = y
  BY <1>1, TratoUno
<1>3. ASSUME NEW x \in Trato(t)
      PROVE  \E n \in Node : estadoPedido(n, t) = "REPLY_RECIBIDO"
  <2>1. ~Libre(logicEvents, routerEvents, red, t)
    BY <1>1, <1>3, TratoPartes DEF Libre, NingunoEn, NingunoDe
  <2>2. Recibido(mapaPedidos, t)
    BY <1>1, <2>1 DEF Negocios, Bien
  <2> QED
    BY <2>2 DEF Recibido, estadoPedido
<1> QED
  BY <1>2, <1>3

(* SiempreNegociaUnaVez: however many sellers answer a LOOKUP, and however *)
(* late and in whatever order their REPLYs, BUYs and answers come, each    *)
(* purchase is negotiated with one seller at a time, and only once a REPLY *)
(* has been taken for it (on_receive_replay).                              *)
THEOREM SiempreNegociaUnaVez == Spec => []NegociaUnaVez
<1>1. Spec => []Saben
  BY SabenInit, SabenNext, InvSiempre, PTL DEF Spec
<1>2. Spec => []Negocios
  BY <1>1, NegociosInit, NegociosNext, InvSiempre, PTL DEF Spec
<1>3. Inv /\ Negocios => NegociaUnaVez
  BY NegociosNegocia
<1> QED
  BY <1>2, <1>3, InvSiempre, PTL
-----------------------------------------------------------------------------
(* Bazar implements Trueque.  The proof follows the message that carries a *)
(* purchase.  There is at most one (SiempreNegociaUnaVez) of each          *)
(* purchase, so every step takes a purchase out of Tratos or EnCamino, or  *)
(* puts it in, only if it handles that message.                            *)

(* Queues and bags of which no element is of a set X.                      *)

LEMMA QuitaDeCola ==
  ASSUME NEW S, NEW X, NEW f \in [Node -> Seq(S)], NEW n \in Node,
         f[n] # <<>>, Head(f[n]) \notin X
  PROVE  LET g == [f EXCEPT ![n] = Tail(@)]
         IN  NingunoEn(g, X) <=> NingunoEn(f, X)
<1> DEFINE g == [f EXCEPT ![n] = Tail(@)]
<1>1. /\ f[n] \in Seq(S) /\ Head(f[n]) = f[n][1]
      /\ Tail(f[n]) \in Seq(S) /\ Len(Tail(f[n])) = Len(f[n]) - 1
      /\ \A i \in 1..Len(Tail(f[n])) : /\ i + 1 \in 1..Len(f[n])
                                       /\ Tail(f[n])[i] = f[n][i + 1]
      /\ \A i \in 1..Len(f[n]) :
           i # 1 => i - 1 \in 1..Len(Tail(f[n])) /\ Tail(f[n])[i - 1] = f[n][i]
  OBVIOUS
<1>2. g[n] = Tail(f[n]) /\ \A k \in Node \ {n} : g[k] = f[k]
  BY <1>1
<1> HIDE DEF g
<1>3. ASSUME NingunoEn(f, X), NEW k \in Node, NEW i \in 1..Len(g[k])
      PROVE  g[k][i] \notin X
  <2>1. CASE k = n
    <3>1. i + 1 \in 1..Len(f[n]) /\ g[k][i] = f[n][i + 1]
      BY <1>1, <1>2, <1>3, <2>1
    <3>2. f[n][i + 1] \notin X
      BY <1>3, <3>1 DEF NingunoEn
    <3> QED
      BY <3>1, <3>2
  <2>2. CASE k # n
    BY <1>2, <1>3, <2>2 DEF NingunoEn
  <2> QED
    BY <2>1, <2>2
<1>4. ASSUME NingunoEn(g, X), NEW k \in Node, NEW i \in 1..Len(f[k])
      PROVE  f[k][i] \notin X
  <2>1. CASE k = n /\ i # 1
    <3>1. i - 1 \in 1..Len(g[n]) /\ g[n][i - 1] = f[n][i]
      BY <1>1, <1>2, <1>4, <2>1
    <3>2. g[n][i - 1] \notin X
      BY <1>4, <3>1 DEF NingunoEn
    <3> QED
      BY <2>1, <3>1, <3>2
  <2>2. CASE k = n /\ i = 1
    BY <1>1, <2>2
  <2>3. CASE k # n
    BY <1>2, <1>4, <2>3 DEF NingunoEn
  <2> QED
    BY <2>1, <2>2, <2>3
<1> QED
  BY <1>3, <1>4 DEF NingunoEn, g

LEMMA PonEnCola ==
  ASSUME NEW S, NEW X, NEW f \in [Node -> Seq(S)], NEW n \in Node, NEW e \in S
  PROVE  LET g == [f EXCEPT ![n] = Append(@, e)]
         IN  NingunoEn(g, X) <=> NingunoEn(f, X) /\ e \notin X
<1> DEFINE g == [f EXCEPT ![n] = Append(@, e)]
<1>1. /\ f[n] \in Seq(S) /\ Len(f[n]) + 1 \in 1..Len(Append(f[n], e))
      /\ Append(f[n], e)[Len(f[n]) + 1] = e
      /\ \A i \in 1..Len(f[n]) : /\ i \in 1..Len(Append(f[n], e))
                                 /\ Append(f[n], e)[i] = f[n][i]
      /\ \A i \in 1..Len(Append(f[n], e)) :
           \/ i \in 1..Len(f[n]) /\ Append(f[n], e)[i] = f[n][i]
           \/ Append(f[n], e)[i] = e
  OBVIOUS
<1>2. g[n] = Append(f[n], e) /\ \A k \in Node \ {n} : g[k] = f[k]
  OBVIOUS
<1> HIDE DEF g
<1>3. NingunoEn(f, X) /\ e \notin X => NingunoEn(g, X)
  BY <1>1, <1>2 DEF NingunoEn
<1>4. ASSUME NingunoEn(g, X), NEW k \in Node, NEW i \in 1..Len(f[k])
      PROVE  f[k][i] \notin X
  BY <1>1, <1>2, <1>4 DEF NingunoEn
<1>5. NingunoEn(g, X) => e \notin X
  BY <1>1, <1>2 DEF NingunoEn
<1> QED
  BY <1>3, <1>4, <1>5 DEF NingunoEn, g

LEMMA QuitaDeBolsa ==
  ASSUME NEW X, NEW b, IsABag(b), NEW p \in BagToSet(b), p \notin X
  PROVE  NingunoDe(BagRemove(b, p), X) <=> NingunoDe(b, X)
  BY DEF IsABag, BagRemove, BagToSet, NingunoDe

LEMMA PonEnBolsa ==
  ASSUME NEW X, NEW b, IsABag(b), NEW p
  PROVE  NingunoDe(BagAdd(b, p), X) <=> NingunoDe(b, X) /\ p \notin X
  BY BagAddLemma DEF NingunoDe

-----------------------------------------------------------------------------
(* The purchases that an event carries: as one that is agreed on, or as    *)
(* one whose units were debited.  A message in red counts as an event.     *)

Clase == {"trato", "abono"}

ConTag == MensajeId \cup RouterId \cup {"red"}

EsDe(k, ev) ==
  \/ /\ k = "trato"
     /\ \/ ev.id = "DO_BUY"
        \/ ev.tag.code = "BUY" /\ ev.id \notin RespuestaId
  \/ /\ k = "abono"
     /\ \/ ev.id = "DO_BUY_REPLY_OK" /\ ev.tag.code = "BUY"
        \/ ev.tag.code = "BUY_OK" /\ ev.id # "RT_CLOSE_P2P_CONNECT"

Fichas(k, ev) ==
  IF ev.id \in ConTag /\ EsDe(k, ev) THEN {Ficha(ev.tag)} ELSE {}

EnRed(p) == [id |-> "red", tag |-> p.tag]

(* The events that carry purchase u.                                       *)
DeLogic(k, u) == {ev \in LogicEvent : u \in Fichas(k, ev)}
DeRouter(k, u) == {ev \in RouterEvent : u \in Fichas(k, ev)}
DeRed(k, u) == {p \in Paquete : u \in Fichas(k, EnRed(p))}

Nada(L, R, b, k, u) ==
  /\ NingunoEn(L, DeLogic(k, u))
  /\ NingunoEn(R, DeRouter(k, u))
  /\ NingunoDe(b, DeRed(k, u))

En(k) == IF k = "trato" THEN Tratos ELSE EnCamino

(* What carries a purchase is a step of its negotiation.                   *)
LEMMA FichaTrato ==
  ASSUME NEW k \in Clase, NEW u
  PROVE  /\ DeLogic(k, u) \subseteq TratoLogic(u.ts)
         /\ DeRouter(k, u) \subseteq TratoRouter(u.ts)
         /\ DeRed(k, u) \subseteq TratoRed(u.ts)
<1>1. ASSUME NEW ev, u \in Fichas(k, ev)
      PROVE  /\ ev.id \in ConTag /\ EsDe(k, ev) /\ u = Ficha(ev.tag)
             /\ u.ts = ev.tag.ts
             /\ ev.id = "DO_BUY" \/ EsTrato(ev.tag, u.ts)
  <2>1. ev.id \in ConTag /\ EsDe(k, ev) /\ u = Ficha(ev.tag)
    BY <1>1 DEF Fichas
  <2>2. u.ts = ev.tag.ts
    BY <2>1 DEF Ficha
  <2> QED
    BY <2>1, <2>2 DEF EsDe, EsTrato
<1>2. ASSUME NEW ev \in LogicEvent, u \in Fichas(k, ev)
      PROVE  ev \in TratoLogic(u.ts)
  <2>1. ev.id \in MensajeId
    BY <1>1, <1>2 DEF LogicEvent, ConTag, MensajeId, RouterId
  <2> QED
    BY <1>1, <1>2, <2>1 DEF TratoLogic
<1>3. ASSUME NEW ev \in RouterEvent, u \in Fichas(k, ev)
      PROVE  ev \in TratoRouter(u.ts)
  <2>1. ev.id # "DO_BUY"
    BY DEF RouterEvent, RouterId
  <2> QED
    BY <1>1, <1>3, <2>1 DEF TratoRouter
<1>4. ASSUME NEW p \in Paquete, u \in Fichas(k, EnRed(p))
      PROVE  p \in TratoRed(u.ts)
  <2>1. EnRed(p).id = "red" /\ EnRed(p).tag = p.tag
    BY DEF EnRed
  <2> QED
    BY <1>1, <1>4, <2>1 DEF TratoRed
<1> QED
  BY <1>2, <1>3, <1>4 DEF DeLogic, DeRouter, DeRed

LEMMA LibreNada ==
  ASSUME NEW L, NEW R, NEW b, NEW k \in Clase, NEW u, Libre(L, R, b, u.ts)
  PROVE  Nada(L, R, b, k, u)
  BY FichaTrato DEF Libre, Nada, NingunoEn, NingunoDe

(* What is taken out of a queue or of red was all there was of it.         *)
LEMMA QuitaLogic ==
  ASSUME NEW L \in [Node -> Seq(LogicEvent)], NEW R, NEW b, NEW k \in Clase,
         NEW u, NEW n \in Node, L[n] # <<>>, AMasUno(L, R, b, u.ts)
  PROVE  LET K == [L EXCEPT ![n] = Tail(@)]
             h == Head(L[n])
         IN  /\ Nada(K, R, b, k, u) <=> Nada(L, R, b, k, u) \/ u \in Fichas(k, h)
             /\ u \in Fichas(k, h) => ~Nada(L, R, b, k, u)
<1> DEFINE K == [L EXCEPT ![n] = Tail(@)]
           h == Head(L[n])
           X == DeLogic(k, u)
<1>1. h \in LogicEvent /\ h = L[n][1] /\ 1 \in 1..Len(L[n])
  BY ColaTail
<1>2. h \in X <=> u \in Fichas(k, h)
  BY <1>1 DEF DeLogic
<1>3. h \in TratoLogic(u.ts) => Libre(K, R, b, u.ts)
  BY TomaLogic
<1>4. h \in X => Nada(K, R, b, k, u)
  BY <1>3, FichaTrato, LibreNada
<1>5. h \in X => ~Nada(L, R, b, k, u)
  BY <1>1 DEF Nada, NingunoEn
<1> HIDE DEF X
<1>6. h \notin X => (NingunoEn(K, X) <=> NingunoEn(L, X))
  BY QuitaDeCola
<1> HIDE DEF K
<1>7. h \notin X => (Nada(K, R, b, k, u) <=> Nada(L, R, b, k, u))
  BY <1>6 DEF Nada, X
<1> HIDE DEF h
<1> QED
  BY <1>2, <1>4, <1>5, <1>7 DEF K, h

LEMMA PonLogic ==
  ASSUME NEW L \in [Node -> Seq(LogicEvent)], NEW R, NEW b, NEW k \in Clase,
         NEW u, NEW n \in Node, NEW e \in LogicEvent
  PROVE  LET K == [L EXCEPT ![n] = Append(@, e)]
         IN  Nada(K, R, b, k, u) <=> Nada(L, R, b, k, u) /\ u \notin Fichas(k, e)
<1> DEFINE K == [L EXCEPT ![n] = Append(@, e)]
           X == DeLogic(k, u)
<1>1. e \in X <=> u \in Fichas(k, e)
  BY DEF DeLogic
<1> HIDE DEF X
<1>2. NingunoEn(K, X) <=> NingunoEn(L, X) /\ e \notin X
  BY PonEnCola
<1> HIDE DEF K
<1> QED
  BY <1>1, <1>2 DEF Nada, K, X

LEMMA QuitaRouter ==
  ASSUME NEW L, NEW R \in [Node -> Seq(RouterEvent)], NEW b, NEW k \in Clase,
         NEW u, NEW n \in Node, R[n] # <<>>, AMasUno(L, R, b, u.ts)
  PROVE  LET K == [R EXCEPT ![n] = Tail(@)]
             h == Head(R[n])
         IN  /\ Nada(L, K, b, k, u) <=> Nada(L, R, b, k, u) \/ u \in Fichas(k, h)
             /\ u \in Fichas(k, h) => ~Nada(L, R, b, k, u)
<1> DEFINE K == [R EXCEPT ![n] = Tail(@)]
           h == Head(R[n])
           X == DeRouter(k, u)
<1>1. h \in RouterEvent /\ h = R[n][1] /\ 1 \in 1..Len(R[n])
  BY ColaTail
<1>2. h \in X <=> u \in Fichas(k, h)
  BY <1>1 DEF DeRouter
<1>3. h \in TratoRouter(u.ts) => Libre(L, K, b, u.ts)
  BY TomaRouter
<1>4. h \in X => Nada(L, K, b, k, u)
  BY <1>3, FichaTrato, LibreNada
<1>5. h \in X => ~Nada(L, R, b, k, u)
  BY <1>1 DEF Nada, NingunoEn
<1> HIDE DEF X
<1>6. h \notin X => (NingunoEn(K, X) <=> NingunoEn(R, X))
  BY QuitaDeCola
<1> HIDE DEF K
<1>7. h \notin X => (Nada(L, K, b, k, u) <=> Nada(L, R, b, k, u))
  BY <1>6 DEF Nada, X
<1> HIDE DEF h
<1> QED
  BY <1>2, <1>4, <1>5, <1>7 DEF K, h

LEMMA PonRouter ==
  ASSUME NEW L, NEW R \in [Node -> Seq(RouterEvent)], NEW b, NEW k \in Clase,
         NEW u, NEW n \in Node, NEW e \in RouterEvent
  PROVE  LET K == [R EXCEPT ![n] = Append(@, e)]
         IN  Nada(L, K, b, k, u) <=> Nada(L, R, b, k, u) /\ u \notin Fichas(k, e)
<1> DEFINE K == [R EXCEPT ![n] = Append(@, e)]
           X == DeRouter(k, u)
<1>1. e \in X <=> u \in Fichas(k, e)
  BY DEF DeRouter
<1> HIDE DEF X
<1>2. NingunoEn(K, X) <=> NingunoEn(R, X) /\ e \notin X
  BY PonEnCola
<1> HIDE DEF K
<1> QED
  BY <1>1, <1>2 DEF Nada, K, X

LEMMA QuitaRed ==
  ASSUME NEW L, NEW R, NEW b, IsABag(b), NEW k \in Clase, NEW u,
         NEW p \in BagToSet(b), p \in Paquete, AMasUno(L, R, b, u.ts)
  PROVE  LET c == BagRemove(b, p)
         IN  /\ Nada(L, R, c, k, u) <=>
                  Nada(L, R, b, k, u) \/ u \in Fichas(k, EnRed(p))
             /\ u \in Fichas(k, EnRed(p)) => ~Nada(L, R, b, k, u)
<1> DEFINE c == BagRemove(b, p)
           X == DeRed(k, u)
<1>1. p \in X <=> u \in Fichas(k, EnRed(p))
  BY DEF DeRed
<1>2. p \in TratoRed(u.ts) => Libre(L, R, c, u.ts)
  BY TomaRed
<1>3. p \in X => Nada(L, R, c, k, u)
  BY <1>2, FichaTrato, LibreNada
<1>4. p \in X => ~Nada(L, R, b, k, u)
  BY DEF Nada, NingunoDe
<1> HIDE DEF X
<1>5. p \notin X => (NingunoDe(c, X) <=> NingunoDe(b, X))
  BY QuitaDeBolsa
<1> HIDE DEF c
<1>6. p \notin X => (Nada(L, R, c, k, u) <=> Nada(L, R, b, k, u))
  BY <1>5 DEF Nada, X
<1> QED
  BY <1>1, <1>3, <1>4, <1>6 DEF c

LEMMA PonRed ==
  ASSUME NEW L, NEW R, NEW b, IsABag(b), NEW k \in Clase, NEW u,
         NEW d \in Node \cup {Nadie}, NEW m \in Mensaje
  PROVE  LET c == Envia(b, d, m)
             e == [id |-> "red", tag |-> m]
         IN  Nada(L, R, c, k, u) <=>
               Nada(L, R, b, k, u) /\ (d = Nadie \/ u \notin Fichas(k, e))
<1> DEFINE c == Envia(b, d, m)
           e == [id |-> "red", tag |-> m]
           p == [dst |-> d, tag |-> m]
           X == DeRed(k, u)
<1>1. CASE d = Nadie
  BY <1>1 DEF Envia
<1>2. CASE d # Nadie
  <2>1. c = BagAdd(b, p) /\ p \in Paquete /\ EnRed(p) = e
    BY <1>2 DEF Envia, Paquete, EnRed
  <2>2. p \in X <=> u \in Fichas(k, e)
    BY <2>1 DEF DeRed
  <2> HIDE DEF X, p
  <2>3. NingunoDe(c, X) <=> NingunoDe(b, X) /\ p \notin X
    BY <2>1, PonEnBolsa
  <2> HIDE DEF c, e
  <2> QED
    BY <1>2, <2>2, <2>3 DEF Nada, X, c, e
<1> QED
  BY <1>1, <1>2

-----------------------------------------------------------------------------
(* Tratos and EnCamino are what the queues and red carry.                  *)

Compra == [ts : Nat, producto : Nombre, cantidad : Int]

Presencia ==
  \A k \in Clase :
    En(k) = {u \in Compra : ~Nada(logicEvents, routerEvents, red, k, u)}

LEMMA FichaCompra ==
  ASSUME NEW m \in Mensaje
  PROVE  Ficha(m) \in Compra
  BY DEF Ficha, Mensaje, Compra

LEMMA FichasCompra ==
  ASSUME NEW k \in Clase, NEW ev, ev.id \in ConTag => ev.tag \in Mensaje
  PROVE  Fichas(k, ev) \subseteq Compra
  BY FichaCompra DEF Fichas

LEMMA EventoTag ==
  /\ \A ev \in LogicEvent : ev.id \in ConTag => ev.tag \in Mensaje
  /\ \A ev \in RouterEvent : ev.id \in ConTag /\ ev.tag \in Mensaje
  /\ \A p \in Paquete : EnRed(p).id \in ConTag /\ EnRed(p).tag \in Mensaje
<1>1. \A ev \in LogicEvent : ev.id \in ConTag => ev.tag \in Mensaje
  BY DEF LogicEvent, ConTag, MensajeId, RouterId
<1>2. \A ev \in RouterEvent : ev.id \in ConTag /\ ev.tag \in Mensaje
  BY DEF RouterEvent, ConTag
<1>3. \A p \in Paquete : EnRed(p).id \in ConTag /\ EnRed(p).tag \in Mensaje
  BY DEF Paquete, EnRed, ConTag
<1> QED
  BY <1>1, <1>2, <1>3

(* The events of ConMensaje, place by place.                               *)
LEMMA ConMensajeEs ==
  ASSUME Inv, NEW x \in ConMensaje
  PROVE  \/ \E n \in Node : \E i \in 1..Len(logicEvents[n]) :
              x.ev = logicEvents[n][i] /\ x.ev.id \in MensajeId
         \/ \E n \in Node : \E i \in 1..Len(routerEvents[n]) :
              x.ev = routerEvents[n][i]
         \/ \E p \in BagToSet(red) : x.ev = EnRed(p)
<1> DEFINE
      A == UNION {{[en |-> <<n, "Logic", i>>, ev |-> logicEvents[n][i]] :
                     i \in 1..Len(logicEvents[n])} : n \in Node}
      B == UNION {{[en |-> <<n, "Router", i>>, ev |-> routerEvents[n][i]] :
                     i \in 1..Len(routerEvents[n])} : n \in Node}
      C == UNION {{[en |-> <<p.dst, "red", i>>, ev |-> [id |-> "red", tag |-> p.tag]] :
                     i \in 1..red[p]} : p \in BagToSet(red)}
<1>1. x \in Pendientes /\ x.ev.id \in ConTag
  BY DEF ConMensaje, ConTag
<1>2. Pendientes = A \cup B \cup C
  BY Zenon DEF Pendientes
<1>3. ASSUME x \in A
      PROVE  \E n \in Node : \E i \in 1..Len(logicEvents[n]) :
               x.ev = logicEvents[n][i] /\ x.ev.id \in MensajeId
  <2>1. PICK n \in Node :
          x \in {[en |-> <<n, "Logic", i>>, ev |-> logicEvents[n][i]] :
                   i \in 1..Len(logicEvents[n])}
    BY <1>3
  <2>2. PICK i \in 1..Len(logicEvents[n]) :
          x = [en |-> <<n, "Logic", i>>, ev |-> logicEvents[n][i]]
    BY <2>1
  <2>3. x.ev = logicEvents[n][i] /\ x.ev \in LogicEvent
    BY <2>2 DEF Inv, ColasLogic
  <2>4. x.ev.id \in MensajeId
    BY <1>1, <2>3 DEF LogicEvent, ConTag, MensajeId, RouterId
  <2> QED
    BY <2>3, <2>4
<1>4. ASSUME x \in B
      PROVE  \E n \in Node : \E i \in 1..Len(routerEvents[n]) :
               x.ev = routerEvents[n][i]
  <2>1. PICK n \in Node :
          x \in {[en |-> <<n, "Router", i>>, ev |-> routerEvents[n][i]] :
                   i \in 1..Len(routerEvents[n])}
    BY <1>4
  <2>2. PICK i \in 1..Len(routerEvents[n]) :
          x = [en |-> <<n, "Router", i>>, ev |-> routerEvents[n][i]]
    BY <2>1
  <2> QED
    BY <2>2
<1>5. ASSUME x \in C
      PROVE  \E p \in BagToSet(red) : x.ev = EnRed(p)
  <2>1. PICK p \in BagToSet(red) :
          x \in {[en |-> <<p.dst, "red", i>>, ev |-> [id |-> "red", tag |-> p.tag]] :
                   i \in 1..red[p]}
    BY <1>5
  <2> QED
    BY <2>1 DEF EnRed
<1> HIDE DEF A, B, C
<1> QED
  BY <1>1, <1>2, <1>3, <1>4, <1>5

LEMMA EsConMensaje ==
  ASSUME Inv
  PROVE  /\ \A n \in Node : \A i \in 1..Len(logicEvents[n]) :
              logicEvents[n][i].id \in MensajeId =>
                \E x \in ConMensaje : x.ev = logicEvents[n][i]
         /\ \A n \in Node : \A i \in 1..Len(routerEvents[n]) :
              \E x \in ConMensaje : x.ev = routerEvents[n][i]
         /\ \A p \in BagToSet(red) : \E x \in ConMensaje : x.ev = EnRed(p)
<1> DEFINE
      A == UNION {{[en |-> <<n, "Logic", i>>, ev |-> logicEvents[n][i]] :
                     i \in 1..Len(logicEvents[n])} : n \in Node}
      B == UNION {{[en |-> <<n, "Router", i>>, ev |-> routerEvents[n][i]] :
                     i \in 1..Len(routerEvents[n])} : n \in Node}
      C == UNION {{[en |-> <<p.dst, "red", i>>, ev |-> [id |-> "red", tag |-> p.tag]] :
                     i \in 1..red[p]} : p \in BagToSet(red)}
<1>1. Pendientes = A \cup B \cup C
  BY Zenon DEF Pendientes
<1>2. ASSUME NEW x \in A \cup B \cup C, x.ev.id \in ConTag
      PROVE  x \in ConMensaje
  <2>1. x \in Pendientes
    BY <1>1, <1>2
  <2> QED
    BY <1>2, <2>1, Zenon DEF ConMensaje, ConTag
<1>3. ASSUME NEW n \in Node, NEW i \in 1..Len(logicEvents[n]),
             logicEvents[n][i].id \in MensajeId
      PROVE  \E x \in ConMensaje : x.ev = logicEvents[n][i]
  <2> DEFINE x == [en |-> <<n, "Logic", i>>, ev |-> logicEvents[n][i]]
             D(a) == {[en |-> <<a, "Logic", j>>, ev |-> logicEvents[a][j]] :
                        j \in 1..Len(logicEvents[a])}
  <2>3. x.ev = logicEvents[n][i] /\ x \in D(n)
    OBVIOUS
  <2>4. A = UNION {D(a) : a \in Node}
    OBVIOUS
  <2> HIDE DEF A, D
  <2>1. x \in A /\ x.ev = logicEvents[n][i]
    BY <2>3, <2>4
  <2> HIDE DEF x, B, C
  <2>2. x.ev.id \in ConTag
    BY <1>3, <2>1 DEF ConTag
  <2> QED
    BY <1>2, <2>1, <2>2
<1>4. ASSUME NEW n \in Node, NEW i \in 1..Len(routerEvents[n])
      PROVE  \E x \in ConMensaje : x.ev = routerEvents[n][i]
  <2> DEFINE x == [en |-> <<n, "Router", i>>, ev |-> routerEvents[n][i]]
           D(a) == {[en |-> <<a, "Router", j>>, ev |-> routerEvents[a][j]] :
                      j \in 1..Len(routerEvents[a])}
  <2>1. x.ev = routerEvents[n][i] /\ x \in D(n)
    OBVIOUS
  <2>2. routerEvents[n][i] \in RouterEvent
    BY DEF Inv, ColasRouter
  <2>3. x.ev.id \in ConTag
    BY <2>1, <2>2, EventoTag
  <2>4. B = UNION {D(a) : a \in Node}
    OBVIOUS
  <2> HIDE DEF B, D
  <2>5. x \in B
    BY <2>1, <2>4
  <2> HIDE DEF x, A, B, C
  <2> QED
    BY <1>2, <2>1, <2>3, <2>5
<1>5. ASSUME NEW p \in BagToSet(red)
      PROVE  \E x \in ConMensaje : x.ev = EnRed(p)
  <2> DEFINE x == [en |-> <<p.dst, "red", 1>>, ev |-> EnRed(p)]
  <2>1. 1 \in 1..red[p]
    BY DEF Inv, RedOK, IsABag, BagToSet
  <2>2. x \in C /\ x.ev = EnRed(p)
    BY <2>1 DEF EnRed
  <2>3. x.ev.id \in ConTag
    BY <2>2 DEF EnRed, ConTag
  <2> HIDE DEF x, A, B, C
  <2> QED
    BY <1>2, <2>2, <2>3
<1> QED
  BY <1>3, <1>4, <1>5

LEMMA EnEs ==
  ASSUME Inv, Negocios, NEW k \in Clase, NEW u
  PROVE  u \in En(k) <=> \E x \in ConMensaje : u \in Fichas(k, x.ev)
<1>1. ASSUME NEW x \in ConMensaje
      PROVE  /\ x.ev.id \in ConTag
             /\ x.ev.id = "DO_BUY_REPLY_OK" => x.ev.tag.code = "BUY"
  <2>1. x.ev.id \in ConTag
    BY DEF ConMensaje, ConTag
  <2>2. ASSUME x.ev.id = "DO_BUY_REPLY_OK" PROVE x.ev.tag.code = "BUY"
    <3>1. \A ev \in RouterEvent : ev.id # "DO_BUY_REPLY_OK"
      BY DEF RouterEvent, RouterId
    <3>2. \A n \in Node : \A i \in 1..Len(routerEvents[n]) :
            routerEvents[n][i] \in RouterEvent
      BY DEF Inv, ColasRouter
    <3>3. \A p : EnRed(p).id # "DO_BUY_REPLY_OK"
      BY DEF EnRed
    <3>4. PICK n \in Node : \E i \in 1..Len(logicEvents[n]) :
            x.ev = logicEvents[n][i]
      BY <2>2, <3>1, <3>2, <3>3, ConMensajeEs
    <3> QED
      BY <2>2, <3>4 DEF Negocios, Respuestas, RespuestaId
  <2> QED
    BY <2>1, <2>2
<1>2. CASE k = "trato"
  <2>1. En(k) = {Ficha(x.ev.tag) : x \in Acuerdo}
    BY <1>2 DEF En, Tratos
  <2>2. \A x \in ConMensaje :
          x \in Acuerdo <=> EsDe(k, x.ev)
    BY <1>2 DEF Acuerdo, EsDe, RespuestaId
  <2>3. Acuerdo \subseteq ConMensaje
    BY DEF Acuerdo
  <2> QED
    BY <1>1, <2>1, <2>2, <2>3 DEF Fichas
<1>3. CASE k = "abono"
  <2>1. En(k) = {Ficha(x.ev.tag) : x \in Abono}
    BY <1>3 DEF En, EnCamino
  <2>2. \A x \in ConMensaje :
          x \in Abono <=> EsDe(k, x.ev)
    BY <1>1, <1>3 DEF Abono, EsDe
  <2>3. Abono \subseteq ConMensaje
    BY DEF Abono
  <2> QED
    BY <1>1, <2>1, <2>2, <2>3 DEF Fichas
<1> QED
  BY <1>2, <1>3 DEF Clase

LEMMA PresenciaLemma == Inv /\ Negocios => Presencia
<1> SUFFICES ASSUME Inv, Negocios, NEW k \in Clase
             PROVE  En(k) = {u \in Compra : ~Nada(logicEvents, routerEvents, red, k, u)}
  BY DEF Presencia
<1>1. /\ \A n \in Node : \A i \in 1..Len(logicEvents[n]) : logicEvents[n][i] \in LogicEvent
      /\ \A n \in Node : \A i \in 1..Len(routerEvents[n]) : routerEvents[n][i] \in RouterEvent
      /\ \A p \in BagToSet(red) : p \in Paquete
  BY DEF Inv, ColasLogic, ColasRouter, RedOK
<1>2. ASSUME NEW u, NEW x \in ConMensaje, u \in Fichas(k, x.ev)
      PROVE  u \in Compra /\ ~Nada(logicEvents, routerEvents, red, k, u)
  <2>1. CASE \E n \in Node : \E i \in 1..Len(logicEvents[n]) :
               x.ev = logicEvents[n][i] /\ x.ev.id \in MensajeId
    <3>1. x.ev \in LogicEvent
      BY <1>1, <2>1
    <3>2. u \in Compra
      BY <1>2, <3>1, EventoTag, FichasCompra
    <3>3. x.ev \in DeLogic(k, u)
      BY <1>2, <3>1 DEF DeLogic
    <3> QED
      BY <2>1, <3>2, <3>3 DEF Nada, NingunoEn
  <2>2. CASE \E n \in Node : \E i \in 1..Len(routerEvents[n]) :
               x.ev = routerEvents[n][i]
    <3>1. x.ev \in RouterEvent
      BY <1>1, <2>2
    <3>2. u \in Compra
      BY <1>2, <3>1, EventoTag, FichasCompra
    <3>3. x.ev \in DeRouter(k, u)
      BY <1>2, <3>1 DEF DeRouter
    <3> QED
      BY <2>2, <3>2, <3>3 DEF Nada, NingunoEn
  <2>3. CASE \E p \in BagToSet(red) : x.ev = EnRed(p)
    <3>1. PICK p \in BagToSet(red) : x.ev = EnRed(p)
      BY <2>3
    <3>2. p \in Paquete
      BY <1>1
    <3>3. u \in Compra
      BY <1>2, <3>1, <3>2, EventoTag, FichasCompra
    <3>4. p \in DeRed(k, u)
      BY <1>2, <3>1, <3>2 DEF DeRed
    <3> QED
      BY <3>3, <3>4 DEF Nada, NingunoDe
  <2> QED
    BY <2>1, <2>2, <2>3, ConMensajeEs
<1>3. ASSUME NEW u \in Compra, ~Nada(logicEvents, routerEvents, red, k, u)
      PROVE  \E x \in ConMensaje : u \in Fichas(k, x.ev)
  <2>1. CASE ~NingunoEn(logicEvents, DeLogic(k, u))
    <3>1. PICK n \in Node : \E i \in 1..Len(logicEvents[n]) :
            logicEvents[n][i] \in DeLogic(k, u)
      BY <2>1 DEF NingunoEn
    <3>2. PICK i \in 1..Len(logicEvents[n]) : logicEvents[n][i] \in DeLogic(k, u)
      BY <3>1
    <3>3. logicEvents[n][i] \in LogicEvent /\ u \in Fichas(k, logicEvents[n][i])
      BY <3>2 DEF DeLogic
    <3>4. logicEvents[n][i].id \in MensajeId
      BY <3>3 DEF Fichas, LogicEvent, ConTag, MensajeId, RouterId
    <3> QED
      BY <3>3, <3>4, EsConMensaje
  <2>2. CASE ~NingunoEn(routerEvents, DeRouter(k, u))
    BY <2>2, EsConMensaje DEF NingunoEn, DeRouter
  <2>3. CASE ~NingunoDe(red, DeRed(k, u))
    BY <2>3, EsConMensaje DEF NingunoDe, DeRed
  <2> QED
    BY <1>3, <2>1, <2>2, <2>3 DEF Nada
<1> QED
  BY <1>2, <1>3, EnEs

-----------------------------------------------------------------------------
(* What a step does to Tratos and EnCamino, by the event h that it takes   *)
(* and the event e that it leaves.                                         *)

Quita(h) ==
  \A k \in Clase : /\ Fichas(k, h) \subseteq En(k)
                   /\ En(k)' = En(k) \ Fichas(k, h)

Cambia(h, e) ==
  \A k \in Clase : /\ Fichas(k, h) \subseteq En(k)
                   /\ En(k)' = (En(k) \ Fichas(k, h)) \cup Fichas(k, e)

(* The invariants that the step keeps, and what they say of its two ends.  *)
Firme == Inv /\ Saben /\ Negocios /\ Presencia

LEMMA FirmeAMasUno ==
  ASSUME Firme, NEW u \in Compra
  PROVE  AMasUno(logicEvents, routerEvents, red, u.ts)
  BY DEF Firme, Negocios, Bien, Compra

LEMMA FirmeColas ==
  ASSUME Firme
  PROVE  /\ logicEvents \in [Node -> Seq(LogicEvent)]
         /\ routerEvents \in [Node -> Seq(RouterEvent)]
         /\ IsABag(red) /\ BagToSet(red) \subseteq Paquete
  BY DEF Firme, Inv, ColasLogic, ColasRouter, RedOK

LEMMA HechoQuita ==
  ASSUME Firme, Presencia', NEW n \in Node, logicEvents[n] # <<>>, Hecho(n),
         UNCHANGED <<routerEvents, red>>
  PROVE  Quita(Head(logicEvents[n]))
<1> DEFINE h == Head(logicEvents[n])
<1>1. SUFFICES ASSUME NEW k \in Clase
               PROVE  /\ Fichas(k, h) \subseteq En(k)
                      /\ En(k)' = En(k) \ Fichas(k, h)
  BY DEF Quita
<1>2. h \in LogicEvent
  BY FirmeColas, ColaTail
<1>3. Fichas(k, h) \subseteq Compra
  BY <1>2, EventoTag, FichasCompra
<1>4. ASSUME NEW u \in Compra
      PROVE  /\ Nada(logicEvents', routerEvents', red', k, u)
                  <=> Nada(logicEvents, routerEvents, red, k, u) \/ u \in Fichas(k, h)
             /\ u \in Fichas(k, h) => ~Nada(logicEvents, routerEvents, red, k, u)
  BY FirmeAMasUno, FirmeColas, QuitaLogic DEF Hecho
<1>5. /\ En(k) = {u \in Compra : ~Nada(logicEvents, routerEvents, red, k, u)}
      /\ En(k)' = {u \in Compra : ~Nada(logicEvents', routerEvents', red', k, u)}
  BY DEF Firme, Presencia
<1> HIDE DEF h
<1> QED
  BY <1>3, <1>4, <1>5

LEMMA LogicLogicCambia ==
  ASSUME Firme, Presencia', NEW n \in Node, logicEvents[n] # <<>>,
         NEW id \in MensajeId, NEW m \in Mensaje, HechoYPostea(n, id, m),
         UNCHANGED <<routerEvents, red>>
  PROVE  Cambia(Head(logicEvents[n]), [id |-> id, tag |-> m])
<1> DEFINE h == Head(logicEvents[n])
           e == [id |-> id, tag |-> m]
           K == [logicEvents EXCEPT ![n] = Tail(@)]
<1>1. SUFFICES ASSUME NEW k \in Clase
               PROVE  /\ Fichas(k, h) \subseteq En(k)
                      /\ En(k)' = (En(k) \ Fichas(k, h)) \cup Fichas(k, e)
  BY DEF Cambia
<1>2. h \in LogicEvent /\ e \in LogicEvent
  BY FirmeColas, ColaTail DEF LogicEvent
<1>3. K \in [Node -> Seq(LogicEvent)]
  BY FirmeColas, ColaTail
<1>4. logicEvents' = [K EXCEPT ![n] = Append(@, e)]
  BY FirmeColas DEF HechoYPostea
<1>5. Fichas(k, h) \subseteq Compra /\ Fichas(k, e) \subseteq Compra
  BY <1>2, EventoTag, FichasCompra
<1>6. ASSUME NEW u \in Compra
      PROVE  /\ Nada(K, routerEvents, red, k, u)
                  <=> Nada(logicEvents, routerEvents, red, k, u) \/ u \in Fichas(k, h)
             /\ u \in Fichas(k, h) => ~Nada(logicEvents, routerEvents, red, k, u)
  BY FirmeAMasUno, FirmeColas, QuitaLogic
<1> HIDE DEF K, e, h
<1>7. ASSUME NEW u \in Compra
      PROVE  Nada(logicEvents', routerEvents', red', k, u)
               <=> Nada(K, routerEvents, red, k, u) /\ u \notin Fichas(k, e)
  BY <1>2, <1>3, <1>4, PonLogic
<1>8. /\ En(k) = {u \in Compra : ~Nada(logicEvents, routerEvents, red, k, u)}
      /\ En(k)' = {u \in Compra : ~Nada(logicEvents', routerEvents', red', k, u)}
  BY DEF Firme, Presencia
<1> QED
  BY <1>5, <1>6, <1>7, <1>8

LEMMA LogicRouterCambia ==
  ASSUME Firme, Presencia', NEW n \in Node, logicEvents[n] # <<>>, Hecho(n),
         NEW id \in RouterId, NEW m \in Mensaje, PosteaRouter(n, id, m),
         UNCHANGED red
  PROVE  Cambia(Head(logicEvents[n]), [id |-> id, tag |-> m])
<1> DEFINE h == Head(logicEvents[n])
           e == [id |-> id, tag |-> m]
<1>1. SUFFICES ASSUME NEW k \in Clase
               PROVE  /\ Fichas(k, h) \subseteq En(k)
                      /\ En(k)' = (En(k) \ Fichas(k, h)) \cup Fichas(k, e)
  BY DEF Cambia
<1>2. h \in LogicEvent /\ e \in RouterEvent
  BY FirmeColas, ColaTail DEF RouterEvent
<1>3. Fichas(k, h) \subseteq Compra /\ Fichas(k, e) \subseteq Compra
  BY <1>2, EventoTag, FichasCompra
<1>4. ASSUME NEW u \in Compra
      PROVE  /\ Nada(logicEvents', routerEvents, red, k, u)
                  <=> Nada(logicEvents, routerEvents, red, k, u) \/ u \in Fichas(k, h)
             /\ u \in Fichas(k, h) => ~Nada(logicEvents, routerEvents, red, k, u)
  BY FirmeAMasUno, FirmeColas, QuitaLogic DEF Hecho
<1>5. routerEvents' = [routerEvents EXCEPT ![n] = Append(@, e)]
  BY DEF PosteaRouter
<1> HIDE DEF e, h
<1>6. ASSUME NEW u \in Compra
      PROVE  Nada(logicEvents', routerEvents', red', k, u)
               <=> Nada(logicEvents', routerEvents, red, k, u) /\ u \notin Fichas(k, e)
  BY <1>2, <1>5, FirmeColas, PonRouter
<1>7. /\ En(k) = {u \in Compra : ~Nada(logicEvents, routerEvents, red, k, u)}
      /\ En(k)' = {u \in Compra : ~Nada(logicEvents', routerEvents', red', k, u)}
  BY DEF Firme, Presencia
<1> QED
  BY <1>3, <1>4, <1>6, <1>7

(* The Router's own event, before anything is sent.                        *)
LEMMA RouterNada ==
  ASSUME Firme, NEW n \in Node, NEW id, AtiendeRouter(n, id),
         NEW k \in Clase, NEW u \in Compra
  PROVE  LET h == Head(routerEvents[n])
         IN  /\ Nada(logicEvents', routerEvents', red, k, u)
                  <=> Nada(logicEvents, routerEvents, red, k, u) \/ u \in Fichas(k, h)
             /\ u \in Fichas(k, h) => ~Nada(logicEvents, routerEvents, red, k, u)
  BY FirmeAMasUno, FirmeColas, QuitaRouter DEF AtiendeRouter

LEMMA RouterQuita ==
  ASSUME Firme, Presencia', NEW n \in Node, NEW id, AtiendeRouter(n, id),
         UNCHANGED red
  PROVE  Quita(Head(routerEvents[n]))
<1> DEFINE h == Head(routerEvents[n])
<1>1. SUFFICES ASSUME NEW k \in Clase
               PROVE  /\ Fichas(k, h) \subseteq En(k)
                      /\ En(k)' = En(k) \ Fichas(k, h)
  BY DEF Quita
<1>2. h \in RouterEvent
  BY FirmeColas, ColaTail DEF AtiendeRouter
<1>3. Fichas(k, h) \subseteq Compra
  BY <1>2, EventoTag, FichasCompra
<1>4. ASSUME NEW u \in Compra
      PROVE  /\ Nada(logicEvents', routerEvents', red', k, u)
                  <=> Nada(logicEvents, routerEvents, red, k, u) \/ u \in Fichas(k, h)
             /\ u \in Fichas(k, h) => ~Nada(logicEvents, routerEvents, red, k, u)
  BY RouterNada
<1>5. /\ En(k) = {u \in Compra : ~Nada(logicEvents, routerEvents, red, k, u)}
      /\ En(k)' = {u \in Compra : ~Nada(logicEvents', routerEvents', red', k, u)}
  BY DEF Firme, Presencia
<1> HIDE DEF h
<1> QED
  BY <1>3, <1>4, <1>5

LEMMA RouterCambia ==
  ASSUME Firme, Presencia', NEW n \in Node, NEW id, AtiendeRouter(n, id),
         NEW d \in Node, red' = Envia(red, d, Cabeza(n))
  PROVE  Cambia(Head(routerEvents[n]), [id |-> "red", tag |-> Cabeza(n)])
<1> DEFINE h == Head(routerEvents[n])
           m == Cabeza(n)
           e == [id |-> "red", tag |-> m]
<1>1. SUFFICES ASSUME NEW k \in Clase
               PROVE  /\ Fichas(k, h) \subseteq En(k)
                      /\ En(k)' = (En(k) \ Fichas(k, h)) \cup Fichas(k, e)
  BY DEF Cambia
<1>2. h \in RouterEvent /\ m \in Mensaje
  BY FirmeColas, ColaTail, AtendidoRouter DEF AtiendeRouter, Firme
<1>3. Fichas(k, h) \subseteq Compra /\ Fichas(k, e) \subseteq Compra
  BY <1>2, EventoTag, FichasCompra
<1>4. ASSUME NEW u \in Compra
      PROVE  /\ Nada(logicEvents', routerEvents', red, k, u)
                  <=> Nada(logicEvents, routerEvents, red, k, u) \/ u \in Fichas(k, h)
             /\ u \in Fichas(k, h) => ~Nada(logicEvents, routerEvents, red, k, u)
  BY RouterNada
<1>5. d # Nadie
  BY MensajesAssumption
<1> HIDE DEF h, m
<1>6. ASSUME NEW u \in Compra
      PROVE  Nada(logicEvents', routerEvents', red', k, u)
               <=> Nada(logicEvents', routerEvents', red, k, u) /\ u \notin Fichas(k, e)
  BY <1>2, <1>5, FirmeColas, PonRed DEF m
<1>7. /\ En(k) = {u \in Compra : ~Nada(logicEvents, routerEvents, red, k, u)}
      /\ En(k)' = {u \in Compra : ~Nada(logicEvents', routerEvents', red', k, u)}
  BY DEF Firme, Presencia
<1> HIDE DEF e
<1> QED
  BY <1>3, <1>4, <1>6, <1>7

LEMMA EntregaCambia ==
  ASSUME Firme, Presencia', NEW p \in BagToSet(red), Entrega(p)
  PROVE  Cambia(EnRed(p), [id |-> "CLIENT_MSG", tag |-> p.tag])
<1> DEFINE h == EnRed(p)
           e == [id |-> "CLIENT_MSG", tag |-> p.tag]
<1>1. SUFFICES ASSUME NEW k \in Clase
               PROVE  /\ Fichas(k, h) \subseteq En(k)
                      /\ En(k)' = (En(k) \ Fichas(k, h)) \cup Fichas(k, e)
  BY DEF Cambia
<1>2. p \in Paquete /\ e \in LogicEvent /\ p.dst \in Node
  BY FirmeColas DEF Paquete, LogicEvent, MensajeId
<1>3. Fichas(k, h) \subseteq Compra /\ Fichas(k, e) \subseteq Compra
  BY <1>2, EventoTag, FichasCompra
<1>4. /\ red' = BagRemove(red, p) /\ UNCHANGED routerEvents
      /\ logicEvents' = [logicEvents EXCEPT ![p.dst] = Append(@, e)]
  BY DEF Entrega
<1>5. ASSUME NEW u \in Compra
      PROVE  /\ Nada(logicEvents, routerEvents, red', k, u)
                  <=> Nada(logicEvents, routerEvents, red, k, u) \/ u \in Fichas(k, h)
             /\ u \in Fichas(k, h) => ~Nada(logicEvents, routerEvents, red, k, u)
  BY <1>2, <1>4, FirmeAMasUno, FirmeColas, QuitaRed
<1> HIDE DEF h, e
<1>6. ASSUME NEW u \in Compra
      PROVE  Nada(logicEvents', routerEvents', red', k, u)
               <=> Nada(logicEvents, routerEvents, red', k, u) /\ u \notin Fichas(k, e)
  BY <1>2, <1>4, FirmeColas, PonLogic
<1>7. /\ En(k) = {u \in Compra : ~Nada(logicEvents, routerEvents, red, k, u)}
      /\ En(k)' = {u \in Compra : ~Nada(logicEvents', routerEvents', red', k, u)}
  BY DEF Firme, Presencia
<1> QED
  BY <1>3, <1>5, <1>6, <1>7

LEMMA PierdeQuita ==
  ASSUME Firme, Presencia', NEW p \in BagToSet(red), Pierde(p)
  PROVE  Quita(EnRed(p))
<1> DEFINE h == EnRed(p)
<1>1. SUFFICES ASSUME NEW k \in Clase
               PROVE  /\ Fichas(k, h) \subseteq En(k)
                      /\ En(k)' = En(k) \ Fichas(k, h)
  BY DEF Quita
<1>2. p \in Paquete
  BY FirmeColas
<1>3. Fichas(k, h) \subseteq Compra
  BY <1>2, EventoTag, FichasCompra
<1>4. red' = BagRemove(red, p) /\ UNCHANGED <<logicEvents, routerEvents>>
  BY DEF Pierde, logicVars
<1>5. ASSUME NEW u \in Compra
      PROVE  /\ Nada(logicEvents', routerEvents', red', k, u)
                  <=> Nada(logicEvents, routerEvents, red, k, u) \/ u \in Fichas(k, h)
             /\ u \in Fichas(k, h) => ~Nada(logicEvents, routerEvents, red, k, u)
  BY <1>2, <1>4, FirmeAMasUno, FirmeColas, QuitaRed
<1>6. /\ En(k) = {u \in Compra : ~Nada(logicEvents, routerEvents, red, k, u)}
      /\ En(k)' = {u \in Compra : ~Nada(logicEvents', routerEvents', red', k, u)}
  BY DEF Firme, Presencia
<1> HIDE DEF h
<1> QED
  BY <1>3, <1>5, <1>6

-----------------------------------------------------------------------------
(* The events that carry a purchase, and those that carry none.            *)

LEMMA SinFichas ==
  ASSUME NEW ev,
         \/ ev.id \notin ConTag
         \/ /\ ev.id \notin {"DO_BUY", "DO_BUY_REPLY_OK"}
            /\ ev.tag.code \notin {"BUY", "BUY_OK"}
         \/ ev.id = "RT_CLOSE_P2P_CONNECT" /\ ev.tag.code = "BUY_OK"
         \/ ev.id = "DO_BUY_REPLY_ERR" /\ ev.tag.code = "BUY"
  PROVE  Fichas("trato", ev) = {} /\ Fichas("abono", ev) = {}
  BY DEF Fichas, EsDe, RespuestaId

LEMMA FichaDeTrato ==
  ASSUME NEW ev, ev.id \in ConTag,
         \/ ev.id = "DO_BUY" /\ ev.tag.code = "REPLY"
         \/ ev.id \notin RespuestaId /\ ev.tag.code = "BUY"
  PROVE  Fichas("trato", ev) = {Ficha(ev.tag)} /\ Fichas("abono", ev) = {}
  BY DEF Fichas, EsDe, RespuestaId

LEMMA FichaDeAbono ==
  ASSUME NEW ev, ev.id \in ConTag,
         \/ ev.id = "DO_BUY_REPLY_OK" /\ ev.tag.code = "BUY"
         \/ ev.id \notin {"DO_BUY", "RT_CLOSE_P2P_CONNECT"} /\ ev.tag.code = "BUY_OK"
  PROVE  Fichas("abono", ev) = {Ficha(ev.tag)} /\ Fichas("trato", ev) = {}
  BY DEF Fichas, EsDe, RespuestaId

LEMMA QuitaEs ==
  ASSUME NEW h, Quita(h)
  PROVE  /\ Fichas("trato", h) \subseteq Tratos
         /\ Fichas("abono", h) \subseteq EnCamino
         /\ Tratos' = Tratos \ Fichas("trato", h)
         /\ EnCamino' = EnCamino \ Fichas("abono", h)
  BY DEF Quita, Clase, En

LEMMA CambiaEs ==
  ASSUME NEW h, NEW e, Cambia(h, e)
  PROVE  /\ Fichas("trato", h) \subseteq Tratos
         /\ Fichas("abono", h) \subseteq EnCamino
         /\ Tratos' = (Tratos \ Fichas("trato", h)) \cup Fichas("trato", e)
         /\ EnCamino' = (EnCamino \ Fichas("abono", h)) \cup Fichas("abono", e)
  BY DEF Cambia, Clase, En

LEMMA LoadFicha ==
  ASSUME NEW x \in Mensaje, NEW m \in Load(x)
  PROVE  /\ m \in Mensaje /\ m.code = x.code /\ m.producto = x.producto
         /\ m.ts = x.ts /\ m.cantidad \in Leido(x.cantidad)
         /\ Ficha(m) = [Ficha(x) EXCEPT !.cantidad = m.cantidad]
<1>1. PICK c \in Leido(x.cantidad), h \in Leido(x.hopcount) : m = Lectura(x, c, h)
  BY DEF Load
<1>2. m.producto = x.producto /\ m.ts = x.ts /\ m.cantidad = c
  BY <1>1 DEF Lectura, Mensaje
<1> QED
  BY <1>2, LoadLemma DEF Ficha

-----------------------------------------------------------------------------
(* Every quantity that a user sets is one that a user may set.             *)
DeUsuario ==
  \A n \in Node : \A i \in 1..Len(logicEvents[n]) :
    logicEvents[n][i].id = "SET_STOCK" =>
      logicEvents[n][i].cantidad \in Reponible

LEMMA DeUsuarioInit == Init => DeUsuario
  BY DEF Init, LogicInit, DeUsuario

(* The two shapes of a handler of Logic.                                   *)
LEMMA LogicForma ==
  ASSUME Inv, NEW n \in Node, LogicStep(n)
  PROVE  /\ logicEvents[n] # <<>>
         /\ \/ Hecho(n)
            \/ \E id \in MensajeId : \E m \in Mensaje : HechoYPostea(n, id, m)
<1>1. CASE on_client_msg(n)
  <2>1. Atiende(n, "CLIENT_MSG") /\ "CLIENT_MSG" \in MensajeId
    BY <1>1 DEF on_client_msg, MensajeId
  <2>2. logicEvents[n] # <<>> /\ Head(logicEvents[n]).tag \in Mensaje
    BY <2>1, Atendido
  <2>3. PICK m \in Load(Head(logicEvents[n]).tag) :
          \/ on_receive_look_up(n, m)
          \/ on_receive_replay(n, m)
          \/ on_receive_buy(n, m)
          \/ on_receive_buy_reply_ok(n, m)
          \/ on_receive_buy_reply_err(n, m)
    BY <1>1 DEF on_client_msg
  <2>4. m \in Mensaje
    BY <2>2, LoadLemma
  <2>5. \/ Hecho(n)
        \/ \E id \in MensajeId : HechoYPostea(n, id, m)
    BY <2>3 DEF on_receive_look_up, on_receive_replay, on_receive_buy,
                on_receive_buy_reply_ok, on_receive_buy_reply_err, MensajeId
  <2> QED
    BY <2>2, <2>4, <2>5
<1>2. CASE ~on_client_msg(n)
  BY <1>2
  DEF LogicStep, set_stock_product, set_cur_prod_compra, set_cur_prod_venta,
      on_send_look_up, on_send_look_up_forward, on_send_replay,
      on_send_replay_forward, on_send_buy, on_send_buy_reply_ok,
      on_send_buy_reply_err, Atiende
<1> QED
  BY <1>1, <1>2

LEMMA DeUsuarioNext ==
  Inv /\ DeUsuario /\ [Next]_vars => DeUsuario'
<1> SUFFICES ASSUME Inv, DeUsuario, [Next]_vars
             PROVE  DeUsuario'
  OBVIOUS
<1>0. logicEvents \in [Node -> Seq(LogicEvent)] /\ BagToSet(red) \subseteq Paquete
  BY DEF Inv, ColasLogic, RedOK
<1>1. ASSUME NEW n \in Node, LogicStep(n) PROVE DeUsuario'
  <2>1. logicEvents[n] # <<>>
    BY <1>1, LogicForma
  <2>2. CASE Hecho(n)
    <3>1. /\ logicEvents'[n] = Tail(logicEvents[n])
          /\ \A k \in Node \ {n} : logicEvents'[k] = logicEvents[k]
      BY <1>0, <2>2 DEF Hecho
    <3>2. \A i \in 1..Len(Tail(logicEvents[n])) :
            \E j \in 1..Len(logicEvents[n]) :
              Tail(logicEvents[n])[i] = logicEvents[n][j]
      BY <1>0, <2>1, ColaTail
    <3> SUFFICES ASSUME NEW k \in Node, NEW i \in 1..Len(logicEvents'[k]),
                        logicEvents'[k][i].id = "SET_STOCK"
                 PROVE  logicEvents'[k][i].cantidad \in Reponible
      BY DEF DeUsuario
    <3>3. \E j \in 1..Len(logicEvents[k]) : logicEvents'[k][i] = logicEvents[k][j]
      BY <3>1, <3>2
    <3> QED
      BY <3>3 DEF DeUsuario
  <2>3. ASSUME NEW id \in MensajeId, NEW m \in Mensaje, HechoYPostea(n, id, m)
        PROVE  DeUsuario'
    <3> DEFINE e == [id |-> id, tag |-> m]
    <3>1. e \in LogicEvent /\ e.id # "SET_STOCK"
      BY DEF LogicEvent, MensajeId
    <3>2. logicEvents' = [logicEvents EXCEPT ![n] = Append(Tail(@), e)]
      BY <2>3 DEF HechoYPostea
    <3> HIDE DEF e
    <3> QED
      BY <1>0, <2>1, <3>1, <3>2, ColaSigue DEF DeUsuario
  <2> QED
    BY <1>1, <2>2, <2>3, LogicForma
<1>2. ASSUME NEW n \in Node, NEW e \in LogicEvent,
             e.id = "SET_STOCK" => e.cantidad \in Reponible,
             logicEvents' = [logicEvents EXCEPT ![n] = Append(@, e)]
      PROVE  DeUsuario'
  <2>1. \A k \in Node : logicEvents[k] \in Seq(LogicEvent)
    BY <1>0
  <2>2. /\ logicEvents'[n] = Append(logicEvents[n], e)
        /\ \A k \in Node : k # n => logicEvents'[k] = logicEvents[k]
    BY <1>0, <1>2
  <2>3. ASSUME NEW k \in Node, NEW i \in 1..Len(logicEvents'[k])
        PROVE  \/ logicEvents'[k][i] = e
               \/ \E j \in 1..Len(logicEvents[k]) : logicEvents'[k][i] = logicEvents[k][j]
    <3>1. CASE k = n
      <4>1. \A x \in 1..Len(Append(logicEvents[n], e)) :
              \/ Append(logicEvents[n], e)[x] = e
              \/ \E j \in 1..Len(logicEvents[n]) :
                   Append(logicEvents[n], e)[x] = logicEvents[n][j]
        BY <1>2, <2>1, ColaAppend
      <4> QED
        BY <2>2, <2>3, <3>1, <4>1
    <3>2. CASE k # n
      BY <2>2, <2>3, <3>2
    <3> QED
      BY <3>1, <3>2
  <2> QED
    BY <1>2, <2>3 DEF DeUsuario
<1>3. ASSUME NEW n \in Node, Teclado(n) PROVE DeUsuario'
  <2>1. CASE procesar_lanzar(n)
    <3>1. PICK c \in Pedible : Ordena(n, [id |-> "DO_LOOKUP", cantidad |-> c])
      BY <2>1 DEF procesar_lanzar
    <3> DEFINE e == [id |-> "DO_LOOKUP", cantidad |-> c]
    <3>2. e \in LogicEvent /\ e.id # "SET_STOCK"
      BY BazarAssumption DEF LogicEvent
    <3> QED
      BY <1>2, <3>1, <3>2 DEF Ordena
  <2>2. CASE procesar_add_stock(n)
    <3>1. PICK p \in Elegible, c \in Reponible :
            Ordena(n, [id |-> "SET_STOCK", producto |-> p, cantidad |-> c])
      BY <2>2 DEF procesar_add_stock
    <3> DEFINE e == [id |-> "SET_STOCK", producto |-> p, cantidad |-> c]
    <3>2. e \in LogicEvent /\ e.cantidad \in Reponible
      BY BazarAssumption DEF LogicEvent
    <3> QED
      BY <1>2, <3>1, <3>2 DEF Ordena
  <2>3. ASSUME NEW p \in Elegible,
               NEW id \in {"SET_CUR_PROD_COMPRA", "SET_CUR_PROD_VENTA"},
               Ordena(n, [id |-> id, producto |-> p])
        PROVE  DeUsuario'
    <3> DEFINE e == [id |-> id, producto |-> p]
    <3>1. e \in LogicEvent /\ e.id # "SET_STOCK"
      BY BazarAssumption DEF LogicEvent
    <3> QED
      BY <1>2, <2>3, <3>1 DEF Ordena
  <2> QED
    BY <1>3, <2>1, <2>2, <2>3
    DEF Teclado, procesar_set_producto_compra, procesar_set_producto_venta
<1>4. ASSUME NEW p \in BagToSet(red), Entrega(p) PROVE DeUsuario'
  <2> DEFINE e == [id |-> "CLIENT_MSG", tag |-> p.tag]
  <2>1. e \in LogicEvent /\ e.id # "SET_STOCK" /\ p.dst \in Node
    BY <1>0 DEF LogicEvent, MensajeId, Paquete
  <2>2. logicEvents' = [logicEvents EXCEPT ![p.dst] = Append(@, e)]
    BY <1>4 DEF Entrega
  <2> HIDE DEF e
  <2> QED
    BY <1>2, <2>1, <2>2
<1>5. ASSUME UNCHANGED logicEvents PROVE DeUsuario'
  BY <1>5 DEF DeUsuario
<1>6. ASSUME NEW n \in Node, RouterStep(n) PROVE UNCHANGED logicEvents
  BY <1>6
  DEF RouterStep, send_first_broadcast_message, send_broadcast_message,
      send_to_next_node_message, start_p2p_connect, send_to_p2p_socket_message,
      close_p2p_connect, AtiendeRouter
<1> QED
  BY <1>1, <1>3, <1>4, <1>5, <1>6 DEF Next, Pierde, vars, logicVars

-----------------------------------------------------------------------------
(* The steps of Trueque that the steps of Bazar are.                       *)

PasoT == T!Next \/ UNCHANGED <<mapa_stock, Acordadas, Tratos, EnCamino>>

LEMMA AcordadasEs ==
  ASSUME Inv, NEW t
  PROVE  t \in Acordadas <=> Recibido(mapaPedidos, t)
  BY DEF Acordadas, Recibido

LEMMA AcordadasIgual ==
  ASSUME UNCHANGED mapaPedidos PROVE UNCHANGED Acordadas
  BY DEF Acordadas

LEMMA PoneEs ==
  ASSUME NEW n, NEW p, NEW c, set_stock(n, p, c)
  PROVE  T!Pone(n, p, c)
  BY DEF set_stock, Pon, T!Pone

(* A handler that neither takes nor leaves a purchase.                     *)
LEMMA NadaPasa ==
  ASSUME UNCHANGED <<mapa_stock, mapaPedidos>>, NEW h, NEW e,
         Quita(h) \/ (Cambia(h, e) /\ Fichas("trato", e) = {}
                                   /\ Fichas("abono", e) = {}),
         Fichas("trato", h) = {}, Fichas("abono", h) = {}
  PROVE  PasoT
<1>1. Tratos' = Tratos /\ EnCamino' = EnCamino
  BY QuitaEs, CambiaEs
<1> QED
  BY <1>1, AcordadasIgual DEF PasoT

(* A purchase goes on, in another message.                                 *)
LEMMA SiguePasa ==
  ASSUME UNCHANGED <<mapa_stock, mapaPedidos>>, NEW h, NEW e, Cambia(h, e),
         Fichas("trato", h) = Fichas("trato", e),
         Fichas("abono", h) = Fichas("abono", e)
  PROVE  PasoT
<1>1. /\ Fichas("trato", h) \subseteq Tratos
      /\ Fichas("abono", h) \subseteq EnCamino
      /\ Tratos' = (Tratos \ Fichas("trato", h)) \cup Fichas("trato", e)
      /\ EnCamino' = (EnCamino \ Fichas("abono", h)) \cup Fichas("abono", e)
  BY CambiaEs
<1>2. Tratos' = Tratos
  BY <1>1
<1>3. EnCamino' = EnCamino
  BY <1>1
<1> QED
  BY <1>2, <1>3, AcordadasIgual DEF PasoT

(* A message is lost, or handled by nobody, with the purchase in it.       *)
LEMMA PierdePasa ==
  ASSUME UNCHANGED <<mapa_stock, mapaPedidos>>, NEW h, Quita(h), h.id # "DO_BUY"
  PROVE  PasoT
<1>1. /\ Fichas("trato", h) \subseteq Tratos
      /\ Fichas("abono", h) \subseteq EnCamino
      /\ Tratos' = Tratos \ Fichas("trato", h)
      /\ EnCamino' = EnCamino \ Fichas("abono", h)
      /\ UNCHANGED <<mapa_stock, Acordadas>>
  BY QuitaEs, AcordadasIgual
<1>2. \/ Fichas("trato", h) = {}
      \/ Fichas("trato", h) = {Ficha(h.tag)} /\ Fichas("abono", h) = {}
  BY DEF Fichas, EsDe, RespuestaId
<1>3. Fichas("abono", h) = {} \/ Fichas("abono", h) = {Ficha(h.tag)}
  BY DEF Fichas
<1>4. CASE Fichas("trato", h) = {} /\ Fichas("abono", h) = {}
  BY <1>1, <1>4 DEF PasoT
<1>5. CASE Fichas("trato", h) = {Ficha(h.tag)} /\ Fichas("abono", h) = {}
  <2>1. T!SeDeshace(Ficha(h.tag)) /\ Ficha(h.tag) \in Tratos
    BY <1>1, <1>5 DEF T!SeDeshace
  <2> QED
    BY <2>1 DEF PasoT, T!Next
<1>6. CASE Fichas("trato", h) = {} /\ Fichas("abono", h) = {Ficha(h.tag)}
  <2>1. T!SePierde(Ficha(h.tag)) /\ Ficha(h.tag) \in EnCamino
    BY <1>1, <1>6 DEF T!SePierde
  <2> QED
    BY <2>1 DEF PasoT, T!Next
<1> QED
  BY <1>2, <1>3, <1>4, <1>5, <1>6

LEMMA OrdenesPasan ==
  ASSUME Firme, Presencia', DeUsuario, NEW n \in Node,
         UNCHANGED red,
         \/ set_stock_product(n)
         \/ set_cur_prod_compra(n)
         \/ set_cur_prod_venta(n)
         \/ on_send_look_up(n)
  PROVE  PasoT
<1> DEFINE h == Head(logicEvents[n])
<1>1. ASSUME NEW id, id \notin ConTag, Atiende(n, id)
      PROVE  /\ logicEvents[n] # <<>> /\ h.id = id
             /\ Fichas("trato", h) = {} /\ Fichas("abono", h) = {}
  BY <1>1, SinFichas DEF Atiende
<1>2. CASE set_stock_product(n)
  <2>1. "SET_STOCK" \notin ConTag
    BY DEF ConTag, MensajeId, RouterId
  <2>2. /\ logicEvents[n] # <<>> /\ h.id = "SET_STOCK" /\ Hecho(n)
        /\ UNCHANGED <<routerEvents, mapaPedidos>>
        /\ Fichas("trato", h) = {} /\ Fichas("abono", h) = {}
        /\ h.producto \in Producto
        /\ T!Pone(n, h.producto, h.cantidad)
    BY <1>1, <1>2, <2>1, Atendido, PoneEs DEF set_stock_product, Firme
  <2>3. h.cantidad \in Reponible
    BY <2>2, FirmeColas, ColaTail DEF DeUsuario
  <2>4. Tratos' = Tratos /\ EnCamino' = EnCamino
    BY <2>2, HechoQuita, QuitaEs
  <2>5. T!Repone(n, h.producto, h.cantidad)
    BY <2>2, <2>4, AcordadasIgual DEF T!Repone
  <2> QED
    BY <2>2, <2>3, <2>5 DEF PasoT, T!Next
<1>3. CASE set_cur_prod_compra(n) \/ set_cur_prod_venta(n)
  <2>1. {"SET_CUR_PROD_COMPRA", "SET_CUR_PROD_VENTA"} \cap ConTag = {}
    BY DEF ConTag, MensajeId, RouterId
  <2>2. /\ logicEvents[n] # <<>> /\ Hecho(n)
        /\ UNCHANGED <<routerEvents, mapa_stock, mapaPedidos>>
        /\ Fichas("trato", h) = {} /\ Fichas("abono", h) = {}
    BY <1>1, <1>3, <2>1 DEF set_cur_prod_compra, set_cur_prod_venta
  <2> QED
    BY <2>2, HechoQuita, NadaPasa
<1>4. CASE on_send_look_up(n)
  <2> DEFINE b == build_look_up_msg(compro[n], h.cantidad, reloj)
             m == add_nodo(b, n)
             e == [id |-> "RT_FIRST_BROADCAST", tag |-> m]
  <2>1. "DO_LOOKUP" \notin ConTag
    BY DEF ConTag, MensajeId, RouterId
  <2>2. /\ logicEvents[n] # <<>> /\ h.cantidad \in Int /\ Hecho(n)
        /\ Fichas("trato", h) = {} /\ Fichas("abono", h) = {}
        /\ PosteaRouter(n, "RT_FIRST_BROADCAST", m)
        /\ UNCHANGED mapa_stock
        /\ setEstadoPedido(n, reloj, "LOOKUP_ENVIADO") /\ reloj' = reloj + 1
    BY <1>1, <1>4, <2>1, Atendido DEF on_send_look_up, Firme
  <2>3. m \in Mensaje
    BY <2>2, LookupNuevo DEF Firme, Inv
  <2>4. m.code = "LOOKUP"
    BY DEF add_nodo, build_look_up_msg
  <2> HIDE DEF m
  <2>5. Fichas("trato", e) = {} /\ Fichas("abono", e) = {}
    BY <2>4, SinFichas
  <2>6. Cambia(h, e)
    BY <2>2, <2>3, LogicRouterCambia DEF RouterId
  <2>7. Tratos' = Tratos /\ EnCamino' = EnCamino
    BY <2>2, <2>5, <2>6, CambiaEs
  <2>8. Acordadas' = Acordadas
    <3>1. /\ reloj \in Nat
          /\ \A k \in Node : DOMAIN mapaPedidos[k] \subseteq Nat
      BY DEF Firme, Inv, PedidosOK
    <3>2. \A k \in Node : reloj \notin DOMAIN mapaPedidos[k]
      BY <3>1 DEF Firme, Negocios, UnDueno
    <3>3. /\ DOMAIN mapaPedidos'[n] = DOMAIN mapaPedidos[n] \cup {reloj}
          /\ mapaPedidos'[n][reloj] = "LOOKUP_ENVIADO"
          /\ \A x \in DOMAIN mapaPedidos[n] \ {reloj} :
               mapaPedidos'[n][x] = mapaPedidos[n][x]
          /\ \A k \in Node \ {n} : mapaPedidos'[k] = mapaPedidos[k]
      BY <2>2, <3>1, PonPedido DEF Firme, EstadoPedido
    <3>4. \A k \in Node :
            {ts \in DOMAIN mapaPedidos'[k] : mapaPedidos'[k][ts] = "REPLY_RECIBIDO"}
              = {ts \in DOMAIN mapaPedidos[k] : mapaPedidos[k][ts] = "REPLY_RECIBIDO"}
      BY <3>2, <3>3
    <3> QED
      BY <3>4 DEF Acordadas
  <2> QED
    BY <2>2, <2>7, <2>8 DEF PasoT
<1> QED
  BY <1>2, <1>3, <1>4

LEMMA EnviosPasan ==
  ASSUME Firme, Presencia', NEW n \in Node, UNCHANGED red,
         \/ on_send_look_up_forward(n)
         \/ on_send_replay(n)
         \/ on_send_replay_forward(n)
         \/ on_send_buy(n)
         \/ on_send_buy_reply_ok(n)
         \/ on_send_buy_reply_err(n)
  PROVE  PasoT
<1> DEFINE h == Head(logicEvents[n])
           m == h.tag
<1>1. UNCHANGED <<mapa_stock, mapaPedidos>> /\ Hecho(n)
  BY DEF on_send_look_up_forward, on_send_replay, on_send_replay_forward,
         on_send_buy, on_send_buy_reply_ok, on_send_buy_reply_err
<1>2. ASSUME NEW id \in MensajeId, Atiende(n, id)
      PROVE  /\ logicEvents[n] # <<>> /\ h.id = id /\ id \in ConTag
             /\ m \in Mensaje /\ LogicEventOK(n, h)
             /\ id \in RespuestaId => m.code = "BUY"
  <2>1. /\ logicEvents[n] # <<>> /\ h.id = id /\ m \in Mensaje
        /\ LogicEventOK(n, h)
    BY <1>2, Atendido DEF Firme
  <2>2. 1 \in 1..Len(logicEvents[n]) /\ h = logicEvents[n][1]
    BY <2>1, FirmeColas, ColaTail
  <2>3. id \in RespuestaId => m.code = "BUY"
    BY <2>1, <2>2 DEF Firme, Negocios, Respuestas
  <2> QED
    BY <2>1, <2>3 DEF ConTag
<1>3. ASSUME NEW id \in {"RT_BROADCAST", "RT_SEND_TO_SOCKET"}, NEW r \in Mensaje,
             r.code \notin {"BUY", "BUY_OK"}, PosteaRouter(n, id, r),
             logicEvents[n] # <<>>, h.id \notin {"DO_BUY", "DO_BUY_REPLY_OK"},
             m.code \notin {"BUY", "BUY_OK"}
      PROVE  PasoT
  <2> DEFINE e == [id |-> id, tag |-> r]
  <2>1. Cambia(h, e)
    BY <1>1, <1>3, LogicRouterCambia DEF RouterId
  <2>2. Fichas("trato", e) = {} /\ Fichas("abono", e) = {}
    BY <1>3, SinFichas
  <2>3. Fichas("trato", h) = {} /\ Fichas("abono", h) = {}
    BY <1>3, SinFichas
  <2> HIDE DEF e, h
  <2> QED
    BY <1>1, <2>1, <2>2, <2>3, NadaPasa
<1>4. CASE on_send_look_up_forward(n)
  <2>1. /\ logicEvents[n] # <<>> /\ h.id = "DO_LOOKUP_FORWARD" /\ m \in Mensaje
        /\ m.code = "LOOKUP"
    BY <1>2, <1>4 DEF on_send_look_up_forward, LogicEventOK, MensajeId
  <2>2. CASE m.hopcount > 0
    <3>1. PosteaRouter(n, "RT_BROADCAST", add_nodo(less_hopcount(m), n))
      BY <1>4, <2>2 DEF on_send_look_up_forward
    <3>2. /\ add_nodo(less_hopcount(m), n) \in Mensaje
          /\ add_nodo(less_hopcount(m), n).code = "LOOKUP"
      BY <2>1, BuildersTyped DEF add_nodo, less_hopcount, Mensaje
    <3> QED
      BY <1>3, <2>1, <3>1, <3>2
  <2>3. CASE ~(m.hopcount > 0)
    <3>1. UNCHANGED routerEvents
      BY <1>4, <2>3 DEF on_send_look_up_forward
    <3>2. Fichas("trato", h) = {} /\ Fichas("abono", h) = {}
      BY <2>1, SinFichas
    <3> QED
      BY <1>1, <2>1, <3>1, <3>2, HechoQuita, NadaPasa
  <2> QED
    BY <2>2, <2>3
<1>5. CASE on_send_replay(n)
  <2>1. /\ logicEvents[n] # <<>> /\ h.id = "DO_REPLY" /\ m \in Mensaje
        /\ m.code = "LOOKUP"
        /\ PosteaRouter(n, "RT_SEND_TO_SOCKET", build_reply_msg(m, n))
    BY <1>2, <1>5 DEF on_send_replay, LogicEventOK, MensajeId
  <2>2. build_reply_msg(m, n) \in Mensaje /\ build_reply_msg(m, n).code = "REPLY"
    BY <2>1, BuildersTyped DEF build_reply_msg, Mensaje
  <2> QED
    BY <1>3, <2>1, <2>2
<1>6. CASE on_send_replay_forward(n)
  <2>1. /\ logicEvents[n] # <<>> /\ h.id = "DO_REPLY_FORWARD" /\ m \in Mensaje
        /\ m.code = "REPLY" /\ Len(m.nodos) > 1
        /\ PosteaRouter(n, "RT_SEND_TO_SOCKET", less_nodo(m))
    BY <1>2, <1>6 DEF on_send_replay_forward, LogicEventOK, MensajeId
  <2>2. less_nodo(m) \in Mensaje /\ less_nodo(m).code = "REPLY"
    BY <2>1, BuildersTyped DEF less_nodo, Mensaje
  <2> QED
    BY <1>3, <2>1, <2>2
<1>7. CASE on_send_buy(n)
  <2> DEFINE r == build_buy_msg(m)
             e == [id |-> "RT_START_P2P_CONNECT", tag |-> r]
  <2>1. /\ logicEvents[n] # <<>> /\ h.id = "DO_BUY" /\ h.id \in ConTag
        /\ m \in Mensaje /\ m.code = "REPLY"
        /\ PosteaRouter(n, "RT_START_P2P_CONNECT", r)
    BY <1>2, <1>7 DEF on_send_buy, LogicEventOK, MensajeId
  <2>2. r \in Mensaje /\ r.code = "BUY" /\ Ficha(r) = Ficha(m)
    BY <2>1, BuildersTyped DEF build_buy_msg, Mensaje, Ficha
  <2>3. Cambia(h, e)
    BY <1>1, <2>1, <2>2, LogicRouterCambia DEF RouterId
  <2>4. Fichas("trato", h) = {Ficha(m)} /\ Fichas("abono", h) = {}
    BY <2>1, FichaDeTrato
  <2> HIDE DEF r
  <2>5. Fichas("trato", e) = {Ficha(r)} /\ Fichas("abono", e) = {}
    BY <2>2, FichaDeTrato DEF ConTag, RouterId, RespuestaId
  <2> HIDE DEF e, h
  <2> QED
    BY <1>1, <2>2, <2>3, <2>4, <2>5, SiguePasa
<1>8. CASE on_send_buy_reply_ok(n)
  <2> DEFINE r == build_buy_reply_ok_msg(m)
             e == [id |-> "RT_SEND_TO_P2P_SOCKET", tag |-> r]
  <2>1. /\ logicEvents[n] # <<>> /\ h.id = "DO_BUY_REPLY_OK" /\ h.id \in ConTag
        /\ m \in Mensaje /\ m.code = "BUY"
        /\ PosteaRouter(n, "RT_SEND_TO_P2P_SOCKET", r)
    BY <1>2, <1>8 DEF on_send_buy_reply_ok, RespuestaId, MensajeId
  <2>2. r \in Mensaje /\ r.code = "BUY_OK" /\ Ficha(r) = Ficha(m)
    BY <2>1, BuildersTyped DEF build_buy_reply_ok_msg, Mensaje, Ficha
  <2>3. Cambia(h, e)
    BY <1>1, <2>1, <2>2, LogicRouterCambia DEF RouterId
  <2>4. Fichas("abono", h) = {Ficha(m)} /\ Fichas("trato", h) = {}
    BY <2>1, FichaDeAbono
  <2> HIDE DEF r
  <2>5. Fichas("abono", e) = {Ficha(r)} /\ Fichas("trato", e) = {}
    BY <2>2, FichaDeAbono DEF ConTag, RouterId
  <2> HIDE DEF e, h
  <2> QED
    BY <1>1, <2>2, <2>3, <2>4, <2>5, SiguePasa
<1>9. CASE on_send_buy_reply_err(n)
  <2> DEFINE r == build_buy_reply_err_msg(m)
             e == [id |-> "RT_SEND_TO_P2P_SOCKET", tag |-> r]
  <2>1. /\ logicEvents[n] # <<>> /\ h.id = "DO_BUY_REPLY_ERR"
        /\ m \in Mensaje /\ m.code = "BUY"
        /\ PosteaRouter(n, "RT_SEND_TO_P2P_SOCKET", r)
    BY <1>2, <1>9 DEF on_send_buy_reply_err, RespuestaId, MensajeId
  <2>2. r \in Mensaje /\ r.code = "BUY_ERR"
    BY <2>1, BuildersTyped DEF build_buy_reply_err_msg, Mensaje
  <2>3. Cambia(h, e)
    BY <1>1, <2>1, <2>2, LogicRouterCambia DEF RouterId
  <2>4. Fichas("trato", h) = {} /\ Fichas("abono", h) = {}
    BY <2>1, SinFichas
  <2> HIDE DEF r
  <2>5. Fichas("trato", e) = {} /\ Fichas("abono", e) = {}
    BY <2>2, SinFichas
  <2> HIDE DEF e, h
  <2> QED
    BY <1>1, <2>3, <2>4, <2>5, NadaPasa
<1> QED
  BY <1>4, <1>5, <1>6, <1>7, <1>8, <1>9

(* on_client_msg: the REPLY that is taken is Acuerda, the BUY is Vende or  *)
(* SeDeshace, the BUY_OK is Acredita or SePierde.                          *)
LEMMA ClientMsgPasa ==
  ASSUME Firme, Presencia', NEW n \in Node, UNCHANGED red, on_client_msg(n)
  PROVE  PasoT
<1> DEFINE h == Head(logicEvents[n])
<1>1. /\ logicEvents[n] # <<>> /\ h \in LogicEvent /\ h.id = "CLIENT_MSG"
      /\ h.tag \in Mensaje /\ LogicEventOK(n, h) /\ h.id \in ConTag
      /\ Conocido(h.tag, mapaPedidos)
  BY Atendido, AtendidoSabe DEF on_client_msg, MensajeId, ConTag, Firme
<1>2. PICK m \in Load(h.tag) :
        \/ m.code = "LOOKUP"  /\ on_receive_look_up(n, m)
        \/ m.code = "REPLY"   /\ on_receive_replay(n, m)
        \/ m.code = "BUY"     /\ on_receive_buy(n, m)
        \/ m.code = "BUY_OK"  /\ on_receive_buy_reply_ok(n, m)
        \/ m.code = "BUY_ERR" /\ on_receive_buy_reply_err(n, m)
  BY DEF on_client_msg
<1>3. /\ m \in Mensaje /\ m.code = h.tag.code /\ m.producto = h.tag.producto
      /\ m.ts = h.tag.ts /\ m.nodos = h.tag.nodos
      /\ m.cantidad \in Leido(h.tag.cantidad)
      /\ Ficha(m) = [Ficha(h.tag) EXCEPT !.cantidad = m.cantidad]
  BY <1>1, <1>2, LoadFicha, LoadLemma
<1>4. /\ Ficha(h.tag).ts = m.ts /\ Ficha(h.tag).producto = m.producto
      /\ Ficha(h.tag).cantidad = h.tag.cantidad
  BY <1>3 DEF Ficha
<1>5. m.code \notin {"BUY", "BUY_OK"} => Fichas("trato", h) = {} /\ Fichas("abono", h) = {}
  BY <1>1, <1>3, SinFichas
<1>6. m.code = "BUY" => /\ Fichas("trato", h) = {Ficha(h.tag)}
                        /\ Fichas("abono", h) = {}
  BY <1>1, <1>3, FichaDeTrato DEF RespuestaId
<1>7. m.code = "BUY_OK" => /\ Fichas("abono", h) = {Ficha(h.tag)}
                           /\ Fichas("trato", h) = {}
  BY <1>1, <1>3, FichaDeAbono
<1>8. ASSUME NEW id \in {"DO_REPLY", "DO_LOOKUP_FORWARD", "DO_REPLY_FORWARD"},
             HechoYPostea(n, id, m), m.code \in {"LOOKUP", "REPLY"},
             UNCHANGED <<routerEvents, mapa_stock, mapaPedidos>>
      PROVE  PasoT
  <2> DEFINE e == [id |-> id, tag |-> m]
  <2>1. Cambia(h, e)
    BY <1>1, <1>3, <1>8, LogicLogicCambia DEF MensajeId
  <2>2. Fichas("trato", e) = {} /\ Fichas("abono", e) = {}
    BY <1>8, SinFichas
  <2> HIDE DEF e, h
  <2> QED
    BY <1>5, <1>8, <2>1, <2>2, NadaPasa
<1>9. CASE m.code = "LOOKUP" /\ on_receive_look_up(n, m)
  BY <1>8, <1>9 DEF on_receive_look_up
<1>10. CASE m.code = "REPLY" /\ on_receive_replay(n, m)
  <2>0. UNCHANGED <<routerEvents, mapa_stock>>
    BY <1>10 DEF on_receive_replay
  <2>1. CASE HechoYPostea(n, "DO_REPLY_FORWARD", m) /\ UNCHANGED mapaPedidos
    BY <1>8, <1>10, <2>0, <2>1
  <2>2. CASE /\ Len(m.nodos) <= 1
             /\ get_next_node_name(m) = n
             /\ estadoPedido(n, m.ts) # "REPLY_RECIBIDO"
             /\ setEstadoPedido(n, m.ts, "REPLY_RECIBIDO")
             /\ HechoYPostea(n, "DO_BUY", m)
    <3> DEFINE e == [id |-> "DO_BUY", tag |-> m]
               u == Ficha(m)
    <3>1. m.nodos \in Seq(Node) /\ m.ts \in Nat /\ u.ts = m.ts
      BY <1>3 DEF Mensaje, Ficha
    <3>2. m.nodos # <<>> /\ m.ts \in DOMAIN mapaPedidos[m.nodos[1]]
      BY <1>1, <1>3, <1>10 DEF Conocido
    <3>3. m.nodos[1] = n
      BY <2>2, <3>1, <3>2 DEF get_next_node_name
    <3>4. ~Recibido(mapaPedidos, m.ts)
      BY <2>2, <3>2, <3>3 DEF Recibido, Firme, Negocios, UnDueno, estadoPedido
    <3>5. Libre(logicEvents, routerEvents, red, m.ts)
      BY <3>1, <3>4 DEF Firme, Negocios, Bien
    <3>6. u \notin Tratos
      <4>1. Nada(logicEvents, routerEvents, red, "trato", u)
        BY <3>1, <3>5, LibreNada DEF Clase
      <4>2. En("trato") = {x \in Compra :
                             ~Nada(logicEvents, routerEvents, red, "trato", x)}
        BY DEF Firme, Presencia, Clase
      <4> QED
        BY <4>1, <4>2 DEF En
    <3>7. Cambia(h, e)
      BY <1>1, <1>3, <2>0, <2>2, LogicLogicCambia DEF MensajeId
    <3>8. Fichas("trato", e) = {u} /\ Fichas("abono", e) = {}
      BY <1>10, FichaDeTrato DEF ConTag, MensajeId
    <3> HIDE DEF e
    <3>9. Tratos' = Tratos \cup {u} /\ EnCamino' = EnCamino
      BY <1>5, <1>10, <3>7, <3>8, CambiaEs
    <3>10. Acordadas' = Acordadas \cup {m.ts} /\ m.ts \notin Acordadas
      <4>1. /\ DOMAIN mapaPedidos'[n] = DOMAIN mapaPedidos[n] \cup {m.ts}
            /\ mapaPedidos'[n][m.ts] = "REPLY_RECIBIDO"
            /\ \A x \in DOMAIN mapaPedidos[n] \ {m.ts} :
                 mapaPedidos'[n][x] = mapaPedidos[n][x]
            /\ \A k \in Node \ {n} : mapaPedidos'[k] = mapaPedidos[k]
        BY <2>2, <3>1, PonPedido DEF Firme, EstadoPedido
      <4>2. \A t : t \in Acordadas' <=>
                     \E k \in Node : /\ t \in DOMAIN mapaPedidos'[k]
                                     /\ mapaPedidos'[k][t] = "REPLY_RECIBIDO"
        BY DEF Acordadas
      <4>3. \A t : t \in Acordadas <=>
                     \E k \in Node : /\ t \in DOMAIN mapaPedidos[k]
                                     /\ mapaPedidos[k][t] = "REPLY_RECIBIDO"
        BY DEF Acordadas
      <4>4. \A t : t # m.ts => (t \in Acordadas' <=> t \in Acordadas)
        BY <4>1, <4>2, <4>3
      <4>5. m.ts \in Acordadas' /\ m.ts \notin Acordadas
        BY <3>4, <4>1, <4>2, <4>3 DEF Recibido
      <4> QED
        BY <4>4, <4>5
    <3> HIDE DEF u
    <3>11. T!Acuerda(u)
      BY <2>0, <3>1, <3>9, <3>10 DEF T!Acuerda
    <3>12. u \in Tratos' \ Tratos
      BY <3>6, <3>9
    <3> QED
      BY <3>11, <3>12 DEF PasoT, T!Next
  <2>3. CASE Hecho(n) /\ UNCHANGED mapaPedidos
    BY <1>1, <1>5, <1>10, <2>0, <2>3, HechoQuita, NadaPasa
  <2> QED
    BY <1>10, <2>1, <2>2, <2>3 DEF on_receive_replay
<1>11. CASE m.code = "BUY" /\ on_receive_buy(n, m)
  <2> DEFINE u == Ficha(h.tag)
  <2>0. UNCHANGED <<routerEvents, mapaPedidos, Acordadas>>
    BY <1>11, AcordadasIgual DEF on_receive_buy
  <2>1. get_stock(n, m.producto) \in Int /\ m.cantidad \in Int
    BY <1>3 DEF Firme, Inv, StockOK, Mensaje, get_stock
  <2>2. CASE /\ m.producto \in DOMAIN mapa_stock[n]
             /\ get_stock(n, m.producto) >= m.cantidad
    <3>0. /\ HechoYPostea(n, "DO_BUY_REPLY_OK", m)
          /\ decrement_stock(n, m.producto, m.cantidad)
      BY <1>11, <2>1, <2>2 DEF on_receive_buy
    <3> DEFINE e == [id |-> "DO_BUY_REPLY_OK", tag |-> m]
    <3>1. Cambia(h, e)
      BY <1>1, <1>3, <2>0, <3>0, LogicLogicCambia DEF MensajeId
    <3>2. Fichas("abono", e) = {Ficha(m)} /\ Fichas("trato", e) = {}
      BY <1>11, FichaDeAbono DEF ConTag, MensajeId
    <3> HIDE DEF e
    <3>3. /\ u \in Tratos /\ Tratos' = Tratos \ {u}
          /\ EnCamino' = EnCamino \cup {Ficha(m)}
      BY <1>6, <1>11, <3>1, <3>2, CambiaEs
    <3>4. T!Pone(n, m.producto, Entero(mapa_stock[n][m.producto] - m.cantidad))
      <4>1. mapa_stock[n][m.producto] \in Int /\ mapa_stock[n][m.producto] >= m.cantidad
        BY <2>1, <2>2 DEF get_stock
      <4>2. set_stock(n, m.producto, Entero(mapa_stock[n][m.producto] - m.cantidad))
        BY <2>1, <2>2, <3>0, <4>1 DEF decrement_stock
      <4> QED
        BY <4>2, PoneEs
    <3>5. m.cantidad <= mapa_stock[n][m.producto]
      BY <2>1, <2>2 DEF get_stock
    <3> HIDE DEF u
    <3>6. T!Vende(n, u, m.cantidad)
      BY <1>3, <1>4, <2>0, <2>2, <3>3, <3>4, <3>5 DEF T!Vende, u
    <3>7. m.cantidad \in Leido(u.cantidad)
      BY <1>3, <1>4 DEF u
    <3> QED
      BY <3>3, <3>6, <3>7 DEF PasoT, T!Next
  <2>3. CASE \/ m.producto \notin DOMAIN mapa_stock[n]
             \/ ~(get_stock(n, m.producto) >= m.cantidad)
    <3>0. /\ HechoYPostea(n, "DO_BUY_REPLY_ERR", m)
          /\ \/ UNCHANGED mapa_stock
             \/ /\ m.producto \notin DOMAIN mapa_stock[n]
                /\ decrement_stock(n, m.producto, m.cantidad)
      BY <1>11, <2>1, <2>3 DEF on_receive_buy
    <3> DEFINE e == [id |-> "DO_BUY_REPLY_ERR", tag |-> m]
    <3>1. Cambia(h, e)
      BY <1>1, <1>3, <2>0, <3>0, LogicLogicCambia DEF MensajeId
    <3>2. Fichas("abono", e) = {} /\ Fichas("trato", e) = {}
      BY <1>11, SinFichas
    <3> HIDE DEF e
    <3>3. u \in Tratos /\ Tratos' = Tratos \ {u} /\ EnCamino' = EnCamino
      BY <1>6, <1>11, <3>1, <3>2, CambiaEs
    <3>4. \/ UNCHANGED mapa_stock
          \/ /\ m.producto \notin DOMAIN mapa_stock[n]
             /\ T!Pone(n, m.producto, 0)
      BY <3>0, PoneEs DEF decrement_stock
    <3> HIDE DEF u
    <3>5. T!SeDeshace(u)
      BY <1>4, <2>0, <3>3, <3>4 DEF T!SeDeshace, u
    <3> QED
      BY <3>3, <3>5 DEF PasoT, T!Next
  <2> QED
    BY <2>2, <2>3
<1>12. CASE m.code = "BUY_OK" /\ on_receive_buy_reply_ok(n, m)
  <2> DEFINE u == Ficha(h.tag)
             e == [id |-> "RT_CLOSE_P2P_CONNECT", tag |-> m]
  <2>0. /\ UNCHANGED <<mapaPedidos, Acordadas>> /\ Hecho(n)
        /\ PosteaRouter(n, "RT_CLOSE_P2P_CONNECT", m)
        /\ increment_stock(n, m.producto, m.cantidad)
    BY <1>12, AcordadasIgual DEF on_receive_buy_reply_ok
  <2>1. Cambia(h, e)
    BY <1>1, <1>3, <2>0, LogicRouterCambia DEF RouterId
  <2>2. Fichas("abono", e) = {} /\ Fichas("trato", e) = {}
    BY <1>12, SinFichas
  <2> HIDE DEF e
  <2>3. u \in EnCamino /\ EnCamino' = EnCamino \ {u} /\ Tratos' = Tratos
    BY <1>7, <1>12, <2>1, <2>2, CambiaEs
  <2> HIDE DEF u
  <2>4. CASE m.producto \in DOMAIN mapa_stock[n]
    <3>1. T!Pone(n, m.producto, Entero(mapa_stock[n][m.producto] + m.cantidad))
      BY <2>0, <2>4, PoneEs DEF increment_stock
    <3>2. T!Acredita(n, u, m.cantidad)
      BY <1>4, <2>0, <2>3, <2>4, <3>1 DEF T!Acredita, u
    <3>3. m.cantidad \in Leido(u.cantidad)
      BY <1>3, <1>4 DEF u
    <3> QED
      BY <2>3, <3>2, <3>3 DEF PasoT, T!Next
  <2>5. CASE m.producto \notin DOMAIN mapa_stock[n]
    <3>1. UNCHANGED mapa_stock
      BY <2>0, <2>5 DEF increment_stock
    <3>2. T!SePierde(u)
      BY <2>0, <2>3, <3>1 DEF T!SePierde
    <3> QED
      BY <2>3, <3>2 DEF PasoT, T!Next
  <2> QED
    BY <2>4, <2>5
<1>13. CASE m.code = "BUY_ERR" /\ on_receive_buy_reply_err(n, m)
  <2> DEFINE e == [id |-> "RT_CLOSE_P2P_CONNECT", tag |-> m]
  <2>1. /\ UNCHANGED <<mapa_stock, mapaPedidos>> /\ Hecho(n)
        /\ PosteaRouter(n, "RT_CLOSE_P2P_CONNECT", m)
    BY <1>13 DEF on_receive_buy_reply_err
  <2>2. Cambia(h, e)
    BY <1>1, <1>3, <2>1, LogicRouterCambia DEF RouterId
  <2>3. Fichas("abono", e) = {} /\ Fichas("trato", e) = {}
    BY <1>13, SinFichas
  <2> HIDE DEF e, h
  <2> QED
    BY <1>5, <1>13, <2>1, <2>2, <2>3, NadaPasa
<1> QED
  BY <1>2, <1>9, <1>10, <1>11, <1>12, <1>13

(* The Router: what it sends goes on, what it does not send is lost.       *)
LEMMA RouterPasa ==
  ASSUME Firme, Presencia', NEW n \in Node, RouterStep(n)
  PROVE  PasoT
<1> DEFINE h == Head(routerEvents[n])
           m == Cabeza(n)
           e == [id |-> "red", tag |-> m]
<1>1. ASSUME NEW id, AtiendeRouter(n, id)
      PROVE  /\ UNCHANGED <<mapa_stock, mapaPedidos>>
             /\ h.id = id /\ h.tag = m /\ h \in RouterEvent
             /\ m \in Mensaje /\ RouterEventOK(n, h)
             /\ h.id \in ConTag /\ h.id # "DO_BUY" /\ h.id \notin RespuestaId
  <2>1. UNCHANGED <<mapa_stock, mapaPedidos>> /\ h.id = id /\ h.tag = m
    BY <1>1 DEF AtiendeRouter, Cabeza
  <2>2. h \in RouterEvent /\ m \in Mensaje /\ RouterEventOK(n, h)
    BY <1>1, FirmeColas, ColaTail, AtendidoRouter DEF AtiendeRouter, Firme
  <2>3. h.id \in ConTag /\ h.id # "DO_BUY" /\ h.id \notin RespuestaId
    BY <2>2 DEF RouterEvent, RouterId, ConTag, RespuestaId
  <2> QED
    BY <2>1, <2>2, <2>3
<1>2. ASSUME NEW id, AtiendeRouter(n, id), UNCHANGED red
      PROVE  PasoT
  BY <1>1, <1>2, RouterQuita, PierdePasa
<1>3. ASSUME NEW id \in RouterId \ {"RT_CLOSE_P2P_CONNECT"}, AtiendeRouter(n, id),
             NEW d \in Node, red' = Envia(red, d, m)
      PROVE  PasoT
  <2>1. Cambia(h, e)
    BY <1>3, RouterCambia
  <2>2. /\ UNCHANGED <<mapa_stock, mapaPedidos>>
        /\ h.id = id /\ h.tag = m /\ h.id \in ConTag
        /\ h.id # "DO_BUY" /\ h.id \notin RespuestaId
        /\ e.id \in ConTag /\ e.id \notin RespuestaId
    BY <1>1, <1>3 DEF ConTag, RespuestaId
  <2>3. ASSUME NEW k \in Clase PROVE Fichas(k, h) = Fichas(k, e)
    <3>1. EsDe(k, h) <=> EsDe(k, e)
      BY <1>3, <2>2 DEF EsDe, RespuestaId
    <3> QED
      BY <2>2, <3>1 DEF Fichas
  <2> HIDE DEF e, h
  <2> QED
    BY <2>1, <2>2, <2>3, SiguePasa DEF Clase
<1>4. ASSUME NEW id, AtiendeRouter(n, id), m.code = "LOOKUP",
             id \in {"RT_FIRST_BROADCAST", "RT_BROADCAST"},
             NEW d \in Node \cup {Nadie}, NEW f \in Node \cup {Nadie},
             red' = Envia(Envia(red, d, m), f, m)
      PROVE  PasoT
  <2> DEFINE b == Envia(red, d, m)
  <2>1. /\ UNCHANGED <<mapa_stock, mapaPedidos>> /\ m \in Mensaje
        /\ h.id = id /\ h.tag = m
    BY <1>1, <1>4
  <2>2. Fichas("trato", h) = {} /\ Fichas("abono", h) = {}
    BY <1>4, <2>1, SinFichas
  <2>3. Fichas("trato", e) = {} /\ Fichas("abono", e) = {}
    BY <1>4, SinFichas
  <2>4. IsABag(red) /\ IsABag(b)
    BY FirmeColas, BagAddLemma DEF Envia
  <2> HIDE DEF h, m, b
  <2>5. ASSUME NEW k \in Clase PROVE En(k)' = En(k)
    <3>1. Fichas(k, h) = {} /\ Fichas(k, e) = {}
      BY <2>2, <2>3 DEF Clase
    <3>2. ASSUME NEW u \in Compra
          PROVE  Nada(logicEvents', routerEvents', red', k, u)
                   <=> Nada(logicEvents, routerEvents, red, k, u)
      <4>1. Nada(logicEvents', routerEvents', red, k, u)
              <=> Nada(logicEvents, routerEvents, red, k, u)
        BY <1>4, <3>1, RouterNada DEF h
      <4>2. Nada(logicEvents', routerEvents', b, k, u)
              <=> Nada(logicEvents', routerEvents', red, k, u)
        BY <1>4, <2>1, <2>4, <3>1, PonRed DEF b
      <4>3. Nada(logicEvents', routerEvents', red', k, u)
              <=> Nada(logicEvents', routerEvents', b, k, u)
        BY <1>4, <2>1, <2>4, <3>1, PonRed DEF b
      <4> QED
        BY <4>1, <4>2, <4>3
    <3>3. /\ En(k) = {u \in Compra : ~Nada(logicEvents, routerEvents, red, k, u)}
          /\ En(k)' = {u \in Compra : ~Nada(logicEvents', routerEvents', red', k, u)}
      BY DEF Firme, Presencia
    <3> QED
      BY <3>2, <3>3
  <2>6. Tratos' = Tratos /\ EnCamino' = EnCamino
    BY <2>5 DEF En, Clase
  <2> QED
    BY <2>1, <2>6, AcordadasIgual DEF PasoT
<1>5. \A k \in 1..2 : Vecino[n][k] \in Node \cup {Nadie}
  BY VecinoLemma
<1>6. CASE send_first_broadcast_message(n)
  <2>1. AtiendeRouter(n, "RT_FIRST_BROADCAST")
    BY <1>6 DEF send_first_broadcast_message
  <2>2. m.code = "LOOKUP"
    BY <1>1, <2>1 DEF RouterEventOK, LookupSale
  <2>3. red' = Envia(Envia(red, Vecino[n][1], m), Vecino[n][2], m)
    BY <1>6 DEF send_first_broadcast_message
  <2> HIDE DEF m
  <2> QED
    BY <1>4, <1>5, <2>1, <2>2, <2>3
<1>7. CASE send_broadcast_message(n)
  <2>1. AtiendeRouter(n, "RT_BROADCAST")
    BY <1>7 DEF send_broadcast_message
  <2>2. m.code = "LOOKUP"
    BY <1>1, <2>1 DEF RouterEventOK, LookupSale
  <2>3. red' = Envia(Envia(red, DestinoBroadcast(n, 1), m), DestinoBroadcast(n, 2), m)
    BY <1>7 DEF send_broadcast_message
  <2>4. \A k \in 1..2 : DestinoBroadcast(n, k) \in Node \cup {Nadie}
    BY <1>5 DEF DestinoBroadcast
  <2> HIDE DEF m
  <2> QED
    BY <1>4, <2>1, <2>2, <2>3, <2>4
<1>8. CASE send_to_next_node_message(n)
  <2>1. AtiendeRouter(n, "RT_SEND_TO_SOCKET") /\ red' = Envia(red, DestinoReply(n), m)
    BY <1>8 DEF send_to_next_node_message
  <2>2. DestinoReply(n) \in Node \cup {Nadie}
    BY DEF DestinoReply
  <2>3. CASE DestinoReply(n) = Nadie
    BY <1>2, <2>1, <2>3 DEF Envia
  <2>4. CASE DestinoReply(n) \in Node
    BY <1>3, <2>1, <2>4 DEF RouterId
  <2> QED
    BY <2>2, <2>3, <2>4
<1>9. CASE start_p2p_connect(n)
  <2>1. AtiendeRouter(n, "RT_START_P2P_CONNECT")
    BY <1>9 DEF start_p2p_connect
  <2>2. m.vendedor \in Node
    BY <1>1, <2>1 DEF RouterEventOK
  <2>3. CASE red' = Envia(red, m.vendedor, m)
    BY <1>3, <2>1, <2>2, <2>3 DEF RouterId
  <2>4. CASE UNCHANGED red
    BY <1>2, <2>1, <2>4
  <2> QED
    BY <1>9, <2>3, <2>4 DEF start_p2p_connect
<1>10. CASE send_to_p2p_socket_message(n)
  <2>1. AtiendeRouter(n, "RT_SEND_TO_P2P_SOCKET")
    BY <1>10 DEF send_to_p2p_socket_message
  <2>2. PICK d \in Node \cup {Nadie} : red' = Envia(red, d, m)
    BY <1>10 DEF send_to_p2p_socket_message
  <2>3. CASE d = Nadie
    BY <1>2, <2>1, <2>2, <2>3 DEF Envia
  <2>4. CASE d \in Node
    BY <1>3, <2>1, <2>2, <2>4 DEF RouterId
  <2> QED
    BY <2>3, <2>4
<1>11. CASE close_p2p_connect(n)
  BY <1>2, <1>11 DEF close_p2p_connect
<1> QED
  BY <1>6, <1>7, <1>8, <1>9, <1>10, <1>11 DEF RouterStep

LEMMA RedPasa ==
  ASSUME Firme, Presencia', NEW p \in BagToSet(red), Entrega(p) \/ Pierde(p)
  PROVE  PasoT
<1> DEFINE h == EnRed(p)
           e == [id |-> "CLIENT_MSG", tag |-> p.tag]
<1>1. UNCHANGED <<mapa_stock, mapaPedidos>>
  BY DEF Entrega, Pierde, logicVars
<1>2. h.id = "red" /\ h.tag = p.tag
  BY DEF EnRed
<1>3. CASE Entrega(p)
  <2>1. Cambia(h, e)
    BY <1>3, EntregaCambia
  <2>2. ASSUME NEW k \in Clase PROVE Fichas(k, h) = Fichas(k, e)
    <3>1. EsDe(k, h) <=> EsDe(k, e)
      BY <1>2 DEF EsDe, RespuestaId
    <3>2. h.id \in ConTag /\ e.id \in ConTag
      BY <1>2 DEF ConTag, MensajeId
    <3> QED
      BY <1>2, <3>1, <3>2 DEF Fichas
  <2> HIDE DEF e, h
  <2> QED
    BY <1>1, <2>1, <2>2, SiguePasa DEF Clase
<1>4. CASE Pierde(p)
  BY <1>1, <1>2, <1>4, PierdeQuita, PierdePasa
<1> QED
  BY <1>3, <1>4

LEMMA TecladoPasa ==
  ASSUME Firme, Presencia', NEW n \in Node, Teclado(n)
  PROVE  PasoT
<1>1. ASSUME NEW ev, ev \in LogicEvent, ev.id \notin ConTag, Ordena(n, ev)
      PROVE  PasoT
  <2>1. /\ logicEvents' = [logicEvents EXCEPT ![n] = Append(@, ev)]
        /\ UNCHANGED <<routerEvents, red, mapa_stock, mapaPedidos>>
    BY <1>1 DEF Ordena
  <2>2. \A k : Fichas(k, ev) = {}
    BY <1>1 DEF Fichas
  <2>3. ASSUME NEW k \in Clase PROVE En(k)' = En(k)
    <3>1. ASSUME NEW u \in Compra
          PROVE  Nada(logicEvents', routerEvents', red', k, u)
                   <=> Nada(logicEvents, routerEvents, red, k, u)
      BY <1>1, <2>1, <2>2, FirmeColas, PonLogic
    <3>2. /\ En(k) = {u \in Compra : ~Nada(logicEvents, routerEvents, red, k, u)}
          /\ En(k)' = {u \in Compra : ~Nada(logicEvents', routerEvents', red', k, u)}
      BY DEF Firme, Presencia
    <3> QED
      BY <3>1, <3>2
  <2>4. Tratos' = Tratos /\ EnCamino' = EnCamino
    BY <2>3 DEF En, Clase
  <2> QED
    BY <2>1, <2>4, AcordadasIgual DEF PasoT
<1>2. CASE procesar_lanzar(n)
  <2>1. PICK c \in Pedible : Ordena(n, [id |-> "DO_LOOKUP", cantidad |-> c])
    BY <1>2 DEF procesar_lanzar
  <2> DEFINE ev == [id |-> "DO_LOOKUP", cantidad |-> c]
  <2>2. ev \in LogicEvent /\ ev.id \notin ConTag
    BY BazarAssumption DEF LogicEvent, ConTag, MensajeId, RouterId
  <2> QED
    BY <1>1, <2>1, <2>2
<1>3. CASE procesar_add_stock(n)
  <2>1. PICK p \in Elegible, c \in Reponible :
          Ordena(n, [id |-> "SET_STOCK", producto |-> p, cantidad |-> c])
    BY <1>3 DEF procesar_add_stock
  <2> DEFINE ev == [id |-> "SET_STOCK", producto |-> p, cantidad |-> c]
  <2>2. ev \in LogicEvent /\ ev.id \notin ConTag
    BY BazarAssumption DEF LogicEvent, ConTag, MensajeId, RouterId
  <2> QED
    BY <1>1, <2>1, <2>2
<1>4. ASSUME NEW p \in Elegible,
             NEW id \in {"SET_CUR_PROD_COMPRA", "SET_CUR_PROD_VENTA"},
             Ordena(n, [id |-> id, producto |-> p])
      PROVE  PasoT
  <2> DEFINE ev == [id |-> id, producto |-> p]
  <2>1. ev \in LogicEvent /\ ev.id \notin ConTag
    BY BazarAssumption DEF LogicEvent, ConTag, MensajeId, RouterId
  <2> QED
    BY <1>1, <1>4, <2>1
<1> QED
  BY <1>2, <1>3, <1>4
  DEF Teclado, procesar_set_producto_compra, procesar_set_producto_venta

-----------------------------------------------------------------------------
LEMMA InitT == Init => T!Init
<1> SUFFICES ASSUME Init PROVE T!Init
  OBVIOUS
<1>1. mapa_stock = [n \in Node |-> [p \in Producto |-> StockInicial]]
  BY DEF Init, LogicInit
<1>2. Acordadas = {}
  BY DEF Init, LogicInit, Acordadas
<1>3. Presencia
  BY InvInit, NegociosInit, PresenciaLemma
<1>4. ASSUME NEW k \in Clase, NEW u
      PROVE  Nada(logicEvents, routerEvents, red, k, u)
  BY DEF Init, LogicInit, Nada, NingunoEn, NingunoDe, BagToSet, EmptyBag, SetToBag
<1>5. \A k \in Clase : En(k) = {}
  BY <1>3, <1>4 DEF Presencia
<1>6. Tratos = {} /\ EnCamino = {}
  BY <1>5 DEF En, Clase
<1> QED
  BY <1>1, <1>2, <1>6 DEF T!Init

LEMMA NextT ==
  Firme /\ DeUsuario /\ Presencia' /\ [Next]_vars => [T!Next]_T!vars
<1> SUFFICES ASSUME Firme, DeUsuario, Presencia', [Next]_vars
             PROVE  [T!Next]_T!vars
  OBVIOUS
<1>1. PasoT => [T!Next]_T!vars
  BY DEF PasoT, T!vars
<1>2. ASSUME NEW n \in Node, LogicStep(n), UNCHANGED <<red, ordenes>>
      PROVE  PasoT
  BY <1>2, OrdenesPasan, EnviosPasan, ClientMsgPasa DEF LogicStep
<1>3. CASE UNCHANGED vars
  <2>1. UNCHANGED <<mapa_stock, mapaPedidos, logicEvents, routerEvents, red>>
    BY <1>3 DEF vars, logicVars
  <2>2. \A k \in Clase : En(k)' = En(k)
    BY <2>1 DEF Firme, Presencia
  <2>3. Tratos' = Tratos /\ EnCamino' = EnCamino
    BY <2>2 DEF En, Clase
  <2> QED
    BY <1>1, <2>1, <2>3, AcordadasIgual DEF PasoT
<1> QED
  BY <1>1, <1>2, <1>3, RouterPasa, TecladoPasa, RedPasa DEF Next

(* BazarCumpleTrueque: whatever is lost or overtaken, and whatever the     *)
(* users order, the nodes exchange goods as Trueque allows: on_receive_    *)
(* replay agrees on a purchase once, on_receive_buy debits what was agreed *)
(* on once at most and never what is not there, and every credit of on_    *)
(* receive_buy_reply_ok is of a debit that was not yet credited.           *)
THEOREM BazarCumpleTrueque == Spec => CumpleTrueque
<1>1. Spec => []Saben
  BY SabenInit, SabenNext, InvSiempre, PTL DEF Spec
<1>2. Spec => []Negocios
  BY <1>1, NegociosInit, NegociosNext, InvSiempre, PTL DEF Spec
<1>3. Spec => []Presencia
  BY <1>2, PresenciaLemma, InvSiempre, PTL
<1>4. Spec => []DeUsuario
  BY DeUsuarioInit, DeUsuarioNext, InvSiempre, PTL DEF Spec
<1>5. Inv /\ Saben /\ Negocios /\ Presencia => Firme
  BY DEF Firme
<1> QED
  BY <1>1, <1>2, <1>3, <1>4, <1>5, InvSiempre, InitT, NextT, PTL
  DEF CumpleTrueque, T!Spec, Spec

-----------------------------------------------------------------------------
(* What follows for Bazar from Trueque.  No stock is ever negative and no  *)
(* credit overflows an int, for any nodes, neighbours, hopcount, products  *)
(* and losses, as long as what the users order fits in an int: a purchase  *)
(* is credited once, so a stock is no more than what it was set to and the *)
(* units of the purchases that are over.                                   *)
FS == INSTANCE FiniteSetTheorems

(* A user writes from 0 to s units in a stock and asks for 0 to q of them, *)
(* and all the orders together fit in an int.                              *)
Holgura(s, q) ==
  /\ s \in Nat /\ q \in Nat
  /\ StockInicial <= s
  /\ Reponible \subseteq 0..s
  /\ Pedible \subseteq 0..q
  /\ s + q * MaxOrdenes <= MaxInt

-----------------------------------------------------------------------------
(* Every quantity that is asked for, in whatever queue or message, is one  *)
(* of 0..q: none is negative, so none is lost when the message is read.    *)
Cabe(m, q) == m.cantidad \in 0..q

EventoCabe(e, q) ==
  /\ e.id \in MensajeId => Cabe(e.tag, q)
  /\ e.id = "DO_LOOKUP" => e.cantidad \in 0..q

CabeLogic(f, q) ==
  \A n \in Node : \A i \in 1..Len(f[n]) : EventoCabe(f[n][i], q)

CabeRouter(f, q) ==
  \A n \in Node : \A i \in 1..Len(f[n]) : Cabe(f[n][i].tag, q)

CabeRed(b, q) == \A p \in BagToSet(b) : Cabe(p.tag, q)

Cantidades(q) ==
  /\ CabeLogic(logicEvents, q)
  /\ CabeRouter(routerEvents, q)
  /\ CabeRed(red, q)

LEMMA CantidadesInit == ASSUME NEW q PROVE Init => Cantidades(q)
  BY DEF Init, LogicInit, Cantidades, CabeLogic, CabeRouter, CabeRed, BagToSet,
         EmptyBag, SetToBag

(* A quantity that is not negative is read as it was written.              *)
LEMMA LoadCabe ==
  ASSUME NEW q \in Nat, NEW x \in Mensaje, Cabe(x, q), NEW m \in Load(x)
  PROVE  m \in Mensaje /\ Cabe(m, q)
<1>1. m \in Mensaje /\ m.cantidad \in Leido(x.cantidad)
  BY LoadFicha
<1>2. m.cantidad = x.cantidad
  BY <1>1 DEF Leido, Cabe
<1> QED
  BY <1>1, <1>2 DEF Cabe

(* No builder touches the quantity.                                        *)
LEMMA BuildersCabe ==
  ASSUME NEW m \in Mensaje, NEW n \in Node
  PROVE  /\ add_nodo(less_hopcount(m), n).cantidad = m.cantidad
         /\ build_reply_msg(m, n).cantidad = m.cantidad
         /\ less_nodo(m).cantidad = m.cantidad
         /\ build_buy_msg(m).cantidad = m.cantidad
         /\ build_buy_reply_ok_msg(m).cantidad = m.cantidad
         /\ build_buy_reply_err_msg(m).cantidad = m.cantidad
  BY DEF Mensaje, add_nodo, less_hopcount, build_reply_msg, less_nodo,
         build_buy_msg, build_buy_reply_ok_msg, build_buy_reply_err_msg

(* The message that n is handling.                                         *)
LEMMA AtendidoCabe ==
  ASSUME Inv, NEW q, Cantidades(q), NEW n \in Node
  PROVE  /\ \A id \in MensajeId : Atiende(n, id) => Cabe(Head(logicEvents[n]).tag, q)
         /\ Atiende(n, "DO_LOOKUP") => Head(logicEvents[n]).cantidad \in 0..q
         /\ \A id : AtiendeRouter(n, id) =>
              Cabe(Cabeza(n), q) /\ CabeRouter(routerEvents', q)
<1>1. ASSUME logicEvents[n] # <<>>
      PROVE  1 \in 1..Len(logicEvents[n]) /\ Head(logicEvents[n]) = logicEvents[n][1]
  BY <1>1, ColaTail DEF Inv, ColasLogic
<1>2. ASSUME routerEvents[n] # <<>>
      PROVE  /\ 1 \in 1..Len(routerEvents[n])
             /\ Head(routerEvents[n]) = routerEvents[n][1]
  BY <1>2, ColaTail DEF Inv, ColasRouter
<1>3. \A id \in MensajeId : Atiende(n, id) => Cabe(Head(logicEvents[n]).tag, q)
  BY <1>1 DEF Atiende, Cantidades, CabeLogic, EventoCabe
<1>4. Atiende(n, "DO_LOOKUP") => Head(logicEvents[n]).cantidad \in 0..q
  BY <1>1 DEF Atiende, Cantidades, CabeLogic, EventoCabe
<1>5. ASSUME NEW id, AtiendeRouter(n, id)
      PROVE  Cabe(Cabeza(n), q) /\ CabeRouter(routerEvents', q)
  <2>1. routerEvents[n] # <<>> /\ routerEvents[n] \in Seq(RouterEvent)
    BY <1>5 DEF AtiendeRouter, Inv, ColasRouter
  <2>2. Cabe(Cabeza(n), q)
    BY <1>2, <2>1 DEF Cabeza, Cantidades, CabeRouter
  <2>3. CabeRouter(routerEvents', q)
    BY <1>5, <2>1, ColaTail
    DEF AtiendeRouter, Inv, ColasRouter, Cantidades, CabeRouter
  <2> QED
    BY <2>2, <2>3
<1> QED
  BY <1>3, <1>4, <1>5

(* A handler of Logic: it leaves the events it finds, and those it posts.  *)
LEMMA HandlerCabe ==
  ASSUME Inv, NEW q, Cantidades(q), NEW n \in Node, logicEvents[n] # <<>>,
         \/ Hecho(n)
         \/ \E id \in MensajeId : \E m \in Mensaje :
              Cabe(m, q) /\ HechoYPostea(n, id, m),
         \/ UNCHANGED routerEvents
         \/ \E id \in RouterId : \E m \in Mensaje :
              Cabe(m, q) /\ PosteaRouter(n, id, m),
         UNCHANGED red
  PROVE  Cantidades(q)'
<1>1. CabeLogic(logicEvents', q)
  <2>1. CASE Hecho(n)
    BY <2>1, ColaTail DEF Inv, ColasLogic, Cantidades, CabeLogic, Hecho
  <2>2. ASSUME NEW id \in MensajeId, NEW m \in Mensaje,
               Cabe(m, q), HechoYPostea(n, id, m)
        PROVE  CabeLogic(logicEvents', q)
    <3> DEFINE e == [id |-> id, tag |-> m]
    <3>1. e \in LogicEvent /\ EventoCabe(e, q)
      BY <2>2 DEF LogicEvent, MensajeId, EventoCabe
    <3>2. logicEvents' = [logicEvents EXCEPT ![n] = Append(Tail(@), e)]
      BY <2>2 DEF HechoYPostea
    <3> HIDE DEF e
    <3> QED
      BY <3>1, <3>2, ColaSigue DEF Inv, ColasLogic, Cantidades, CabeLogic
  <2> QED
    BY <2>1, <2>2
<1>2. CabeRouter(routerEvents', q)
  <2>1. CASE UNCHANGED routerEvents
    BY <2>1 DEF Cantidades
  <2>2. ASSUME NEW id \in RouterId, NEW m \in Mensaje,
               Cabe(m, q), PosteaRouter(n, id, m)
        PROVE  CabeRouter(routerEvents', q)
    <3> DEFINE e == [id |-> id, tag |-> m]
    <3>1. e \in RouterEvent /\ e.tag = m
      BY DEF RouterEvent
    <3>2. routerEvents' = [routerEvents EXCEPT ![n] = Append(@, e)]
      BY <2>2 DEF PosteaRouter
    <3> HIDE DEF e
    <3> QED
      BY <2>2, <3>1, <3>2, ColaAppend DEF Inv, ColasRouter, Cantidades, CabeRouter
  <2> QED
    BY <2>1, <2>2
<1> QED
  BY <1>1, <1>2 DEF Cantidades

LEMMA LogicCabe ==
  ASSUME Inv, NEW q \in Nat, Cantidades(q), NEW n \in Node,
         LogicStep(n), UNCHANGED red
  PROVE  Cantidades(q)'
<1> DEFINE x == Head(logicEvents[n]).tag
<1>1. logicEvents[n] # <<>>
  BY LogicForma
<1>2. CASE set_stock_product(n) \/ set_cur_prod_compra(n) \/ set_cur_prod_venta(n)
  <2>1. Hecho(n) /\ UNCHANGED routerEvents
    BY <1>2 DEF set_stock_product, set_cur_prod_compra, set_cur_prod_venta
  <2> QED
    BY <1>1, <2>1, HandlerCabe
<1>3. CASE on_send_look_up(n)
  <2> DEFINE c == Head(logicEvents[n]).cantidad
             m == add_nodo(build_look_up_msg(compro[n], c, reloj), n)
  <2>1. c \in 0..q /\ c \in Int
    BY <1>3, AtendidoCabe DEF on_send_look_up
  <2>2. m \in Mensaje
    BY <2>1, LookupNuevo DEF Inv
  <2>3. Cabe(m, q)
    BY <2>1 DEF Cabe, add_nodo, build_look_up_msg
  <2>4. PosteaRouter(n, "RT_FIRST_BROADCAST", m) /\ Hecho(n)
    BY <1>3 DEF on_send_look_up
  <2> HIDE DEF m
  <2> QED
    BY <1>1, <2>2, <2>3, <2>4, HandlerCabe DEF RouterId
<1>4. ASSUME NEW id \in MensajeId, Atiende(n, id)
      PROVE  /\ x \in Mensaje /\ Cabe(x, q)
             /\ add_nodo(less_hopcount(x), n) \in Mensaje
             /\ Cabe(add_nodo(less_hopcount(x), n), q)
             /\ build_reply_msg(x, n) \in Mensaje /\ Cabe(build_reply_msg(x, n), q)
             /\ build_buy_msg(x) \in Mensaje /\ Cabe(build_buy_msg(x), q)
             /\ build_buy_reply_ok_msg(x) \in Mensaje
             /\ Cabe(build_buy_reply_ok_msg(x), q)
             /\ build_buy_reply_err_msg(x) \in Mensaje
             /\ Cabe(build_buy_reply_err_msg(x), q)
  <2>1. x \in Mensaje /\ Cabe(x, q)
    BY <1>4, Atendido, AtendidoCabe
  <2> HIDE DEF x
  <2> QED
    BY <2>1, BuildersTyped, BuildersCabe DEF Cabe
<1>5. CASE on_send_look_up_forward(n)
  BY <1>1, <1>4, <1>5, HandlerCabe DEF on_send_look_up_forward, MensajeId, RouterId
<1>6. CASE on_send_replay(n)
  BY <1>1, <1>4, <1>6, HandlerCabe DEF on_send_replay, MensajeId, RouterId
<1>7. CASE on_send_replay_forward(n)
  <2>1. /\ Atiende(n, "DO_REPLY_FORWARD") /\ "DO_REPLY_FORWARD" \in MensajeId
        /\ PosteaRouter(n, "RT_SEND_TO_SOCKET", less_nodo(x)) /\ Hecho(n)
    BY <1>7 DEF on_send_replay_forward, MensajeId
  <2>2. x \in Mensaje /\ Cabe(x, q) /\ Len(x.nodos) > 1
    BY <1>4, <2>1, Atendido DEF LogicEventOK
  <2> HIDE DEF x
  <2>3. less_nodo(x) \in Mensaje /\ Cabe(less_nodo(x), q)
    BY <2>2, BuildersTyped, BuildersCabe DEF Cabe
  <2> QED
    BY <1>1, <2>1, <2>3, HandlerCabe DEF RouterId
<1>8. CASE on_send_buy(n)
  BY <1>1, <1>4, <1>8, HandlerCabe DEF on_send_buy, MensajeId, RouterId
<1>9. CASE on_send_buy_reply_ok(n)
  BY <1>1, <1>4, <1>9, HandlerCabe DEF on_send_buy_reply_ok, MensajeId, RouterId
<1>10. CASE on_send_buy_reply_err(n)
  BY <1>1, <1>4, <1>10, HandlerCabe DEF on_send_buy_reply_err, MensajeId, RouterId
<1>11. CASE on_client_msg(n)
  <2>1. Atiende(n, "CLIENT_MSG") /\ "CLIENT_MSG" \in MensajeId
    BY <1>11 DEF on_client_msg, MensajeId
  <2>2. PICK m \in Load(x) :
          \/ on_receive_look_up(n, m)
          \/ on_receive_replay(n, m)
          \/ on_receive_buy(n, m)
          \/ on_receive_buy_reply_ok(n, m)
          \/ on_receive_buy_reply_err(n, m)
    BY <1>11 DEF on_client_msg
  <2>3. m \in Mensaje /\ Cabe(m, q)
    BY <1>4, <2>1, LoadCabe
  <2>4. Hecho(n) \/ \E id \in MensajeId : HechoYPostea(n, id, m)
    BY <2>2 DEF on_receive_look_up, on_receive_replay, on_receive_buy,
                on_receive_buy_reply_ok, on_receive_buy_reply_err, MensajeId
  <2>5. UNCHANGED routerEvents \/ \E id \in RouterId : PosteaRouter(n, id, m)
    BY <2>2 DEF on_receive_look_up, on_receive_replay, on_receive_buy,
                on_receive_buy_reply_ok, on_receive_buy_reply_err, RouterId
  <2> QED
    BY <1>1, <2>3, <2>4, <2>5, HandlerCabe
<1> QED
  BY <1>2, <1>3, <1>5, <1>6, <1>7, <1>8, <1>9, <1>10, <1>11 DEF LogicStep

(* What the Routers send, what comes in, and what the users ask for.       *)

LEMMA EnviaCabe ==
  ASSUME NEW q, NEW b, IsABag(b), CabeRed(b, q), NEW d, NEW m, Cabe(m, q)
  PROVE  IsABag(Envia(b, d, m)) /\ CabeRed(Envia(b, d, m), q)
<1> DEFINE p == [dst |-> d, tag |-> m]
<1>1. p.tag = m
  OBVIOUS
<1> HIDE DEF p
<1>2. IsABag(BagAdd(b, p)) /\ CabeRed(BagAdd(b, p), q)
  BY <1>1, BagAddLemma DEF CabeRed
<1> QED
  BY <1>2 DEF Envia, p

LEMMA RouterCabe ==
  ASSUME Inv, NEW q, Cantidades(q), NEW n \in Node, RouterStep(n)
  PROVE  Cantidades(q)'
<1> DEFINE m == Cabeza(n)
<1>1. IsABag(red) /\ CabeRed(red, q)
  BY DEF Inv, RedOK, Cantidades
<1>2. PICK id : AtiendeRouter(n, id)
  BY DEF RouterStep, send_first_broadcast_message, send_broadcast_message,
         send_to_next_node_message, start_p2p_connect,
         send_to_p2p_socket_message, close_p2p_connect
<1>3. Cabe(m, q) /\ CabeRouter(routerEvents', q) /\ UNCHANGED logicEvents
  BY <1>2, AtendidoCabe DEF AtiendeRouter
<1>4. \/ \E d, e : red' = Envia(Envia(red, d, m), e, m)
      \/ \E d : red' = Envia(red, d, m)
      \/ UNCHANGED red
  BY DEF RouterStep, send_first_broadcast_message, send_broadcast_message,
         send_to_next_node_message, start_p2p_connect,
         send_to_p2p_socket_message, close_p2p_connect
<1> HIDE DEF m
<1>5. \A d : IsABag(Envia(red, d, m)) /\ CabeRed(Envia(red, d, m), q)
  BY <1>1, <1>3, EnviaCabe
<1>6. \A d, e : CabeRed(Envia(Envia(red, d, m), e, m), q)
  BY <1>3, <1>5, EnviaCabe
<1>7. CabeRed(red', q)
  BY <1>1, <1>4, <1>5, <1>6
<1> QED
  BY <1>3, <1>7 DEF Cantidades

LEMMA LlegaCabe ==
  ASSUME Inv, NEW q, Cantidades(q), NEW n \in Node, NEW e \in LogicEvent,
         EventoCabe(e, q), logicEvents' = [logicEvents EXCEPT ![n] = Append(@, e)]
  PROVE  CabeLogic(logicEvents', q)
  BY ColaAppend DEF Inv, ColasLogic, Cantidades, CabeLogic

LEMMA RedCabe ==
  ASSUME Inv, NEW q, Cantidades(q), NEW p \in BagToSet(red),
         Entrega(p) \/ Pierde(p)
  PROVE  Cantidades(q)'
<1>1. /\ Cabe(p.tag, q) /\ p \in Paquete
      /\ CabeRed(BagRemove(red, p), q)
  BY BagRemoveLemma DEF Inv, RedOK, Cantidades, CabeRed
<1>2. CASE Entrega(p)
  <2> DEFINE e == [id |-> "CLIENT_MSG", tag |-> p.tag]
  <2>1. e \in LogicEvent /\ EventoCabe(e, q) /\ p.dst \in Node
    BY <1>1 DEF LogicEvent, MensajeId, Paquete, EventoCabe
  <2>2. logicEvents' = [logicEvents EXCEPT ![p.dst] = Append(@, e)]
    BY <1>2 DEF Entrega
  <2> HIDE DEF e
  <2>3. CabeLogic(logicEvents', q)
    BY <2>1, <2>2, LlegaCabe
  <2> QED
    BY <1>1, <1>2, <2>3 DEF Entrega, Cantidades
<1>3. CASE Pierde(p)
  BY <1>1, <1>3 DEF Pierde, Cantidades, logicVars
<1> QED
  BY <1>2, <1>3

LEMMA TecladoCabe ==
  ASSUME Inv, NEW q, Pedible \subseteq 0..q, Cantidades(q), NEW n \in Node,
         Teclado(n)
  PROVE  Cantidades(q)'
<1>1. PICK e \in LogicEvent : EventoCabe(e, q) /\ Ordena(n, e)
  <2>1. ASSUME NEW c \in Pedible, Ordena(n, [id |-> "DO_LOOKUP", cantidad |-> c])
        PROVE  \E e \in LogicEvent : EventoCabe(e, q) /\ Ordena(n, e)
    <3> DEFINE e == [id |-> "DO_LOOKUP", cantidad |-> c]
    <3>1. e \in LogicEvent /\ EventoCabe(e, q)
      BY BazarAssumption DEF LogicEvent, MensajeId, EventoCabe
    <3> QED
      BY <2>1, <3>1
  <2>2. ASSUME NEW p \in Elegible, NEW c \in Reponible,
               Ordena(n, [id |-> "SET_STOCK", producto |-> p, cantidad |-> c])
        PROVE  \E e \in LogicEvent : EventoCabe(e, q) /\ Ordena(n, e)
    <3> DEFINE e == [id |-> "SET_STOCK", producto |-> p, cantidad |-> c]
    <3>1. e \in LogicEvent /\ EventoCabe(e, q)
      BY BazarAssumption DEF LogicEvent, MensajeId, EventoCabe
    <3> QED
      BY <2>2, <3>1
  <2>3. ASSUME NEW id \in {"SET_CUR_PROD_COMPRA", "SET_CUR_PROD_VENTA"},
               NEW p \in Elegible, Ordena(n, [id |-> id, producto |-> p])
        PROVE  \E e \in LogicEvent : EventoCabe(e, q) /\ Ordena(n, e)
    <3> DEFINE e == [id |-> id, producto |-> p]
    <3>1. e \in LogicEvent /\ EventoCabe(e, q)
      BY BazarAssumption DEF LogicEvent, MensajeId, EventoCabe
    <3> QED
      BY <2>3, <3>1
  <2> QED
    BY <2>1, <2>2, <2>3
    DEF Teclado, procesar_lanzar, procesar_add_stock,
        procesar_set_producto_compra, procesar_set_producto_venta
<1>2. CabeLogic(logicEvents', q)
  BY <1>1, LlegaCabe DEF Ordena
<1> QED
  BY <1>1, <1>2 DEF Ordena, Cantidades

LEMMA CantidadesNext ==
  ASSUME NEW q \in Nat, Pedible \subseteq 0..q
  PROVE  Inv /\ Cantidades(q) /\ [Next]_vars => Cantidades(q)'
<1> SUFFICES ASSUME Inv, Cantidades(q), [Next]_vars PROVE Cantidades(q)'
  OBVIOUS
<1>1. CASE UNCHANGED vars
  BY <1>1 DEF vars, logicVars, Cantidades
<1> QED
  BY <1>1, LogicCabe, RouterCabe, RedCabe, TecladoCabe DEF Next

-----------------------------------------------------------------------------
(* The orders to buy that Logic has not handled, as places in its queues:  *)
(* with the clock, which each of them moves, they are no more than the     *)
(* orders that were given.                                                 *)
Lanzados(f) ==
  {x \in Node \X Nat : /\ x[2] \in 1..Len(f[x[1]])
                       /\ f[x[1]][x[2]].id = "DO_LOOKUP"}

Contados ==
  /\ FS!IsFiniteSet(Lanzados(logicEvents))
  /\ reloj + FS!Cardinality(Lanzados(logicEvents)) <= ordenes
  /\ ordenes <= MaxOrdenes

LEMMA ContadosInit == Init => Contados
<1> SUFFICES ASSUME Init PROVE Contados
  OBVIOUS
<1>1. Lanzados(logicEvents) = {}
  BY DEF Init, LogicInit, Lanzados
<1>2. reloj = 0 /\ ordenes = 0
  BY DEF Init, LogicInit
<1> QED
  BY <1>1, <1>2, FS!FS_EmptySet, BazarAssumption DEF Contados

(* The order at the head of a queue is taken: one less.                    *)
LEMMA LanzadosTail ==
  ASSUME NEW f \in [Node -> Seq(LogicEvent)], FS!IsFiniteSet(Lanzados(f)),
         NEW n \in Node, f[n] # <<>>
  PROVE  LET L == Lanzados([f EXCEPT ![n] = Tail(@)])
         IN  /\ FS!IsFiniteSet(L)
             /\ FS!Cardinality(L) <= FS!Cardinality(Lanzados(f))
             /\ Head(f[n]).id = "DO_LOOKUP" =>
                  FS!Cardinality(L) + 1 <= FS!Cardinality(Lanzados(f))
<1> DEFINE g == [f EXCEPT ![n] = Tail(@)]
           L == Lanzados(g)
           S == Lanzados(f) \ {<<n, 1>>}
           h == [x \in L |-> IF x[1] = n THEN <<n, x[2] + 1>> ELSE x]
<1>1. /\ f[n] \in Seq(LogicEvent) /\ Head(f[n]) = f[n][1] /\ 1 \in 1..Len(f[n])
      /\ Tail(f[n]) \in Seq(LogicEvent) /\ Len(Tail(f[n])) = Len(f[n]) - 1
      /\ \A i \in 1..Len(Tail(f[n])) : /\ i + 1 \in 1..Len(f[n])
                                       /\ Tail(f[n])[i] = f[n][i + 1]
  OBVIOUS
<1>2. g[n] = Tail(f[n]) /\ \A k \in Node \ {n} : g[k] = f[k]
  BY <1>1
<1> HIDE DEF g
<1>3. \A x \in L : x \in Node \X Nat /\ x = <<x[1], x[2]>> /\ x[2] >= 1
  BY DEF Lanzados
<1>4. ASSUME NEW x \in L PROVE h[x] \in S
  <2>1. x[1] \in Node /\ x[2] \in Nat /\ x[2] \in 1..Len(g[x[1]])
        /\ g[x[1]][x[2]].id = "DO_LOOKUP"
    BY DEF Lanzados
  <2>2. CASE x[1] = n
    <3>1. /\ x[2] + 1 \in 1..Len(f[n]) /\ f[n][x[2] + 1].id = "DO_LOOKUP"
          /\ x[2] + 1 # 1
      BY <1>1, <1>2, <2>1, <2>2
    <3>2. h[x] = <<n, x[2] + 1>>
      BY <2>2
    <3> DEFINE y == <<n, x[2] + 1>>
    <3>3. y \in Node \X Nat /\ y[1] = n /\ y[2] = x[2] + 1 /\ y # <<n, 1>>
      BY <2>1, <3>1
    <3> HIDE DEF y
    <3>4. y \in S
      BY <3>1, <3>3 DEF Lanzados
    <3> QED
      BY <3>2, <3>4 DEF y
  <2>3. CASE x[1] # n
    <3>1. h[x] = x
      BY <2>3
    <3>2. x[2] \in 1..Len(f[x[1]]) /\ f[x[1]][x[2]].id = "DO_LOOKUP"
      BY <1>2, <2>1, <2>3 DEF Lanzados
    <3>3. x \in Lanzados(f)
      BY <1>3, <3>2 DEF Lanzados
    <3>4. x # <<n, 1>>
      BY <1>3, <2>3
    <3> QED
      BY <3>1, <3>3, <3>4
  <2> QED
    BY <2>2, <2>3
<1>5. ASSUME NEW x \in L, NEW y \in L, h[x] = h[y] PROVE x = y
  <2>1. x[2] \in Nat /\ y[2] \in Nat
    BY <1>3
  <2> QED
    BY <1>3, <1>5, <2>1
<1>6. h \in [L -> S]
  BY <1>4
<1>7. h \in FS!Injection(L, S)
  BY <1>5, <1>6 DEF FS!Injection, FS!IsInjective
<1> HIDE DEF L, h
<1>8. /\ FS!IsFiniteSet(S)
      /\ FS!Cardinality(S) = IF <<n, 1>> \in Lanzados(f)
                             THEN FS!Cardinality(Lanzados(f)) - 1
                             ELSE FS!Cardinality(Lanzados(f))
  BY FS!FS_RemoveElement
<1>9. FS!IsFiniteSet(L) /\ FS!Cardinality(L) <= FS!Cardinality(S)
  BY <1>7, <1>8, FS!FS_Injection
<1>10. /\ FS!Cardinality(Lanzados(f)) \in Nat /\ FS!Cardinality(L) \in Nat
  BY <1>9, FS!FS_CardinalityType
<1>11. Head(f[n]).id = "DO_LOOKUP" => <<n, 1>> \in Lanzados(f)
  BY <1>1 DEF Lanzados
<1> QED
  BY <1>8, <1>9, <1>10, <1>11 DEF L, g

(* An event is posted: one more if it is an order to buy.                  *)
LEMMA LanzadosAppend ==
  ASSUME NEW f \in [Node -> Seq(LogicEvent)], FS!IsFiniteSet(Lanzados(f)),
         NEW n \in Node, NEW e \in LogicEvent
  PROVE  LET L == Lanzados([f EXCEPT ![n] = Append(@, e)])
         IN  /\ FS!IsFiniteSet(L)
             /\ FS!Cardinality(L) <= FS!Cardinality(Lanzados(f)) + 1
             /\ e.id # "DO_LOOKUP" =>
                  FS!Cardinality(L) <= FS!Cardinality(Lanzados(f))
<1> DEFINE g == [f EXCEPT ![n] = Append(@, e)]
           L == Lanzados(g)
           z == <<n, Len(f[n]) + 1>>
<1>1. /\ f[n] \in Seq(LogicEvent) /\ Len(f[n]) \in Nat
      /\ Len(Append(f[n], e)) = Len(f[n]) + 1
      /\ Append(f[n], e)[Len(f[n]) + 1] = e
      /\ \A i \in 1..Len(f[n]) : Append(f[n], e)[i] = f[n][i]
  OBVIOUS
<1>2. g[n] = Append(f[n], e) /\ \A k \in Node \ {n} : g[k] = f[k]
  BY <1>1
<1> HIDE DEF g
<1>3. ASSUME NEW x \in L
      PROVE  x \in Lanzados(f) \/ (x = z /\ e.id = "DO_LOOKUP")
  <2>1. /\ x \in Node \X Nat /\ x = <<x[1], x[2]>> /\ x[1] \in Node
        /\ x[2] \in Nat /\ x[2] \in 1..Len(g[x[1]])
        /\ g[x[1]][x[2]].id = "DO_LOOKUP"
    BY DEF Lanzados
  <2>2. CASE x[1] # n
    BY <1>2, <2>1, <2>2 DEF Lanzados
  <2>3. CASE x[1] = n /\ x[2] = Len(f[n]) + 1
    BY <1>1, <1>2, <2>1, <2>3
  <2>4. CASE x[1] = n /\ x[2] # Len(f[n]) + 1
    <3>1. x[2] \in 1..Len(f[n])
      BY <1>1, <1>2, <2>1, <2>4
    <3> QED
      BY <1>1, <1>2, <2>1, <2>4, <3>1 DEF Lanzados
  <2> QED
    BY <2>2, <2>3, <2>4
<1> HIDE DEF L, z
<1>4. L \in SUBSET (Lanzados(f) \cup {z})
  BY <1>3
<1>5. e.id # "DO_LOOKUP" => L \in SUBSET Lanzados(f)
  BY <1>3
<1>6. /\ FS!IsFiniteSet(Lanzados(f) \cup {z})
      /\ FS!Cardinality(Lanzados(f) \cup {z}) =
           IF z \in Lanzados(f) THEN FS!Cardinality(Lanzados(f))
                                ELSE FS!Cardinality(Lanzados(f)) + 1
  BY FS!FS_AddElement
<1>7. FS!IsFiniteSet(L) /\ FS!Cardinality(L) <= FS!Cardinality(Lanzados(f) \cup {z})
  BY <1>4, <1>6, FS!FS_Subset
<1>8. e.id # "DO_LOOKUP" => FS!Cardinality(L) <= FS!Cardinality(Lanzados(f))
  BY <1>5, FS!FS_Subset
<1>9. FS!Cardinality(Lanzados(f)) \in Nat /\ FS!Cardinality(L) \in Nat
  BY <1>7, FS!FS_CardinalityType
<1> QED
  BY <1>6, <1>7, <1>8, <1>9 DEF L, g

LEMMA ContadosLogic ==
  ASSUME Inv, Contados, NEW n \in Node, LogicStep(n), UNCHANGED ordenes
  PROVE  Contados'
<1> DEFINE f == logicEvents
           g == [f EXCEPT ![n] = Tail(@)]
<1>1. f \in [Node -> Seq(LogicEvent)] /\ f[n] # <<>>
  BY LogicForma DEF Inv, ColasLogic
<1>2. FS!IsFiniteSet(Lanzados(f)) /\ reloj + FS!Cardinality(Lanzados(f)) <= ordenes
  BY DEF Contados
<1>3. g \in [Node -> Seq(LogicEvent)]
  BY <1>1, ColaTail
<1>4. /\ FS!IsFiniteSet(Lanzados(g))
      /\ FS!Cardinality(Lanzados(g)) <= FS!Cardinality(Lanzados(f))
      /\ Head(f[n]).id = "DO_LOOKUP" =>
           FS!Cardinality(Lanzados(g)) + 1 <= FS!Cardinality(Lanzados(f))
  BY <1>1, <1>2, LanzadosTail
<1> HIDE DEF g
<1>5. /\ FS!IsFiniteSet(Lanzados(logicEvents'))
      /\ FS!Cardinality(Lanzados(logicEvents')) <= FS!Cardinality(Lanzados(g))
  <2>1. CASE Hecho(n)
    <3>1. logicEvents' = g
      BY <2>1 DEF Hecho, g
    <3>2. FS!Cardinality(Lanzados(g)) \in Nat
      BY <1>4, FS!FS_CardinalityType
    <3> QED
      BY <1>4, <3>1, <3>2
  <2>2. ASSUME NEW id \in MensajeId, NEW m \in Mensaje, HechoYPostea(n, id, m)
        PROVE  /\ FS!IsFiniteSet(Lanzados(logicEvents'))
               /\ FS!Cardinality(Lanzados(logicEvents')) <= FS!Cardinality(Lanzados(g))
    <3> DEFINE e == [id |-> id, tag |-> m]
    <3>1. e \in LogicEvent /\ e.id # "DO_LOOKUP"
      BY DEF LogicEvent, MensajeId
    <3>2. logicEvents' = [g EXCEPT ![n] = Append(@, e)]
      BY <1>1, <2>2 DEF HechoYPostea, g
    <3> HIDE DEF e
    <3> QED
      BY <1>3, <1>4, <3>1, <3>2, LanzadosAppend
  <2> QED
    BY <2>1, <2>2, LogicForma
<1>6. reloj' = reloj \/ (reloj' = reloj + 1 /\ Head(f[n]).id = "DO_LOOKUP")
  BY DEF LogicStep, set_stock_product, set_cur_prod_compra, set_cur_prod_venta,
         on_send_look_up, on_send_look_up_forward, on_send_replay,
         on_send_replay_forward, on_send_buy, on_send_buy_reply_ok,
         on_send_buy_reply_err, on_client_msg, Atiende
<1>7. /\ FS!Cardinality(Lanzados(f)) \in Nat
      /\ FS!Cardinality(Lanzados(g)) \in Nat
      /\ FS!Cardinality(Lanzados(logicEvents')) \in Nat
      /\ reloj \in Nat /\ ordenes \in Nat
  BY <1>2, <1>4, <1>5, FS!FS_CardinalityType DEF Inv
<1>8. reloj' + FS!Cardinality(Lanzados(logicEvents')) <= ordenes
  BY <1>2, <1>4, <1>5, <1>6, <1>7
<1> QED
  BY <1>5, <1>8 DEF Contados

(* An event comes from the transport, or from a keyboard.                  *)
LEMMA ContadosLlega ==
  ASSUME Inv, Contados, NEW n \in Node, NEW e \in LogicEvent,
         logicEvents' = [logicEvents EXCEPT ![n] = Append(@, e)],
         UNCHANGED reloj,
         \/ ordenes' = ordenes + 1 /\ ordenes < MaxOrdenes
         \/ UNCHANGED ordenes /\ e.id # "DO_LOOKUP"
  PROVE  Contados'
<1>1. /\ logicEvents \in [Node -> Seq(LogicEvent)]
      /\ FS!IsFiniteSet(Lanzados(logicEvents))
      /\ reloj + FS!Cardinality(Lanzados(logicEvents)) <= ordenes
      /\ reloj \in Nat /\ ordenes \in Nat /\ ordenes <= MaxOrdenes
  BY DEF Inv, ColasLogic, Contados
<1>2. /\ FS!IsFiniteSet(Lanzados(logicEvents'))
      /\ FS!Cardinality(Lanzados(logicEvents')) <=
           FS!Cardinality(Lanzados(logicEvents)) + 1
      /\ e.id # "DO_LOOKUP" => FS!Cardinality(Lanzados(logicEvents')) <=
                                 FS!Cardinality(Lanzados(logicEvents))
  BY <1>1, LanzadosAppend
<1>3. /\ FS!Cardinality(Lanzados(logicEvents)) \in Nat
      /\ FS!Cardinality(Lanzados(logicEvents')) \in Nat
  BY <1>1, <1>2, FS!FS_CardinalityType
<1>4. /\ reloj' + FS!Cardinality(Lanzados(logicEvents')) <= ordenes'
      /\ ordenes' <= MaxOrdenes
  BY <1>1, <1>2, <1>3, BazarAssumption
<1> QED
  BY <1>2, <1>4 DEF Contados

LEMMA ContadosNext == Inv /\ Contados /\ [Next]_vars => Contados'
<1> SUFFICES ASSUME Inv, Contados, [Next]_vars PROVE Contados'
  OBVIOUS
<1>1. ASSUME NEW n \in Node, Teclado(n) PROVE Contados'
  <2>1. PICK e \in LogicEvent : Ordena(n, e)
    <3>1. ASSUME NEW c \in Pedible PROVE [id |-> "DO_LOOKUP", cantidad |-> c] \in LogicEvent
      BY BazarAssumption DEF LogicEvent
    <3>2. ASSUME NEW p \in Elegible, NEW c \in Reponible
          PROVE  [id |-> "SET_STOCK", producto |-> p, cantidad |-> c] \in LogicEvent
      BY BazarAssumption DEF LogicEvent
    <3>3. ASSUME NEW p \in Elegible,
                 NEW id \in {"SET_CUR_PROD_COMPRA", "SET_CUR_PROD_VENTA"}
          PROVE  [id |-> id, producto |-> p] \in LogicEvent
      BY BazarAssumption DEF LogicEvent
    <3> QED
      BY <1>1, <3>1, <3>2, <3>3
      DEF Teclado, procesar_lanzar, procesar_add_stock,
          procesar_set_producto_compra, procesar_set_producto_venta
  <2> QED
    BY <2>1, ContadosLlega DEF Ordena
<1>2. ASSUME NEW p \in BagToSet(red), Entrega(p) PROVE Contados'
  <2> DEFINE e == [id |-> "CLIENT_MSG", tag |-> p.tag]
  <2>1. p \in Paquete
    BY DEF Inv, RedOK
  <2>2. e \in LogicEvent /\ e.id # "DO_LOOKUP" /\ p.dst \in Node
    BY <2>1 DEF LogicEvent, MensajeId, Paquete
  <2>3. /\ logicEvents' = [logicEvents EXCEPT ![p.dst] = Append(@, e)]
        /\ UNCHANGED <<reloj, ordenes>>
    BY <1>2 DEF Entrega
  <2> HIDE DEF e
  <2> QED
    BY <2>2, <2>3, ContadosLlega
<1>3. ASSUME UNCHANGED <<logicEvents, reloj, ordenes>> PROVE Contados'
  BY <1>3 DEF Contados
<1>4. ASSUME NEW n \in Node, RouterStep(n)
      PROVE  UNCHANGED <<logicEvents, reloj, ordenes>>
  BY <1>4
  DEF RouterStep, send_first_broadcast_message, send_broadcast_message,
      send_to_next_node_message, start_p2p_connect, send_to_p2p_socket_message,
      close_p2p_connect, AtiendeRouter
<1> QED
  BY <1>1, <1>2, <1>3, <1>4, ContadosLogic DEF Next, Pierde, vars, logicVars

-----------------------------------------------------------------------------
(* The purchases of Trueque: at most one record for each, and only of      *)
(* those agreed on.  Acabadas are those that are over: credited, refused   *)
(* or lost.                                                                *)
Tiempos == {u.ts : u \in Tratos \cup EnCamino}

Acabadas == Acordadas \ Tiempos

Unicos ==
  /\ Tiempos \subseteq Acordadas
  /\ \A u, v \in Tratos : u.ts = v.ts => u = v
  /\ \A u, v \in EnCamino : u.ts = v.ts => u = v
  /\ \A u \in Tratos, v \in EnCamino : u.ts # v.ts

(* A stock is what it was set to, at most, and the units of the purchases  *)
(* that are over.                                                          *)
Medido(s, q) ==
  \A n \in Node : \A p \in DOMAIN mapa_stock[n] :
    mapa_stock[n][p] \in 0..(s + q * FS!Cardinality(Acabadas))

LEMMA UnicosInit == Init => Unicos
<1>1. Init => Tratos = {} /\ EnCamino = {}
  BY InitT DEF T!Init
<1> QED
  BY <1>1 DEF Unicos, Tiempos

LEMMA FichasCaben ==
  ASSUME Inv, NEW q, Cantidades(q), NEW u \in Tratos \cup EnCamino
  PROVE  /\ u = [ts |-> u.ts, producto |-> u.producto, cantidad |-> u.cantidad]
         /\ u.cantidad \in 0..q
<1>1. PICK x \in ConMensaje : u = Ficha(x.ev.tag)
  BY DEF Tratos, EnCamino, Acuerdo, Abono
<1>2. Cabe(x.ev.tag, q)
  <2>1. \A p : EnRed(p).tag = p.tag
    BY DEF EnRed
  <2> QED
    BY <2>1, ConMensajeEs
    DEF Cantidades, CabeLogic, CabeRouter, CabeRed, EventoCabe
<1> QED
  BY <1>1, <1>2 DEF Ficha, Cabe

(* The number of purchases is bounded by that of the orders.               *)
LEMMA AcordadasCuenta ==
  ASSUME Inv, Negocios, Contados, NEW S \in SUBSET Acordadas
  PROVE  /\ FS!IsFiniteSet(S) /\ FS!Cardinality(S) \in Nat
         /\ FS!Cardinality(S) <= MaxOrdenes
<1>1. Acordadas \subseteq 0..(reloj - 1)
  <2>1. \A n \in Node : \A t \in DOMAIN mapaPedidos[n] : t \in Nat /\ t < reloj
    BY DEF Inv, PedidosOK, Negocios, UnDueno
  <2>2. \A t \in Acordadas : \E n \in Node : t \in DOMAIN mapaPedidos[n]
    BY DEF Acordadas
  <2> QED
    BY <2>1, <2>2 DEF Inv
<1>2. /\ FS!IsFiniteSet(0..(reloj - 1))
      /\ FS!Cardinality(0..(reloj - 1)) = reloj
  BY FS!FS_Interval DEF Inv
<1>3. S \in SUBSET (0..(reloj - 1))
  BY <1>1
<1>4. FS!IsFiniteSet(S) /\ FS!Cardinality(S) <= reloj
  BY <1>2, <1>3, FS!FS_Subset
<1>5. FS!Cardinality(S) \in Nat /\ FS!Cardinality(Lanzados(logicEvents)) \in Nat
  BY <1>4, FS!FS_CardinalityType DEF Contados
<1>6. reloj <= MaxOrdenes
  BY <1>5, BazarAssumption DEF Contados, Inv
<1> QED
  BY <1>4, <1>5, <1>6, BazarAssumption DEF Inv

LEMMA EnteroIgual ==
  ASSUME NEW x \in 0..MaxInt PROVE Entero(x) = x
<1>1. /\ MaxInt \in Nat
      /\ x + MaxInt + 1 \in 0..(2 * MaxInt + 1)
  BY LogicAssumption
<1>2. \A k, y \in Nat : y < k => y % k = y
  OBVIOUS
<1>3. (x + MaxInt + 1) % (2 * MaxInt + 2) = x + MaxInt + 1
  BY <1>1, <1>2
<1> QED
  BY <1>1, <1>3 DEF Entero

(* What a step of Trueque does to the purchases.                           *)
Formas == \A u \in Tratos \cup EnCamino :
            u = [ts |-> u.ts, producto |-> u.producto, cantidad |-> u.cantidad]

LEMMA AcuerdaUnicos ==
  ASSUME Unicos, NEW u, T!Acuerda(u)
  PROVE  Unicos' /\ Acabadas' = Acabadas
<1>1. /\ u.ts \notin Acordadas /\ Acordadas' = Acordadas \cup {u.ts}
      /\ Tratos' = Tratos \cup {u} /\ EnCamino' = EnCamino
  BY DEF T!Acuerda
<1>2. Tiempos' = Tiempos \cup {u.ts}
  BY <1>1 DEF Tiempos
<1>3. \A v \in Tratos \cup EnCamino : v.ts # u.ts
  BY <1>1 DEF Unicos, Tiempos
<1>4. Acabadas' = Acabadas
  BY <1>1, <1>2 DEF Acabadas
<1>5. Tiempos' \subseteq Acordadas'
  BY <1>1, <1>2 DEF Unicos
<1> QED
  BY <1>1, <1>3, <1>4, <1>5 DEF Unicos

LEMMA VendeUnicos ==
  ASSUME Unicos, Formas, NEW n, NEW c, NEW u \in Tratos, T!Vende(n, u, c)
  PROVE  Unicos' /\ Acabadas' = Acabadas
<1> DEFINE w == [u EXCEPT !.cantidad = c]
<1>1. w.ts = u.ts
  BY DEF Formas
<1>2. /\ Tratos' = Tratos \ {u} /\ EnCamino' = EnCamino \cup {w}
      /\ Acordadas' = Acordadas
  BY DEF T!Vende
<1> HIDE DEF w
<1>3. \A v \in Tratos' \cup EnCamino : v.ts # u.ts
  BY <1>2 DEF Unicos
<1>4. Tiempos' = Tiempos
  BY <1>1, <1>2 DEF Tiempos
<1>5. Acabadas' = Acabadas
  BY <1>2, <1>4 DEF Acabadas
<1> QED
  BY <1>1, <1>2, <1>3, <1>4, <1>5 DEF Unicos

(* A purchase goes, refused, credited or lost: it is over.                 *)
LEMMA AcabaUnicos ==
  ASSUME Unicos, NEW u, UNCHANGED Acordadas,
         \/ u \in Tratos /\ Tratos' = Tratos \ {u} /\ UNCHANGED EnCamino
         \/ u \in EnCamino /\ EnCamino' = EnCamino \ {u} /\ UNCHANGED Tratos
  PROVE  /\ Unicos' /\ Acabadas' = Acabadas \cup {u.ts}
         /\ u.ts \notin Acabadas
<1>1. \A v \in Tratos' \cup EnCamino' : v \in Tratos \cup EnCamino /\ v.ts # u.ts
  BY DEF Unicos
<1>2. u \in Tratos \cup EnCamino /\ u.ts \in Tiempos
  BY DEF Tiempos
<1>3. Tiempos' = Tiempos \ {u.ts}
  BY <1>1, <1>2 DEF Tiempos
<1>4. Acabadas' = Acabadas \cup {u.ts} /\ u.ts \notin Acabadas
  BY <1>2, <1>3 DEF Acabadas, Unicos
<1>5. Tiempos' \subseteq Acordadas'
  BY <1>3 DEF Unicos
<1> QED
  BY <1>4, <1>5 DEF Unicos

-----------------------------------------------------------------------------
(* The products q * k, which the provers leave alone but for these facts.  *)
LEMMA PorUno ==
  ASSUME NEW q \in Nat, NEW k \in Nat
  PROVE  q * k \in Nat /\ q * (k + 1) = q * k + q
  OBVIOUS

LEMMA PorMenor ==
  ASSUME NEW q \in Nat, NEW k \in Nat, NEW j \in Nat, k <= j
  PROVE  q * k <= q * j
  OBVIOUS

(* A stock where one entry is written.                                     *)
LEMMA PoneMedido ==
  ASSUME Inv, NEW n \in Node, NEW p, NEW c, T!Pone(n, p, c),
         NEW a \in Nat, NEW b \in Nat, a <= b, c \in 0..b,
         \A k \in Node : \A r \in DOMAIN mapa_stock[k] : mapa_stock[k][r] \in 0..a
  PROVE  \A k \in Node : \A r \in DOMAIN mapa_stock'[k] : mapa_stock'[k][r] \in 0..b
<1> DEFINE f == [r \in DOMAIN mapa_stock[n] \cup {p} |->
                   IF r = p THEN c ELSE mapa_stock[n][r]]
<1>1. DOMAIN mapa_stock = Node
  BY DEF Inv, StockOK
<1>2. mapa_stock' = [mapa_stock EXCEPT ![n] = f]
  BY DEF T!Pone
<1>3. \A r \in DOMAIN f : f[r] \in 0..b
  OBVIOUS
<1> HIDE DEF f
<1>4. mapa_stock'[n] = f /\ \A k \in Node \ {n} : mapa_stock'[k] = mapa_stock[k]
  BY <1>1, <1>2
<1> QED
  BY <1>3, <1>4

(* What the users have ordered and what is on its way fit in an int.       *)
Sabido(s, q) ==
  Inv /\ Negocios /\ Contados /\ Cantidades(q) /\ Unicos /\ Medido(s, q)

Tope(s, q) == s + q * FS!Cardinality(Acabadas)

LEMMA TopeCabe ==
  ASSUME NEW s, NEW q, Holgura(s, q), Sabido(s, q)
  PROVE  /\ Tope(s, q) \in s..MaxInt
         /\ EnCamino # {} => Tope(s, q) + q <= MaxInt
<1>1. /\ s \in Nat /\ q \in Nat /\ MaxOrdenes \in Nat /\ MaxInt \in Nat
      /\ s + q * MaxOrdenes <= MaxInt
  BY BazarAssumption, LogicAssumption DEF Holgura
<1>2. /\ FS!IsFiniteSet(Acabadas) /\ FS!Cardinality(Acabadas) \in Nat
      /\ FS!Cardinality(Acabadas) <= MaxOrdenes
  <2>1. Acabadas \in SUBSET Acordadas
    BY DEF Acabadas
  <2> QED
    BY <2>1, AcordadasCuenta DEF Sabido
<1> DEFINE k == FS!Cardinality(Acabadas)
<1> HIDE DEF k
<1>3. q * k \in Nat /\ q * k <= q * MaxOrdenes /\ q * MaxOrdenes \in Nat
  BY <1>1, <1>2, PorUno, PorMenor DEF k
<1>4. Tope(s, q) \in s..MaxInt
  BY <1>1, <1>3 DEF Tope, k
<1>5. ASSUME NEW u \in EnCamino PROVE Tope(s, q) + q <= MaxInt
  <2>1. u.ts \in Acordadas /\ u.ts \notin Acabadas
    BY DEF Sabido, Unicos, Tiempos, Acabadas
  <2> DEFINE S == Acabadas \cup {u.ts}
  <2>2. FS!Cardinality(S) = k + 1
    BY <1>2, <2>1, FS!FS_AddElement DEF k
  <2>3. S \in SUBSET Acordadas
    BY <2>1 DEF Acabadas
  <2> HIDE DEF S
  <2>4. k + 1 <= MaxOrdenes
    BY <2>2, <2>3, AcordadasCuenta DEF Sabido
  <2>5. k \in Nat
    BY <1>2 DEF k
  <2>6. q * (k + 1) <= q * MaxOrdenes /\ q * (k + 1) = q * k + q
    BY <1>1, <2>4, <2>5, PorUno, PorMenor
  <2> QED
    BY <1>1, <1>3, <2>6 DEF Tope, k
<1> QED
  BY <1>4, <1>5

LEMMA MedidoPaso ==
  ASSUME NEW s, NEW q, Holgura(s, q), Sabido(s, q), T!Next
  PROVE  Unicos' /\ Medido(s, q)'
<1> DEFINE k == FS!Cardinality(Acabadas)
<1>1. /\ s \in Nat /\ q \in Nat /\ Reponible \subseteq 0..s
      /\ Inv /\ Negocios /\ Contados /\ Cantidades(q) /\ Unicos
  BY DEF Holgura, Sabido
<1>2. /\ FS!IsFiniteSet(Acabadas) /\ k \in Nat
  <2>1. Acabadas \in SUBSET Acordadas
    BY DEF Acabadas
  <2> QED
    BY <1>1, <2>1, AcordadasCuenta
<1>3. /\ Tope(s, q) \in s..MaxInt /\ Tope(s, q) \in Nat
      /\ EnCamino # {} => Tope(s, q) + q <= MaxInt
      /\ \A n \in Node : \A p \in DOMAIN mapa_stock[n] :
           mapa_stock[n][p] \in 0..Tope(s, q)
  BY <1>1, TopeCabe, LogicAssumption DEF Sabido, Medido, Tope
<1>4. Formas
  BY <1>1, FichasCaben DEF Formas
<1>5. ASSUME NEW u \in Tratos \cup EnCamino, NEW c \in Leido(u.cantidad)
      PROVE  c \in 0..q
  BY <1>1, <1>5, FichasCaben DEF Leido
<1> HIDE DEF k
<1>6. ASSUME NEW t, t \notin Acabadas, Acabadas' = Acabadas \cup {t}
      PROVE  Tope(s, q)' = Tope(s, q) + q
  <2>1. FS!Cardinality(Acabadas') = k + 1
    BY <1>2, <1>6, FS!FS_AddElement DEF k
  <2>2. q * (k + 1) = q * k + q /\ q * k \in Nat
    BY <1>1, <1>2, PorUno
  <2> QED
    BY <1>1, <2>1, <2>2 DEF Tope, k
<1>7. ASSUME Acabadas' = Acabadas PROVE Tope(s, q)' = Tope(s, q)
  BY <1>7 DEF Tope
<1>8. (\A n \in Node : \A p \in DOMAIN mapa_stock'[n] :
         mapa_stock'[n][p] \in 0..Tope(s, q)') => Medido(s, q)'
  BY DEF Medido, Tope
<1>9. ASSUME NEW u, T!Acuerda(u) PROVE Unicos' /\ Medido(s, q)'
  <2>1. Unicos' /\ Acabadas' = Acabadas
    BY <1>1, <1>9, AcuerdaUnicos
  <2>2. UNCHANGED mapa_stock
    BY <1>9 DEF T!Acuerda
  <2> QED
    BY <1>3, <1>7, <1>8, <2>1, <2>2
<1>10. ASSUME NEW u \in Tratos, T!SeDeshace(u) PROVE Unicos' /\ Medido(s, q)'
  <2>1. Unicos' /\ Tope(s, q)' = Tope(s, q) + q
    BY <1>1, <1>6, <1>10, AcabaUnicos DEF T!SeDeshace
  <2>2. CASE UNCHANGED mapa_stock
    BY <1>1, <1>3, <1>8, <2>1, <2>2
  <2>3. ASSUME NEW n \in Node, T!Pone(n, u.producto, 0) PROVE Medido(s, q)'
    <3>1. \A m \in Node : \A p \in DOMAIN mapa_stock'[m] :
            mapa_stock'[m][p] \in 0..(Tope(s, q) + q)
      BY <1>1, <1>3, <2>3, PoneMedido
    <3> QED
      BY <1>8, <2>1, <3>1
  <2> QED
    BY <1>10, <2>1, <2>2, <2>3 DEF T!SeDeshace
<1>11. ASSUME NEW u \in Tratos, NEW n \in Node, NEW c \in Leido(u.cantidad),
              T!Vende(n, u, c)
       PROVE  Unicos' /\ Medido(s, q)'
  <2> DEFINE v == mapa_stock[n][u.producto]
  <2>1. Unicos' /\ Tope(s, q)' = Tope(s, q)
    BY <1>1, <1>4, <1>7, <1>11, VendeUnicos
  <2>2. /\ v \in 0..Tope(s, q) /\ c <= v /\ c \in 0..q
        /\ T!Pone(n, u.producto, Entero(v - c))
    BY <1>3, <1>5, <1>11 DEF T!Vende
  <2> HIDE DEF v
  <2>3. v - c \in 0..MaxInt /\ v - c \in 0..Tope(s, q)
    BY <1>1, <1>3, <2>2, LogicAssumption
  <2>4. Entero(v - c) \in 0..Tope(s, q)
    BY <2>3, EnteroIgual
  <2>5. \A m \in Node : \A p \in DOMAIN mapa_stock'[m] :
          mapa_stock'[m][p] \in 0..Tope(s, q)
    BY <1>1, <1>3, <2>2, <2>4, PoneMedido
  <2> QED
    BY <1>8, <2>1, <2>5
<1>12. ASSUME NEW u \in EnCamino, T!SePierde(u) PROVE Unicos' /\ Medido(s, q)'
  <2>1. /\ Unicos' /\ Tope(s, q)' = Tope(s, q) + q
        /\ UNCHANGED mapa_stock
    BY <1>1, <1>6, <1>12, AcabaUnicos DEF T!SePierde
  <2> QED
    BY <1>1, <1>3, <1>8, <2>1
<1>13. ASSUME NEW u \in EnCamino, NEW n \in Node, NEW c \in Leido(u.cantidad),
              T!Acredita(n, u, c)
       PROVE  Unicos' /\ Medido(s, q)'
  <2> DEFINE v == mapa_stock[n][u.producto]
  <2>1. Unicos' /\ Tope(s, q)' = Tope(s, q) + q
    BY <1>1, <1>6, <1>13, AcabaUnicos DEF T!Acredita
  <2>2. /\ v \in 0..Tope(s, q) /\ c \in 0..q
        /\ T!Pone(n, u.producto, Entero(v + c))
    BY <1>3, <1>5, <1>13 DEF T!Acredita
  <2> HIDE DEF v
  <2>3. v + c \in 0..MaxInt /\ v + c \in 0..(Tope(s, q) + q)
    BY <1>1, <1>3, <2>2, LogicAssumption
  <2>4. Entero(v + c) \in 0..(Tope(s, q) + q)
    BY <2>3, EnteroIgual
  <2>5. \A m \in Node : \A p \in DOMAIN mapa_stock'[m] :
          mapa_stock'[m][p] \in 0..(Tope(s, q) + q)
    BY <1>1, <1>3, <2>2, <2>4, PoneMedido
  <2> QED
    BY <1>8, <2>1, <2>5
<1>14. ASSUME NEW n \in Node, NEW p \in Producto, NEW c \in Reponible,
              T!Repone(n, p, c)
       PROVE  Unicos' /\ Medido(s, q)'
  <2>1. /\ UNCHANGED <<Acordadas, Tratos, EnCamino>> /\ T!Pone(n, p, c)
        /\ c \in 0..Tope(s, q)
    BY <1>1, <1>3, <1>14 DEF T!Repone
  <2>2. Tiempos' = Tiempos
    BY <2>1 DEF Tiempos
  <2>3. Unicos' /\ Acabadas' = Acabadas
    BY <1>1, <2>1, <2>2 DEF Unicos, Acabadas
  <2>4. \A m \in Node : \A r \in DOMAIN mapa_stock'[m] :
          mapa_stock'[m][r] \in 0..Tope(s, q)
    BY <1>1, <1>3, <2>1, PoneMedido
  <2> QED
    BY <1>7, <1>8, <2>3, <2>4
<1> QED
  BY <1>9, <1>10, <1>11, <1>12, <1>13, <1>14 DEF T!Next

(* At start every stock is what it was set to, and nothing has been sold.  *)
LEMMA MedidoInit ==
  ASSUME NEW s, NEW q, Holgura(s, q)
  PROVE  Init => Medido(s, q)
<1> SUFFICES ASSUME Init PROVE Medido(s, q)
  OBVIOUS
<1>1. /\ mapa_stock = [n \in Node |-> [p \in Producto |-> StockInicial]]
      /\ Acordadas = {}
  BY InitT DEF T!Init
<1>2. FS!Cardinality(Acabadas) = 0
  BY <1>1, FS!FS_EmptySet DEF Acabadas
<1>3. StockInicial \in 0..s /\ s \in Nat /\ q \in Nat /\ q * 0 = 0
  BY LogicAssumption DEF Holgura
<1> QED
  BY <1>1, <1>2, <1>3 DEF Medido

LEMMA StockNext ==
  ASSUME NEW s, NEW q, Holgura(s, q)
  PROVE  Sabido(s, q) /\ [T!Next]_T!vars => Unicos' /\ Medido(s, q)'
<1> SUFFICES ASSUME Sabido(s, q), UNCHANGED T!vars
             PROVE  Unicos' /\ Medido(s, q)'
  BY MedidoPaso
<1>1. UNCHANGED <<mapa_stock, Acordadas, Tratos, EnCamino>>
  BY DEF T!vars
<1>2. Tiempos' = Tiempos
  BY <1>1 DEF Tiempos
<1>3. Acabadas' = Acabadas
  BY <1>1, <1>2 DEF Acabadas
<1> QED
  BY <1>1, <1>2, <1>3 DEF Sabido, Unicos, Medido

LEMMA SiempreSabido ==
  ASSUME NEW s, NEW q, Holgura(s, q)
  PROVE  Spec => []Sabido(s, q)
<1> DEFINE C == Cantidades(q)
           M == Medido(s, q)
           J == Sabido(s, q)
<1>1. J <=> Inv /\ Negocios /\ Contados /\ C /\ Unicos /\ M
  BY DEF Sabido
<1>2. Init => C /\ M /\ Contados /\ Unicos
  BY CantidadesInit, MedidoInit, ContadosInit, UnicosInit
<1>3. Inv /\ C /\ [Next]_vars => C'
  BY CantidadesNext DEF Holgura
<1>4. J /\ [T!Next]_T!vars => Unicos' /\ M'
  BY StockNext
<1> HIDE DEF C, M, J
<1>5. Spec => []Saben
  BY SabenInit, SabenNext, InvSiempre, PTL DEF Spec
<1>6. Spec => []Negocios
  BY <1>5, NegociosInit, NegociosNext, InvSiempre, PTL DEF Spec
<1>7. Spec => []Presencia
  BY <1>6, PresenciaLemma, InvSiempre, PTL
<1>8. Spec => []DeUsuario
  BY DeUsuarioInit, DeUsuarioNext, InvSiempre, PTL DEF Spec
<1>9. Inv /\ Saben /\ Negocios /\ Presencia => Firme
  BY DEF Firme
<1>10. Spec => []Contados
  BY <1>2, ContadosNext, InvSiempre, PTL DEF Spec
<1>11. Spec => []C
  BY <1>2, <1>3, InvSiempre, PTL DEF Spec
<1>12. Spec => [](Unicos /\ M)
  BY <1>1, <1>2, <1>4, <1>5, <1>6, <1>7, <1>8, <1>9, <1>10, <1>11,
     NextT, InvSiempre, PTL DEF Spec
<1>13. Spec => []J
  BY <1>1, <1>6, <1>10, <1>11, <1>12, InvSiempre, PTL
<1> QED
  BY <1>13 DEF J

(* SiempreNadieRegala: whatever sellers answer and whatever is lost, no    *)
(* node ever owes units: decrement_stock of on_receive_buy, long after the *)
(* get_stock that answered the LOOKUP, never leaves a negative stock, and  *)
(* no increment_stock wraps round to one.                                  *)
THEOREM SiempreNadieRegala ==
  ASSUME NEW s, NEW q, Holgura(s, q)
  PROVE  Spec => []NadieRegala
<1>1. Sabido(s, q) => NadieRegala
  <2>1. ASSUME Sabido(s, q) PROVE Tope(s, q) \in Nat
    BY <2>1, TopeCabe DEF Holgura
  <2>2. ASSUME Sabido(s, q), NEW n \in Node, NEW p \in DOMAIN mapa_stock[n]
        PROVE  mapa_stock[n][p] \in 0..Tope(s, q)
    BY <2>2 DEF Sabido, Medido, Tope
  <2> QED
    BY <2>1, <2>2 DEF NadieRegala
<1> DEFINE J == Sabido(s, q)
<1>2. Spec => []J
  BY SiempreSabido
<1> HIDE DEF J
<1>3. J => NadieRegala
  BY <1>1 DEF J
<1> QED
  BY <1>2, <1>3, PTL

(* SiempreCreditoCabe: on_receive_buy_reply_ok, on whichever node, adds to *)
(* a stock that has room for what it adds: the room is that of the orders  *)
(* given, because no purchase is credited a second time.                   *)
THEOREM SiempreCreditoCabe ==
  ASSUME NEW s, NEW q, Holgura(s, q)
  PROVE  Spec => []CreditoCabe
<1>1. ASSUME Sabido(s, q), NEW x \in Abono, NEW n \in Node,
             x.ev.tag.producto \in DOMAIN mapa_stock[n]
      PROVE  mapa_stock[n][x.ev.tag.producto] + x.ev.tag.cantidad <= MaxInt
  <2> DEFINE u == Ficha(x.ev.tag)
  <2>1. u \in EnCamino /\ u.cantidad = x.ev.tag.cantidad
    BY DEF EnCamino, Ficha
  <2> HIDE DEF u
  <2>2. x.ev.tag.cantidad \in 0..q
    BY <1>1, <2>1, FichasCaben DEF Sabido
  <2>3. Tope(s, q) \in s..MaxInt /\ Tope(s, q) + q <= MaxInt
    BY <1>1, <2>1, TopeCabe
  <2>4. mapa_stock[n][x.ev.tag.producto] \in 0..Tope(s, q)
    BY <1>1 DEF Sabido, Medido, Tope
  <2> QED
    BY <2>2, <2>3, <2>4, LogicAssumption DEF Holgura
<1>2. Sabido(s, q) => CreditoCabe
  BY <1>1 DEF CreditoCabe
<1> DEFINE J == Sabido(s, q)
<1>3. Spec => []J
  BY SiempreSabido
<1> HIDE DEF J
<1>4. J => CreditoCabe
  BY <1>2 DEF J
<1> QED
  BY <1>3, <1>4, PTL
=============================================================================
