------------------------------- MODULE Logic -------------------------------
(***************************************************************************)
(* The Logic thread of every node (src/logic.cpp) with the Stock it keeps  *)
(* (src/stock.cpp).  Logic owns the queue logicEvents and reads it one     *)
(* event at a time (Runner::run); a handler may post an event to Logic     *)
(* itself or to the Router, whose queue is routerEvents.  Each handler is  *)
(* one action: nothing but Logic's own thread reads or writes Stock and    *)
(* mapaPedidos, and a post to a queue is one atomic step of it.            *)
(*                                                                         *)
(* An event is a record: id, and the fields its tag stands for.  INIT and  *)
(* KB_SHOW_STOCK, whose handlers only write to the log, are left out.      *)
(***************************************************************************)
EXTENDS Mensajes

CONSTANTS
  MaxInt,       \* the greatest int
  StockInicial, \* units of each product at start
  Config        \* Config[n]: producto_compra and producto_venta of node n

ASSUME LogicAssumption ==
  /\ MaxInt \in Nat
  /\ StockInicial \in Nat
  /\ Config \in [Node -> [compra : Nombre, venta : Nombre]]

VARIABLES
  logicEvents,  \* logicEvents[n]: the events Logic of node n has not handled
  routerEvents, \* routerEvents[n]: the events posted to the Router of n
  mapa_stock,   \* mapa_stock[n][p]: units of p that n has
  compro,       \* compro[n]: the product n looks for
  vendo,        \* vendo[n]: the product n offers
  mapaPedidos,  \* mapaPedidos[n][ts]: state of the purchase n began at ts
  reloj         \* the time of day, which a new LOOKUP takes as its ts

logicVars == <<logicEvents, routerEvents, mapa_stock, compro, vendo,
               mapaPedidos, reloj>>

MensajeId == {"DO_LOOKUP_FORWARD", "DO_REPLY", "DO_REPLY_FORWARD", "DO_BUY",
              "DO_BUY_REPLY_OK", "DO_BUY_REPLY_ERR", "CLIENT_MSG"}

LogicEvent ==
  [id : MensajeId, tag : Mensaje]
    \cup [id : {"DO_LOOKUP"}, cantidad : Int]
    \cup [id : {"SET_STOCK"}, producto : Producto, cantidad : Int]
    \cup [id : {"SET_CUR_PROD_COMPRA", "SET_CUR_PROD_VENTA"},
          producto : Producto]

RouterId == {"RT_FIRST_BROADCAST", "RT_BROADCAST", "RT_SEND_TO_SOCKET",
             "RT_SEND_TO_P2P_SOCKET", "RT_START_P2P_CONNECT",
             "RT_CLOSE_P2P_CONNECT"}

RouterEvent == [id : RouterId, tag : Mensaje]

EstadoPedido == {"LOOKUP_ENVIADO", "REPLY_RECIBIDO"}

-----------------------------------------------------------------------------
(* int arithmetic: a sum beyond MaxInt wraps around.                       *)
Entero(x) == ((x + MaxInt + 1) % (2 * MaxInt + 2)) - MaxInt - 1

(* f[k] = v of a std::map, which adds the key that is missing.             *)
Pon(f, k, v) == [x \in DOMAIN f \cup {k} |-> IF x = k THEN v ELSE f[x]]

(* Stock::get_stock: -1 for a name outside the stock map.                  *)
get_stock(n, p) == IF p \in DOMAIN mapa_stock[n] THEN mapa_stock[n][p] ELSE -1

set_stock(n, p, c) == mapa_stock' = [mapa_stock EXCEPT ![n] = Pon(@, p, c)]

(* mapaPedidos[ts]: an entry that is missing is created with value 0.      *)
estadoPedido(n, ts) ==
  IF ts \in DOMAIN mapaPedidos[n] THEN mapaPedidos[n][ts]
                                  ELSE "LOOKUP_ENVIADO"

setEstadoPedido(n, ts, estado) ==
  mapaPedidos' = [mapaPedidos EXCEPT ![n] = Pon(@, ts, estado)]

(* The event at the front of the queue of n is handled; the handler may    *)
(* post one event to Logic itself, and one to the Router.                  *)
Atiende(n, id) == logicEvents[n] # <<>> /\ Head(logicEvents[n]).id = id

Hecho(n) == logicEvents' = [logicEvents EXCEPT ![n] = Tail(@)]

HechoYPostea(n, id, m) ==
  logicEvents' = [logicEvents EXCEPT ![n] =
                    Append(Tail(@), [id |-> id, tag |-> m])]

PosteaRouter(n, id, m) ==
  routerEvents' = [routerEvents EXCEPT ![n] =
                     Append(@, [id |-> id, tag |-> m])]

-----------------------------------------------------------------------------
(* What the keyboard orders.                                               *)

set_stock_product(n) ==
  /\ Atiende(n, "SET_STOCK")
  /\ LET ev == Head(logicEvents[n])
     IN  set_stock(n, ev.producto, ev.cantidad)
  /\ Hecho(n)
  /\ UNCHANGED <<routerEvents, compro, vendo, mapaPedidos, reloj>>

set_cur_prod_compra(n) ==
  /\ Atiende(n, "SET_CUR_PROD_COMPRA")
  /\ compro' = [compro EXCEPT ![n] = Head(logicEvents[n]).producto]
  /\ Hecho(n)
  /\ UNCHANGED <<routerEvents, mapa_stock, vendo, mapaPedidos, reloj>>

set_cur_prod_venta(n) ==
  /\ Atiende(n, "SET_CUR_PROD_VENTA")
  /\ vendo' = [vendo EXCEPT ![n] = Head(logicEvents[n]).producto]
  /\ Hecho(n)
  /\ UNCHANGED <<routerEvents, mapa_stock, compro, mapaPedidos, reloj>>

(* Fault: the purchase is not written down before its LOOKUP goes out.     *)
on_send_look_up_sin_pedido(n) ==
  /\ Atiende(n, "DO_LOOKUP")
  /\ LET m == build_look_up_msg(compro[n], Head(logicEvents[n]).cantidad, reloj)
     IN  PosteaRouter(n, "RT_FIRST_BROADCAST", add_nodo(m, n))
  /\ reloj' = reloj + 1
  /\ Hecho(n)
  /\ UNCHANGED <<mapa_stock, compro, vendo, mapaPedidos>>

on_send_look_up(n) ==
  /\ Atiende(n, "DO_LOOKUP")
  /\ LET m == build_look_up_msg(compro[n], Head(logicEvents[n]).cantidad, reloj)
     IN  PosteaRouter(n, "RT_FIRST_BROADCAST", add_nodo(m, n))
  /\ setEstadoPedido(n, reloj, "LOOKUP_ENVIADO")
  /\ reloj' = reloj + 1
  /\ Hecho(n)
  /\ UNCHANGED <<mapa_stock, compro, vendo>>

-----------------------------------------------------------------------------
(* Second half of the handling of a message: what on_receive_* decided.    *)

(* Fault: a LOOKUP is passed on as it came, with its hops and its list.    *)
on_send_look_up_forward_intacto(n) ==
  /\ Atiende(n, "DO_LOOKUP_FORWARD")
  /\ LET m == Head(logicEvents[n]).tag
     IN  IF m.hopcount > 0 THEN PosteaRouter(n, "RT_BROADCAST", m)
                           ELSE UNCHANGED routerEvents
  /\ Hecho(n)
  /\ UNCHANGED <<mapa_stock, compro, vendo, mapaPedidos, reloj>>

(* Fault: one hop too many.                                                *)
on_send_look_up_forward_un_salto_mas(n) ==
  /\ Atiende(n, "DO_LOOKUP_FORWARD")
  /\ LET m == Head(logicEvents[n]).tag
     IN  IF m.hopcount >= 0
         THEN PosteaRouter(n, "RT_BROADCAST", add_nodo(less_hopcount(m), n))
         ELSE UNCHANGED routerEvents
  /\ Hecho(n)
  /\ UNCHANGED <<mapa_stock, compro, vendo, mapaPedidos, reloj>>

on_send_look_up_forward(n) ==
  /\ Atiende(n, "DO_LOOKUP_FORWARD")
  /\ LET m == Head(logicEvents[n]).tag
     IN  IF m.hopcount > 0
         THEN PosteaRouter(n, "RT_BROADCAST", add_nodo(less_hopcount(m), n))
         ELSE UNCHANGED routerEvents
  /\ Hecho(n)
  /\ UNCHANGED <<mapa_stock, compro, vendo, mapaPedidos, reloj>>

on_send_replay(n) ==
  /\ Atiende(n, "DO_REPLY")
  /\ PosteaRouter(n, "RT_SEND_TO_SOCKET",
                  build_reply_msg(Head(logicEvents[n]).tag, n))
  /\ Hecho(n)
  /\ UNCHANGED <<mapa_stock, compro, vendo, mapaPedidos, reloj>>

on_send_replay_forward(n) ==
  /\ Atiende(n, "DO_REPLY_FORWARD")
  /\ PosteaRouter(n, "RT_SEND_TO_SOCKET", less_nodo(Head(logicEvents[n]).tag))
  /\ Hecho(n)
  /\ UNCHANGED <<mapa_stock, compro, vendo, mapaPedidos, reloj>>

on_send_buy(n) ==
  /\ Atiende(n, "DO_BUY")
  /\ PosteaRouter(n, "RT_START_P2P_CONNECT",
                  build_buy_msg(Head(logicEvents[n]).tag))
  /\ Hecho(n)
  /\ UNCHANGED <<mapa_stock, compro, vendo, mapaPedidos, reloj>>

on_send_buy_reply_ok(n) ==
  /\ Atiende(n, "DO_BUY_REPLY_OK")
  /\ PosteaRouter(n, "RT_SEND_TO_P2P_SOCKET",
                  build_buy_reply_ok_msg(Head(logicEvents[n]).tag))
  /\ Hecho(n)
  /\ UNCHANGED <<mapa_stock, compro, vendo, mapaPedidos, reloj>>

(* Fault: the other builder.                                               *)
on_send_buy_reply_err_con_ok(n) ==
  /\ Atiende(n, "DO_BUY_REPLY_ERR")
  /\ PosteaRouter(n, "RT_SEND_TO_P2P_SOCKET",
                  build_buy_reply_ok_msg(Head(logicEvents[n]).tag))
  /\ Hecho(n)
  /\ UNCHANGED <<mapa_stock, compro, vendo, mapaPedidos, reloj>>

on_send_buy_reply_err(n) ==
  /\ Atiende(n, "DO_BUY_REPLY_ERR")
  /\ PosteaRouter(n, "RT_SEND_TO_P2P_SOCKET",
                  build_buy_reply_err_msg(Head(logicEvents[n]).tag))
  /\ Hecho(n)
  /\ UNCHANGED <<mapa_stock, compro, vendo, mapaPedidos, reloj>>

-----------------------------------------------------------------------------
(* First half: a message has come in (CLIENT_MSG).  The five handlers of   *)
(* on_client_msg, given the message m that Load read.                      *)

(* Fault: the last units are not offered.                                  *)
on_receive_look_up_estricto(n, m) ==
  /\ HechoYPostea(n, IF m.producto = vendo[n] /\ get_stock(n, m.producto) > m.cantidad
                     THEN "DO_REPLY" ELSE "DO_LOOKUP_FORWARD", m)
  /\ UNCHANGED <<routerEvents, mapa_stock, mapaPedidos>>

on_receive_look_up(n, m) ==
  /\ HechoYPostea(n, IF m.producto = vendo[n] /\ get_stock(n, m.producto) >= m.cantidad
                     THEN "DO_REPLY" ELSE "DO_LOOKUP_FORWARD", m)
  /\ UNCHANGED <<routerEvents, mapa_stock, mapaPedidos>>

(* Fault: every REPLY begins a negotiation.                                *)
on_receive_replay_siempre_negocia(n, m) ==
  /\ IF Len(m.nodos) > 1
     THEN HechoYPostea(n, "DO_REPLY_FORWARD", m) /\ UNCHANGED mapaPedidos
     ELSE /\ setEstadoPedido(n, m.ts, "REPLY_RECIBIDO")
          /\ HechoYPostea(n, "DO_BUY", m)
  /\ UNCHANGED <<routerEvents, mapa_stock>>

on_receive_replay(n, m) ==
  /\ \/ /\ Len(m.nodos) > 1
        /\ HechoYPostea(n, "DO_REPLY_FORWARD", m)
        /\ UNCHANGED mapaPedidos
     \/ /\ Len(m.nodos) <= 1
        /\ get_next_node_name(m) = n
        /\ estadoPedido(n, m.ts) # "REPLY_RECIBIDO"
        /\ setEstadoPedido(n, m.ts, "REPLY_RECIBIDO")
        /\ HechoYPostea(n, "DO_BUY", m)
     \/ /\ Len(m.nodos) <= 1
        /\ \/ get_next_node_name(m) # n
           \/ estadoPedido(n, m.ts) = "REPLY_RECIBIDO"
        /\ Hecho(n)
        /\ UNCHANGED mapaPedidos
  /\ UNCHANGED <<routerEvents, mapa_stock>>

(* Fault: the units are taken twice.                                       *)
decrement_stock_doble(n, p, c) ==
  \/ /\ p \in DOMAIN mapa_stock[n] /\ mapa_stock[n][p] >= c
     /\ set_stock(n, p, Entero(mapa_stock[n][p] - 2 * c))
  \/ /\ p \in DOMAIN mapa_stock[n] /\ mapa_stock[n][p] < c
     /\ UNCHANGED mapa_stock
  \/ p \notin DOMAIN mapa_stock[n] /\ set_stock(n, p, 0)

(* Stock::decrement_stock of a name outside the map fails, but the text of *)
(* its warning reads mapa_stock[p] and so leaves an entry of 0 units.      *)
decrement_stock(n, p, c) ==
  \/ /\ p \in DOMAIN mapa_stock[n] /\ mapa_stock[n][p] >= c
     /\ set_stock(n, p, Entero(mapa_stock[n][p] - c))
  \/ /\ p \in DOMAIN mapa_stock[n] /\ mapa_stock[n][p] < c
     /\ UNCHANGED mapa_stock
  \/ p \notin DOMAIN mapa_stock[n] /\ set_stock(n, p, 0)

(* Fault: the units are added twice.                                       *)
increment_stock_doble(n, p, c) ==
  IF p \in DOMAIN mapa_stock[n]
  THEN set_stock(n, p, Entero(mapa_stock[n][p] + 2 * c))
  ELSE UNCHANGED mapa_stock

increment_stock(n, p, c) ==
  IF p \in DOMAIN mapa_stock[n]
  THEN set_stock(n, p, Entero(mapa_stock[n][p] + c))
  ELSE UNCHANGED mapa_stock

(* The answer is OK if decrement_stock took the units.                     *)
on_receive_buy(n, m) ==
  /\ \/ /\ get_stock(n, m.producto) >= m.cantidad
        /\ decrement_stock(n, m.producto, m.cantidad)
        /\ HechoYPostea(n, IF m.producto \in DOMAIN mapa_stock[n]
                           THEN "DO_BUY_REPLY_OK" ELSE "DO_BUY_REPLY_ERR", m)
     \/ /\ get_stock(n, m.producto) < m.cantidad
        /\ HechoYPostea(n, "DO_BUY_REPLY_ERR", m)
        /\ UNCHANGED mapa_stock
  /\ UNCHANGED <<routerEvents, mapaPedidos>>

on_receive_buy_reply_ok(n, m) ==
  /\ increment_stock(n, m.producto, m.cantidad)
  /\ PosteaRouter(n, "RT_CLOSE_P2P_CONNECT", m)
  /\ Hecho(n)
  /\ UNCHANGED mapaPedidos

on_receive_buy_reply_err(n, m) ==
  /\ PosteaRouter(n, "RT_CLOSE_P2P_CONNECT", m)
  /\ Hecho(n)
  /\ UNCHANGED <<mapa_stock, mapaPedidos>>

on_client_msg(n) ==
  /\ Atiende(n, "CLIENT_MSG")
  /\ \E m \in Load(Head(logicEvents[n]).tag) :
       \/ m.code = "LOOKUP"  /\ on_receive_look_up(n, m)
       \/ m.code = "REPLY"   /\ on_receive_replay(n, m)
       \/ m.code = "BUY"     /\ on_receive_buy(n, m)
       \/ m.code = "BUY_OK"  /\ on_receive_buy_reply_ok(n, m)
       \/ m.code = "BUY_ERR" /\ on_receive_buy_reply_err(n, m)
  /\ UNCHANGED <<compro, vendo, reloj>>

-----------------------------------------------------------------------------
LogicInit ==
  /\ logicEvents = [n \in Node |-> <<>>]
  /\ routerEvents = [n \in Node |-> <<>>]
  /\ mapa_stock = [n \in Node |-> [p \in Producto |-> StockInicial]]
  /\ compro = [n \in Node |-> Config[n].compra]
  /\ vendo = [n \in Node |-> Config[n].venta]
  /\ mapaPedidos = [n \in Node |-> <<>>]
  /\ reloj = 0

LogicStep(n) ==
  \/ set_stock_product(n)
  \/ set_cur_prod_compra(n)
  \/ set_cur_prod_venta(n)
  \/ on_send_look_up(n)
  \/ on_send_look_up_forward(n)
  \/ on_send_replay(n)
  \/ on_send_replay_forward(n)
  \/ on_send_buy(n)
  \/ on_send_buy_reply_ok(n)
  \/ on_send_buy_reply_err(n)
  \/ on_client_msg(n)
=============================================================================
