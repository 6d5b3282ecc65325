----------------------------- MODULE Conexiones -----------------------------
(***************************************************************************)
(* The connections of the bazaar: the Router (src/router.cpp) and the      *)
(* Listener (src/listener.cpp) of every node, on the sockets of module     *)
(* Sockets, with the Logic threads of module Logic behind them.            *)
(*                                                                         *)
(* A step of a thread goes from one point where it may block, or let the   *)
(* others in, to the next: Router blocks in try_connection for the name of *)
(* the other node, and sleeps before it sends its own over a direct        *)
(* connection; Listener blocks in recv for the names, and handles what     *)
(* select found one descriptor at a time.  Where a thread writes the flag  *)
(* en_operacion, a socket and the queue of the other thread one after the  *)
(* other, each is a step: nothing keeps the other from coming in between.  *)
(* The event a thread is at stays at the front of its queue until it is    *)
(* done with it, as in Runner::run.                                        *)
(*                                                                         *)
(* A node may end at any time (option 8 of the menu, Ctrl+C, a signal the  *)
(* code raises or does not expect) and be started again.  INIT of Logic,   *)
(* and KB_SHOW_STOCK, are left out, and the Keyboard appears through the   *)
(* events it posts.  Vecino[n][k] is Nadie where the neighbour is a node   *)
(* that is never started.                                                  *)
(***************************************************************************)
EXTENDS Logic, Sockets

CONSTANTS
  Vecino,       \* Vecino[n]: vecino1 and vecino2 of n in the configuration
  Intentos,     \* intentos_reconexion of the configuration file
  MAX_CONNECTED,
  Espera,       \* whether the sleep of try_connection is long enough for
                \* the other Listener to read P2P_CONNECT
  Pedible,      \* the quantities the users ask for
  MaxPedidos,   \* bound: the purchases that all the users begin together
  Escenas       \* where a behaviour may begin, and its bounds

(* A scene: the connections made so far, a sequence of <<n, k>>, by n with *)
(* its neighbour k, both of which run; the nodes that are not running yet; *)
(* and the bounds: the purchases that the user of each node begins, the    *)
(* times option 6 is chosen, the nodes that are ended from outside, and    *)
(* the times each node is started.                                         *)
EsEscena(e) ==
  /\ e.enlaces \in Seq(Node \X (1..2))
  /\ e.frios \subseteq Node
  /\ \A i \in DOMAIN e.enlaces :
       LET l == e.enlaces[i]
       IN  {l[1], Vecino[l[1]][l[2]]} \subseteq Node \ e.frios
  /\ e.pedidos \in [Node -> Nat] /\ e.arranques \in [Node -> Nat]
  /\ e.reconexiones \in Nat /\ e.salidas \in Nat

ASSUME ConexionesAssumption ==
  /\ Vecino \in [Node -> [1..2 -> Node \cup {Nadie}]]
  /\ Intentos \in Nat /\ MAX_CONNECTED \in Nat
  /\ Espera \in BOOLEAN
  /\ Pedible \subseteq Int /\ MaxPedidos \in Nat
  /\ \A e \in Escenas : EsEscena(e)

VARIABLES
  router,       \* router[n]: the attributes of Router, and where it is
  listener,     \* listener[n]: the attributes of Listener, and where it is
  en_operacion, \* en_operacion[n]: the global flag of main.cpp
  tcp,          \* the sockets of all the nodes, as in module Sockets
  vivo,         \* vivo[n]: whether the process of n runs
  cuenta        \* the scene, and what has been spent of its bounds

logicPropio == <<mapa_stock, compro, vendo, mapaPedidos, reloj>>
vars == <<logicVars, router, listener, en_operacion, tcp, vivo, cuenta>>

RouterNuevo ==
  [vecino |-> <<SOCK_ERRONEO, SOCK_ERRONEO>>, p2p |-> SOCK_ERRONEO,
   cliente |-> <<>>, servidor |-> <<>>, intentos |-> Intentos,
   show_menu |-> FALSE, menus |-> 0,   \* KB_SHOW_MENU events posted
   paso |-> "libre", k |-> 1, fd |-> SOCK_ERRONEO]

ListenerNuevo ==
  [events |-> <<>>, master |-> {}, servSock |-> SOCK_ERRONEO, listos |-> {},
   p2p |-> SOCK_ERRONEO, cant |-> 0, ip |-> {},
   paso |-> "libre", newfd |-> SOCK_ERRONEO]

(* Where the Router and the Listener of a node may be.                     *)
PasoRouter == {"libre", "vecino", "nombre", "p2p", "p2p_nombre", "p2p_opera",
               "p2p_buy", "p2p_cierra", "p2p_fin"}
PasoListener == {"libre", "mirando", "nombre", "p2p_opera", "p2p_nombre",
                 "cierre_p2p", "cierre_fin"}

-----------------------------------------------------------------------------
(* The process of n ends, with the sockets in state k.                     *)
Muere(n, k) ==
  /\ vivo' = [vivo EXCEPT ![n] = FALSE]
  /\ tcp' = CierraTodo(k, n)
  /\ router' = [router EXCEPT ![n] = RouterNuevo]
  /\ listener' = [listener EXCEPT ![n] = ListenerNuevo]
  /\ en_operacion' = [en_operacion EXCEPT ![n] = FALSE]
  /\ logicEvents' = [logicEvents EXCEPT ![n] = <<>>]
  /\ routerEvents' = [routerEvents EXCEPT ![n] = <<>>]
  /\ mapa_stock' = [mapa_stock EXCEPT ![n] = [p \in Producto |-> StockInicial]]
  /\ compro' = [compro EXCEPT ![n] = Config[n].compra]
  /\ vendo' = [vendo EXCEPT ![n] = Config[n].venta]
  /\ mapaPedidos' = [mapaPedidos EXCEPT ![n] = <<>>]
  /\ UNCHANGED reloj

(* The process of n starts: every thread finds INIT in its queue.          *)
Arranca(n) ==
  /\ ~vivo[n]
  /\ cuenta.arranques[n] < cuenta.escena.arranques[n]
  /\ cuenta' = [cuenta EXCEPT !.arranques[n] = @ + 1]
  /\ vivo' = [vivo EXCEPT ![n] = TRUE]
  /\ routerEvents' = [routerEvents EXCEPT ![n] = <<[id |-> "INIT"]>>]
  /\ listener' = [listener EXCEPT ![n].events = <<[id |-> "INIT"]>>]
  /\ UNCHANGED <<logicEvents, logicPropio, router, en_operacion, tcp>>

-----------------------------------------------------------------------------
(* The Router.                                                             *)

EventoRouter(n, id) == routerEvents[n] # <<>> /\ Head(routerEvents[n]).id = id

AtiendeRouter(n, id) == EventoRouter(n, id) /\ router[n].paso = "libre"

Evento(n) == Head(routerEvents[n])

(* The Router is done with its event, having posted the events evs.        *)
FinRouter(n, evs) ==
  routerEvents' = [routerEvents EXCEPT ![n] = Tail(@) \o evs]

PosteaListener(n, id, fd) ==
  listener' = [listener EXCEPT ![n].events = Append(@, [id |-> id, fd |-> fd])]

(* What comes of sending: the sockets k, and whether n has survived it.    *)
SinEnvios == [k |-> tcp, vive |-> TRUE]

(* The datum d sent to the socket fd, after the sends that led to r.       *)
Envio(r, n, fd, d) ==
  IF ~r.vive THEN r
  ELSE IF EnvioMata(r.k, n, fd) THEN [r EXCEPT !.vive = FALSE]
  ELSE [r EXCEPT !.k = Envia(r.k, n, fd, d)]

(* An event that only makes the sends that lead to r.                      *)
EnviaYListo(n, r, nuevo) ==
  \/ /\ r.vive
     /\ tcp' = r.k
     /\ router' = [router EXCEPT ![n] = nuevo]
     /\ FinRouter(n, <<>>)
     /\ UNCHANGED <<logicEvents, logicPropio, listener, en_operacion,
                    vivo, cuenta>>
  \/ ~r.vive /\ Muere(n, r.k) /\ UNCHANGED cuenta

(* A LOOKUP is sent to the neighbours of S that have a socket; a socket    *)
(* that fails becomes SOCK_ERRONEO.                                        *)
Difunde(n, S) ==
  LET v == router[n].vecino
      a(r, k) == Envio(r, n, IF k \in S THEN v[k] ELSE SOCK_ERRONEO,
                       Carta(Evento(n).tag))
  IN  EnviaYListo(n, a(a(SinEnvios, 1), 2),
                  [router[n] EXCEPT !.vecino =
                     [k \in 1..2 |-> IF k \in S /\ EnvioFalla(tcp, n, v[k])
                                     THEN SOCK_ERRONEO ELSE v[k]]])

send_first_broadcast_message(n) ==
  /\ AtiendeRouter(n, "RT_FIRST_BROADCAST")
  /\ Difunde(n, {1, 2})

(* find_in_*_sockets_nodo_nombre: the last name, in the order of the map,  *)
(* that has the socket, if there is one.  The names are in no order here:  *)
(* CHOOSE stands for theirs.                                               *)
Nombres(mapa, fd) == {x \in DOMAIN mapa : mapa[x] = fd}
NombreDe(mapa, fd) ==
  {x \in Nombres(mapa, fd) : x = CHOOSE y \in Nombres(mapa, fd) : TRUE}

send_broadcast_message(n) ==
  /\ AtiendeRouter(n, "RT_BROADCAST")
  /\ Difunde(n, {k \in 1..2 :
                   get_creator_node_name(Evento(n).tag)
                     \notin NombreDe(router[n].cliente, router[n].vecino[k])})

(* nodo_socket_servidor_map[x] of a name that is not in it adds it, as 0.  *)
send_to_next_node_message(n) ==
  /\ AtiendeRouter(n, "RT_SEND_TO_SOCKET")
  /\ LET x == get_next_node_name(Evento(n).tag)
         mapa == router[n].servidor
         fd == IF x \in DOMAIN mapa THEN mapa[x] ELSE 0
     IN  EnviaYListo(n, Envio(SinEnvios, n, fd, Carta(Evento(n).tag)),
                     [router[n] EXCEPT !.servidor = Pon(@, x, fd)])

(* Fault: the answer is sent to the first neighbour.                       *)
send_to_p2p_socket_message_a_vecino(n) ==
  /\ AtiendeRouter(n, "RT_SEND_TO_P2P_SOCKET")
  /\ EnviaYListo(n, Envio(SinEnvios, n, router[n].vecino[1], Carta(Evento(n).tag)),
                 router[n])

send_to_p2p_socket_message(n) ==
  /\ AtiendeRouter(n, "RT_SEND_TO_P2P_SOCKET")
  /\ EnviaYListo(n, Envio(SinEnvios, n, router[n].p2p, Carta(Evento(n).tag)),
                 router[n])

-----------------------------------------------------------------------------
(* start_connections, and try_connection with a neighbour.                 *)

PasoVecino(n) ==
  \/ AtiendeRouter(n, "INIT")
  \/ router[n].paso = "vecino"

(* Neighbour k is done with: its socket is fd.                             *)
SiguienteVecino(r, fd) ==
  [r EXCEPT !.paso = "vecino", !.k = @ + 1, !.fd = SOCK_ERRONEO,
            !.vecino[r.k] = fd]

vecino_conectado(n) ==
  /\ PasoVecino(n)
  /\ router[n].k <= 2
  /\ LET fd == router[n].vecino[router[n].k]
     IN  /\ fd # SOCK_ERRONEO
         /\ router' = [router EXCEPT ![n] = SiguienteVecino(@, fd)]
  /\ UNCHANGED <<logicVars, listener, en_operacion, tcp, vivo, cuenta>>

(* The connection is made and the name of n sent, or nobody listens.       *)
try_connection(n) ==
  /\ PasoVecino(n)
  /\ router[n].k <= 2
  /\ router[n].vecino[router[n].k] = SOCK_ERRONEO
  /\ LET m == Vecino[n][router[n].k]
         fd == Libre(tcp, n)
     IN  \/ /\ EnServicio(tcp, m)
            /\ tcp' = Envia(Conecta(tcp, n, m), n, fd, SuNombre(n))
            /\ router' = [router EXCEPT ![n].paso = "nombre", ![n].fd = fd]
         \/ /\ ~EnServicio(tcp, m)
            /\ router' = [router EXCEPT ![n] = SiguienteVecino(@, SOCK_ERRONEO)]
            /\ UNCHANGED tcp
  /\ UNCHANGED <<logicVars, listener, en_operacion, vivo, cuenta>>

(* Whatever comes is taken for the name; at the end of the data, the empty *)
(* name.                                                                   *)
NombreLeido(n, fd) ==
  IF ~RecvDato(tcp, n, fd) THEN Nadie
  ELSE LET d == Recibido(tcp, n, fd)[1] IN IF d.que = "nombre" THEN d.nodo ELSE d

RecvVuelve(n, fd) == RecvDato(tcp, n, fd) \/ RecvFin(tcp, n, fd)

LeeSiHay(n, fd) == IF RecvDato(tcp, n, fd) THEN Descarta(tcp, n, fd) ELSE tcp

(* recv fails, and recibir_mensaje raises SIGTERM.                         *)
RecvMata(n, fd) ==
  /\ RecvError(tcp, n, fd)
  /\ Muere(n, tcp)
  /\ UNCHANGED cuenta

try_connection_nombre(n) ==
  LET fd == router[n].fd
  IN  /\ router[n].paso = "nombre"
      /\ \/ /\ RecvVuelve(n, fd)
            /\ tcp' = LeeSiHay(n, fd)
            /\ PosteaListener(n, "LS_ADD_SOCKET", fd)
            /\ routerEvents' = [routerEvents EXCEPT ![n] =
                 Append(@, [id |-> "RT_ADD_NODO_CLIENTE",
                            nodo |-> NombreLeido(n, fd), fd |-> fd])]
            /\ router' = [router EXCEPT ![n] = SiguienteVecino(@, fd)]
            /\ UNCHANGED <<logicEvents, logicPropio, en_operacion, vivo, cuenta>>
         \/ RecvMata(n, fd)

Incompletas(n) == SOCK_ERRONEO \in {router[n].vecino[1], router[n].vecino[2]}

(* Fault: the menu is shown whenever the connections are gone through.     *)
start_connections_otro_menu(n) ==
  /\ router[n].paso = "vecino" /\ router[n].k = 3
  /\ \/ /\ router[n].intentos > 0 /\ Incompletas(n)
        /\ router' = [router EXCEPT ![n].paso = "libre", ![n].k = 1,
                                    ![n].intentos = @ - 1]
        /\ FinRouter(n, <<[id |-> "INIT"]>>)
     \/ /\ ~(router[n].intentos > 0 /\ Incompletas(n))
        /\ router' = [router EXCEPT ![n].paso = "libre", ![n].k = 1,
                                    ![n].show_menu = TRUE,
                                    ![n].menus = @ + 1]
        /\ FinRouter(n, <<>>)
  /\ UNCHANGED <<logicEvents, logicPropio, listener, en_operacion, tcp, vivo,
                 cuenta>>

(* Fault: the attempts left are not looked at.                             *)
start_connections_sin_limite(n) ==
  /\ router[n].paso = "vecino" /\ router[n].k = 3
  /\ Incompletas(n)
  /\ router' = [router EXCEPT ![n].paso = "libre", ![n].k = 1,
                              ![n].intentos = @ - 1]
  /\ FinRouter(n, <<[id |-> "INIT"]>>)
  /\ UNCHANGED <<logicEvents, logicPropio, listener, en_operacion, tcp, vivo,
                 cuenta>>

(* After both neighbours: INIT again, or the menu if it has not been shown. *)
start_connections(n) ==
  /\ router[n].paso = "vecino" /\ router[n].k = 3
  /\ \/ /\ router[n].intentos > 0 /\ Incompletas(n)
        /\ router' = [router EXCEPT ![n].paso = "libre", ![n].k = 1,
                                    ![n].intentos = @ - 1]
        /\ FinRouter(n, <<[id |-> "INIT"]>>)
     \/ /\ ~(router[n].intentos > 0 /\ Incompletas(n))
        /\ router' = [router EXCEPT ![n].paso = "libre", ![n].k = 1,
                                    ![n].show_menu = TRUE,
                                    ![n].menus = IF router[n].show_menu THEN @
                                                 ELSE @ + 1]
        /\ FinRouter(n, <<>>)
  /\ UNCHANGED <<logicEvents, logicPropio, listener, en_operacion, tcp, vivo,
                 cuenta>>

-----------------------------------------------------------------------------
(* start_p2p_connect, and try_connection with the seller.                  *)

start_p2p_connect(n) ==
  /\ AtiendeRouter(n, "RT_START_P2P_CONNECT")
  /\ LET m == Evento(n).tag.vendedor
         fd == Libre(tcp, n)
     IN  \/ /\ EnServicio(tcp, m)
            /\ tcp' = Envia(Conecta(tcp, n, m), n, fd, P2P_CONNECT)
            /\ router' = [router EXCEPT ![n].paso = "p2p", ![n].fd = fd]
            /\ UNCHANGED routerEvents
         \/ /\ ~EnServicio(tcp, m)
            /\ router' = [router EXCEPT ![n].p2p = SOCK_ERRONEO]
            /\ FinRouter(n, <<>>)
            /\ UNCHANGED tcp
  /\ UNCHANGED <<logicEvents, logicPropio, listener, en_operacion, vivo, cuenta>>

(* After the sleep, the name of n: it is the second thing sent, and SIGPIPE *)
(* comes with the third at the earliest.                                   *)
SinLeer(n, fd) ==
  /\ Conectado(tcp, n, fd)
  /\ LET e == Punta(tcp, n, fd) IN tcp.con[e.con].buf[3 - e.lado] # <<>>

start_p2p_connect_nombre(n) ==
  /\ router[n].paso = "p2p"
  /\ Espera => ~SinLeer(n, router[n].fd)
  /\ tcp' = Envia(tcp, n, router[n].fd, SuNombre(n))
  /\ router' = [router EXCEPT ![n].paso = "p2p_nombre"]
  /\ UNCHANGED <<logicVars, listener, en_operacion, vivo, cuenta>>

(* The name of the seller comes: the node is in operation.                 *)
start_p2p_connect_opera(n) ==
  LET fd == router[n].fd
  IN  /\ router[n].paso = "p2p_nombre"
      /\ \/ /\ RecvVuelve(n, fd)
            /\ tcp' = LeeSiHay(n, fd)
            /\ router' = [router EXCEPT ![n].p2p = fd, ![n].paso = "p2p_opera"]
            /\ en_operacion' = [en_operacion EXCEPT ![n] = TRUE]
            /\ UNCHANGED <<logicVars, listener, vivo, cuenta>>
         \/ RecvMata(n, fd)

(* The Listener is told of the connection.                                 *)
start_p2p_connect_avisa(n) ==
  /\ router[n].paso = "p2p_opera"
  /\ PosteaListener(n, "LS_ADD_SOCKET_P2P", router[n].p2p)
  /\ router' = [router EXCEPT ![n].paso = "p2p_buy"]
  /\ UNCHANGED <<logicVars, en_operacion, tcp, vivo, cuenta>>

(* The BUY goes.                                                           *)
start_p2p_connect_buy(n) ==
  /\ router[n].paso = "p2p_buy"
  /\ EnviaYListo(n, Envio(SinEnvios, n, router[n].p2p, Carta(Evento(n).tag)),
                 [router[n] EXCEPT !.paso = "libre", !.fd = SOCK_ERRONEO])

(* The Listener is told to forget the direct connection.                   *)
close_p2p_connect_avisa(n) ==
  /\ AtiendeRouter(n, "RT_CLOSE_P2P_CONNECT")
  /\ PosteaListener(n, "LS_RM_SOCKET_P2P", router[n].p2p)
  /\ router' = [router EXCEPT ![n].paso = "p2p_cierra"]
  /\ UNCHANGED <<logicVars, en_operacion, tcp, vivo, cuenta>>

close_p2p_connect(n) ==
  /\ router[n].paso = "p2p_cierra"
  /\ tcp' = Cierra(tcp, n, router[n].p2p)
  /\ router' = [router EXCEPT ![n].p2p = SOCK_ERRONEO, ![n].paso = "p2p_fin"]
  /\ UNCHANGED <<logicVars, listener, en_operacion, vivo, cuenta>>

(* Fault: the node stays in operation.                                     *)
close_p2p_connect_fin_en_operacion(n) ==
  /\ router[n].paso = "p2p_fin"
  /\ router' = [router EXCEPT ![n].paso = "libre"]
  /\ FinRouter(n, <<>>)
  /\ UNCHANGED <<logicEvents, logicPropio, listener, en_operacion, tcp, vivo,
                 cuenta>>

close_p2p_connect_fin(n) ==
  /\ router[n].paso = "p2p_fin"
  /\ en_operacion' = [en_operacion EXCEPT ![n] = FALSE]
  /\ router' = [router EXCEPT ![n].paso = "libre"]
  /\ FinRouter(n, <<>>)
  /\ UNCHANGED <<logicEvents, logicPropio, listener, tcp, vivo, cuenta>>

-----------------------------------------------------------------------------
(* What the Listener and the Router itself have the Router remember.       *)

Recuerda(n, nuevo) ==
  /\ router' = [router EXCEPT ![n] = nuevo]
  /\ FinRouter(n, <<>>)
  /\ UNCHANGED <<logicEvents, logicPropio, listener, en_operacion, tcp, vivo,
                 cuenta>>

set_socket_p2p(n) ==
  /\ AtiendeRouter(n, "RT_SET_SOCKET_P2P")
  /\ Recuerda(n, [router[n] EXCEPT !.p2p = Evento(n).fd])

unset_socket_p2p(n) ==
  /\ AtiendeRouter(n, "RT_UNSET_SOCKET_P2P")
  /\ Recuerda(n, [router[n] EXCEPT !.p2p = SOCK_ERRONEO])

(* strtok finds no second field in what an empty name makes: atoi(NULL).   *)
add_nodo_servidor(n) ==
  /\ AtiendeRouter(n, "RT_ADD_NODO_SERVIDOR")
  /\ \/ /\ Evento(n).nodo # Nadie
        /\ Recuerda(n, [router[n] EXCEPT
             !.servidor = Pon(@, Evento(n).nodo, Evento(n).fd)])
     \/ Evento(n).nodo = Nadie /\ Muere(n, tcp) /\ UNCHANGED cuenta

add_nodo_cliente(n) ==
  /\ AtiendeRouter(n, "RT_ADD_NODO_CLIENTE")
  /\ \/ /\ Evento(n).nodo # Nadie
        /\ Recuerda(n, [router[n] EXCEPT
             !.cliente = Pon(@, Evento(n).nodo, Evento(n).fd)])
     \/ Evento(n).nodo = Nadie /\ Muere(n, tcp) /\ UNCHANGED cuenta

(* Fault: the name is looked for among the nodes that n connected to.      *)
rm_nodo_servidor_de_cliente(n) ==
  /\ AtiendeRouter(n, "RT_RM_NODO_SERVIDOR")
  /\ Recuerda(n, [router[n] EXCEPT
       !.servidor = Restrict(@, DOMAIN @ \ NombreDe(router[n].cliente, Evento(n).fd))])

(* One name goes, though two may have the socket: one of them of a node    *)
(* whose connection was reset (cierre).                                    *)
rm_nodo_servidor(n) ==
  /\ AtiendeRouter(n, "RT_RM_NODO_SERVIDOR")
  /\ Recuerda(n, [router[n] EXCEPT
       !.servidor = Restrict(@, DOMAIN @ \ NombreDe(@, Evento(n).fd))])

RouterStep(n) ==
  \/ send_first_broadcast_message(n)
  \/ send_broadcast_message(n)
  \/ send_to_next_node_message(n)
  \/ send_to_p2p_socket_message(n)
  \/ vecino_conectado(n)
  \/ try_connection(n)
  \/ try_connection_nombre(n)
  \/ start_connections(n)
  \/ start_p2p_connect(n)
  \/ start_p2p_connect_nombre(n)
  \/ start_p2p_connect_opera(n)
  \/ start_p2p_connect_avisa(n)
  \/ start_p2p_connect_buy(n)
  \/ close_p2p_connect_avisa(n)
  \/ close_p2p_connect(n)
  \/ close_p2p_connect_fin(n)
  \/ set_socket_p2p(n)
  \/ unset_socket_p2p(n)
  \/ add_nodo_servidor(n)
  \/ add_nodo_cliente(n)
  \/ rm_nodo_servidor(n)

-----------------------------------------------------------------------------
(* The Listener.                                                           *)

EventoListener(n, id) ==
  /\ listener[n].paso = "libre"
  /\ listener[n].events # <<>>
  /\ Head(listener[n].events).id = id

(* Listener l is done with its event; the event LOOP is posted again.      *)
FinListener(l) == [l EXCEPT !.events = Tail(@)]
OtraVuelta(l) == [l EXCEPT !.events = Append(Tail(@), [id |-> "LOOP"])]

listenerAparte == <<logicPropio, router, vivo, cuenta>>

prepare_connections(n) ==
  /\ EventoListener(n, "INIT")
  /\ listener' = [listener EXCEPT ![n] =
       [OtraVuelta(@) EXCEPT !.servSock = Libre(tcp, n),
                             !.master = {Libre(tcp, n)}]]
  /\ tcp' = Servidor(tcp, n)
  /\ UNCHANGED <<logicEvents, routerEvents, en_operacion, listenerAparte>>

(* select: it fails if the Router has closed a socket of master, and then  *)
(* LOOP is not posted again; else it returns what can be read.             *)
select(n) ==
  /\ EventoListener(n, "LOOP")
  /\ LET abiertos == listener[n].master \cap Abiertos(tcp, n)
         listos == {fd \in abiertos : Listo(tcp, n, fd)}
     IN  \/ /\ abiertos # listener[n].master
            /\ listener' = [listener EXCEPT ![n] = FinListener(@)]
         \/ /\ abiertos = listener[n].master /\ listos = {}
            /\ listener' = [listener EXCEPT ![n] = OtraVuelta(@)]
         \/ /\ abiertos = listener[n].master /\ listos # {}
            /\ listener' = [listener EXCEPT ![n].paso = "mirando",
                                            ![n].listos = listos]
  /\ UNCHANGED <<logicEvents, routerEvents, en_operacion, tcp, listenerAparte>>

(* The descriptor the loop over read_fds has come to.                      *)
Mirando(n) == listener[n].paso = "mirando" /\ listener[n].listos # {}
Mirado(n) == Min(listener[n].listos)

client_connections_admin_fin(n) ==
  /\ listener[n].paso = "mirando" /\ listener[n].listos = {}
  /\ listener' = [listener EXCEPT ![n] = [OtraVuelta(@) EXCEPT !.paso = "libre"]]
  /\ UNCHANGED <<logicEvents, routerEvents, en_operacion, tcp, listenerAparte>>

(* A new connection; beyond MAX_CONNECTED it is left waiting.              *)
accept(n) ==
  /\ Mirando(n) /\ Mirado(n) = listener[n].servSock
  /\ \/ /\ listener[n].cant < MAX_CONNECTED
        /\ tcp' = Acepta(tcp, n)
        /\ LET newfd == Libre(tcp, n)
           IN  listener' = [listener EXCEPT
                 ![n].master = @ \cup {newfd}, ![n].ip = @ \cup {newfd},
                 ![n].cant = @ + 1, ![n].newfd = newfd, ![n].paso = "nombre"]
     \/ /\ listener[n].cant >= MAX_CONNECTED
        /\ listener' = [listener EXCEPT ![n].listos = @ \ {Mirado(n)}]
        /\ UNCHANGED tcp
  /\ UNCHANGED <<logicEvents, routerEvents, en_operacion, listenerAparte>>

(* Fault: the node does not answer with its name.                          *)
Saludado_sin_respuesta(n, ev) ==
  LET fd == listener[n].newfd
  IN  \/ /\ RecvVuelve(n, fd)
         /\ tcp' = LeeSiHay(n, fd)
         /\ listener' = [listener EXCEPT
              ![n].paso = "mirando", ![n].newfd = SOCK_ERRONEO,
              ![n].listos = @ \ {listener[n].servSock}]
         /\ routerEvents' = [routerEvents EXCEPT ![n] = Append(@, ev)]
         /\ UNCHANGED <<logicEvents, en_operacion, listenerAparte>>
      \/ RecvMata(n, fd)

(* The handshake with the new connection is over: the node answers with    *)
(* its name, and the Router is told.                                       *)
Saludado(n, ev) ==
  LET fd == listener[n].newfd
      k == LeeSiHay(n, fd)
  IN  \/ /\ RecvVuelve(n, fd)
         /\ tcp' = Envia(k, n, fd, SuNombre(n))
         /\ listener' = [listener EXCEPT
              ![n].paso = "mirando", ![n].newfd = SOCK_ERRONEO,
              ![n].listos = @ \ {listener[n].servSock}]
         /\ routerEvents' = [routerEvents EXCEPT ![n] = Append(@, ev)]
         /\ UNCHANGED <<logicEvents, en_operacion, listenerAparte>>
      \/ RecvMata(n, fd)

EsP2P(n) ==
  LET fd == listener[n].newfd
  IN  RecvDato(tcp, n, fd) /\ Recibido(tcp, n, fd)[1] = P2P_CONNECT

(* P2P_CONNECT announces a direct connection: the node is in operation.    *)
accept_nombre(n) ==
  LET fd == listener[n].newfd
  IN  /\ listener[n].paso = "nombre"
      /\ \/ /\ EsP2P(n)
            /\ en_operacion' = [en_operacion EXCEPT ![n] = TRUE]
            /\ listener' = [listener EXCEPT ![n].paso = "p2p_opera"]
            /\ tcp' = Lee(tcp, n, fd)
            /\ UNCHANGED <<logicEvents, routerEvents, listenerAparte>>
         \/ /\ ~EsP2P(n)
            /\ Saludado(n, [id |-> "RT_ADD_NODO_SERVIDOR",
                            nodo |-> NombreLeido(n, fd), fd |-> fd])

(* Fault: the Router is told of the direct connection before the names are *)
(* exchanged.                                                              *)
accept_p2p_avisa_antes(n) ==
  LET fd == listener[n].newfd
  IN  /\ listener[n].paso = "p2p_opera"
      /\ listener' = [listener EXCEPT ![n].p2p = fd, ![n].paso = "p2p_nombre"]
      /\ routerEvents' = [routerEvents EXCEPT ![n] =
           Append(@, [id |-> "RT_SET_SOCKET_P2P", fd |-> fd])]
      /\ UNCHANGED <<logicEvents, en_operacion, tcp, listenerAparte>>

(* The Listener remembers which the direct connection is.                  *)
accept_p2p(n) ==
  /\ listener[n].paso = "p2p_opera"
  /\ listener' = [listener EXCEPT ![n].p2p = listener[n].newfd,
                                  ![n].paso = "p2p_nombre"]
  /\ UNCHANGED <<logicEvents, routerEvents, en_operacion, tcp, listenerAparte>>

accept_p2p_nombre(n) ==
  /\ listener[n].paso = "p2p_nombre"
  /\ Saludado(n, [id |-> "RT_SET_SOCKET_P2P", fd |-> listener[n].newfd])

(* The other end of descriptor i has closed, or recv fails.                *)
cierre(n) ==
  LET i == Mirado(n)
      l == listener[n]
      fin == RecvFin(tcp, n, i)
  IN  /\ Mirando(n) /\ i # l.servSock
      /\ fin \/ RecvError(tcp, n, i)
      /\ tcp' = Cierra(tcp, n, i)
      /\ routerEvents' = [routerEvents EXCEPT ![n] = @
           \o (IF fin /\ i \in l.ip /\ i # l.p2p
               THEN <<[id |-> "RT_RM_NODO_SERVIDOR", fd |-> i]>> ELSE <<>>)]
      /\ listener' = [listener EXCEPT
           ![n].listos = @ \ {i}, ![n].master = @ \ {i}, ![n].ip = @ \ {i},
           ![n].cant = IF fin THEN @ - 1 ELSE @,
           ![n].paso = IF i = l.p2p THEN "cierre_p2p" ELSE @]
      /\ UNCHANGED <<logicEvents, en_operacion, listenerAparte>>

(* It was the direct connection: the Router is told, and it is forgotten.  *)
cierre_p2p(n) ==
  /\ listener[n].paso = "cierre_p2p"
  /\ routerEvents' = [routerEvents EXCEPT ![n] =
       Append(@, [id |-> "RT_UNSET_SOCKET_P2P"])]
  /\ listener' = [listener EXCEPT ![n].p2p = SOCK_ERRONEO,
                                  ![n].paso = "cierre_fin"]
  /\ UNCHANGED <<logicEvents, en_operacion, tcp, listenerAparte>>

(* Fault: the node stays in operation.                                     *)
cierre_fin_en_operacion(n) ==
  /\ listener[n].paso = "cierre_fin"
  /\ listener' = [listener EXCEPT ![n].paso = "mirando"]
  /\ UNCHANGED <<logicEvents, routerEvents, en_operacion, tcp, listenerAparte>>

(* The node is not in operation any more, whatever the Router has begun    *)
(* meanwhile.                                                              *)
cierre_fin(n) ==
  /\ listener[n].paso = "cierre_fin"
  /\ en_operacion' = [en_operacion EXCEPT ![n] = FALSE]
  /\ listener' = [listener EXCEPT ![n].paso = "mirando"]
  /\ UNCHANGED <<logicEvents, routerEvents, tcp, listenerAparte>>

(* Fault: the message is left in the socket.                               *)
mensaje_sin_leer(n) ==
  LET i == Mirado(n)
  IN  /\ Mirando(n) /\ i # listener[n].servSock
      /\ RecvDato(tcp, n, i)
      /\ listener' = [listener EXCEPT ![n].listos = @ \ {i}]
      /\ ~en_operacion[n] \/ i = listener[n].p2p
      /\ logicEvents' = [logicEvents EXCEPT ![n] =
           Append(@, [id |-> "CLIENT_MSG", tag |-> Recibido(tcp, n, i)[1].tag])]
      /\ UNCHANGED <<tcp, routerEvents, en_operacion, listenerAparte>>

(* A message: in operation it is taken from the direct connection only.    *)
(* Logic finds no code in a text that is not a message, and ignores it.    *)
mensaje(n) ==
  LET i == Mirado(n)
      d == Recibido(tcp, n, i)[1]
  IN  /\ Mirando(n) /\ i # listener[n].servSock
      /\ RecvDato(tcp, n, i)
      /\ listener' = [listener EXCEPT ![n].listos = @ \ {i}]
      /\ \/ /\ ~en_operacion[n] \/ i = listener[n].p2p
            /\ logicEvents' = [logicEvents EXCEPT ![n] =
                 IF d.que = "mensaje"
                 THEN Append(@, [id |-> "CLIENT_MSG", tag |-> d.tag]) ELSE @]
            /\ tcp' = Lee(tcp, n, i)
         \/ /\ en_operacion[n] /\ i # listener[n].p2p
            /\ tcp' = Descarta(tcp, n, i)
            /\ UNCHANGED logicEvents
      /\ UNCHANGED <<routerEvents, en_operacion, listenerAparte>>

(* What the Router has the Listener watch, or watch no more.               *)
Vigila(n, l) ==
  /\ listener' = [listener EXCEPT ![n] = FinListener(l)]
  /\ UNCHANGED <<logicEvents, routerEvents, en_operacion, tcp, listenerAparte>>

EvListener(n) == Head(listener[n].events)

add_socket(n) ==
  /\ EventoListener(n, "LS_ADD_SOCKET")
  /\ Vigila(n, [listener[n] EXCEPT !.master = @ \cup {EvListener(n).fd}])

add_socket_p2p(n) ==
  /\ EventoListener(n, "LS_ADD_SOCKET_P2P")
  /\ Vigila(n, [listener[n] EXCEPT !.master = @ \cup {EvListener(n).fd},
                                   !.p2p = EvListener(n).fd])

rm_socket_p2p(n) ==
  /\ EventoListener(n, "LS_RM_SOCKET_P2P")
  /\ Vigila(n, [listener[n] EXCEPT !.master = @ \ {EvListener(n).fd},
                                   !.ip = @ \ {EvListener(n).fd}])

ListenerStep(n) ==
  \/ prepare_connections(n)
  \/ select(n)
  \/ client_connections_admin_fin(n)
  \/ accept(n)
  \/ accept_nombre(n)
  \/ accept_p2p(n)
  \/ accept_p2p_nombre(n)
  \/ cierre(n)
  \/ cierre_p2p(n)
  \/ cierre_fin(n)
  \/ mensaje(n)
  \/ add_socket(n)
  \/ add_socket_p2p(n)
  \/ rm_socket_p2p(n)

-----------------------------------------------------------------------------
(* The Keyboard, once it has been told to show its menu.  It posts after   *)
(* it has looked at en_operacion, which may have changed by then.          *)

procesar_lanzar(n) ==
  /\ router[n].menus > 0
  /\ cuenta.pedidos[n] < cuenta.escena.pedidos[n]
  /\ cuenta.ordenes < MaxPedidos
  /\ cuenta' = [cuenta EXCEPT !.pedidos[n] = @ + 1, !.ordenes = @ + 1]
  /\ \E c \in Pedible :
       logicEvents' = [logicEvents EXCEPT ![n] =
                         Append(@, [id |-> "DO_LOOKUP", cantidad |-> c])]
  /\ UNCHANGED <<routerEvents, logicPropio, router, listener, en_operacion,
                 tcp, vivo>>

try_reconnect(n) ==
  /\ router[n].menus > 0
  /\ cuenta.reconexiones < cuenta.escena.reconexiones
  /\ cuenta' = [cuenta EXCEPT !.reconexiones = @ + 1]
  /\ routerEvents' = [routerEvents EXCEPT ![n] = Append(@, [id |-> "INIT"])]
  /\ UNCHANGED <<logicEvents, logicPropio, router, listener, en_operacion,
                 tcp, vivo>>

-----------------------------------------------------------------------------
(* The sockets between two calls of the step a thread is at: connected and *)
(* with nothing sent yet, or with the name read and not answered.          *)
AMedias(n) ==
  {Conecta(tcp, n, m) : m \in {x \in Node :
     /\ EnServicio(tcp, x)
     /\ \/ /\ PasoVecino(n) /\ router[n].k <= 2
           /\ router[n].vecino[router[n].k] = SOCK_ERRONEO
           /\ x = Vecino[n][router[n].k]
        \/ /\ AtiendeRouter(n, "RT_START_P2P_CONNECT")
           /\ x = Evento(n).tag.vendedor}}
  \cup {LeeSiHay(n, fd) : fd \in {x \in {listener[n].newfd} :
          listener[n].paso \in {"nombre", "p2p_nombre"} /\ RecvVuelve(n, x)}}

(* The process is ended from outside, or by its user.                      *)
Sale(n) ==
  /\ vivo[n]
  /\ cuenta.salidas < cuenta.escena.salidas
  /\ cuenta' = [cuenta EXCEPT !.salidas = @ + 1]
  /\ \E k \in {tcp} \cup AMedias(n) : Muere(n, k)

-----------------------------------------------------------------------------
(* The nodes that run in scene e have made its connections with their      *)
(* neighbours, in that order, and no others.                               *)
Vecinos(l) == Vecino[l[1]][l[2]]

SinEnlaces(e) ==
  [fds |-> [n \in Node |-> IF n \in e.frios THEN <<>> ELSE Abre(<<>>, 3, PUERTO)],
   con |-> <<>>, perdidos |-> EmptyBag]

Enlaza(k, l) == Acepta(Conecta(k, l[1], Vecinos(l)), Vecinos(l))

Enlazados(e) ==
  LET tras[i \in 0..Len(e.enlaces)] ==
        IF i = 0 THEN SinEnlaces(e) ELSE Enlaza(tras[i - 1], e.enlaces[i])
  IN  tras[Len(e.enlaces)]

(* The descriptor of end l of the last of the connections C.               *)
UltimoFd(e, n, C, l) ==
  IF C = {} THEN SOCK_ERRONEO
  ELSE CHOOSE fd \in Abiertos(Enlazados(e), n) :
         Punta(Enlazados(e), n, fd) = [con |-> Max(C), lado |-> l]

Hechos(e, n) == {i \in DOMAIN e.enlaces : e.enlaces[i][1] = n}
Aceptados(e, n) == {i \in DOMAIN e.enlaces : Vecinos(e.enlaces[i]) = n}

RouterEnlazado(e, n) ==
  LET hecho(k) == {i \in Hechos(e, n) : e.enlaces[i][2] = k}
      con(x) == {i \in Hechos(e, n) : Vecinos(e.enlaces[i]) = x}
      de(x) == {i \in Aceptados(e, n) : e.enlaces[i][1] = x}
  IN  [RouterNuevo EXCEPT
         !.vecino = [k \in 1..2 |-> UltimoFd(e, n, hecho(k), 1)],
         !.cliente = [x \in {y \in Node : con(y) # {}} |-> UltimoFd(e, n, con(x), 1)],
         !.servidor = [x \in {y \in Node : de(y) # {}} |-> UltimoFd(e, n, de(x), 2)],
         !.show_menu = TRUE, !.menus = 1, !.intentos = 0]

ListenerEnlazado(e, n) ==
  LET k == Enlazados(e)
  IN  [ListenerNuevo EXCEPT
         !.events = <<[id |-> "LOOP"]>>, !.servSock = 3,
         !.master = Abiertos(k, n),
         !.cant = Cardinality(Aceptados(e, n)),
         !.ip = {fd \in Abiertos(k, n) : Punta(k, n, fd).lado = 2}]

Init ==
  /\ LogicInit
  /\ \E e \in Escenas :
       /\ tcp = Enlazados(e)
       /\ router = [n \in Node |->
                      IF n \in e.frios THEN RouterNuevo ELSE RouterEnlazado(e, n)]
       /\ listener = [n \in Node |->
                        IF n \in e.frios THEN ListenerNuevo ELSE ListenerEnlazado(e, n)]
       /\ vivo = [n \in Node |-> n \notin e.frios]
       /\ cuenta = [escena |-> e, pedidos |-> [n \in Node |-> 0], ordenes |-> 0,
                    reconexiones |-> 0, salidas |-> 0,
                    arranques |-> [n \in Node |-> 0]]
  /\ en_operacion = [n \in Node |-> FALSE]

Logica(n) ==
  /\ LogicStep(n)
  /\ UNCHANGED <<router, listener, en_operacion, tcp, vivo, cuenta>>

Next ==
  \E n \in Node :
    \/ Logica(n)
    \/ RouterStep(n)
    \/ ListenerStep(n)
    \/ procesar_lanzar(n)
    \/ try_reconnect(n)
    \/ Arranca(n)
    \/ Sale(n)

Spec == Init /\ [][Next]_vars

(* Every thread that can go on does, and a node that is not running is     *)
(* started while the bound allows it; the users owe nothing.               *)
Fairness ==
  \A n \in Node :
    /\ WF_vars(Logica(n)) /\ WF_vars(RouterStep(n)) /\ WF_vars(ListenerStep(n))
    /\ WF_vars(Arranca(n))

FairSpec == Spec /\ Fairness

-----------------------------------------------------------------------------
(* Type invariant.                                                         *)
ConexionesTypeOK ==
  /\ \A n \in Node :
       /\ router[n].vecino \in [1..2 -> Int] /\ router[n].p2p \in Int
       /\ router[n].cliente \in [DOMAIN router[n].cliente -> Nat]
       /\ router[n].servidor \in [DOMAIN router[n].servidor -> Nat]
       /\ router[n].intentos \in 0..Intentos
       /\ router[n].paso \in PasoRouter /\ router[n].k \in 1..3
       /\ listener[n].paso \in PasoListener
       /\ listener[n].master \subseteq Nat
       /\ listener[n].listos \subseteq listener[n].master
       /\ listener[n].cant \in Int
  /\ en_operacion \in [Node -> BOOLEAN] /\ vivo \in [Node -> BOOLEAN]
  /\ \A c \in DOMAIN tcp.con : tcp.con[c].ve \in [1..2 -> Estado]

-----------------------------------------------------------------------------
(* OperaConAlguien: a node that takes messages from its direct connection  *)
(* only does take them: its Listener watches that connection, or will when *)
(* it comes to the event posted for it.  So it is but for a few steps,     *)
(* where Router or Listener have only begun to enter or leave that state.  *)
EntraOSale(n) ==
  \/ router[n].paso \in {"p2p_opera", "p2p_cierra", "p2p_fin"}
  \/ listener[n].paso \in {"p2p_opera", "cierre_p2p", "cierre_fin"}

OperaConAlguien ==
  \A n \in Node : en_operacion[n] =>
    \/ listener[n].p2p \in listener[n].master
    \/ \E i \in DOMAIN listener[n].events :
         listener[n].events[i].id = "LS_ADD_SOCKET_P2P"
    \/ EntraOSale(n)

(* MenuUnaVez: the menu of a node is shown at most once, however often the *)
(* connections are tried again, on the Router's account or the user's.     *)
MenuUnaVez == \A n \in Node : router[n].menus <= 1

(* ArranqueTermina: however the handshakes of the nodes that start         *)
(* together cross, every node comes to show its menu.                      *)
ArranqueTermina == \A n \in Node : vivo[n] ~> (router[n].menus > 0 \/ ~vivo[n])

(* Nobody is at work: no event waits but LOOP, and no socket has anything  *)
(* to be read.                                                             *)
Quieto ==
  \A n \in Node :
    /\ logicEvents[n] = <<>> /\ routerEvents[n] = <<>>
    /\ listener[n].paso = "libre"
    /\ \A i \in DOMAIN listener[n].events : listener[n].events[i].id = "LOOP"
    /\ \A fd \in listener[n].master :
         fd \in Abiertos(tcp, n) /\ ~Listo(tcp, n, fd)

(* MapasFieles: when nobody is at work, the socket that the Router keeps   *)
(* for each node that connected to it is the other end of a connection     *)
(* that this node keeps as one of its neighbours', and every connection    *)
(* with a neighbour has its name in the map of the neighbour: REPLYs find  *)
(* the way back, whatever nodes left, came back and reused descriptors.    *)
(* The code does not see to a connection that is reset (cierre), so the    *)
(* maps of a node that has had one are left out; and a REPLY that is late  *)
(* for a node that has left gives its name socket 0.                       *)
Otro(n, fd) == LET e == Punta(tcp, n, fd) IN tcp.con[e.con].nodo[3 - e.lado]

Mantiene(x, n, c) ==
  \E k \in 1..2 : /\ Conectado(tcp, x, router[x].vecino[k])
                  /\ Otro(x, router[x].vecino[k]) = n
                  /\ Punta(tcp, x, router[x].vecino[k]) = [con |-> c, lado |-> 1]

MapasFieles ==
  Quieto => \A n \in Node :
    (\A c \in DOMAIN tcp.con : tcp.con[c].rst => n \notin Range(tcp.con[c].nodo))
      => LET mapa == router[n].servidor
         IN  /\ \A x \in DOMAIN mapa : mapa[x] # 0 =>
                  /\ Conectado(tcp, n, mapa[x])
                  /\ Mantiene(x, n, Punta(tcp, n, mapa[x]).con)
             /\ \A x \in Node : (\E c \in DOMAIN tcp.con : Mantiene(x, n, c))
                                 => x \in DOMAIN mapa /\ mapa[x] # 0

(* SaludoLimpio: while one end of a connection waits for the other's name, *)
(* nothing but the handshake comes to it; after that, nothing but messages. *)
SaludoLimpio ==
  \A n \in Node :
    /\ router[n].paso \in {"nombre", "p2p_nombre"} =>
         LET s == Recibido(tcp, n, router[n].fd)
         IN  s # <<>> => s[1].que = "nombre"
    /\ listener[n].paso \in {"nombre", "p2p_opera", "p2p_nombre"} =>
         LET s == Recibido(tcp, n, listener[n].newfd)
         IN  \A i \in DOMAIN s : s[i].que # "mensaje"
    /\ \A fd \in listener[n].listos :
         RecvDato(tcp, n, fd) => Recibido(tcp, n, fd)[1].que = "mensaje"

(* RespuestaAlComprador: an answer to a BUY is sent to the node that began *)
(* that purchase, and to no other.                                         *)
RespuestaAlComprador ==
  \A c \in DOMAIN tcp.con : \A l \in 1..2 :
    \A i \in DOMAIN tcp.con[c].buf[l] :
      LET d == tcp.con[c].buf[l][i]
      IN  d.que = "mensaje" /\ d.tag.code \in {"BUY_OK", "BUY_ERR"}
            => d.tag.ts \in DOMAIN mapaPedidos[tcp.con[c].nodo[l]]

(* The users of a set of scenes that buy; whether none of them sells what  *)
(* one of them looks for; whether nobody starts again, or tries its        *)
(* connections again; whether no more than one of the users buys.          *)
Compradores == {n \in Node : \E e \in Escenas : e.pedidos[n] # 0}

SinMezcla == \A n, m \in Compradores : Config[n].compra # Config[m].venta

SinVueltas ==
  \A e \in Escenas : e.reconexiones = 0 /\ \A n \in Node : e.arranques[n] = 0

UnComprador == \A n, m \in Compradores : n = m

(* Whether the scenes have a connection with every neighbour, the first    *)
(* before the second; and whether every node runs.                         *)
Completas ==
  \A e \in Escenas : \A n \in Node :
    /\ \A k \in 1..2 : Vecino[n][k] # Nadie =>
         \E i \in DOMAIN e.enlaces : e.enlaces[i] = <<n, k>>
    /\ \A i, j \in DOMAIN e.enlaces :
         e.enlaces[i] = <<n, 1>> /\ e.enlaces[j] = <<n, 2>> => i < j

TodosViven == \A n \in Node : vivo[n]

(* CompraTermina: a node that enters the state "en operacion" leaves it.   *)
CompraTermina == \A n \in Node : en_operacion[n] ~> ~en_operacion[n]

-----------------------------------------------------------------------------
(* What the texts of the source say, and the code does not keep.           *)

(* OyeSiempre: the handler of LOOP "espera por conexiones" (listener.h) as *)
(* long as the node runs: the event is in the queue or being handled.      *)
OyeSiempre ==
  \A n \in Node :
    vivo[n] => \E i \in DOMAIN listener[n].events :
                 listener[n].events[i].id \in {"INIT", "LOOP"}

-----------------------------------------------------------------------------
(* The transport of module Bazar: what the sockets hold and what is lost;  *)
(* its Router has the events that module Logic posts.                      *)
Letras(k) ==
  UNION {{<<c, l, i>> : i \in {j \in DOMAIN k.con[c].buf[l] :
                                k.con[c].buf[l][j].que = "mensaje"}} :
           c \in DOMAIN k.con, l \in 1..2}

Sobre(k, x) == [dst |-> k.con[x[1]].nodo[x[2]],
                tag |-> k.con[x[1]].buf[x[2]][x[3]].tag]

EnBuzones(k) ==
  [p \in {Sobre(k, x) : x \in Letras(k)} |->
     Cardinality({x \in Letras(k) : Sobre(k, x) = p})]

EnRed == tcp.perdidos (+) EnBuzones(tcp)

(* The events of q that Logic posted, and not the Listener or the Router.   *)
SinAvisos(q) ==
  LET f[i \in 0..Len(q)] ==
        IF i = 0 THEN <<>>
        ELSE IF q[i].id \in RouterId THEN Append(f[i - 1], q[i]) ELSE f[i - 1]
  IN  f[Len(q)]

DeLogic == [n \in Node |-> SinAvisos(routerEvents[n])]

B == INSTANCE Bazar WITH
       red <- EnRed, routerEvents <- DeLogic,
       ordenes <- cuenta.ordenes, MaxOrdenes <- MaxPedidos,
       Perdida <- TRUE, Reponible <- {}, Elegible <- {}

(* CumpleBazar: where no node ends, the sockets do to the messages what    *)
(* module Bazar allows its transport: each is delivered at most once, to   *)
(* the node that the Router of Bazar sends it to, or lost.                 *)
CumpleBazar == B!Spec
=============================================================================
