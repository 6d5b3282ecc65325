-------------------------- MODULE ConexionesProofs --------------------------
(***************************************************************************)
(* Theorems about Conexiones, for any nodes, neighbours, attempts, limits  *)
(* and scenes, whoever ends and starts again, and whatever the sockets do. *)
(***************************************************************************)
EXTENDS Conexiones, TLAPS

FS == INSTANCE FiniteSetTheorems
WF == INSTANCE WellFoundedInduction

-----------------------------------------------------------------------------
(* A Router r in which the menu was asked for at most once, and then       *)
(* remembers it; and every Router in such a state.                         *)
Una(r) ==
  /\ {"menus", "show_menu"} \subseteq DOMAIN r
  /\ r.menus \in 0..1
  /\ r.show_menu \in BOOLEAN
  /\ r.menus = 1 => r.show_menu

Menus ==
  /\ router = [n \in Node |-> router[n]]
  /\ \A n \in Node : Una(router[n])

LEMMA MenusDeUno ==
  ASSUME Menus, NEW n \in Node, NEW r, Una(r),
         router' = [router EXCEPT ![n] = r]
  PROVE  Menus'
  BY DEF Menus

LEMMA MenusQuietos ==
  ASSUME Menus, UNCHANGED router
  PROVE  Menus'
  BY DEF Menus

LEMMA UnaNuevo == Una(RouterNuevo)
  BY DEF Una, RouterNuevo

LEMMA UnaEnlazado ==
  ASSUME NEW e, NEW n \in Node
  PROVE  Una(RouterEnlazado(e, n))
  BY DEF Una, RouterEnlazado, RouterNuevo

LEMMA MenusInit == Init => Menus
  BY UnaNuevo, UnaEnlazado DEF Init, Menus

LEMMA MenusMuere ==
  ASSUME Menus, NEW n \in Node, NEW k, Muere(n, k)
  PROVE  Menus'
  BY UnaNuevo, MenusDeUno DEF Muere

LEMMA MenusRecvMata ==
  ASSUME Menus, NEW n \in Node, NEW fd, RecvMata(n, fd)
  PROVE  Menus'
  BY MenusMuere DEF RecvMata

LEMMA MenusSaludado ==
  ASSUME Menus, NEW n \in Node, NEW ev, Saludado(n, ev)
  PROVE  Menus'
  BY MenusQuietos, MenusRecvMata DEF Saludado, listenerAparte

LEMMA MenusEnvia ==
  ASSUME Menus, NEW n \in Node, NEW e, NEW r, Una(r),
         EnviaYListo(n, e, r)
  PROVE  Menus'
  BY MenusMuere, MenusDeUno DEF EnviaYListo

LEMMA MenusRecuerda ==
  ASSUME Menus, NEW n \in Node, NEW r, Una(r), Recuerda(n, r)
  PROVE  Menus'
  BY MenusDeUno DEF Recuerda

(* What the Router changes of itself besides the menu.                     *)
LEMMA UnaSocket ==
  ASSUME NEW r, Una(r), NEW x
  PROVE  /\ Una([r EXCEPT !.p2p = x])
         /\ Una([r EXCEPT !.vecino = x])
         /\ Una([r EXCEPT !.servidor = x])
         /\ Una([r EXCEPT !.cliente = x])
         /\ Una(SiguienteVecino(r, x))
  BY DEF Una, SiguienteVecino

-----------------------------------------------------------------------------
(* The steps of the Router.                                                *)

LEMMA MenusDifunde ==
  ASSUME Menus, NEW n \in Node, NEW S, Difunde(n, S)
  PROVE  Menus'
<1>1. Una(router[n])
  BY DEF Menus
<1>2. PICK v, e : EnviaYListo(n, e, [router[n] EXCEPT !.vecino = v])
  BY DEF Difunde
<1>3. Una([router[n] EXCEPT !.vecino = v])
  BY <1>1, UnaSocket
<1> QED
  BY <1>2, <1>3, MenusEnvia

LEMMA MenusEnvios ==
  ASSUME Menus, NEW n \in Node
  PROVE  /\ send_first_broadcast_message(n) => Menus'
         /\ send_broadcast_message(n) => Menus'
         /\ send_to_next_node_message(n) => Menus'
         /\ send_to_p2p_socket_message(n) => Menus'
<1>1. Una(router[n])
  BY DEF Menus
<1>2. send_first_broadcast_message(n) => Menus'
  BY MenusDifunde DEF send_first_broadcast_message
<1>3. send_broadcast_message(n) => Menus'
  BY MenusDifunde DEF send_broadcast_message
<1>4. ASSUME send_to_next_node_message(n)
      PROVE  Menus'
  <2>1. PICK s, e : EnviaYListo(n, e, [router[n] EXCEPT !.servidor = s])
    BY <1>4 DEF send_to_next_node_message
  <2>2. Una([router[n] EXCEPT !.servidor = s])
    BY <1>1, UnaSocket
  <2> QED
    BY <2>1, <2>2, MenusEnvia
<1>5. send_to_p2p_socket_message(n) => Menus'
  BY <1>1, MenusEnvia DEF send_to_p2p_socket_message
<1> QED
  BY <1>2, <1>3, <1>4, <1>5

LEMMA MenusConexiones ==
  ASSUME Menus, NEW n \in Node
  PROVE  /\ vecino_conectado(n) => Menus'
         /\ try_connection(n) => Menus'
         /\ try_connection_nombre(n) => Menus'
         /\ start_connections(n) => Menus'
<1>1. Una(router[n])
  BY DEF Menus
<1>2. ASSUME vecino_conectado(n)
      PROVE  Menus'
  <2>1. PICK fd : router' = [router EXCEPT ![n] = SiguienteVecino(router[n], fd)]
    BY <1>2 DEF vecino_conectado
  <2>2. Una(SiguienteVecino(router[n], fd))
    BY <1>1, UnaSocket
  <2> QED
    BY <2>1, <2>2, MenusDeUno
<1>3. ASSUME try_connection(n)
      PROVE  Menus'
  <2>1. CASE router' = [router EXCEPT ![n].paso = "nombre",
                                      ![n].fd = Libre(tcp, n)]
    BY <1>1, <2>1 DEF Menus, Una
  <2>2. CASE router' = [router EXCEPT ![n] = SiguienteVecino(@, SOCK_ERRONEO)]
    BY <1>1, <2>2, UnaSocket, MenusDeUno DEF Menus
  <2> QED
    BY <1>3, <2>1, <2>2 DEF try_connection
<1>4. ASSUME try_connection_nombre(n)
      PROVE  Menus'
  <2>1. CASE RecvMata(n, router[n].fd)
    BY <2>1, MenusRecvMata
  <2>2. CASE router' = [router EXCEPT ![n] = SiguienteVecino(@, router[n].fd)]
    BY <1>1, <2>2, UnaSocket, MenusDeUno DEF Menus
  <2> QED
    BY <1>4, <2>1, <2>2 DEF try_connection_nombre
<1>5. ASSUME start_connections(n)
      PROVE  Menus'
  <2>1. CASE router' = [router EXCEPT ![n].paso = "libre", ![n].k = 1,
                                      ![n].intentos = @ - 1]
    BY <1>1, <2>1 DEF Menus, Una
  <2>2. CASE router' = [router EXCEPT ![n].paso = "libre", ![n].k = 1,
                                      ![n].show_menu = TRUE,
                                      ![n].menus = IF router[n].show_menu THEN @
                                                   ELSE @ + 1]
    <3> DEFINE r == [router[n] EXCEPT !.paso = "libre", !.k = 1,
                                      !.show_menu = TRUE,
                                      !.menus = IF router[n].show_menu THEN @
                                                ELSE @ + 1]
    <3>1. Una(r)
      BY <1>1 DEF Una
    <3>2. router' = [router EXCEPT ![n] = r]
      BY <2>2 DEF Menus
    <3> QED
      BY <3>1, <3>2, MenusDeUno
  <2> QED
    BY <1>5, <2>1, <2>2 DEF start_connections
<1> QED
  BY <1>2, <1>3, <1>4, <1>5

LEMMA MenusP2P ==
  ASSUME Menus, NEW n \in Node
  PROVE  /\ start_p2p_connect(n) => Menus'
         /\ start_p2p_connect_nombre(n) => Menus'
         /\ start_p2p_connect_opera(n) => Menus'
         /\ start_p2p_connect_avisa(n) => Menus'
         /\ start_p2p_connect_buy(n) => Menus'
         /\ close_p2p_connect_avisa(n) => Menus'
         /\ close_p2p_connect(n) => Menus'
         /\ close_p2p_connect_fin(n) => Menus'
<1>1. Una(router[n])
  BY DEF Menus
<1>2. ASSUME start_p2p_connect(n)
      PROVE  Menus'
  <2>1. CASE router' = [router EXCEPT ![n].p2p = SOCK_ERRONEO]
    BY <1>1, <2>1, UnaSocket, MenusDeUno DEF Menus
  <2>2. CASE router' = [router EXCEPT ![n].paso = "p2p", ![n].fd = Libre(tcp, n)]
    BY <1>1, <2>2 DEF Menus, Una
  <2> QED
    BY <1>2, <2>1, <2>2 DEF start_p2p_connect
<1>3. start_p2p_connect_nombre(n) => Menus'
  BY <1>1 DEF start_p2p_connect_nombre, Menus, Una
<1>4. ASSUME start_p2p_connect_opera(n)
      PROVE  Menus'
  <2>1. CASE RecvMata(n, router[n].fd)
    BY <2>1, MenusRecvMata
  <2>2. CASE router' = [router EXCEPT ![n].p2p = router[n].fd,
                                      ![n].paso = "p2p_opera"]
    BY <1>1, <2>2 DEF Menus, Una
  <2> QED
    BY <1>4, <2>1, <2>2 DEF start_p2p_connect_opera
<1>5. ASSUME start_p2p_connect_avisa(n) \/ close_p2p_connect_avisa(n)
      PROVE  Menus'
  BY <1>1, <1>5 DEF start_p2p_connect_avisa, close_p2p_connect_avisa, Menus, Una
<1>6. ASSUME start_p2p_connect_buy(n)
      PROVE  Menus'
  <2> DEFINE r == [router[n] EXCEPT !.paso = "libre", !.fd = SOCK_ERRONEO]
  <2>1. PICK e : EnviaYListo(n, e, r)
    BY <1>6 DEF start_p2p_connect_buy
  <2>2. Una(r)
    BY <1>1 DEF Una
  <2> HIDE DEF r
  <2> QED
    BY <2>1, <2>2, MenusEnvia
<1>7. ASSUME close_p2p_connect(n) \/ close_p2p_connect_fin(n)
      PROVE  Menus'
  BY <1>1, <1>7 DEF close_p2p_connect, close_p2p_connect_fin, Menus, Una
<1> QED
  BY <1>2, <1>3, <1>4, <1>5, <1>6, <1>7

LEMMA MenusMapas ==
  ASSUME Menus, NEW n \in Node
  PROVE  /\ set_socket_p2p(n) => Menus'
         /\ unset_socket_p2p(n) => Menus'
         /\ add_nodo_servidor(n) => Menus'
         /\ add_nodo_cliente(n) => Menus'
         /\ rm_nodo_servidor(n) => Menus'
<1>1. Una(router[n])
  BY DEF Menus
<1>2. \A x : /\ Una([router[n] EXCEPT !.p2p = x])
             /\ Una([router[n] EXCEPT !.servidor = x])
             /\ Una([router[n] EXCEPT !.cliente = x])
  BY <1>1, UnaSocket
<1>3. set_socket_p2p(n) => Menus'
  BY <1>2, MenusRecuerda DEF set_socket_p2p
<1>4. unset_socket_p2p(n) => Menus'
  BY <1>2, MenusRecuerda DEF unset_socket_p2p
<1>5. add_nodo_servidor(n) => Menus'
  BY <1>2, MenusRecuerda, MenusMuere DEF add_nodo_servidor
<1>6. add_nodo_cliente(n) => Menus'
  BY <1>2, MenusRecuerda, MenusMuere DEF add_nodo_cliente
<1>7. rm_nodo_servidor(n) => Menus'
  BY <1>2, MenusRecuerda DEF rm_nodo_servidor
<1> QED
  BY <1>3, <1>4, <1>5, <1>6, <1>7

LEMMA MenusRouter ==
  ASSUME Menus, NEW n \in Node, RouterStep(n)
  PROVE  Menus'
  BY MenusEnvios, MenusConexiones, MenusP2P, MenusMapas DEF RouterStep

-----------------------------------------------------------------------------
(* The steps of the Listener, and the others: all they can do to a Router  *)
(* is to end with it.                                                      *)

LEMMA MenusListener ==
  ASSUME Menus, NEW n \in Node, ListenerStep(n)
  PROVE  Menus'
<1>1. prepare_connections(n) => Menus'
  BY MenusQuietos DEF prepare_connections, listenerAparte
<1>2. select(n) => Menus'
  BY MenusQuietos DEF select, listenerAparte
<1>3. client_connections_admin_fin(n) => Menus'
  BY MenusQuietos DEF client_connections_admin_fin, listenerAparte
<1>4. accept(n) => Menus'
  BY MenusQuietos DEF accept, listenerAparte
<1>5. accept_nombre(n) => Menus'
  BY MenusQuietos, MenusSaludado DEF accept_nombre, listenerAparte
<1>6. accept_p2p_nombre(n) => Menus'
  BY MenusSaludado DEF accept_p2p_nombre
<1>7. cierre(n) => Menus'
  BY MenusQuietos DEF cierre, listenerAparte
<1>8. mensaje(n) => Menus'
  BY MenusQuietos DEF mensaje, listenerAparte
<1>9. add_socket(n) \/ add_socket_p2p(n) \/ rm_socket_p2p(n) => Menus'
  BY MenusQuietos DEF add_socket, add_socket_p2p, rm_socket_p2p, Vigila,
                      listenerAparte
<1>10. accept_p2p(n) \/ cierre_p2p(n) \/ cierre_fin(n) => Menus'
  BY MenusQuietos DEF accept_p2p, cierre_p2p, cierre_fin, listenerAparte
<1> QED
  BY <1>1, <1>2, <1>3, <1>4, <1>5, <1>6, <1>7, <1>8, <1>9, <1>10 DEF ListenerStep

LEMMA MenusNext == Menus /\ [Next]_vars => Menus'
<1> SUFFICES ASSUME Menus, [Next]_vars
             PROVE  Menus'
  OBVIOUS
<1>1. CASE UNCHANGED vars
  BY <1>1, MenusQuietos DEF vars
<1>2. ASSUME NEW n \in Node,
             \/ Logica(n) \/ procesar_lanzar(n) \/ try_reconnect(n) \/ Arranca(n)
      PROVE  Menus'
  BY <1>2, MenusQuietos DEF Logica, procesar_lanzar, try_reconnect, Arranca
<1>3. ASSUME NEW n \in Node, Sale(n)
      PROVE  Menus'
  BY <1>3, MenusMuere DEF Sale
<1> QED
  BY <1>1, <1>2, <1>3, MenusRouter, MenusListener DEF Next

(* MenuUnaVez holds in every reachable state: the menu is shown at most    *)
(* once in the life of a node, however many times INIT is posted again, by *)
(* start_connections or by option 6 (router.cpp).                          *)
THEOREM SiempreMenuUnaVez == Spec => []MenuUnaVez
<1>1. Menus => MenuUnaVez
  <2> SUFFICES ASSUME Menus, NEW n \in Node
               PROVE  router[n].menus <= 1
    BY DEF MenuUnaVez
  <2>1. router[n].menus \in 0..1
    BY DEF Menus, Una
  <2>2. \A i \in 0..1 : i <= 1
    OBVIOUS
  <2> QED
    BY <2>1, <2>2
<1> QED
  BY MenusInit, MenusNext, <1>1, PTL DEF Spec

-----------------------------------------------------------------------------
(* Numbers and sequences.                                                  *)

LEMMA Minimo ==
  ASSUME NEW S \in SUBSET Nat, S # {}
  PROVE  Min(S) \in S /\ \A k \in S : Min(S) <= k
<1> DEFINE R == WF!OpToRel(<, Nat)
<1>1. WF!IsWellFoundedOn(R, Nat)
  BY WF!NatLessThanWellFounded
<1>2. ASSUME NEW x \in Nat, NEW y \in Nat, x < y
      PROVE  <<x, y>> \in R
  BY <1>2 DEF WF!OpToRel
<1> HIDE DEF R
<1>3. PICK m \in S : \A k \in S : ~(<<k, m>> \in R)
  BY <1>1, WF!WFMin
<1>4. ASSUME NEW k \in S
      PROVE  m <= k
  <2>1. k \in Nat /\ m \in Nat /\ <<k, m>> \notin R
    BY <1>3
  <2>2. ~(k < m)
    BY <2>1, <1>2
  <2> QED
    BY <2>1, <2>2
<1> QED
  BY <1>4 DEF Min

LEMMA Maximo ==
  ASSUME NEW N \in Nat, NEW S \in SUBSET (1..N), S # {}
  PROVE  Max(S) \in S /\ \A k \in S : k <= Max(S)
<1> DEFINE U == {m \in Nat : \A k \in S : k <= m}
           m == Min(U)
<1>1. N \in U
  OBVIOUS
<1>2. m \in U /\ \A k \in U : m <= k
  BY <1>1, Minimo
<1>3. m \in Nat /\ \A k \in S : k \in Nat /\ k >= 1 /\ k <= m
  BY <1>2
<1>4. CASE m \in S
  BY <1>3, <1>4 DEF Max
<1>5. CASE m \notin S
  <2> HIDE DEF m
  <2>1. ASSUME NEW k \in S
        PROVE  k <= m - 1 /\ m - 1 \in Nat
    <3>1. k # m /\ k \in Nat /\ m \in Nat /\ k >= 1 /\ k <= m
      BY <1>3, <1>5
    <3> QED
      BY <3>1
  <2>2. m - 1 \in U
    BY <2>1
  <2> QED
    BY <1>2, <1>3, <2>2
<1> QED
  BY <1>4, <1>5

EsSeq(s) == \E S : s \in Seq(S)

LEMMA SeqAppend ==
  ASSUME NEW s, EsSeq(s), NEW e
  PROVE  /\ EsSeq(Append(s, e))
         /\ Len(s) \in Nat /\ DOMAIN s = 1..Len(s)
         /\ Len(Append(s, e)) = Len(s) + 1
         /\ DOMAIN Append(s, e) = 1..(Len(s) + 1)
         /\ \A i \in DOMAIN s : Append(s, e)[i] = s[i]
         /\ Append(s, e)[Len(s) + 1] = e
<1>1. PICK S : s \in Seq(S)
  BY DEF EsSeq
<1>2. s \in Seq(S \cup {e})
  BY <1>1
<1>3. Append(s, e) \in Seq(S \cup {e})
  BY <1>2
<1> QED
  BY <1>2, <1>3 DEF EsSeq

LEMMA SeqTail ==
  ASSUME NEW s, EsSeq(s), s # <<>>
  PROVE  /\ EsSeq(Tail(s))
         /\ Head(s) = s[1] /\ 1 \in DOMAIN s
         /\ \A i \in DOMAIN Tail(s) : i + 1 \in DOMAIN s /\ Tail(s)[i] = s[i + 1]
         /\ \A i \in DOMAIN s : i # 1 => /\ i - 1 \in DOMAIN Tail(s)
                                         /\ Tail(s)[i - 1] = s[i]
<1>1. PICK S : s \in Seq(S)
  BY DEF EsSeq
<1>2. Tail(s) \in Seq(S) /\ Len(s) \in Nat /\ Len(s) > 0
  BY <1>1
<1> QED
  BY <1>1, <1>2 DEF EsSeq

LEMMA SeqJunta ==
  ASSUME NEW s, NEW t, EsSeq(s), EsSeq(t)
  PROVE  /\ EsSeq(s \o t)
         /\ \A i \in DOMAIN (s \o t) :
              (i \in DOMAIN s /\ (s \o t)[i] = s[i])
                \/ (i - Len(s) \in DOMAIN t /\ (s \o t)[i] = t[i - Len(s)])
<1>1. PICK S, R : s \in Seq(S) /\ t \in Seq(R)
  BY DEF EsSeq
<1>2. s \in Seq(S \cup R) /\ t \in Seq(S \cup R)
  BY <1>1
<1>3. s \o t \in Seq(S \cup R)
  BY <1>2
<1> QED
  BY <1>2, <1>3 DEF EsSeq

LEMMA SeqCortas ==
  /\ EsSeq(<<>>) /\ DOMAIN <<>> = {}
  /\ \A e : EsSeq(<<e>>) /\ DOMAIN <<e>> = {1} /\ <<e>>[1] = e
<1>1. ASSUME NEW e
      PROVE  EsSeq(<<e>>) /\ DOMAIN <<e>> = {1} /\ <<e>>[1] = e
  <2>1. <<e>> \in Seq({e}) /\ Len(<<e>>) = 1 /\ <<e>>[1] = e
    OBVIOUS
  <2>2. DOMAIN <<e>> = 1..1 /\ 1..1 = {1}
    BY <2>1
  <2> QED
    BY <2>1, <2>2 DEF EsSeq
<1>2. <<>> \in Seq({}) /\ DOMAIN <<>> = {}
  OBVIOUS
<1> QED
  BY <1>1, <1>2 DEF EsSeq

-----------------------------------------------------------------------------
(* The sockets.  The descriptors of a node are finitely many numbers, so   *)
(* there is always one that is free; and what an end knows of the other is *)
(* one of the states of module Sockets.                                    *)

(* The facts of FiniteSetTheorems, about the operators that Sockets uses.  *)
LEMMA Finitos ==
  ASSUME NEW S, IsFiniteSet(S)
  PROVE  /\ Cardinality(S) \in Nat
         /\ \A R \in SUBSET S : IsFiniteSet(R) /\ Cardinality(R) <= Cardinality(S)
         /\ \A x : IsFiniteSet(S \cup {x})
<1>1. \A R : /\ FS!IsFiniteSet(R) <=> IsFiniteSet(R)
            /\ FS!Cardinality(R) = Cardinality(R)
  BY DEF FS!Cardinality, Cardinality, FS!IsFiniteSet, IsFiniteSet
<1>2. FS!Cardinality(S) \in Nat
  BY <1>1, FS!FS_CardinalityType
<1>3. ASSUME NEW R \in SUBSET S
      PROVE  FS!IsFiniteSet(R) /\ FS!Cardinality(R) <= FS!Cardinality(S)
  BY <1>1, FS!FS_Subset
<1>4. ASSUME NEW x
      PROVE  FS!IsFiniteSet(S \cup {x})
  BY <1>1, FS!FS_AddElement
<1> QED
  BY <1>1, <1>2, <1>3, <1>4

LEMMA Intervalo ==
  ASSUME NEW a \in Int, NEW b \in Int
  PROVE  /\ IsFiniteSet(a..b)
         /\ a <= b => Cardinality(a..b) = b - a + 1
<1>1. \A R : /\ FS!IsFiniteSet(R) <=> IsFiniteSet(R)
            /\ FS!Cardinality(R) = Cardinality(R)
  BY DEF FS!Cardinality, Cardinality, FS!IsFiniteSet, IsFiniteSet
<1> QED
  BY <1>1, FS!FS_Interval

ConexionOK(c) ==
  /\ {"nodo", "buf", "ve", "nueva", "rst"} \subseteq DOMAIN c
  /\ c.ve \in [1..2 -> Estado]

FdsOK(f) == DOMAIN f \subseteq Nat /\ IsFiniteSet(DOMAIN f)

SocketsOK(k) ==
  /\ {"fds", "con", "perdidos"} \subseteq DOMAIN k
  /\ Node \subseteq DOMAIN k.fds
  /\ \A n \in Node : FdsOK(k.fds[n])
  /\ EsSeq(k.con)
  /\ \A c \in DOMAIN k.con : ConexionOK(k.con[c])

LEMMA LibreEs ==
  ASSUME NEW k, NEW n, FdsOK(k.fds[n])
  PROVE  /\ Libre(k, n) \in Nat /\ Libre(k, n) \notin Abiertos(k, n)
         /\ Libre(k, n) >= 3
<1> DEFINE A == Abiertos(k, n)
           I == 3..(3 + Cardinality(A))
<1>1. IsFiniteSet(A)
  BY DEF FdsOK, Abiertos
<1>2. Cardinality(A) \in Nat
  BY <1>1, Finitos
<1> HIDE DEF A
<1>3. Cardinality(I) = Cardinality(A) + 1
  <2>1. 3 + Cardinality(A) \in Int /\ 3 <= 3 + Cardinality(A)
    BY <1>2
  <2>2. Cardinality(I) = (3 + Cardinality(A)) - 3 + 1
    BY <2>1, Intervalo
  <2> QED
    BY <1>2, <2>2
<1>4. I \ A # {}
  <2>1. SUFFICES ASSUME I \in SUBSET A
                 PROVE  FALSE
    OBVIOUS
  <2>2. Cardinality(I) <= Cardinality(A)
    BY <1>1, <2>1, Finitos
  <2> QED
    BY <1>2, <1>3, <2>2
<1>5. I \ A \in SUBSET Nat /\ \A x \in I : x >= 3
  BY <1>2
<1>6. Min(I \ A) \in I \ A
  BY <1>4, <1>5, Minimo
<1>7. Libre(k, n) = Min(I \ A)
  BY DEF Libre, A
<1> QED
  BY <1>5, <1>6, <1>7 DEF A

LEMMA AbreFds ==
  ASSUME NEW f, FdsOK(f), NEW fd \in Nat, NEW e
  PROVE  FdsOK(Abre(f, fd, e))
<1>1. DOMAIN Abre(f, fd, e) = DOMAIN f \cup {fd}
  BY DEF Abre
<1> QED
  BY <1>1, Finitos DEF FdsOK

(* Changes to the three parts of the state of the sockets.                 *)
LEMMA SocketsFds ==
  ASSUME NEW k, SocketsOK(k), NEW n, NEW f, FdsOK(f)
  PROVE  SocketsOK([k EXCEPT !.fds[n] = f])
<1> DEFINE h == [k EXCEPT !.fds[n] = f]
<1>1. /\ DOMAIN h = DOMAIN k /\ h.con = k.con
      /\ DOMAIN h.fds = DOMAIN k.fds
      /\ \A m \in DOMAIN k.fds : h.fds[m] = IF m = n THEN f ELSE k.fds[m]
  BY DEF SocketsOK
<1> QED
  BY <1>1 DEF SocketsOK

LEMMA SocketsPerdidos ==
  ASSUME NEW k, SocketsOK(k), NEW b
  PROVE  SocketsOK([k EXCEPT !.perdidos = b])
<1> DEFINE h == [k EXCEPT !.perdidos = b]
<1>1. DOMAIN h = DOMAIN k /\ h.con = k.con /\ h.fds = k.fds
  BY DEF SocketsOK
<1> QED
  BY <1>1 DEF SocketsOK

LEMMA SocketsCon ==
  ASSUME NEW k, SocketsOK(k), NEW q, EsSeq(q),
         \A c \in DOMAIN q : ConexionOK(q[c])
  PROVE  SocketsOK([k EXCEPT !.con = q])
<1> DEFINE h == [k EXCEPT !.con = q]
<1>1. DOMAIN h = DOMAIN k /\ h.con = q /\ h.fds = k.fds
  BY DEF SocketsOK
<1> QED
  BY <1>1 DEF SocketsOK

LEMMA SocketsUna ==
  ASSUME NEW k, SocketsOK(k), NEW c, NEW r, c \in DOMAIN k.con => ConexionOK(r)
  PROVE  SocketsOK([k EXCEPT !.con[c] = r])
<1> DEFINE q == [k.con EXCEPT ![c] = r]
<1>1. EsSeq(k.con)
  BY DEF SocketsOK
<1>2. PICK S : k.con \in Seq(S)
  BY <1>1 DEF EsSeq
<1>3. k.con \in Seq(S \cup {r})
  BY <1>2
<1>4. q \in Seq(S \cup {r})
  <2>1. /\ Len(k.con) \in Nat /\ DOMAIN q = 1..Len(k.con)
        /\ \A i \in 1..Len(k.con) : q[i] \in S \cup {r}
    BY <1>3
  <2>2. q = [i \in 1..Len(k.con) |-> q[i]]
    BY <2>1
  <2> HIDE DEF q
  <2> QED
    BY <2>1, <2>2
<1>5. EsSeq(q)
  BY <1>4 DEF EsSeq
<1>6. \A i \in DOMAIN q : ConexionOK(q[i])
  BY DEF SocketsOK
<1>7. [k EXCEPT !.con[c] = r] = [k EXCEPT !.con = q]
  OBVIOUS
<1> HIDE DEF q
<1> QED
  BY <1>5, <1>6, <1>7, SocketsCon

LEMMA ConexionCambia ==
  ASSUME NEW r, ConexionOK(r), NEW l, NEW x
  PROVE  /\ ConexionOK([r EXCEPT !.buf[l] = x])
         /\ ConexionOK([r EXCEPT !.nueva = x])
         /\ x \in Estado => ConexionOK([r EXCEPT !.ve[l] = x])
         /\ ConexionOK(CierraLado(r, l))
<1>1. ConexionOK([r EXCEPT !.buf[l] = x])
  BY DEF ConexionOK
<1>2. ConexionOK([r EXCEPT !.nueva = x])
  BY DEF ConexionOK
<1>3. x \in Estado => ConexionOK([r EXCEPT !.ve[l] = x])
  BY DEF ConexionOK
<1>4. ConexionOK(CierraLado(r, l))
  BY DEF ConexionOK, CierraLado, Estado
<1> QED
  BY <1>1, <1>2, <1>3, <1>4

(* What the calls of module Sockets leave is well formed.                  *)

LEMMA SocketsAbre ==
  ASSUME NEW k, SocketsOK(k), NEW n \in Node, NEW e
  PROVE  SocketsOK([k EXCEPT !.fds[n] = Abre(@, Libre(k, n), e)])
<1>1. FdsOK(k.fds[n])
  BY DEF SocketsOK
<1>2. FdsOK(Abre(k.fds[n], Libre(k, n), e))
  BY <1>1, LibreEs, AbreFds
<1> DEFINE f == Abre(k.fds[n], Libre(k, n), e)
<1>3. [k EXCEPT !.fds[n] = Abre(@, Libre(k, n), e)] = [k EXCEPT !.fds[n] = f]
  OBVIOUS
<1>4. FdsOK(f)
  BY <1>2
<1> HIDE DEF f
<1> QED
  BY <1>3, <1>4, SocketsFds

LEMMA SocketsServidor ==
  ASSUME NEW k, SocketsOK(k), NEW n \in Node
  PROVE  SocketsOK(Servidor(k, n))
  BY SocketsAbre DEF Servidor

LEMMA SocketsConecta ==
  ASSUME NEW k, SocketsOK(k), NEW n \in Node, NEW m
  PROVE  SocketsOK(Conecta(k, n, m))
<1> DEFINE e == [con |-> Len(k.con) + 1, lado |-> 1]
           r == [nodo |-> <<n, m>>, buf |-> <<<<>>, <<>>>>,
                 ve |-> <<"vivo", "vivo">>, nueva |-> TRUE, rst |-> FALSE]
           h == [k EXCEPT !.fds[n] = Abre(@, Libre(k, n), e)]
           q == Append(k.con, r)
<1>1. SocketsOK(h)
  BY SocketsAbre
<1>2. ConexionOK(r)
  BY DEF ConexionOK, Estado
<1>3. EsSeq(k.con) /\ \A c \in DOMAIN k.con : ConexionOK(k.con[c])
  BY DEF SocketsOK
<1>4. Conecta(k, n, m) = [h EXCEPT !.con = q]
  BY DEF Conecta, SocketsOK
<1> HIDE DEF r, h
<1>5. EsSeq(q) /\ \A c \in DOMAIN q : ConexionOK(q[c])
  BY <1>2, <1>3, SeqAppend
<1> HIDE DEF q
<1> QED
  BY <1>1, <1>4, <1>5, SocketsCon

LEMMA SocketsAcepta ==
  ASSUME NEW k, SocketsOK(k), NEW n \in Node
  PROVE  SocketsOK(Acepta(k, n))
<1> DEFINE c == Min(Cola(k, n))
           e == [con |-> c, lado |-> 2]
           h == [k EXCEPT !.fds[n] = Abre(@, Libre(k, n), e)]
           r == [k.con[c] EXCEPT !.nueva = FALSE]
<1>1. SocketsOK(h)
  BY SocketsAbre
<1>2. h.con = k.con
  BY DEF SocketsOK
<1>3. c \in DOMAIN h.con => ConexionOK(r)
  BY <1>2, ConexionCambia DEF SocketsOK
<1>4. Acepta(k, n) = [h EXCEPT !.con[c] = r]
  BY <1>2 DEF Acepta
<1> HIDE DEF h, r, c
<1> QED
  BY <1>1, <1>3, <1>4, SocketsUna

LEMMA SocketsLee ==
  ASSUME NEW k, SocketsOK(k), NEW n, NEW fd
  PROVE  SocketsOK(Lee(k, n, fd)) /\ SocketsOK(Descarta(k, n, fd))
<1> DEFINE c == Punta(k, n, fd).con
           l == Punta(k, n, fd).lado
           r == [k.con[c] EXCEPT !.buf[l] = <<>>]
           h == [k EXCEPT !.con[c] = r]
<1>1. PICK b : Lee(k, n, fd) = [[k EXCEPT !.con[c].buf[l] = <<>>] EXCEPT !.perdidos = b]
  BY DEF Lee
<1>2. PICK d : Descarta(k, n, fd)
                 = [[k EXCEPT !.con[c].buf[l] = <<>>] EXCEPT !.perdidos = d]
  BY DEF Descarta
<1>3. /\ Lee(k, n, fd) = [h EXCEPT !.perdidos = b]
      /\ Descarta(k, n, fd) = [h EXCEPT !.perdidos = d]
  BY <1>1, <1>2
<1>4. c \in DOMAIN k.con => ConexionOK(r)
  BY ConexionCambia DEF SocketsOK
<1> HIDE DEF c, l, r
<1>5. SocketsOK(h)
  BY <1>4, SocketsUna
<1> HIDE DEF h
<1> QED
  BY <1>3, <1>5, SocketsPerdidos

LEMMA SocketsEnvia ==
  ASSUME NEW k, SocketsOK(k), NEW n, NEW fd, NEW d
  PROVE  SocketsOK(Envia(k, n, fd, d))
<1> DEFINE c == Punta(k, n, fd).con
           l == Punta(k, n, fd).lado
<1>1. CASE Envia(k, n, fd, d) = k
  BY <1>1
<1>2. CASE \E x : Envia(k, n, fd, d) = [k EXCEPT !.con[c].buf[3 - l] = x]
  <2>1. PICK x : Envia(k, n, fd, d) = [k EXCEPT !.con[c].buf[3 - l] = x]
    BY <1>2
  <2> DEFINE r == [k.con[c] EXCEPT !.buf[3 - l] = x]
  <2>2. c \in DOMAIN k.con => ConexionOK(r)
    BY ConexionCambia DEF SocketsOK
  <2>3. Envia(k, n, fd, d) = [k EXCEPT !.con[c] = r]
    BY <2>1
  <2> HIDE DEF r
  <2> QED
    BY <2>2, <2>3, SocketsUna
<1>3. CASE \E b : Envia(k, n, fd, d)
                    = [[k EXCEPT !.con[c].ve[l] = "roto"] EXCEPT !.perdidos = b]
  <2>1. PICK b : Envia(k, n, fd, d)
                   = [[k EXCEPT !.con[c].ve[l] = "roto"] EXCEPT !.perdidos = b]
    BY <1>3
  <2> DEFINE r == [k.con[c] EXCEPT !.ve[l] = "roto"]
             h == [k EXCEPT !.con[c] = r]
  <2>2. c \in DOMAIN k.con => ConexionOK(r)
    BY ConexionCambia DEF SocketsOK, Estado
  <2>3. Envia(k, n, fd, d) = [h EXCEPT !.perdidos = b]
    BY <2>1
  <2> HIDE DEF r
  <2>4. SocketsOK(h)
    BY <2>2, SocketsUna
  <2> HIDE DEF h
  <2> QED
    BY <2>3, <2>4, SocketsPerdidos
<1> QED
  BY <1>1, <1>2, <1>3 DEF Envia

LEMMA SinFds == FdsOK(<<>>)
<1>1. IsFiniteSet(1..0)
  BY Intervalo
<1>2. 1..0 = {} /\ DOMAIN <<>> = {}
  BY SeqCortas
<1> QED
  BY <1>1, <1>2 DEF FdsOK

LEMMA SocketsCierra ==
  ASSUME NEW k, SocketsOK(k), NEW n \in Node, NEW fd
  PROVE  SocketsOK(Cierra(k, n, fd))
<1> DEFINE c == Punta(k, n, fd).con
           l == Punta(k, n, fd).lado
           f == Restrict(k.fds[n], DOMAIN k.fds[n] \ {fd})
           h == [k EXCEPT !.fds[n] = f]
           r == CierraLado(k.con[c], l)
           g == [h EXCEPT !.con[c] = r]
<1>1. FdsOK(f)
  <2>1. FdsOK(k.fds[n])
    BY DEF SocketsOK
  <2>2. DOMAIN f \in SUBSET (DOMAIN k.fds[n])
    BY DEF Restrict
  <2> QED
    BY <2>1, <2>2, Finitos DEF FdsOK
<1>2. CASE ~Conectado(k, n, fd)
  BY <1>2 DEF Cierra
<1>3. ASSUME Conectado(k, n, fd)
      PROVE  SocketsOK(Cierra(k, n, fd))
  <2>1. h.con = k.con
    BY DEF SocketsOK
  <2>2. PICK b : Cierra(k, n, fd) =
          [k EXCEPT !.fds[n] = f, !.con[c] = CierraLado(@, l), !.perdidos = b]
    BY <1>3 DEF Cierra
  <2>3. Cierra(k, n, fd) = [g EXCEPT !.perdidos = b]
    BY <2>1, <2>2
  <2>4. c \in DOMAIN h.con => ConexionOK(r)
    BY <2>1, ConexionCambia DEF SocketsOK
  <2> HIDE DEF f, r, c, l
  <2>5. SocketsOK(h)
    BY <1>1, SocketsFds
  <2> HIDE DEF h
  <2>6. SocketsOK(g)
    BY <2>4, <2>5, SocketsUna
  <2> HIDE DEF g
  <2> QED
    BY <2>3, <2>6, SocketsPerdidos
<1> QED
  BY <1>2, <1>3

LEMMA SocketsCierraTodo ==
  ASSUME NEW k, SocketsOK(k), NEW n
  PROVE  SocketsOK(CierraTodo(k, n))
<1> DEFINE cae(r, l) == IF r.nodo[l] = n /\ r.ve[l] # "cerrado"
                        THEN CierraLado(r, l) ELSE r
           q == [c \in DOMAIN k.con |-> cae(cae(k.con[c], 1), 2)]
           h == [k EXCEPT !.fds[n] = <<>>]
<1>1. SocketsOK(h)
  BY SinFds, SocketsFds
<1>2. h.con = k.con
  BY DEF SocketsOK
<1>3. CierraTodo(k, n) = [h EXCEPT !.con = q]
  BY <1>2 DEF CierraTodo
<1>4. EsSeq(k.con) /\ \A c \in DOMAIN k.con : ConexionOK(k.con[c])
  BY DEF SocketsOK
<1>5. ASSUME NEW r, ConexionOK(r), NEW l
      PROVE  ConexionOK(cae(r, l))
  BY <1>5, ConexionCambia
<1> HIDE DEF cae
<1>6. \A c \in DOMAIN q : ConexionOK(q[c])
  BY <1>4, <1>5
<1>7. DOMAIN q = DOMAIN k.con /\ q = [i \in DOMAIN q |-> q[i]]
  OBVIOUS
<1> HIDE DEF q, h
<1>8. EsSeq(q)
  <2>1. PICK S : k.con \in Seq(S)
    BY <1>4 DEF EsSeq
  <2>2. Len(k.con) \in Nat /\ DOMAIN k.con = 1..Len(k.con)
    BY <2>1
  <2>3. q = [i \in 1..Len(k.con) |-> q[i]]
    BY <1>7, <2>2
  <2>4. q \in Seq({q[i] : i \in 1..Len(k.con)})
    BY <2>2, <2>3
  <2> QED
    BY <2>4 DEF EsSeq
<1> QED
  BY <1>1, <1>3, <1>6, <1>8, SocketsCon

-----------------------------------------------------------------------------
(* Whatever a step does to the sockets, they stay well formed.             *)

LEMMA SocketsLeeSiHay ==
  ASSUME SocketsOK(tcp), NEW n, NEW fd
  PROVE  SocketsOK(LeeSiHay(n, fd))
  BY SocketsLee DEF LeeSiHay

ResultadoOK(r) == {"k", "vive"} \subseteq DOMAIN r /\ SocketsOK(r.k)

LEMMA ResultadoEnvio ==
  ASSUME NEW r, ResultadoOK(r), NEW n, NEW fd, NEW d
  PROVE  ResultadoOK(Envio(r, n, fd, d))
<1>1. SocketsOK(Envia(r.k, n, fd, d))
  BY SocketsEnvia DEF ResultadoOK
<1> DEFINE x == Envia(r.k, n, fd, d)
<1>2. Envio(r, n, fd, d) \in {r, [r EXCEPT !.vive = FALSE], [r EXCEPT !.k = x]}
  BY DEF Envio
<1>3. SocketsOK(x)
  BY <1>1
<1> HIDE DEF x
<1> QED
  BY <1>2, <1>3 DEF ResultadoOK

LEMMA ResultadoInicial == SocketsOK(tcp) => ResultadoOK(SinEnvios)
  BY DEF SinEnvios, ResultadoOK

LEMMA SocketsMuere ==
  ASSUME NEW n, NEW k, SocketsOK(k), Muere(n, k)
  PROVE  SocketsOK(tcp')
  BY SocketsCierraTodo DEF Muere

LEMMA SocketsRecvMata ==
  ASSUME SocketsOK(tcp), NEW n, NEW fd, RecvMata(n, fd)
  PROVE  SocketsOK(tcp')
  BY SocketsMuere DEF RecvMata

LEMMA SocketsEnviaYListo ==
  ASSUME NEW n, NEW e, NEW r, ResultadoOK(e), EnviaYListo(n, e, r)
  PROVE  SocketsOK(tcp')
  BY SocketsMuere DEF EnviaYListo, ResultadoOK

LEMMA SocketsEnvios ==
  ASSUME SocketsOK(tcp), NEW n \in Node,
         \/ send_first_broadcast_message(n) \/ send_broadcast_message(n)
         \/ send_to_next_node_message(n) \/ send_to_p2p_socket_message(n)
  PROVE  SocketsOK(tcp')
<1>1. ASSUME NEW a, NEW b, NEW d
      PROVE  /\ ResultadoOK(Envio(SinEnvios, n, a, d))
             /\ ResultadoOK(Envio(Envio(SinEnvios, n, a, d), n, b, d))
  BY ResultadoInicial, ResultadoEnvio
<1>2. ASSUME NEW S, Difunde(n, S)
      PROVE  SocketsOK(tcp')
  <2>1. PICK a, b, d, r :
          EnviaYListo(n, Envio(Envio(SinEnvios, n, a, d), n, b, d), r)
    BY <1>2 DEF Difunde
  <2> QED
    BY <1>1, <2>1, SocketsEnviaYListo
<1>3. ASSUME send_to_next_node_message(n)
      PROVE  SocketsOK(tcp')
  BY <1>1, <1>3, SocketsEnviaYListo DEF send_to_next_node_message
<1>4. ASSUME send_to_p2p_socket_message(n)
      PROVE  SocketsOK(tcp')
  BY <1>1, <1>4, SocketsEnviaYListo DEF send_to_p2p_socket_message
<1> QED
  BY <1>2, <1>3, <1>4 DEF send_first_broadcast_message, send_broadcast_message

LEMMA SocketsRouter ==
  ASSUME SocketsOK(tcp), NEW n \in Node, RouterStep(n)
  PROVE  SocketsOK(tcp')
<1>1. ASSUME vecino_conectado(n) \/ start_connections(n)
               \/ set_socket_p2p(n) \/ unset_socket_p2p(n) \/ rm_nodo_servidor(n)
      PROVE  SocketsOK(tcp')
  BY <1>1 DEF vecino_conectado, start_connections, set_socket_p2p,
              unset_socket_p2p, rm_nodo_servidor, Recuerda
<1>2. ASSUME add_nodo_servidor(n) \/ add_nodo_cliente(n)
      PROVE  SocketsOK(tcp')
  BY <1>2, SocketsMuere DEF add_nodo_servidor, add_nodo_cliente, Recuerda
<1>3. ASSUME try_connection(n)
      PROVE  SocketsOK(tcp')
  BY <1>3, SocketsConecta, SocketsEnvia DEF try_connection
<1>4. ASSUME try_connection_nombre(n)
      PROVE  SocketsOK(tcp')
  BY <1>4, SocketsLeeSiHay, SocketsRecvMata DEF try_connection_nombre
<1>5. ASSUME start_p2p_connect(n)
      PROVE  SocketsOK(tcp')
  BY <1>5, SocketsConecta, SocketsEnvia DEF start_p2p_connect
<1>6. ASSUME start_p2p_connect_nombre(n)
      PROVE  SocketsOK(tcp')
  BY <1>6, SocketsEnvia DEF start_p2p_connect_nombre
<1>7. ASSUME start_p2p_connect_opera(n)
      PROVE  SocketsOK(tcp')
  BY <1>7, SocketsLeeSiHay, SocketsRecvMata DEF start_p2p_connect_opera
<1>8. ASSUME \/ start_p2p_connect_avisa(n) \/ close_p2p_connect_avisa(n)
             \/ close_p2p_connect_fin(n)
      PROVE  SocketsOK(tcp')
  BY <1>8 DEF start_p2p_connect_avisa, close_p2p_connect_avisa,
              close_p2p_connect_fin
<1>9. ASSUME start_p2p_connect_buy(n)
      PROVE  SocketsOK(tcp')
  BY <1>9, ResultadoInicial, ResultadoEnvio, SocketsEnviaYListo
     DEF start_p2p_connect_buy
<1>10. ASSUME close_p2p_connect(n)
       PROVE  SocketsOK(tcp')
  BY <1>10, SocketsCierra DEF close_p2p_connect
<1> QED
  BY <1>1, <1>2, <1>3, <1>4, <1>5, <1>6, <1>7, <1>8, <1>9, <1>10, SocketsEnvios
     DEF RouterStep

LEMMA SocketsSaludado ==
  ASSUME SocketsOK(tcp), NEW n, NEW ev, Saludado(n, ev)
  PROVE  SocketsOK(tcp')
  BY SocketsLeeSiHay, SocketsEnvia, SocketsRecvMata DEF Saludado

LEMMA SocketsListener ==
  ASSUME SocketsOK(tcp), NEW n \in Node, ListenerStep(n)
  PROVE  SocketsOK(tcp')
<1>1. ASSUME \/ select(n) \/ client_connections_admin_fin(n) \/ add_socket(n)
             \/ add_socket_p2p(n) \/ rm_socket_p2p(n)
      PROVE  SocketsOK(tcp')
  BY <1>1 DEF select, client_connections_admin_fin, add_socket, add_socket_p2p,
              rm_socket_p2p, Vigila
<1>2. ASSUME prepare_connections(n)
      PROVE  SocketsOK(tcp')
  BY <1>2, SocketsServidor DEF prepare_connections
<1>3. ASSUME accept(n)
      PROVE  SocketsOK(tcp')
  BY <1>3, SocketsAcepta DEF accept
<1>4. ASSUME accept_nombre(n) \/ accept_p2p_nombre(n)
      PROVE  SocketsOK(tcp')
  BY <1>4, SocketsLee, SocketsSaludado DEF accept_nombre, accept_p2p_nombre
<1>5. ASSUME cierre(n)
      PROVE  SocketsOK(tcp')
  BY <1>5, SocketsCierra DEF cierre
<1>6. ASSUME mensaje(n)
      PROVE  SocketsOK(tcp')
  BY <1>6, SocketsLee DEF mensaje
<1>7. ASSUME accept_p2p(n) \/ cierre_p2p(n) \/ cierre_fin(n)
      PROVE  SocketsOK(tcp')
  BY <1>7 DEF accept_p2p, cierre_p2p, cierre_fin
<1> QED
  BY <1>1, <1>2, <1>3, <1>4, <1>5, <1>6, <1>7 DEF ListenerStep

LEMMA SocketsSale ==
  ASSUME SocketsOK(tcp), NEW n \in Node, Sale(n)
  PROVE  SocketsOK(tcp')
<1>1. \A k \in AMedias(n) : SocketsOK(k)
  BY SocketsConecta, SocketsLeeSiHay DEF AMedias
<1> QED
  BY <1>1, SocketsMuere DEF Sale

LEMMA SocketsNext == SocketsOK(tcp) /\ [Next]_vars => SocketsOK(tcp)'
<1> SUFFICES ASSUME SocketsOK(tcp), [Next]_vars
             PROVE  SocketsOK(tcp')
  OBVIOUS
<1>1. CASE UNCHANGED vars
  BY <1>1 DEF vars
<1>2. ASSUME NEW n \in Node,
             \/ Logica(n) \/ procesar_lanzar(n) \/ try_reconnect(n) \/ Arranca(n)
      PROVE  SocketsOK(tcp')
  BY <1>2 DEF Logica, procesar_lanzar, try_reconnect, Arranca
<1> QED
  BY <1>1, <1>2, SocketsRouter, SocketsListener, SocketsSale DEF Next

-----------------------------------------------------------------------------
(* The Router and the Listener of a node, and the queue of the Router.     *)

(* The sockets in the events are descriptors.                              *)
EvRouterOK(ev) ==
  ev.id \in {"RT_SET_SOCKET_P2P", "RT_ADD_NODO_SERVIDOR", "RT_ADD_NODO_CLIENTE"}
    => ev.fd \in Nat

EvListenerOK(ev) ==
  ev.id \in {"LS_ADD_SOCKET", "LS_ADD_SOCKET_P2P"} => ev.fd \in Nat

ColaOK(q) == EsSeq(q) /\ \A i \in DOMAIN q : EvRouterOK(q[i])

RouterOK(r) ==
  /\ {"vecino", "p2p", "cliente", "servidor", "intentos", "paso", "k", "fd"}
       \subseteq DOMAIN r
  /\ r.vecino \in [1..2 -> Int] /\ r.p2p \in Int
  /\ r.cliente \in [DOMAIN r.cliente -> Nat]
  /\ r.servidor \in [DOMAIN r.servidor -> Nat]
  /\ r.intentos \in 0..Intentos
  /\ r.paso \in PasoRouter /\ r.k \in 1..3
  /\ r.paso = "nombre" => r.k \in 1..2
  /\ r.paso \in {"nombre", "p2p", "p2p_nombre", "p2p_opera", "p2p_buy"}
       => r.fd \in Nat
  /\ r.paso \in {"p2p_opera", "p2p_buy"} => r.p2p = r.fd

(* The event the Router is at is at the front of its queue.                *)
EnCurso(r, q) ==
  /\ r.paso \in {"vecino", "nombre"} => q # <<>> /\ Head(q).id = "INIT"
  /\ r.paso \in {"p2p", "p2p_nombre", "p2p_opera", "p2p_buy"} =>
       q # <<>> /\ Head(q).id = "RT_START_P2P_CONNECT"
  /\ r.paso \in {"p2p_cierra", "p2p_fin"} =>
       q # <<>> /\ Head(q).id = "RT_CLOSE_P2P_CONNECT"

(* The Listener looks at descriptors that it still watches, and the event  *)
(* it is at, when it is in the middle of one, is LOOP.                     *)
ListenerOK(l) ==
  /\ {"events", "master", "servSock", "listos", "p2p", "cant", "ip", "paso",
      "newfd"} \subseteq DOMAIN l
  /\ EsSeq(l.events) /\ \A i \in DOMAIN l.events : EvListenerOK(l.events[i])
  /\ l.master \subseteq Nat /\ l.listos \subseteq l.master /\ l.cant \in Int
  /\ l.paso \in PasoListener
  /\ l.paso = "libre" => l.listos = {}
  /\ l.paso # "libre" => l.events # <<>> /\ Head(l.events).id = "LOOP"
  /\ l.paso \in {"nombre", "p2p_opera", "p2p_nombre"} => l.newfd \in Nat

Routers == /\ router = [n \in Node |-> router[n]]
           /\ \A n \in Node : RouterOK(router[n])

Colas == /\ routerEvents = [n \in Node |-> routerEvents[n]]
         /\ \A n \in Node : ColaOK(routerEvents[n])

Cursos == \A n \in Node : EnCurso(router[n], routerEvents[n])

Listeners == /\ listener = [n \in Node |-> listener[n]]
             /\ \A n \in Node : ListenerOK(listener[n])

Banderas == en_operacion \in [Node -> BOOLEAN] /\ vivo \in [Node -> BOOLEAN]

Tipos == SocketsOK(tcp) /\ Routers /\ Colas /\ Cursos /\ Listeners /\ Banderas

LEMMA TiposBasta == Tipos => ConexionesTypeOK
<1> SUFFICES ASSUME Tipos
             PROVE  ConexionesTypeOK
  OBVIOUS
<1>1. \A c \in DOMAIN tcp.con : tcp.con[c].ve \in [1..2 -> Estado]
  BY DEF Tipos, SocketsOK, ConexionOK
<1>2. en_operacion \in [Node -> BOOLEAN] /\ vivo \in [Node -> BOOLEAN]
  BY DEF Tipos, Banderas
<1>3. ASSUME NEW n \in Node
      PROVE  RouterOK(router[n]) /\ ListenerOK(listener[n])
  BY DEF Tipos, Routers, Listeners
<1> QED
  BY <1>1, <1>2, <1>3 DEF ConexionesTypeOK, RouterOK, ListenerOK

LEMMA RouterDeUno ==
  ASSUME Routers, NEW n \in Node, NEW r, RouterOK(r),
         router' = [router EXCEPT ![n] = r]
  PROVE  Routers'
  BY DEF Routers

LEMMA ListenerDeUno ==
  ASSUME Listeners, NEW n \in Node, NEW l, ListenerOK(l),
         listener' = [listener EXCEPT ![n] = l]
  PROVE  Listeners'
  BY DEF Listeners

LEMMA ColaDeUno ==
  ASSUME Colas, NEW n \in Node, NEW q, ColaOK(q),
         routerEvents' = [routerEvents EXCEPT ![n] = q]
  PROVE  Colas'
  BY DEF Colas

LEMMA CursoDeUno ==
  ASSUME Routers, Colas, Cursos, NEW n \in Node, NEW r, NEW q, EnCurso(r, q),
         router' = [router EXCEPT ![n] = r],
         routerEvents' = [routerEvents EXCEPT ![n] = q]
  PROVE  Cursos'
  BY DEF Routers, Colas, Cursos

LEMMA Quietos ==
  /\ Routers /\ UNCHANGED router => Routers'
  /\ Listeners /\ UNCHANGED listener => Listeners'
  /\ Colas /\ UNCHANGED routerEvents => Colas'
  /\ Cursos /\ UNCHANGED <<router, routerEvents>> => Cursos'
  /\ Banderas /\ UNCHANGED <<en_operacion, vivo>> => Banderas'
  BY DEF Routers, Listeners, Colas, Cursos, Banderas

LEMMA ColaCrece ==
  ASSUME NEW q, ColaOK(q), NEW ev
  PROVE  /\ EvRouterOK(ev) => ColaOK(Append(q, ev))
         /\ \A r : EnCurso(r, q) => EnCurso(r, Append(q, ev))
<1>1. EsSeq(q)
  BY DEF ColaOK
<1>2. EvRouterOK(ev) => ColaOK(Append(q, ev))
  BY <1>1, SeqAppend DEF ColaOK
<1>3. q # <<>> => Append(q, ev) # <<>> /\ Head(Append(q, ev)) = Head(q)
  <2>1. PICK S : q \in Seq(S)
    BY <1>1 DEF EsSeq
  <2>2. q \in Seq(S \cup {ev})
    BY <2>1
  <2> QED
    BY <2>2
<1> QED
  BY <1>2, <1>3 DEF EnCurso

LEMMA ColaMengua ==
  ASSUME NEW q, ColaOK(q), q # <<>>
  PROVE  /\ ColaOK(Tail(q)) /\ EvRouterOK(Head(q))
         /\ Tail(q) \o <<>> = Tail(q)
<1>1. EsSeq(q)
  BY DEF ColaOK
<1>2. ColaOK(Tail(q)) /\ EvRouterOK(Head(q))
  BY <1>1, SeqTail DEF ColaOK
<1>3. PICK S : Tail(q) \in Seq(S)
  BY <1>2 DEF ColaOK, EsSeq
<1> QED
  BY <1>2, <1>3

LEMMA SinCola == ColaOK(<<>>) /\ \A r : r.paso = "libre" => EnCurso(r, <<>>)
  BY SeqCortas DEF ColaOK, EnCurso

LEMMA ListenerAvisado ==
  ASSUME NEW l, ListenerOK(l), NEW ev, EvListenerOK(ev)
  PROVE  ListenerOK([l EXCEPT !.events = Append(@, ev)])
<1> DEFINE q == Append(l.events, ev)
           h == [l EXCEPT !.events = q]
<1>1. EsSeq(l.events) /\ \A i \in DOMAIN l.events : EvListenerOK(l.events[i])
  BY DEF ListenerOK
<1>2. EsSeq(q) /\ \A i \in DOMAIN q : EvListenerOK(q[i])
  BY <1>1, SeqAppend
<1>3. l.events # <<>> => q # <<>> /\ Head(q) = Head(l.events)
  <2>1. PICK S : l.events \in Seq(S)
    BY <1>1 DEF EsSeq
  <2>2. l.events \in Seq(S \cup {ev})
    BY <2>1
  <2> QED
    BY <2>2
<1>4. h = [l EXCEPT !.events = Append(@, ev)]
  OBVIOUS
<1> HIDE DEF q
<1>5. ListenerOK(h)
  BY <1>2, <1>3 DEF ListenerOK
<1> QED
  BY <1>4, <1>5

LEMMA RouterNuevoOK == RouterOK(RouterNuevo)
  BY ConexionesAssumption, SeqCortas
     DEF RouterOK, RouterNuevo, PasoRouter, SOCK_ERRONEO

LEMMA ListenerNuevoOK == ListenerOK(ListenerNuevo)
  BY SeqCortas DEF ListenerOK, ListenerNuevo, PasoListener

-----------------------------------------------------------------------------
(* What each step leaves of them.                                          *)

Resto == Routers /\ Colas /\ Cursos /\ Listeners /\ Banderas

LEMMA TiposDe ==
  ASSUME Tipos, NEW n \in Node
  PROVE  /\ RouterOK(router[n]) /\ ListenerOK(listener[n])
         /\ ColaOK(routerEvents[n]) /\ EnCurso(router[n], routerEvents[n])
         /\ router = [router EXCEPT ![n] = router[n]]
         /\ routerEvents = [routerEvents EXCEPT ![n] = routerEvents[n]]
         /\ SocketsOK(tcp) /\ FdsOK(tcp.fds[n])
         /\ Routers /\ Colas /\ Cursos /\ Listeners /\ Banderas
  BY DEF Tipos, Routers, Listeners, Colas, Cursos, SocketsOK

LEMMA RouterPasa ==
  ASSUME Tipos, NEW n \in Node, NEW r, NEW q,
         RouterOK(r), ColaOK(q), EnCurso(r, q),
         router' = [router EXCEPT ![n] = r],
         routerEvents' = [routerEvents EXCEPT ![n] = q]
  PROVE  Routers' /\ Colas' /\ Cursos'
  BY RouterDeUno, ColaDeUno, CursoDeUno DEF Tipos

LEMMA OperacionPasa ==
  ASSUME Tipos, NEW n, NEW b \in BOOLEAN, UNCHANGED vivo,
         en_operacion' = [en_operacion EXCEPT ![n] = b]
  PROVE  Banderas'
  BY DEF Tipos, Banderas

LEMMA MuerePasa ==
  ASSUME Tipos, NEW n \in Node, NEW k, Muere(n, k)
  PROVE  Resto'
<1>1. RouterNuevo.paso = "libre"
  BY DEF RouterNuevo
<1>2. Routers' /\ Colas' /\ Cursos'
  BY <1>1, RouterPasa, RouterNuevoOK, SinCola DEF Muere
<1>3. Listeners'
  BY ListenerDeUno, ListenerNuevoOK DEF Muere, Tipos
<1>4. Banderas'
  BY DEF Muere, Tipos, Banderas
<1> QED
  BY <1>2, <1>3, <1>4 DEF Resto

LEMMA RecvMataPasa ==
  ASSUME Tipos, NEW n \in Node, NEW fd, RecvMata(n, fd)
  PROVE  Resto'
  BY MuerePasa DEF RecvMata

(* A Router with nothing else at hand is done with an event.               *)
LEMMA AtendidoPasa ==
  ASSUME Tipos, NEW n \in Node, NEW r, RouterOK(r), r.paso = "libre",
         routerEvents[n] # <<>>,
         router' = [router EXCEPT ![n] = r], FinRouter(n, <<>>)
  PROVE  Routers' /\ Colas' /\ Cursos'
<1>1. ColaOK(Tail(routerEvents[n]))
      /\ Tail(routerEvents[n]) \o <<>> = Tail(routerEvents[n])
  BY TiposDe, ColaMengua
<1>2. routerEvents' = [routerEvents EXCEPT ![n] = Tail(routerEvents[n])]
  BY <1>1 DEF FinRouter
<1>3. EnCurso(r, Tail(routerEvents[n]))
  BY DEF EnCurso
<1> QED
  BY <1>1, <1>2, <1>3, RouterPasa

LEMMA EnviaPasa ==
  ASSUME Tipos, NEW n \in Node, NEW e, NEW r, RouterOK(r), r.paso = "libre",
         routerEvents[n] # <<>>, EnviaYListo(n, e, r)
  PROVE  Resto'
<1>1. CASE Muere(n, e.k)
  BY <1>1, MuerePasa
<1>2. CASE /\ router' = [router EXCEPT ![n] = r] /\ FinRouter(n, <<>>)
           /\ UNCHANGED <<listener, en_operacion, vivo>>
  BY <1>2, AtendidoPasa, TiposDe, Quietos DEF Resto
<1> QED
  BY <1>1, <1>2 DEF EnviaYListo

LEMMA RecuerdaPasa ==
  ASSUME Tipos, NEW n \in Node, NEW r, RouterOK(r), r.paso = "libre",
         routerEvents[n] # <<>>, Recuerda(n, r)
  PROVE  Resto'
  BY AtendidoPasa, TiposDe, Quietos DEF Resto, Recuerda

(* The fields a Router sets one by one.                                    *)
LEMMA RouterCambia ==
  ASSUME NEW r, RouterOK(r)
  PROVE  /\ \A x \in Int :
              /\ r.paso \notin {"p2p_opera", "p2p_buy"} => RouterOK([r EXCEPT !.p2p = x])
              /\ [r EXCEPT !.p2p = x].paso = r.paso
         /\ \A v \in [1..2 -> Int] : /\ RouterOK([r EXCEPT !.vecino = v])
                                     /\ [r EXCEPT !.vecino = v].paso = r.paso
         /\ \A f : f \in [DOMAIN f -> Nat] =>
              /\ RouterOK([r EXCEPT !.cliente = f])
              /\ RouterOK([r EXCEPT !.servidor = f])
              /\ [r EXCEPT !.cliente = f].paso = r.paso
              /\ [r EXCEPT !.servidor = f].paso = r.paso
  BY DEF RouterOK

LEMMA MapaCambia ==
  ASSUME NEW f, f \in [DOMAIN f -> Nat]
  PROVE  /\ \A x, v : v \in Nat => Pon(f, x, v) \in [DOMAIN Pon(f, x, v) -> Nat]
         /\ \A S : Restrict(f, DOMAIN f \ S)
                     \in [DOMAIN Restrict(f, DOMAIN f \ S) -> Nat]
  BY DEF Pon, Restrict

LEMMA EnviosPasan ==
  ASSUME Tipos, NEW n \in Node,
         \/ send_first_broadcast_message(n) \/ send_broadcast_message(n)
         \/ send_to_next_node_message(n) \/ send_to_p2p_socket_message(n)
  PROVE  Resto'
<1>1. RouterOK(router[n])
  BY TiposDe
<1>2. router[n].paso = "libre" /\ routerEvents[n] # <<>>
  BY DEF send_first_broadcast_message, send_broadcast_message,
         send_to_next_node_message, send_to_p2p_socket_message,
         AtiendeRouter, EventoRouter
<1>3. ASSUME NEW S, Difunde(n, S)
      PROVE  Resto'
  <2> DEFINE v == [k \in 1..2 |-> IF k \in S /\ EnvioFalla(tcp, n, router[n].vecino[k])
                                  THEN SOCK_ERRONEO ELSE router[n].vecino[k]]
  <2>1. v \in [1..2 -> Int]
    BY <1>1 DEF RouterOK, SOCK_ERRONEO
  <2>2. PICK e : EnviaYListo(n, e, [router[n] EXCEPT !.vecino = v])
    BY <1>3 DEF Difunde
  <2> HIDE DEF v
  <2>3. /\ RouterOK([router[n] EXCEPT !.vecino = v])
        /\ [router[n] EXCEPT !.vecino = v].paso = "libre"
    BY <1>1, <1>2, <2>1, RouterCambia
  <2> QED
    BY <1>2, <2>2, <2>3, EnviaPasa
<1>4. ASSUME send_to_next_node_message(n)
      PROVE  Resto'
  <2> DEFINE x == get_next_node_name(Evento(n).tag)
             mapa == router[n].servidor
             fd == IF x \in DOMAIN mapa THEN mapa[x] ELSE 0
             f == Pon(mapa, x, fd)
  <2>1. mapa \in [DOMAIN mapa -> Nat] /\ fd \in Nat
    BY <1>1 DEF RouterOK
  <2>2. PICK e : EnviaYListo(n, e, [router[n] EXCEPT !.servidor = f])
    BY <1>4 DEF send_to_next_node_message
  <2> HIDE DEF fd, mapa
  <2>3. f \in [DOMAIN f -> Nat]
    BY <2>1, MapaCambia
  <2> HIDE DEF f
  <2>4. /\ RouterOK([router[n] EXCEPT !.servidor = f])
        /\ [router[n] EXCEPT !.servidor = f].paso = "libre"
    BY <1>1, <1>2, <2>3, RouterCambia
  <2> QED
    BY <1>2, <2>2, <2>4, EnviaPasa
<1>5. ASSUME send_to_p2p_socket_message(n)
      PROVE  Resto'
  BY <1>1, <1>2, <1>5, EnviaPasa DEF send_to_p2p_socket_message
<1> QED
  BY <1>3, <1>4, <1>5 DEF send_first_broadcast_message, send_broadcast_message

LEMMA SiguienteOK ==
  ASSUME NEW r, RouterOK(r), r.k \in 1..2, NEW fd \in Int
  PROVE  /\ RouterOK(SiguienteVecino(r, fd))
         /\ SiguienteVecino(r, fd).paso = "vecino"
<1> DEFINE s == SiguienteVecino(r, fd)
           v == [r.vecino EXCEPT ![r.k] = fd]
<1>1. v \in [1..2 -> Int]
  BY DEF RouterOK
<1>2. /\ DOMAIN s = DOMAIN r /\ s.vecino = v /\ s.p2p = r.p2p
      /\ s.cliente = r.cliente /\ s.servidor = r.servidor
      /\ s.intentos = r.intentos /\ s.paso = "vecino" /\ s.k = r.k + 1
  BY DEF RouterOK, SiguienteVecino
<1>3. s.k \in 1..3
  BY <1>2
<1> HIDE DEF s, v
<1> QED
  BY <1>1, <1>2, <1>3 DEF RouterOK, PasoRouter, s

(* Where start_connections goes on, INIT is at the front of the queue.     *)
LEMMA VecinoEnCurso ==
  ASSUME Tipos, NEW n \in Node, PasoVecino(n), NEW r, r.paso \in {"vecino", "nombre"}
  PROVE  EnCurso(r, routerEvents[n])
<1>1. EnCurso(router[n], routerEvents[n])
  BY TiposDe
<1>2. routerEvents[n] # <<>> /\ Head(routerEvents[n]).id = "INIT"
  BY <1>1 DEF PasoVecino, AtiendeRouter, EventoRouter, EnCurso
<1> QED
  BY <1>2 DEF EnCurso

LEMMA ListenerOtro ==
  ASSUME Tipos, NEW n \in Node, NEW id, NEW fd, PosteaListener(n, id, fd),
         id \in {"LS_ADD_SOCKET", "LS_ADD_SOCKET_P2P"} => fd \in Nat
  PROVE  Listeners'
<1> DEFINE ev == [id |-> id, fd |-> fd]
           l == [listener[n] EXCEPT !.events = Append(@, ev)]
<1>1. EvListenerOK(ev)
  BY DEF EvListenerOK
<1>2. listener' = [listener EXCEPT ![n] = l]
  BY DEF PosteaListener
<1> HIDE DEF ev
<1>3. ListenerOK(l)
  BY <1>1, TiposDe, ListenerAvisado
<1> HIDE DEF l
<1> QED
  BY <1>2, <1>3, TiposDe, ListenerDeUno

LEMMA ConexionesPasan ==
  ASSUME Tipos, NEW n \in Node
  PROVE  /\ vecino_conectado(n) => Resto'
         /\ try_connection(n) => Resto'
         /\ try_connection_nombre(n) => Resto'
         /\ start_connections(n) => Resto'
<1>1. /\ RouterOK(router[n]) /\ ColaOK(routerEvents[n])
      /\ EnCurso(router[n], routerEvents[n])
      /\ routerEvents = [routerEvents EXCEPT ![n] = routerEvents[n]]
      /\ Libre(tcp, n) \in Nat
  BY TiposDe, LibreEs
<1>2. router[n].k \in 1..3 /\ (router[n].k <= 2 => router[n].k \in 1..2)
  BY <1>1 DEF RouterOK
<1>3. ASSUME NEW fd \in Int, router[n].k \in 1..2, PasoVecino(n),
             router' = [router EXCEPT ![n] = SiguienteVecino(router[n], fd)],
             UNCHANGED <<routerEvents, listener, en_operacion, vivo>>
      PROVE  Resto'
  <2>1. /\ RouterOK(SiguienteVecino(router[n], fd))
        /\ SiguienteVecino(router[n], fd).paso = "vecino"
    BY <1>1, <1>3, SiguienteOK
  <2>2. EnCurso(SiguienteVecino(router[n], fd), routerEvents[n])
    BY <1>3, <2>1, VecinoEnCurso
  <2>3. Routers' /\ Colas' /\ Cursos'
    BY <1>1, <1>3, <2>1, <2>2, RouterPasa
  <2> QED
    BY <1>3, <2>3, TiposDe, Quietos DEF Resto
<1>4. ASSUME vecino_conectado(n)
      PROVE  Resto'
  <2> DEFINE fd == router[n].vecino[router[n].k]
  <2>1. fd \in Int /\ router[n].k \in 1..2
    BY <1>1, <1>2, <1>4 DEF RouterOK, vecino_conectado
  <2>2. /\ PasoVecino(n)
        /\ router' = [router EXCEPT ![n] = SiguienteVecino(router[n], fd)]
        /\ UNCHANGED <<routerEvents, listener, en_operacion, vivo>>
    BY <1>4 DEF vecino_conectado, logicVars
  <2>3. PICK x \in Int : router' = [router EXCEPT ![n] = SiguienteVecino(router[n], x)]
    BY <2>1, <2>2
  <2> QED
    BY <1>3, <2>1, <2>2, <2>3
<1>5. ASSUME try_connection(n)
      PROVE  Resto'
  <2>1. PasoVecino(n) /\ router[n].k \in 1..2
        /\ UNCHANGED <<routerEvents, listener, en_operacion, vivo>>
    BY <1>2, <1>5 DEF try_connection, logicVars
  <2>2. CASE router' = [router EXCEPT ![n] = SiguienteVecino(@, SOCK_ERRONEO)]
    <3>1. SOCK_ERRONEO \in Int
      BY DEF SOCK_ERRONEO
    <3>2. router' = [router EXCEPT ![n] = SiguienteVecino(router[n], SOCK_ERRONEO)]
      BY <2>2
    <3> QED
      BY <1>3, <2>1, <3>1, <3>2
  <2>3. CASE router' = [router EXCEPT ![n].paso = "nombre", ![n].fd = Libre(tcp, n)]
    <3> DEFINE fd == Libre(tcp, n)
               r == [router[n] EXCEPT !.paso = "nombre", !.fd = fd]
    <3>1. router' = [router EXCEPT ![n] = r]
      BY <2>3, TiposDe DEF Routers
    <3> HIDE DEF fd
    <3>2. RouterOK(r) /\ r.paso = "nombre"
      BY <1>1, <2>1 DEF RouterOK, PasoRouter, fd
    <3> HIDE DEF r
    <3>3. EnCurso(r, routerEvents[n])
      BY <2>1, <3>2, VecinoEnCurso
    <3>4. Routers' /\ Colas' /\ Cursos'
      BY <1>1, <2>1, <3>1, <3>2, <3>3, RouterPasa
    <3> QED
      BY <2>1, <3>4, TiposDe, Quietos DEF Resto
  <2> QED
    BY <1>5, <2>2, <2>3 DEF try_connection
<1>6. ASSUME try_connection_nombre(n)
      PROVE  Resto'
  <2> DEFINE fd == router[n].fd
             ev == [id |-> "RT_ADD_NODO_CLIENTE", nodo |-> NombreLeido(n, fd),
                    fd |-> fd]
             r == SiguienteVecino(router[n], fd)
             q == Append(routerEvents[n], ev)
  <2>1. router[n].paso = "nombre"
    BY <1>6 DEF try_connection_nombre
  <2>2. fd \in Nat /\ router[n].k \in 1..2
    BY <1>1, <2>1 DEF RouterOK
  <2>3. CASE RecvMata(n, fd)
    BY <2>3, RecvMataPasa
  <2>4. CASE /\ PosteaListener(n, "LS_ADD_SOCKET", fd)
             /\ routerEvents' = [routerEvents EXCEPT ![n] = Append(@, ev)]
             /\ router' = [router EXCEPT ![n] = SiguienteVecino(@, fd)]
             /\ UNCHANGED <<en_operacion, vivo>>
    <3>1. EvRouterOK(ev)
      BY <2>2 DEF EvRouterOK
    <3>2. /\ routerEvents' = [routerEvents EXCEPT ![n] = q]
          /\ router' = [router EXCEPT ![n] = r]
      BY <2>4
    <3>3. Listeners'
      BY <2>2, <2>4, ListenerOtro
    <3> HIDE DEF ev, fd
    <3>4. ColaOK(q)
      BY <1>1, <3>1, ColaCrece
    <3>5. RouterOK(r) /\ r.paso = "vecino"
      BY <1>1, <2>2, SiguienteOK
    <3>6. EnCurso(r, routerEvents[n])
      BY <1>1, <2>1, <3>5 DEF EnCurso
    <3>7. EnCurso(r, q)
      BY <1>1, <3>6, ColaCrece
    <3> HIDE DEF r, q
    <3>8. Routers' /\ Colas' /\ Cursos'
      BY <3>2, <3>4, <3>5, <3>7, RouterPasa
    <3> QED
      BY <2>4, <3>3, <3>8, TiposDe, Quietos DEF Resto
  <2> QED
    BY <1>6, <2>3, <2>4 DEF try_connection_nombre
<1>7. ASSUME start_connections(n)
      PROVE  Resto'
  <2>1. /\ router[n].paso = "vecino"
        /\ UNCHANGED <<listener, en_operacion, vivo>>
    BY <1>7 DEF start_connections
  <2>2. /\ routerEvents[n] # <<>> /\ ColaOK(Tail(routerEvents[n]))
        /\ Tail(routerEvents[n]) \o <<>> = Tail(routerEvents[n])
    BY <1>1, <2>1, ColaMengua DEF EnCurso
  <2>3. CASE /\ router[n].intentos > 0
             /\ router' = [router EXCEPT ![n].paso = "libre", ![n].k = 1,
                                         ![n].intentos = @ - 1]
             /\ FinRouter(n, <<[id |-> "INIT"]>>)
    <3> DEFINE r == [router[n] EXCEPT !.paso = "libre", !.k = 1, !.intentos = @ - 1]
               q == Tail(routerEvents[n]) \o <<[id |-> "INIT"]>>
    <3>1. /\ routerEvents' = [routerEvents EXCEPT ![n] = q]
          /\ router' = [router EXCEPT ![n] = r]
      BY <2>3, TiposDe DEF FinRouter, Routers
    <3>2. router[n].intentos - 1 \in 0..Intentos
      BY <1>1, <2>3, ConexionesAssumption DEF RouterOK
    <3>3. RouterOK(r) /\ r.paso = "libre"
      BY <1>1, <3>2 DEF RouterOK, PasoRouter
    <3>4. ColaOK(q)
      <4> DEFINE ev == [id |-> "INIT"]
                 s == Tail(routerEvents[n])
      <4>1. EvRouterOK(ev)
        BY DEF EvRouterOK
      <4> HIDE DEF ev, s
      <4>2. EsSeq(s) /\ EsSeq(<<ev>>) /\ DOMAIN <<ev>> = {1} /\ <<ev>>[1] = ev
        BY <2>2, SeqCortas DEF ColaOK, s
      <4>3. EsSeq(s \o <<ev>>)
            /\ \A i \in DOMAIN (s \o <<ev>>) :
                 \/ i \in DOMAIN s /\ (s \o <<ev>>)[i] = s[i]
                 \/ (s \o <<ev>>)[i] = ev
        BY <4>2, SeqJunta
      <4>4. ColaOK(s \o <<ev>>)
        BY <2>2, <4>1, <4>3 DEF ColaOK, s
      <4> QED
        BY <4>4 DEF s, ev
    <3>5. EnCurso(r, q)
      BY <3>3 DEF EnCurso
    <3> HIDE DEF r, q
    <3>6. Routers' /\ Colas' /\ Cursos'
      BY <3>1, <3>3, <3>4, <3>5, RouterPasa
    <3> QED
      BY <2>1, <3>6, TiposDe, Quietos DEF Resto
  <2>4. CASE \E m : /\ router' = [router EXCEPT ![n].paso = "libre", ![n].k = 1,
                                    ![n].show_menu = TRUE, ![n].menus = m]
                    /\ FinRouter(n, <<>>)
    <3>1. PICK m : /\ router' = [router EXCEPT ![n].paso = "libre", ![n].k = 1,
                                   ![n].show_menu = TRUE, ![n].menus = m]
                   /\ FinRouter(n, <<>>)
      BY <2>4
    <3> DEFINE r == [router[n] EXCEPT !.paso = "libre", !.k = 1,
                                      !.show_menu = TRUE, !.menus = m]
    <3>2. router' = [router EXCEPT ![n] = r]
      BY <3>1, TiposDe DEF Routers
    <3>3. RouterOK(r) /\ r.paso = "libre"
      BY <1>1 DEF RouterOK, PasoRouter
    <3> HIDE DEF r
    <3>4. Routers' /\ Colas' /\ Cursos'
      BY <2>2, <3>1, <3>2, <3>3, AtendidoPasa
    <3> QED
      BY <2>1, <3>4, TiposDe, Quietos DEF Resto
  <2>5. CASE /\ router' = [router EXCEPT ![n].paso = "libre", ![n].k = 1,
                             ![n].show_menu = TRUE,
                             ![n].menus = IF router[n].show_menu THEN @ ELSE @ + 1]
             /\ FinRouter(n, <<>>)
    <3> DEFINE m == IF router[n].show_menu THEN router[n].menus
                    ELSE router[n].menus + 1
    <3>1. router' = [router EXCEPT ![n].paso = "libre", ![n].k = 1,
                                   ![n].show_menu = TRUE, ![n].menus = m]
      BY <2>5
    <3> QED
      BY <2>4, <2>5, <3>1
  <2> QED
    BY <1>7, <2>3, <2>5 DEF start_connections
<1> QED
  BY <1>4, <1>5, <1>6, <1>7

LEMMA P2PPasan ==
  ASSUME Tipos, NEW n \in Node
  PROVE  /\ start_p2p_connect(n) => Resto'
         /\ start_p2p_connect_nombre(n) => Resto'
         /\ start_p2p_connect_opera(n) => Resto'
         /\ start_p2p_connect_avisa(n) => Resto'
         /\ start_p2p_connect_buy(n) => Resto'
         /\ close_p2p_connect_avisa(n) => Resto'
         /\ close_p2p_connect(n) => Resto'
         /\ close_p2p_connect_fin(n) => Resto'
<1>1. /\ RouterOK(router[n]) /\ ColaOK(routerEvents[n])
      /\ EnCurso(router[n], routerEvents[n])
      /\ routerEvents = [routerEvents EXCEPT ![n] = routerEvents[n]]
      /\ Libre(tcp, n) \in Nat /\ SOCK_ERRONEO \in Int
  BY TiposDe, LibreEs DEF SOCK_ERRONEO
<1>2. /\ router[n].paso = "libre" => RouterOK([router[n] EXCEPT !.p2p = SOCK_ERRONEO])
      /\ [router[n] EXCEPT !.p2p = SOCK_ERRONEO].paso = router[n].paso
  BY <1>1, RouterCambia
<1>3. ASSUME router' = [router EXCEPT ![n].p2p = SOCK_ERRONEO]
      PROVE  router' = [router EXCEPT ![n] = [router[n] EXCEPT !.p2p = SOCK_ERRONEO]]
  BY <1>3
<1>4. ASSUME start_p2p_connect(n)
      PROVE  Resto'
  <2>1. /\ routerEvents[n] # <<>> /\ Head(routerEvents[n]).id = "RT_START_P2P_CONNECT"
        /\ router[n].paso = "libre"
        /\ UNCHANGED <<listener, en_operacion, vivo>>
    BY <1>4 DEF start_p2p_connect, AtiendeRouter, EventoRouter
  <2>2. CASE /\ router' = [router EXCEPT ![n].p2p = SOCK_ERRONEO]
             /\ FinRouter(n, <<>>)
    <3>1. Routers' /\ Colas' /\ Cursos'
      BY <1>2, <1>3, <2>1, <2>2, AtendidoPasa
    <3> QED
      BY <2>1, <3>1, TiposDe, Quietos DEF Resto
  <2>3. CASE /\ router' = [router EXCEPT ![n].paso = "p2p", ![n].fd = Libre(tcp, n)]
             /\ UNCHANGED routerEvents
    <3> DEFINE fd == Libre(tcp, n)
               r == [router[n] EXCEPT !.paso = "p2p", !.fd = fd]
    <3>1. router' = [router EXCEPT ![n] = r]
      BY <2>3, TiposDe DEF Routers
    <3> HIDE DEF fd
    <3>2. RouterOK(r) /\ r.paso = "p2p"
      BY <1>1 DEF RouterOK, PasoRouter, fd
    <3> HIDE DEF r
    <3>3. EnCurso(r, routerEvents[n])
      BY <2>1, <3>2 DEF EnCurso
    <3>4. Routers' /\ Colas' /\ Cursos'
      BY <1>1, <2>3, <3>1, <3>2, <3>3, RouterPasa
    <3> QED
      BY <2>1, <3>4, TiposDe, Quietos DEF Resto
  <2> QED
    BY <1>4, <2>2, <2>3 DEF start_p2p_connect
<1>5. ASSUME start_p2p_connect_nombre(n)
      PROVE  Resto'
  <2> DEFINE r == [router[n] EXCEPT !.paso = "p2p_nombre"]
  <2>1. /\ router[n].paso = "p2p"
        /\ router' = [router EXCEPT ![n] = r]
        /\ UNCHANGED <<routerEvents, listener, en_operacion, vivo>>
    BY <1>5 DEF start_p2p_connect_nombre, logicVars
  <2>2. RouterOK(r) /\ r.paso = "p2p_nombre"
    BY <1>1, <2>1 DEF RouterOK, PasoRouter
  <2> HIDE DEF r
  <2>3. EnCurso(r, routerEvents[n])
    BY <1>1, <2>1, <2>2 DEF EnCurso
  <2>4. Routers' /\ Colas' /\ Cursos'
    BY <1>1, <2>1, <2>2, <2>3, RouterPasa
  <2> QED
    BY <2>1, <2>4, TiposDe, Quietos DEF Resto
<1>6. ASSUME start_p2p_connect_opera(n)
      PROVE  Resto'
  <2> DEFINE fd == router[n].fd
             r == [router[n] EXCEPT !.p2p = fd, !.paso = "p2p_opera"]
  <2>1. router[n].paso = "p2p_nombre"
    BY <1>6 DEF start_p2p_connect_opera
  <2>2. CASE RecvMata(n, fd)
    BY <2>2, RecvMataPasa
  <2>3. CASE /\ router' = [router EXCEPT ![n].p2p = fd, ![n].paso = "p2p_opera"]
             /\ en_operacion' = [en_operacion EXCEPT ![n] = TRUE]
             /\ UNCHANGED <<routerEvents, listener, vivo>>
    <3>1. router' = [router EXCEPT ![n] = r]
      BY <2>3, TiposDe DEF Routers
    <3>2. RouterOK(r) /\ r.paso = "p2p_opera"
      BY <1>1, <2>1 DEF RouterOK, PasoRouter
    <3> HIDE DEF r
    <3>3. EnCurso(r, routerEvents[n])
      BY <1>1, <2>1, <3>2 DEF EnCurso
    <3>4. Routers' /\ Colas' /\ Cursos'
      BY <1>1, <2>3, <3>1, <3>2, <3>3, RouterPasa
    <3>5. Banderas'
      BY <2>3, OperacionPasa
    <3> QED
      BY <2>3, <3>4, <3>5, TiposDe, Quietos DEF Resto
  <2> QED
    BY <1>6, <2>2, <2>3 DEF start_p2p_connect_opera, logicVars
<1>7. ASSUME start_p2p_connect_avisa(n)
      PROVE  Resto'
  <2> DEFINE r == [router[n] EXCEPT !.paso = "p2p_buy"]
  <2>1. /\ router[n].paso = "p2p_opera"
        /\ PosteaListener(n, "LS_ADD_SOCKET_P2P", router[n].p2p)
        /\ router' = [router EXCEPT ![n] = r]
        /\ UNCHANGED <<routerEvents, en_operacion, vivo>>
    BY <1>7 DEF start_p2p_connect_avisa, logicVars
  <2>2. router[n].p2p \in Nat /\ RouterOK(r) /\ r.paso = "p2p_buy"
    BY <1>1, <2>1 DEF RouterOK, PasoRouter
  <2> HIDE DEF r
  <2>3. EnCurso(r, routerEvents[n])
    BY <1>1, <2>1, <2>2 DEF EnCurso
  <2>4. Routers' /\ Colas' /\ Cursos'
    BY <1>1, <2>1, <2>2, <2>3, RouterPasa
  <2>5. Listeners'
    BY <2>1, <2>2, ListenerOtro
  <2> QED
    BY <2>1, <2>4, <2>5, TiposDe, Quietos DEF Resto
<1>8. ASSUME start_p2p_connect_buy(n)
      PROVE  Resto'
  <2> DEFINE r == [router[n] EXCEPT !.paso = "libre", !.fd = SOCK_ERRONEO]
  <2>1. router[n].paso = "p2p_buy" /\ \E e : EnviaYListo(n, e, r)
    BY <1>8 DEF start_p2p_connect_buy
  <2>2. RouterOK(r) /\ r.paso = "libre"
    BY <1>1 DEF RouterOK, PasoRouter
  <2>3. routerEvents[n] # <<>>
    BY <1>1, <2>1 DEF EnCurso
  <2> HIDE DEF r
  <2> QED
    BY <2>1, <2>2, <2>3, EnviaPasa
<1>9. ASSUME close_p2p_connect_avisa(n)
      PROVE  Resto'
  <2> DEFINE r == [router[n] EXCEPT !.paso = "p2p_cierra"]
  <2>1. /\ routerEvents[n] # <<>> /\ Head(routerEvents[n]).id = "RT_CLOSE_P2P_CONNECT"
        /\ PosteaListener(n, "LS_RM_SOCKET_P2P", router[n].p2p)
        /\ router' = [router EXCEPT ![n] = r]
        /\ UNCHANGED <<routerEvents, en_operacion, vivo>>
    BY <1>9 DEF close_p2p_connect_avisa, logicVars, AtiendeRouter, EventoRouter
  <2>2. RouterOK(r) /\ r.paso = "p2p_cierra"
    BY <1>1 DEF RouterOK, PasoRouter
  <2> HIDE DEF r
  <2>3. EnCurso(r, routerEvents[n])
    BY <2>1, <2>2 DEF EnCurso
  <2>4. Routers' /\ Colas' /\ Cursos'
    BY <1>1, <2>1, <2>2, <2>3, RouterPasa
  <2>5. Listeners'
    BY <2>1, ListenerOtro
  <2> QED
    BY <2>1, <2>4, <2>5, TiposDe, Quietos DEF Resto
<1>10. ASSUME close_p2p_connect(n)
       PROVE  Resto'
  <2> DEFINE r == [router[n] EXCEPT !.p2p = SOCK_ERRONEO, !.paso = "p2p_fin"]
  <2>1. /\ router[n].paso = "p2p_cierra"
        /\ router' = [router EXCEPT ![n] = r]
        /\ UNCHANGED <<routerEvents, listener, en_operacion, vivo>>
    BY <1>10, TiposDe DEF close_p2p_connect, logicVars, Routers
  <2>2. RouterOK(r) /\ r.paso = "p2p_fin"
    BY <1>1 DEF RouterOK, PasoRouter
  <2> HIDE DEF r
  <2>3. EnCurso(r, routerEvents[n])
    BY <1>1, <2>1, <2>2 DEF EnCurso
  <2>4. Routers' /\ Colas' /\ Cursos'
    BY <1>1, <2>1, <2>2, <2>3, RouterPasa
  <2> QED
    BY <2>1, <2>4, TiposDe, Quietos DEF Resto
<1>11. ASSUME close_p2p_connect_fin(n)
       PROVE  Resto'
  <2> DEFINE r == [router[n] EXCEPT !.paso = "libre"]
  <2>1. /\ router[n].paso = "p2p_fin"
        /\ router' = [router EXCEPT ![n] = r]
        /\ FinRouter(n, <<>>)
        /\ en_operacion' = [en_operacion EXCEPT ![n] = FALSE]
        /\ UNCHANGED <<listener, vivo>>
    BY <1>11 DEF close_p2p_connect_fin
  <2>2. RouterOK(r) /\ r.paso = "libre"
    BY <1>1 DEF RouterOK, PasoRouter
  <2>3. routerEvents[n] # <<>>
    BY <1>1, <2>1 DEF EnCurso
  <2> HIDE DEF r
  <2>4. Routers' /\ Colas' /\ Cursos'
    BY <2>1, <2>2, <2>3, AtendidoPasa
  <2>5. Banderas'
    BY <2>1, OperacionPasa
  <2> QED
    BY <2>1, <2>4, <2>5, TiposDe, Quietos DEF Resto
<1> QED
  BY <1>4, <1>5, <1>6, <1>7, <1>8, <1>9, <1>10, <1>11

LEMMA MapasPasan ==
  ASSUME Tipos, NEW n \in Node
  PROVE  /\ set_socket_p2p(n) => Resto'
         /\ unset_socket_p2p(n) => Resto'
         /\ add_nodo_servidor(n) => Resto'
         /\ add_nodo_cliente(n) => Resto'
         /\ rm_nodo_servidor(n) => Resto'
<1> DEFINE r == router[n]
<1>1. /\ RouterOK(r) /\ ColaOK(routerEvents[n])
      /\ SOCK_ERRONEO \in Int
      /\ r.servidor \in [DOMAIN r.servidor -> Nat]
      /\ r.cliente \in [DOMAIN r.cliente -> Nat]
  BY TiposDe DEF RouterOK, SOCK_ERRONEO
<1>2. ASSUME NEW id, AtiendeRouter(n, id)
      PROVE  /\ r.paso = "libre" /\ routerEvents[n] # <<>>
             /\ EvRouterOK(Evento(n)) /\ Evento(n).id = id
  <2>1. r.paso = "libre" /\ routerEvents[n] # <<>> /\ Evento(n).id = id
    BY <1>2 DEF AtiendeRouter, EventoRouter, Evento
  <2> QED
    BY <1>1, <2>1, ColaMengua DEF Evento
<1>3. ASSUME set_socket_p2p(n)
      PROVE  Resto'
  <2> DEFINE x == Evento(n).fd
  <2>1. r.paso = "libre" /\ routerEvents[n] # <<>> /\ x \in Int
    BY <1>2, <1>3 DEF set_socket_p2p, EvRouterOK
  <2>2. Recuerda(n, [r EXCEPT !.p2p = x])
    BY <1>3 DEF set_socket_p2p
  <2> HIDE DEF x, r
  <2> QED
    BY <1>1, <2>1, <2>2, RouterCambia, RecuerdaPasa
<1>4. ASSUME unset_socket_p2p(n)
      PROVE  Resto'
  <2>1. r.paso = "libre" /\ routerEvents[n] # <<>>
    BY <1>2, <1>4 DEF unset_socket_p2p
  <2>2. Recuerda(n, [r EXCEPT !.p2p = SOCK_ERRONEO])
    BY <1>4 DEF unset_socket_p2p
  <2> HIDE DEF r
  <2> QED
    BY <1>1, <2>1, <2>2, RouterCambia, RecuerdaPasa
<1>5. ASSUME add_nodo_servidor(n)
      PROVE  Resto'
  <2> DEFINE f == Pon(r.servidor, Evento(n).nodo, Evento(n).fd)
  <2>1. r.paso = "libre" /\ routerEvents[n] # <<>> /\ Evento(n).fd \in Nat
    BY <1>2, <1>5 DEF add_nodo_servidor, EvRouterOK
  <2>2. Recuerda(n, [r EXCEPT !.servidor = f]) \/ Muere(n, tcp)
    BY <1>5 DEF add_nodo_servidor
  <2>3. f \in [DOMAIN f -> Nat]
    BY <1>1, <2>1, MapaCambia
  <2> HIDE DEF f, r
  <2> QED
    BY <1>1, <2>1, <2>2, <2>3, RouterCambia, RecuerdaPasa, MuerePasa
<1>6. ASSUME add_nodo_cliente(n)
      PROVE  Resto'
  <2> DEFINE f == Pon(r.cliente, Evento(n).nodo, Evento(n).fd)
  <2>1. r.paso = "libre" /\ routerEvents[n] # <<>> /\ Evento(n).fd \in Nat
    BY <1>2, <1>6 DEF add_nodo_cliente, EvRouterOK
  <2>2. Recuerda(n, [r EXCEPT !.cliente = f]) \/ Muere(n, tcp)
    BY <1>6 DEF add_nodo_cliente
  <2>3. f \in [DOMAIN f -> Nat]
    BY <1>1, <2>1, MapaCambia
  <2> HIDE DEF f, r
  <2> QED
    BY <1>1, <2>1, <2>2, <2>3, RouterCambia, RecuerdaPasa, MuerePasa
<1>7. ASSUME rm_nodo_servidor(n)
      PROVE  Resto'
  <2> DEFINE S == NombreDe(r.servidor, Evento(n).fd)
             f == Restrict(r.servidor, DOMAIN r.servidor \ S)
  <2>1. r.paso = "libre" /\ routerEvents[n] # <<>>
    BY <1>2, <1>7 DEF rm_nodo_servidor
  <2>2. Recuerda(n, [r EXCEPT !.servidor = f])
    BY <1>7 DEF rm_nodo_servidor
  <2>3. f \in [DOMAIN f -> Nat]
    BY <1>1, MapaCambia
  <2> HIDE DEF f, r
  <2> QED
    BY <1>1, <2>1, <2>2, <2>3, RouterCambia, RecuerdaPasa
<1> QED
  BY <1>3, <1>4, <1>5, <1>6, <1>7

LEMMA RouterStepPasa ==
  ASSUME Tipos, NEW n \in Node, RouterStep(n)
  PROVE  Resto'
  BY EnviosPasan, ConexionesPasan, P2PPasan, MapasPasan DEF RouterStep

(* The Listener goes on with its queue.                                    *)
LEMMA VueltaOK ==
  ASSUME NEW l, ListenerOK(l), l.events # <<>>
  PROVE  LET q == Tail(l.events)
             v == Append(q, [id |-> "LOOP"])
         IN  /\ FinListener(l) = [l EXCEPT !.events = q]
             /\ OtraVuelta(l) = [l EXCEPT !.events = v]
             /\ EsSeq(q) /\ \A i \in DOMAIN q : EvListenerOK(q[i])
             /\ EsSeq(v) /\ \A i \in DOMAIN v : EvListenerOK(v[i])
<1> DEFINE q == Tail(l.events)
           ev == [id |-> "LOOP"]
           v == Append(q, ev)
<1>1. EsSeq(l.events) /\ \A i \in DOMAIN l.events : EvListenerOK(l.events[i])
  BY DEF ListenerOK
<1>2. EsSeq(q) /\ \A i \in DOMAIN q : EvListenerOK(q[i])
  BY <1>1, SeqTail
<1>3. EvListenerOK(ev)
  BY DEF EvListenerOK
<1>4. /\ FinListener(l) = [l EXCEPT !.events = q]
      /\ OtraVuelta(l) = [l EXCEPT !.events = v]
  BY DEF FinListener, OtraVuelta
<1> HIDE DEF q, ev
<1>5. EsSeq(v) /\ \A i \in DOMAIN v : EvListenerOK(v[i])
  BY <1>2, <1>3, SeqAppend
<1> QED
  BY <1>2, <1>4, <1>5 DEF q, ev

(* A Listener that is between events: its queue, what it watches, and its  *)
(* direct connection change.                                               *)
LEMMA LibreOK ==
  ASSUME NEW l, ListenerOK(l), l.paso = "libre", NEW q, EsSeq(q),
         \A i \in DOMAIN q : EvListenerOK(q[i]), NEW M \in SUBSET Nat, NEW I, NEW x
  PROVE  /\ ListenerOK([l EXCEPT !.events = q])
         /\ ListenerOK([l EXCEPT !.events = q, !.master = M])
         /\ ListenerOK([l EXCEPT !.events = q, !.master = M, !.p2p = x])
         /\ ListenerOK([l EXCEPT !.events = q, !.master = M, !.ip = I])
         /\ ListenerOK([l EXCEPT !.events = q, !.servSock = x, !.master = M])
  BY DEF ListenerOK, PasoListener

LEMMA PosteadoPasa ==
  ASSUME Tipos, NEW n \in Node, NEW ev, EvRouterOK(ev), UNCHANGED router,
         routerEvents' = [routerEvents EXCEPT ![n] = Append(@, ev)]
  PROVE  Routers' /\ Colas' /\ Cursos'
<1> DEFINE q == Append(routerEvents[n], ev)
<1>1. /\ RouterOK(router[n]) /\ ColaOK(routerEvents[n])
      /\ EnCurso(router[n], routerEvents[n])
      /\ router' = [router EXCEPT ![n] = router[n]]
  BY TiposDe
<1>2. ColaOK(q) /\ EnCurso(router[n], q)
  BY <1>1, ColaCrece
<1>3. routerEvents' = [routerEvents EXCEPT ![n] = q]
  OBVIOUS
<1> HIDE DEF q
<1> QED
  BY <1>1, <1>2, <1>3, RouterPasa

(* A step of the Listener that tells the Router nothing.                   *)
LEMMA ListenerPasa ==
  ASSUME Tipos, NEW n \in Node, NEW l, ListenerOK(l),
         listener' = [listener EXCEPT ![n] = l],
         UNCHANGED <<router, routerEvents, en_operacion, vivo>>
  PROVE  Resto'
<1>1. Listeners'
  BY TiposDe, ListenerDeUno
<1> QED
  BY <1>1, TiposDe, Quietos DEF Resto

LEMMA SaludadoPasa ==
  ASSUME Tipos, NEW n \in Node, NEW ev, Saludado(n, ev), EvRouterOK(ev),
         listener[n].paso \in {"nombre", "p2p_nombre"}
  PROVE  Resto'
<1> DEFINE s == listener[n].listos \ {listener[n].servSock}
           l == [listener[n] EXCEPT !.paso = "mirando", !.newfd = SOCK_ERRONEO,
                                    !.listos = s]
<1>1. CASE RecvMata(n, listener[n].newfd)
  BY <1>1, RecvMataPasa
<1>2. CASE /\ listener' = [listener EXCEPT
                ![n].paso = "mirando", ![n].newfd = SOCK_ERRONEO,
                ![n].listos = @ \ {listener[n].servSock}]
           /\ routerEvents' = [routerEvents EXCEPT ![n] = Append(@, ev)]
           /\ UNCHANGED <<router, en_operacion, vivo>>
  <2>1. listener' = [listener EXCEPT ![n] = l]
    BY <1>2, TiposDe DEF Listeners
  <2>2. ListenerOK(listener[n]) /\ s \subseteq listener[n].listos
    BY TiposDe
  <2> HIDE DEF s
  <2>3. ListenerOK(l)
    BY <2>2 DEF ListenerOK, PasoListener
  <2> HIDE DEF l
  <2>4. Routers' /\ Colas' /\ Cursos'
    BY <1>2, PosteadoPasa
  <2>5. Listeners'
    BY <2>1, <2>3, TiposDe, ListenerDeUno
  <2> QED
    BY <1>2, <2>4, <2>5, TiposDe, Quietos DEF Resto
<1> QED
  BY <1>1, <1>2 DEF Saludado, listenerAparte

LEMMA EscuchaPasa ==
  ASSUME Tipos, NEW n \in Node
  PROVE  /\ prepare_connections(n) => Resto'
         /\ select(n) => Resto'
         /\ client_connections_admin_fin(n) => Resto'
         /\ accept(n) => Resto'
<1> DEFINE l == listener[n]
           q == Tail(l.events)
           v == Append(q, [id |-> "LOOP"])
<1>1. /\ ListenerOK(l) /\ Libre(tcp, n) \in Nat
      /\ listener = [m \in Node |-> listener[m]]
  BY TiposDe, LibreEs DEF Listeners
<1>2. l.events # <<>> =>
        /\ FinListener(l) = [l EXCEPT !.events = q]
        /\ OtraVuelta(l) = [l EXCEPT !.events = v]
        /\ EsSeq(q) /\ \A i \in DOMAIN q : EvListenerOK(q[i])
        /\ EsSeq(v) /\ \A i \in DOMAIN v : EvListenerOK(v[i])
  BY <1>1, VueltaOK
<1>3. ASSUME prepare_connections(n)
      PROVE  Resto'
  <2> DEFINE x == Libre(tcp, n)
             h == [l EXCEPT !.events = v, !.servSock = x, !.master = {x}]
  <2>1. l.events # <<>> /\ l.paso = "libre"
    BY <1>3 DEF prepare_connections, EventoListener
  <2>2. listener' = [listener EXCEPT ![n] =
          [OtraVuelta(l) EXCEPT !.servSock = x, !.master = {x}]]
        /\ UNCHANGED <<router, routerEvents, en_operacion, vivo>>
    BY <1>3 DEF prepare_connections, listenerAparte
  <2>3. OtraVuelta(l) = [l EXCEPT !.events = v]
    BY <1>2, <2>1
  <2> HIDE DEF x, v, l
  <2>4. [OtraVuelta(l) EXCEPT !.servSock = x, !.master = {x}] = h
    BY <2>3
  <2>5. {x} \in SUBSET Nat
    BY <1>1 DEF x
  <2>6. ListenerOK(h)
    BY <1>1, <1>2, <2>1, <2>5, LibreOK
  <2> HIDE DEF h
  <2> QED
    BY <2>2, <2>4, <2>6, ListenerPasa
<1>4. ASSUME select(n)
      PROVE  Resto'
  <2>1. /\ l.events # <<>> /\ l.paso = "libre" /\ Head(l.events).id = "LOOP"
        /\ UNCHANGED <<router, routerEvents, en_operacion, vivo>>
    BY <1>4 DEF select, EventoListener, listenerAparte
  <2>2. CASE listener' = [listener EXCEPT ![n] = FinListener(@)]
    <3>1. listener' = [listener EXCEPT ![n] = [l EXCEPT !.events = q]]
      BY <1>2, <2>1, <2>2
    <3>2. ListenerOK([l EXCEPT !.events = q])
      BY <1>1, <1>2, <2>1, LibreOK
    <3> QED
      BY <2>1, <3>1, <3>2, ListenerPasa
  <2>3. CASE listener' = [listener EXCEPT ![n] = OtraVuelta(@)]
    <3>1. listener' = [listener EXCEPT ![n] = [l EXCEPT !.events = v]]
      BY <1>2, <2>1, <2>3
    <3>2. ListenerOK([l EXCEPT !.events = v])
      BY <1>1, <1>2, <2>1, LibreOK
    <3> QED
      BY <2>1, <3>1, <3>2, ListenerPasa
  <2>4. CASE \E s \in SUBSET l.master :
               listener' = [listener EXCEPT ![n].paso = "mirando", ![n].listos = s]
    <3>1. PICK s \in SUBSET l.master :
                 listener' = [listener EXCEPT ![n].paso = "mirando", ![n].listos = s]
      BY <2>4
    <3> DEFINE h == [l EXCEPT !.paso = "mirando", !.listos = s]
    <3>2. listener' = [listener EXCEPT ![n] = h]
      BY <1>1, <3>1
    <3>3. ListenerOK(h)
      BY <1>1, <2>1 DEF ListenerOK, PasoListener
    <3> HIDE DEF h
    <3> QED
      BY <2>1, <3>2, <3>3, ListenerPasa
  <2>5. \A s : {fd \in l.master \cap s : Listo(tcp, n, fd)} \in SUBSET l.master
    OBVIOUS
  <2> QED
    BY <1>4, <2>2, <2>3, <2>4, <2>5 DEF select
<1>5. ASSUME client_connections_admin_fin(n)
      PROVE  Resto'
  <2> DEFINE h == [l EXCEPT !.events = v, !.paso = "libre"]
  <2>1. /\ l.paso = "mirando" /\ l.listos = {}
        /\ listener' = [listener EXCEPT ![n] = [OtraVuelta(l) EXCEPT !.paso = "libre"]]
        /\ UNCHANGED <<router, routerEvents, en_operacion, vivo>>
    BY <1>5 DEF client_connections_admin_fin, listenerAparte
  <2>2. l.events # <<>>
    BY <1>1, <2>1 DEF ListenerOK
  <2>3. OtraVuelta(l) = [l EXCEPT !.events = v]
    BY <1>2, <2>2
  <2> HIDE DEF v, l
  <2>4. [OtraVuelta(l) EXCEPT !.paso = "libre"] = h
    BY <2>3
  <2>5. ListenerOK(h)
    BY <1>1, <1>2, <2>1, <2>2 DEF ListenerOK, PasoListener
  <2> HIDE DEF h
  <2> QED
    BY <2>1, <2>4, <2>5, ListenerPasa
<1>6. ASSUME accept(n)
      PROVE  Resto'
  <2>1. /\ l.paso = "mirando"
        /\ UNCHANGED <<router, routerEvents, en_operacion, vivo>>
    BY <1>6 DEF accept, Mirando, listenerAparte
  <2>2. CASE listener' = [listener EXCEPT ![n].listos = @ \ {Mirado(n)}]
    <3> DEFINE s == l.listos \ {Mirado(n)}
               h == [l EXCEPT !.listos = s]
    <3>1. listener' = [listener EXCEPT ![n] = h]
      BY <1>1, <2>2
    <3>2. s \subseteq l.listos
      OBVIOUS
    <3> HIDE DEF s
    <3>3. ListenerOK(h)
      BY <1>1, <2>1, <3>2 DEF ListenerOK
    <3> HIDE DEF h
    <3> QED
      BY <2>1, <3>1, <3>3, ListenerPasa
  <2>3. CASE listener' = [listener EXCEPT
               ![n].master = @ \cup {Libre(tcp, n)}, ![n].ip = @ \cup {Libre(tcp, n)},
               ![n].cant = @ + 1, ![n].newfd = Libre(tcp, n), ![n].paso = "nombre"]
    <3> DEFINE x == Libre(tcp, n)
               h == [l EXCEPT !.master = @ \cup {x}, !.ip = @ \cup {x},
                              !.cant = @ + 1, !.newfd = x, !.paso = "nombre"]
    <3>1. listener' = [listener EXCEPT ![n] = h]
      BY <1>1, <2>3
    <3>2. x \in Nat
      BY <1>1
    <3> HIDE DEF x
    <3>3. ListenerOK(h)
      BY <1>1, <2>1, <3>2 DEF ListenerOK, PasoListener
    <3> HIDE DEF h
    <3> QED
      BY <2>1, <3>1, <3>3, ListenerPasa
  <2> QED
    BY <1>6, <2>2, <2>3 DEF accept
<1> QED
  BY <1>3, <1>4, <1>5, <1>6

LEMMA SaludosPasan ==
  ASSUME Tipos, NEW n \in Node
  PROVE  /\ accept_nombre(n) => Resto'
         /\ accept_p2p(n) => Resto'
         /\ accept_p2p_nombre(n) => Resto'
<1> DEFINE l == listener[n]
           x == l.newfd
<1>1. ListenerOK(l) /\ listener = [m \in Node |-> listener[m]]
  BY TiposDe DEF Listeners
<1>2. l.paso \in {"nombre", "p2p_opera", "p2p_nombre"} => x \in Nat
  BY <1>1 DEF ListenerOK
<1>3. ASSUME accept_nombre(n)
      PROVE  Resto'
  <2> DEFINE ev == [id |-> "RT_ADD_NODO_SERVIDOR", nodo |-> NombreLeido(n, x),
                    fd |-> x]
  <2>1. l.paso = "nombre"
    BY <1>3 DEF accept_nombre
  <2>2. CASE Saludado(n, ev)
    <3>1. EvRouterOK(ev)
      BY <1>2, <2>1 DEF EvRouterOK
    <3> HIDE DEF ev
    <3> QED
      BY <2>1, <2>2, <3>1, SaludadoPasa
  <2>3. CASE /\ en_operacion' = [en_operacion EXCEPT ![n] = TRUE]
             /\ listener' = [listener EXCEPT ![n].paso = "p2p_opera"]
             /\ UNCHANGED <<router, routerEvents, vivo>>
    <3> DEFINE h == [l EXCEPT !.paso = "p2p_opera"]
    <3>1. listener' = [listener EXCEPT ![n] = h]
      BY <1>1, <2>3
    <3>2. x \in Nat
      BY <1>2, <2>1
    <3> HIDE DEF x
    <3>3. ListenerOK(h)
      BY <1>1, <2>1, <3>2 DEF ListenerOK, PasoListener, x
    <3> HIDE DEF h
    <3>4. Listeners'
      BY <3>1, <3>3, TiposDe, ListenerDeUno
    <3>5. Banderas'
      BY <2>3, OperacionPasa
    <3> QED
      BY <2>3, <3>4, <3>5, TiposDe, Quietos DEF Resto
  <2> QED
    BY <1>3, <2>2, <2>3 DEF accept_nombre, listenerAparte
<1>4. ASSUME accept_p2p_nombre(n)
      PROVE  Resto'
  <2> DEFINE ev == [id |-> "RT_SET_SOCKET_P2P", fd |-> x]
  <2>1. l.paso = "p2p_nombre" /\ Saludado(n, ev)
    BY <1>4 DEF accept_p2p_nombre
  <2>2. EvRouterOK(ev)
    BY <1>2, <2>1 DEF EvRouterOK
  <2> HIDE DEF ev
  <2> QED
    BY <2>1, <2>2, SaludadoPasa
<1>5. ASSUME accept_p2p(n)
      PROVE  Resto'
  <2> DEFINE h == [l EXCEPT !.p2p = x, !.paso = "p2p_nombre"]
  <2>1. /\ l.paso = "p2p_opera"
        /\ listener' = [listener EXCEPT ![n] = h]
        /\ UNCHANGED <<router, routerEvents, en_operacion, vivo>>
    BY <1>1, <1>5 DEF accept_p2p, listenerAparte
  <2>2. ListenerOK(h)
    BY <1>1, <1>2, <2>1 DEF ListenerOK, PasoListener
  <2> HIDE DEF h
  <2> QED
    BY <2>1, <2>2, ListenerPasa
<1> QED
  BY <1>3, <1>4, <1>5

(* A queue to which an event is added, or none.                            *)
LEMMA ColaSigue ==
  ASSUME NEW q, ColaOK(q), NEW t, ColaOK(t)
  PROVE  /\ ColaOK(q \o t)
         /\ \A r : EnCurso(r, q) => EnCurso(r, q \o t)
<1>1. EsSeq(q) /\ EsSeq(t)
  BY DEF ColaOK
<1>2. ColaOK(q \o t)
  <2> DEFINE w == q \o t
  <2>1. /\ EsSeq(w)
        /\ \A i \in DOMAIN w : (i \in DOMAIN q /\ w[i] = q[i])
             \/ (i - Len(q) \in DOMAIN t /\ w[i] = t[i - Len(q)])
    BY <1>1, SeqJunta
  <2> HIDE DEF w
  <2>2. ColaOK(w)
    BY <2>1 DEF ColaOK
  <2> QED
    BY <2>2 DEF w
<1>3. q # <<>> => q \o t # <<>> /\ Head(q \o t) = Head(q)
  <2>1. PICK S, R : q \in Seq(S) /\ t \in Seq(R)
    BY <1>1 DEF EsSeq
  <2>2. q \in Seq(S \cup R) /\ t \in Seq(S \cup R)
    BY <2>1
  <2> QED
    BY <2>2
<1> QED
  BY <1>2, <1>3 DEF EnCurso

LEMMA CierrePasa ==
  ASSUME Tipos, NEW n \in Node, cierre(n)
  PROVE  Resto'
<1> DEFINE l == listener[n]
           i == Mirado(n)
           fin == RecvFin(tcp, n, i)
           t == IF fin /\ i \in l.ip /\ i # l.p2p
                THEN <<[id |-> "RT_RM_NODO_SERVIDOR", fd |-> i]>> ELSE <<>>
           q == routerEvents[n] \o t
           c == IF fin THEN l.cant - 1 ELSE l.cant
           p == IF i = l.p2p THEN "cierre_p2p" ELSE l.paso
           h == [l EXCEPT !.listos = @ \ {i}, !.master = @ \ {i}, !.ip = @ \ {i},
                          !.cant = c, !.paso = p]
<1>1. /\ l.paso = "mirando"
      /\ routerEvents' = [routerEvents EXCEPT ![n] = q]
      /\ UNCHANGED <<router, en_operacion, vivo>>
  BY DEF cierre, Mirando, listenerAparte
<1>2. ListenerOK(l) /\ listener = [m \in Node |-> listener[m]]
  BY TiposDe DEF Listeners
<1>3. listener' = [listener EXCEPT ![n] = h]
  BY <1>2 DEF cierre
<1>4. /\ ColaOK(routerEvents[n]) /\ EnCurso(router[n], routerEvents[n])
      /\ RouterOK(router[n]) /\ router' = [router EXCEPT ![n] = router[n]]
  BY <1>1, TiposDe
<1>5. ColaOK(t)
  <2>1. \A ev : EvRouterOK(ev) => ColaOK(<<ev>>)
    BY SeqCortas DEF ColaOK
  <2>2. EvRouterOK([id |-> "RT_RM_NODO_SERVIDOR", fd |-> i])
    BY DEF EvRouterOK
  <2> QED
    BY <2>1, <2>2, SinCola
<1>6. c \in Int /\ p \in {"mirando", "cierre_p2p"}
  BY <1>1, <1>2 DEF ListenerOK
<1> HIDE DEF t, c, p
<1>7. ColaOK(q) /\ EnCurso(router[n], q)
  BY <1>4, <1>5, ColaSigue
<1> HIDE DEF q, i
<1>8. ListenerOK(h)
  BY <1>1, <1>2, <1>6 DEF ListenerOK, PasoListener
<1> HIDE DEF h
<1>9. Routers' /\ Colas' /\ Cursos'
  BY <1>1, <1>4, <1>7, RouterPasa
<1>10. Listeners'
  BY <1>3, <1>8, TiposDe, ListenerDeUno
<1> QED
  BY <1>1, <1>9, <1>10, TiposDe, Quietos DEF Resto

LEMMA CierreP2PPasa ==
  ASSUME Tipos, NEW n \in Node
  PROVE  /\ cierre_p2p(n) => Resto'
         /\ cierre_fin(n) => Resto'
<1> DEFINE l == listener[n]
<1>1. ListenerOK(l) /\ listener = [m \in Node |-> listener[m]]
  BY TiposDe DEF Listeners
<1>2. ASSUME cierre_p2p(n)
      PROVE  Resto'
  <2> DEFINE ev == [id |-> "RT_UNSET_SOCKET_P2P"]
             h == [l EXCEPT !.p2p = SOCK_ERRONEO, !.paso = "cierre_fin"]
  <2>1. /\ l.paso = "cierre_p2p"
        /\ listener' = [listener EXCEPT ![n] = h]
        /\ routerEvents' = [routerEvents EXCEPT ![n] = Append(@, ev)]
        /\ UNCHANGED <<router, en_operacion, vivo>>
    BY <1>1, <1>2 DEF cierre_p2p, listenerAparte
  <2>2. ListenerOK(h)
    BY <1>1, <2>1 DEF ListenerOK, PasoListener
  <2>3. EvRouterOK(ev)
    BY DEF EvRouterOK
  <2> HIDE DEF ev, h
  <2>4. Routers' /\ Colas' /\ Cursos'
    BY <2>1, <2>3, PosteadoPasa
  <2>5. Listeners'
    BY <2>1, <2>2, TiposDe, ListenerDeUno
  <2> QED
    BY <2>1, <2>4, <2>5, TiposDe, Quietos DEF Resto
<1>3. ASSUME cierre_fin(n)
      PROVE  Resto'
  <2> DEFINE h == [l EXCEPT !.paso = "mirando"]
  <2>1. /\ l.paso = "cierre_fin"
        /\ listener' = [listener EXCEPT ![n] = h]
        /\ en_operacion' = [en_operacion EXCEPT ![n] = FALSE]
        /\ UNCHANGED <<router, routerEvents, vivo>>
    BY <1>3 DEF cierre_fin, listenerAparte
  <2>2. ListenerOK(h)
    BY <1>1, <2>1 DEF ListenerOK, PasoListener
  <2> HIDE DEF h
  <2>3. Listeners'
    BY <2>1, <2>2, TiposDe, ListenerDeUno
  <2>4. Banderas'
    BY <2>1, OperacionPasa
  <2> QED
    BY <2>1, <2>3, <2>4, TiposDe, Quietos DEF Resto
<1> QED
  BY <1>2, <1>3

LEMMA AvisosPasan ==
  ASSUME Tipos, NEW n \in Node
  PROVE  /\ mensaje(n) => Resto'
         /\ add_socket(n) => Resto'
         /\ add_socket_p2p(n) => Resto'
         /\ rm_socket_p2p(n) => Resto'
<1> DEFINE l == listener[n]
           q == Tail(l.events)
           x == EvListener(n).fd
<1>1. ListenerOK(l) /\ listener = [m \in Node |-> listener[m]]
  BY TiposDe DEF Listeners
<1>2. ASSUME mensaje(n)
      PROVE  Resto'
  <2> DEFINE s == l.listos \ {Mirado(n)}
             h == [l EXCEPT !.listos = s]
  <2>1. /\ l.paso = "mirando"
        /\ listener' = [listener EXCEPT ![n] = h]
        /\ UNCHANGED <<router, routerEvents, en_operacion, vivo>>
    BY <1>1, <1>2 DEF mensaje, Mirando, listenerAparte
  <2>2. s \subseteq l.listos
    OBVIOUS
  <2> HIDE DEF s
  <2>3. ListenerOK(h)
    BY <1>1, <2>1, <2>2 DEF ListenerOK
  <2> HIDE DEF h
  <2> QED
    BY <2>1, <2>3, ListenerPasa
<1>3. ASSUME NEW id, EventoListener(n, id)
      PROVE  /\ l.paso = "libre" /\ l.events # <<>>
             /\ EsSeq(q) /\ \A i \in DOMAIN q : EvListenerOK(q[i])
             /\ EvListenerOK(EvListener(n)) /\ EvListener(n).id = id
             /\ l.master \in SUBSET Nat
  <2>1. l.paso = "libre" /\ l.events # <<>> /\ EvListener(n).id = id
    BY <1>3 DEF EventoListener, EvListener
  <2>2. EvListenerOK(EvListener(n))
    BY <1>1, <2>1, SeqTail DEF ListenerOK, EvListener
  <2>3. l.master \in SUBSET Nat
    BY <1>1 DEF ListenerOK
  <2> QED
    BY <1>1, <2>1, <2>2, <2>3, VueltaOK
<1>4. ASSUME NEW h, Vigila(n, h), ListenerOK(FinListener(h))
      PROVE  Resto'
  BY <1>4, ListenerPasa DEF Vigila, listenerAparte
<1>5. ASSUME add_socket(n)
      PROVE  Resto'
  <2> DEFINE M == l.master \cup {x}
             h == [l EXCEPT !.master = M]
  <2>1. Vigila(n, h)
    BY <1>5 DEF add_socket
  <2>2. M \in SUBSET Nat
    BY <1>3, <1>5 DEF add_socket, EvListenerOK
  <2> HIDE DEF M
  <2>3. FinListener(h) = [l EXCEPT !.events = q, !.master = M]
    BY DEF FinListener
  <2>4. ListenerOK(FinListener(h))
    <3>1. /\ ListenerOK(l) /\ l.paso = "libre" /\ EsSeq(q)
          /\ \A i \in DOMAIN q : EvListenerOK(q[i])
      BY <1>1, <1>3, <1>5 DEF add_socket
    <3> HIDE DEF h, l, q
    <3>2. ListenerOK([l EXCEPT !.events = q, !.master = M])
      BY <2>2, <3>1, LibreOK
    <3> QED
      BY <2>3, <3>2
  <2> QED
    BY <1>4, <2>1, <2>4
<1>6. ASSUME add_socket_p2p(n)
      PROVE  Resto'
  <2> DEFINE M == l.master \cup {x}
             h == [l EXCEPT !.master = M, !.p2p = x]
  <2>1. Vigila(n, h)
    BY <1>6 DEF add_socket_p2p
  <2>2. M \in SUBSET Nat
    BY <1>3, <1>6 DEF add_socket_p2p, EvListenerOK
  <2> HIDE DEF M, x
  <2>3. FinListener(h) = [l EXCEPT !.events = q, !.master = M, !.p2p = x]
    BY DEF FinListener
  <2>4. ListenerOK(FinListener(h))
    <3>1. /\ ListenerOK(l) /\ l.paso = "libre" /\ EsSeq(q)
          /\ \A i \in DOMAIN q : EvListenerOK(q[i])
      BY <1>1, <1>3, <1>6 DEF add_socket_p2p
    <3> HIDE DEF h, l, q
    <3>2. ListenerOK([l EXCEPT !.events = q, !.master = M, !.p2p = x])
      BY <2>2, <3>1, LibreOK
    <3> QED
      BY <2>3, <3>2
  <2> QED
    BY <1>4, <2>1, <2>4
<1>7. ASSUME rm_socket_p2p(n)
      PROVE  Resto'
  <2> DEFINE M == l.master \ {x}
             I == l.ip \ {x}
             h == [l EXCEPT !.master = M, !.ip = I]
  <2>1. Vigila(n, h)
    BY <1>7 DEF rm_socket_p2p
  <2>2. M \in SUBSET Nat
    BY <1>3, <1>7 DEF rm_socket_p2p
  <2> HIDE DEF M, I
  <2>3. FinListener(h) = [l EXCEPT !.events = q, !.master = M, !.ip = I]
    BY DEF FinListener
  <2>4. ListenerOK(FinListener(h))
    <3>1. /\ ListenerOK(l) /\ l.paso = "libre" /\ EsSeq(q)
          /\ \A i \in DOMAIN q : EvListenerOK(q[i])
      BY <1>1, <1>3, <1>7 DEF rm_socket_p2p
    <3> HIDE DEF h, l, q
    <3>2. ListenerOK([l EXCEPT !.events = q, !.master = M, !.ip = I])
      BY <2>2, <3>1, LibreOK
    <3> QED
      BY <2>3, <3>2
  <2> QED
    BY <1>4, <2>1, <2>4
<1> QED
  BY <1>2, <1>5, <1>6, <1>7

LEMMA ListenerStepPasa ==
  ASSUME Tipos, NEW n \in Node, ListenerStep(n)
  PROVE  Resto'
  BY EscuchaPasa, SaludosPasan, CierrePasa, CierreP2PPasa, AvisosPasan
  DEF ListenerStep

(* The steps of Logic, of the Keyboard and of the system.                  *)
LEMMA LogicPublica ==
  ASSUME NEW n, LogicStep(n)
  PROVE  /\ logicEvents[n] # <<>>
         /\ \E q : logicEvents' = [logicEvents EXCEPT ![n] = q]
         /\ \/ UNCHANGED routerEvents
            \/ \E id \in RouterId : \E m : PosteaRouter(n, id, m)
<1>1. logicEvents[n] # <<>>
  BY DEF LogicStep, set_stock_product, set_cur_prod_compra, set_cur_prod_venta,
         on_send_look_up, on_send_look_up_forward, on_send_replay,
         on_send_replay_forward, on_send_buy, on_send_buy_reply_ok,
         on_send_buy_reply_err, on_client_msg, Atiende
<1>2. \A id, m : Hecho(n) \/ HechoYPostea(n, id, m) =>
                   \E q : logicEvents' = [logicEvents EXCEPT ![n] = q]
  BY DEF Hecho, HechoYPostea
<1>3. ASSUME \/ set_stock_product(n) \/ set_cur_prod_compra(n)
             \/ set_cur_prod_venta(n)
      PROVE  Hecho(n) /\ UNCHANGED routerEvents
  BY <1>3 DEF set_stock_product, set_cur_prod_compra, set_cur_prod_venta
<1>4. ASSUME \/ on_send_look_up(n) \/ on_send_look_up_forward(n)
             \/ on_send_replay(n) \/ on_send_replay_forward(n)
             \/ on_send_buy(n) \/ on_send_buy_reply_ok(n)
             \/ on_send_buy_reply_err(n)
      PROVE  Hecho(n) /\ (\/ UNCHANGED routerEvents
                          \/ \E id \in RouterId : \E m : PosteaRouter(n, id, m))
  BY <1>4 DEF on_send_look_up, on_send_look_up_forward, on_send_replay,
              on_send_replay_forward, on_send_buy, on_send_buy_reply_ok,
              on_send_buy_reply_err, RouterId
<1>5. ASSUME on_client_msg(n)
      PROVE  /\ \E id, m : Hecho(n) \/ HechoYPostea(n, id, m)
             /\ \/ UNCHANGED routerEvents
                \/ \E id \in RouterId : \E m : PosteaRouter(n, id, m)
  <2>1. PICK m : \/ on_receive_look_up(n, m) \/ on_receive_replay(n, m)
                 \/ on_receive_buy(n, m) \/ on_receive_buy_reply_ok(n, m)
                 \/ on_receive_buy_reply_err(n, m)
    BY <1>5 DEF on_client_msg
  <2>2. CASE on_receive_look_up(n, m) \/ on_receive_replay(n, m)
             \/ on_receive_buy(n, m)
    BY <2>2 DEF on_receive_look_up, on_receive_replay, on_receive_buy
  <2>3. CASE on_receive_buy_reply_ok(n, m) \/ on_receive_buy_reply_err(n, m)
    BY <2>3 DEF on_receive_buy_reply_ok, on_receive_buy_reply_err, RouterId
  <2> QED
    BY <2>1, <2>2, <2>3
<1> QED
  BY <1>1, <1>2, <1>3, <1>4, <1>5 DEF LogicStep

LEMMA LogicaPasa ==
  ASSUME Tipos, NEW n \in Node, Logica(n)
  PROVE  Resto'
<1>1. LogicStep(n) /\ UNCHANGED <<router, listener, en_operacion, vivo>>
  BY DEF Logica
<1>2. ASSUME NEW id \in RouterId, NEW m, PosteaRouter(n, id, m)
      PROVE  Resto'
  <2> DEFINE ev == [id |-> id, tag |-> m]
  <2>1. EvRouterOK(ev)
    BY DEF EvRouterOK, RouterId
  <2>2. routerEvents' = [routerEvents EXCEPT ![n] = Append(@, ev)]
    BY <1>2 DEF PosteaRouter
  <2> HIDE DEF ev
  <2>3. Routers' /\ Colas' /\ Cursos'
    BY <1>1, <2>1, <2>2, PosteadoPasa
  <2> QED
    BY <1>1, <2>3, TiposDe, Quietos DEF Resto
<1>3. CASE UNCHANGED routerEvents
  BY <1>1, <1>3, TiposDe, Quietos DEF Resto
<1> QED
  BY <1>1, <1>2, <1>3, LogicPublica

(* A node that does not run has nothing of what it had.                    *)
Apagado(n) ==
  /\ router[n] = RouterNuevo /\ listener[n] = ListenerNuevo
  /\ logicEvents[n] = <<>> /\ routerEvents[n] = <<>>
  /\ en_operacion[n] = FALSE

Apagados == /\ logicEvents = [n \in Node |-> logicEvents[n]]
            /\ \A n \in Node : ~vivo[n] => Apagado(n)


LEMMA OtrosPasan ==
  ASSUME Tipos, Apagados, NEW n \in Node
  PROVE  /\ procesar_lanzar(n) => Resto'
         /\ try_reconnect(n) => Resto'
         /\ Arranca(n) => Resto'
         /\ Sale(n) => Resto'
<1>1. ASSUME procesar_lanzar(n)
      PROVE  Resto'
  BY <1>1, TiposDe, Quietos DEF Resto, procesar_lanzar
<1>2. ASSUME try_reconnect(n)
      PROVE  Resto'
  <2> DEFINE ev == [id |-> "INIT"]
  <2>1. EvRouterOK(ev)
    BY DEF EvRouterOK
  <2>2. /\ routerEvents' = [routerEvents EXCEPT ![n] = Append(@, ev)]
        /\ UNCHANGED <<router, listener, en_operacion, vivo>>
    BY <1>2 DEF try_reconnect
  <2> HIDE DEF ev
  <2>3. Routers' /\ Colas' /\ Cursos'
    BY <2>1, <2>2, PosteadoPasa
  <2> QED
    BY <2>2, <2>3, TiposDe, Quietos DEF Resto
<1>3. ASSUME Arranca(n)
      PROVE  Resto'
  <2> DEFINE ev == [id |-> "INIT"]
             q == <<ev>>
             l == [listener[n] EXCEPT !.events = q]
  <2>1. /\ vivo' = [vivo EXCEPT ![n] = TRUE]
        /\ routerEvents' = [routerEvents EXCEPT ![n] = q]
        /\ listener' = [listener EXCEPT ![n] = l]
        /\ UNCHANGED <<router, en_operacion>>
    BY <1>3 DEF Arranca
  <2>2. router[n].paso = "libre" /\ listener[n].paso = "libre"
    BY <1>3 DEF Arranca, Apagados, Apagado, RouterNuevo, ListenerNuevo
  <2>3. EvRouterOK(ev) /\ EvListenerOK(ev)
    BY DEF EvRouterOK, EvListenerOK
  <2> HIDE DEF ev
  <2>4. EsSeq(q) /\ DOMAIN q = {1} /\ q[1] = ev
    BY SeqCortas
  <2> HIDE DEF q
  <2>5. ColaOK(q) /\ EnCurso(router[n], q)
    BY <2>2, <2>3, <2>4 DEF ColaOK, EnCurso
  <2>6. ListenerOK(l)
    BY <2>2, <2>3, <2>4, TiposDe DEF ListenerOK
  <2> HIDE DEF l
  <2>7. Routers' /\ Colas' /\ Cursos'
    BY <2>1, <2>5, TiposDe, RouterPasa
  <2>8. Listeners'
    BY <2>1, <2>6, TiposDe, ListenerDeUno
  <2>9. Banderas'
    BY <2>1 DEF Tipos, Banderas
  <2> QED
    BY <2>7, <2>8, <2>9 DEF Resto
<1>4. ASSUME Sale(n)
      PROVE  Resto'
  BY <1>4, MuerePasa DEF Sale
<1> QED
  BY <1>1, <1>2, <1>3, <1>4

LEMMA TiposNext == Tipos /\ Apagados /\ [Next]_vars => Tipos'
<1> SUFFICES ASSUME Tipos, Apagados, [Next]_vars
             PROVE  Tipos'
  OBVIOUS
<1>1. SocketsOK(tcp)'
  BY SocketsNext DEF Tipos
<1>2. Resto'
  <2>1. CASE UNCHANGED vars
    BY <2>1, TiposDe, Quietos DEF Resto, vars, logicVars, Tipos
  <2>2. CASE Next
    BY <2>2, LogicaPasa, RouterStepPasa, ListenerStepPasa, OtrosPasan DEF Next
  <2> QED
    BY <2>1, <2>2
<1> QED
  BY <1>1, <1>2 DEF Tipos, Resto

-----------------------------------------------------------------------------
(* A step is one of a node that runs, or starts, and is seen by no other.  *)
Solo(n) ==
  /\ \A m \in Node : m # n => /\ router'[m] = router[m]
                              /\ listener'[m] = listener[m]
                              /\ logicEvents'[m] = logicEvents[m]
                              /\ routerEvents'[m] = routerEvents[m]
                              /\ en_operacion'[m] = en_operacion[m]
  /\ logicEvents' = [m \in Node |-> logicEvents'[m]]

Toca(n) == vivo[n] /\ ((Solo(n) /\ UNCHANGED vivo) \/ \E k : Muere(n, k))

Funciones ==
  /\ router = [n \in Node |-> router[n]]
  /\ listener = [n \in Node |-> listener[n]]
  /\ logicEvents = [n \in Node |-> logicEvents[n]]
  /\ routerEvents = [n \in Node |-> routerEvents[n]]
  /\ en_operacion = [n \in Node |-> en_operacion[n]]

LEMMA SonFunciones == Tipos /\ Apagados => Funciones
  BY DEF Tipos, Apagados, Funciones, Routers, Listeners, Colas, Banderas

LEMMA Despierto ==
  ASSUME Apagados, NEW n \in Node,
         \/ logicEvents[n] # <<>> \/ routerEvents[n] # <<>>
         \/ router[n].paso # "libre" \/ router[n].menus > 0
         \/ listener[n].paso # "libre" \/ listener[n].events # <<>>
  PROVE  vivo[n]
<1>1. ~(0 > 0)
  OBVIOUS
<1> QED
  BY <1>1 DEF Apagados, Apagado, RouterNuevo, ListenerNuevo

LEMMA TocaRouter ==
  ASSUME Tipos, Apagados, NEW n \in Node, RouterStep(n)
  PROVE  Toca(n)
<1>1. Funciones
  BY SonFunciones
<1> USE DEF Solo
<1>2. \A nuevo : Recuerda(n, nuevo) => Solo(n) /\ UNCHANGED vivo
  BY <1>1 DEF Recuerda, FinRouter, Funciones
<1>3. \A r, nuevo : EnviaYListo(n, r, nuevo) =>
                      (Solo(n) /\ UNCHANGED vivo) \/ \E k : Muere(n, k)
  BY <1>1 DEF EnviaYListo, FinRouter, Funciones
<1>4. \A id : AtiendeRouter(n, id) => vivo[n]
  BY Despierto DEF AtiendeRouter, EventoRouter
<1>5. PasoVecino(n) => vivo[n]
  BY <1>4, Despierto DEF PasoVecino
<1>6. ASSUME \/ send_first_broadcast_message(n) \/ send_broadcast_message(n)
             \/ send_to_next_node_message(n) \/ send_to_p2p_socket_message(n)
      PROVE  Toca(n)
  <2>1. vivo[n]
    BY <1>4, <1>6 DEF send_first_broadcast_message, send_broadcast_message,
              send_to_next_node_message, send_to_p2p_socket_message
  <2>2. \E r, nuevo : EnviaYListo(n, r, nuevo)
    BY <1>6 DEF send_first_broadcast_message, send_broadcast_message,
              send_to_next_node_message, send_to_p2p_socket_message, Difunde
  <2> QED
    BY <1>3, <2>1, <2>2 DEF Toca
<1>7. ASSUME vecino_conectado(n) \/ try_connection(n)
      PROVE  Toca(n)
  <2>1. vivo[n]
    BY <1>5, <1>7 DEF vecino_conectado, try_connection
  <2>2. /\ UNCHANGED <<logicVars, listener, en_operacion, vivo>>
        /\ \E r : router' = [router EXCEPT ![n] = r]
    <3>1. \A fd : [router EXCEPT ![n].paso = "nombre", ![n].fd = fd]
               = [router EXCEPT ![n] = [router[n] EXCEPT !.paso = "nombre", !.fd = fd]]
      BY <1>1 DEF Funciones
    <3> QED
      BY <1>7, <3>1 DEF vecino_conectado, try_connection
  <2> QED
    BY <1>1, <2>1, <2>2 DEF Toca, logicVars, Funciones
<1>8. ASSUME try_connection_nombre(n)
      PROVE  Toca(n)
  <2>1. vivo[n]
    BY <1>8, Despierto DEF try_connection_nombre
  <2> QED
    BY <1>1, <1>8, <2>1 DEF try_connection_nombre, RecvMata, PosteaListener,
                            Toca, Funciones
<1>9. ASSUME start_connections(n)
      PROVE  Toca(n)
  <2>1. vivo[n]
    BY <1>9, Despierto DEF start_connections
  <2> QED
    BY <1>1, <1>9, <2>1 DEF start_connections, FinRouter, Toca, Funciones
<1>10. ASSUME start_p2p_connect(n) \/ start_p2p_connect_nombre(n)
       PROVE  Toca(n)
  <2>1. vivo[n]
    BY <1>4, <1>10, Despierto DEF start_p2p_connect, start_p2p_connect_nombre
  <2> QED
    BY <1>1, <1>10, <2>1 DEF start_p2p_connect, start_p2p_connect_nombre,
                             FinRouter, Toca, Funciones, logicVars
<1>11. ASSUME \/ start_p2p_connect_opera(n) \/ start_p2p_connect_avisa(n)
              \/ close_p2p_connect_avisa(n)
       PROVE  Toca(n)
  <2>1. vivo[n]
    BY <1>4, <1>11, Despierto DEF start_p2p_connect_opera,
              start_p2p_connect_avisa, close_p2p_connect_avisa
  <2> QED
    BY <1>1, <1>11, <2>1 DEF start_p2p_connect_opera, start_p2p_connect_avisa,
              close_p2p_connect_avisa, RecvMata, PosteaListener, Toca,
              Funciones, logicVars
<1>13. ASSUME start_p2p_connect_buy(n)
       PROVE  Toca(n)
  <2>1. vivo[n]
    BY <1>13, Despierto DEF start_p2p_connect_buy
  <2>2. \E r, nuevo : EnviaYListo(n, r, nuevo)
    BY <1>13 DEF start_p2p_connect_buy
  <2> QED
    BY <1>3, <2>1, <2>2 DEF Toca
<1>14. ASSUME close_p2p_connect(n) \/ close_p2p_connect_fin(n)
       PROVE  Toca(n)
  <2>1. vivo[n]
    BY <1>14, Despierto DEF close_p2p_connect, close_p2p_connect_fin
  <2> QED
    BY <1>1, <1>14, <2>1 DEF close_p2p_connect, close_p2p_connect_fin, FinRouter,
                             Toca, Funciones, logicVars
<1>12. ASSUME \/ set_socket_p2p(n) \/ unset_socket_p2p(n) \/ add_nodo_servidor(n)
              \/ add_nodo_cliente(n) \/ rm_nodo_servidor(n)
       PROVE  Toca(n)
  <2>1. vivo[n]
    BY <1>4, <1>12 DEF set_socket_p2p, unset_socket_p2p, add_nodo_servidor,
                       add_nodo_cliente, rm_nodo_servidor
  <2>2. (\E nuevo : Recuerda(n, nuevo)) \/ Muere(n, tcp)
    BY <1>12 DEF set_socket_p2p, unset_socket_p2p, add_nodo_servidor,
                 add_nodo_cliente, rm_nodo_servidor
  <2> QED
    BY <1>2, <2>1, <2>2 DEF Toca
<1> QED
  BY <1>6, <1>7, <1>8, <1>9, <1>10, <1>11, <1>12, <1>13, <1>14 DEF RouterStep

LEMMA TocaListener ==
  ASSUME Tipos, Apagados, NEW n \in Node, ListenerStep(n)
  PROVE  Toca(n)
<1>1. Funciones
  BY SonFunciones
<1> USE DEF Solo
<1>2. \A id : EventoListener(n, id) => vivo[n]
  BY Despierto DEF EventoListener
<1>3. Mirando(n) => vivo[n]
  BY Despierto DEF Mirando
<1>4. ASSUME NEW ev, Saludado(n, ev), listener[n].paso # "libre"
      PROVE  Toca(n)
  <2>1. vivo[n]
    BY <1>4, Despierto
  <2> QED
    BY <1>1, <1>4, <2>1 DEF Saludado, RecvMata, listenerAparte, Toca, Funciones
<1>5. ASSUME prepare_connections(n) \/ select(n)
      PROVE  Toca(n)
  <2>1. vivo[n]
    BY <1>2, <1>5 DEF prepare_connections, select
  <2> QED
    BY <1>1, <1>5, <2>1 DEF prepare_connections, select, listenerAparte, Toca,
                            Funciones
<1>6. ASSUME client_connections_admin_fin(n)
      PROVE  Toca(n)
  <2>1. vivo[n]
    BY <1>6, Despierto DEF client_connections_admin_fin
  <2> QED
    BY <1>1, <1>6, <2>1 DEF client_connections_admin_fin, listenerAparte, Toca,
                            Funciones
<1>7. ASSUME accept(n) \/ cierre(n) \/ mensaje(n)
      PROVE  Toca(n)
  <2>1. vivo[n]
    BY <1>3, <1>7 DEF accept, cierre, mensaje
  <2> QED
    BY <1>1, <1>7, <2>1 DEF accept, cierre, mensaje, listenerAparte, Toca,
                            Funciones
<1>8. ASSUME accept_nombre(n) \/ accept_p2p_nombre(n)
      PROVE  Toca(n)
  <2>1. listener[n].paso # "libre"
    BY <1>8 DEF accept_nombre, accept_p2p_nombre
  <2>2. vivo[n]
    BY <2>1, Despierto
  <2>3. CASE \E ev : Saludado(n, ev)
    BY <1>4, <2>1, <2>3
  <2>4. CASE ~\E ev : Saludado(n, ev)
    BY <1>1, <1>8, <2>2, <2>4 DEF accept_nombre, accept_p2p_nombre,
       listenerAparte, Toca, Funciones
  <2> QED
    BY <2>3, <2>4
<1>9. ASSUME add_socket(n) \/ add_socket_p2p(n) \/ rm_socket_p2p(n)
      PROVE  Toca(n)
  <2>1. vivo[n]
    BY <1>2, <1>9 DEF add_socket, add_socket_p2p, rm_socket_p2p
  <2>2. \E l : Vigila(n, l)
    BY <1>9 DEF add_socket, add_socket_p2p, rm_socket_p2p
  <2> QED
    BY <1>1, <2>1, <2>2 DEF Vigila, listenerAparte, Toca, Funciones
<1>10. ASSUME accept_p2p(n) \/ cierre_p2p(n) \/ cierre_fin(n)
       PROVE  Toca(n)
  <2>1. vivo[n]
    BY <1>10, Despierto DEF accept_p2p, cierre_p2p, cierre_fin
  <2> QED
    BY <1>1, <1>10, <2>1 DEF accept_p2p, cierre_p2p, cierre_fin, listenerAparte,
                             Toca, Funciones
<1> QED
  BY <1>5, <1>6, <1>7, <1>8, <1>9, <1>10 DEF ListenerStep

LEMMA TocaOtros ==
  ASSUME Tipos, Apagados, NEW n \in Node,
         Logica(n) \/ procesar_lanzar(n) \/ try_reconnect(n) \/ Sale(n)
  PROVE  Toca(n)
<1>1. Funciones
  BY SonFunciones
<1> USE DEF Solo
<1>2. ASSUME Logica(n)
      PROVE  Toca(n)
  <2>1. vivo[n]
    BY <1>2, LogicPublica, Despierto DEF Logica
  <2>2. \E q : logicEvents' = [logicEvents EXCEPT ![n] = q]
    BY <1>2, LogicPublica DEF Logica
  <2>3. \/ UNCHANGED routerEvents
        \/ \E ev : routerEvents' = [routerEvents EXCEPT ![n] = Append(@, ev)]
    BY <1>2, LogicPublica DEF Logica, PosteaRouter
  <2> QED
    BY <1>1, <1>2, <2>1, <2>2, <2>3 DEF Logica, Toca, Funciones
<1>3. ASSUME procesar_lanzar(n) \/ try_reconnect(n)
      PROVE  Toca(n)
  <2>1. vivo[n]
    BY <1>3, Despierto DEF procesar_lanzar, try_reconnect
  <2> QED
    BY <1>1, <1>3, <2>1 DEF procesar_lanzar, try_reconnect, Toca, Funciones
<1>4. ASSUME Sale(n)
      PROVE  Toca(n)
  BY <1>4 DEF Sale, Toca
<1> QED
  BY <1>2, <1>3, <1>4

LEMMA ApagadosNext == Tipos /\ Apagados /\ [Next]_vars => Apagados'
<1> SUFFICES ASSUME Tipos, Apagados, [Next]_vars
             PROVE  Apagados'
  OBVIOUS
<1>1. Funciones /\ vivo \in [Node -> BOOLEAN]
  BY SonFunciones DEF Tipos, Banderas
<1>2. CASE UNCHANGED vars
  BY <1>2 DEF vars, logicVars, Apagados, Apagado
<1>3. ASSUME NEW n \in Node, Toca(n)
      PROVE  Apagados'
  <2>1. CASE Solo(n) /\ UNCHANGED vivo
    BY <1>3, <2>1 DEF Toca, Solo, Apagados, Apagado
  <2>2. ASSUME NEW k, Muere(n, k)
        PROVE  Apagados'
    BY <1>1, <2>2 DEF Muere, Apagados, Apagado, Funciones
  <2> QED
    BY <1>3, <2>1, <2>2 DEF Toca
<1>4. ASSUME NEW n \in Node, Arranca(n)
      PROVE  Apagados'
  BY <1>1, <1>4 DEF Arranca, Apagados, Apagado, Funciones
<1> QED
  BY <1>2, <1>3, <1>4, TocaRouter, TocaListener, TocaOtros DEF Next

-----------------------------------------------------------------------------
(* Where a behaviour begins: what the first i connections of scene e leave. *)
(* Both ends of each are open, nothing has been sent over it, and nobody   *)
(* waits to be accepted; no descriptor is open but those and the one that  *)
(* each node that runs listens at, which is 3, as nobody has one below.    *)
EnlaceHecho(c, l) ==
  /\ c.nodo = <<l[1], Vecinos(l)>> /\ c.buf = <<<<>>, <<>>>>
  /\ c.ve = <<"vivo", "vivo">> /\ c.nueva = FALSE

EsDeEnlace(s, i, n, p) ==
  \/ p = PUERTO
  \/ \E j \in 1..i : \/ p = [con |-> j, lado |-> 1] /\ n = s[j][1]
                     \/ p = [con |-> j, lado |-> 2] /\ n = Vecinos(s[j])

Escuchan(k, e) ==
  \A n \in Node : IF n \in e.frios THEN Abiertos(k, n) = {}
                  ELSE 3 \in Abiertos(k, n) /\ Punta(k, n, 3) = PUERTO

Enlazada(k, e, i) ==
  /\ SocketsOK(k) /\ Len(k.con) = i /\ k.perdidos = EmptyBag
  /\ \A j \in 1..i : EnlaceHecho(k.con[j], e.enlaces[j])
  /\ \A j \in 1..i :
       /\ \E fd \in Abiertos(k, e.enlaces[j][1]) :
            Punta(k, e.enlaces[j][1], fd) = [con |-> j, lado |-> 1]
       /\ \E fd \in Abiertos(k, Vecinos(e.enlaces[j])) :
            Punta(k, Vecinos(e.enlaces[j]), fd) = [con |-> j, lado |-> 2]
  /\ \A n \in Node : \A fd \in Abiertos(k, n) :
       fd >= 3 /\ EsDeEnlace(e.enlaces, i, n, Punta(k, n, fd))
  /\ Escuchan(k, e)

LEMMA EscenaEs ==
  ASSUME NEW e \in Escenas
  PROVE  /\ e.enlaces \in Seq(Node \X (1..2))
         /\ Len(e.enlaces) \in Nat /\ DOMAIN e.enlaces = 1..Len(e.enlaces)
         /\ \A i \in DOMAIN e.enlaces :
              /\ e.enlaces[i][1] \in Node /\ Vecinos(e.enlaces[i]) \in Node
              /\ {e.enlaces[i][1], Vecinos(e.enlaces[i])} \cap e.frios = {}
<1>1. EsEscena(e)
  BY ConexionesAssumption
<1>2. e.enlaces \in Seq(Node \X (1..2))
  BY <1>1 DEF EsEscena
<1>3. \A i \in DOMAIN e.enlaces :
        /\ e.enlaces[i][1] \in Node /\ Vecinos(e.enlaces[i]) \in Node
        /\ {e.enlaces[i][1], Vecinos(e.enlaces[i])} \cap e.frios = {}
  BY <1>1 DEF EsEscena, Vecinos
<1> QED
  BY <1>2, <1>3

(* A descriptor that is opened leaves the others as they were.             *)
LEMMA AbreSigue ==
  ASSUME NEW k, SocketsOK(k), NEW n \in Node, NEW p, NEW h,
         h.fds[n] = Abre(k.fds[n], Libre(k, n), p),
         \A m \in Node : m # n => h.fds[m] = k.fds[m]
  PROVE  /\ \A m \in Node : \A fd \in Abiertos(k, m) :
              fd \in Abiertos(h, m) /\ Punta(h, m, fd) = Punta(k, m, fd)
         /\ \E fd \in Abiertos(h, n) : Punta(h, n, fd) = p
         /\ \A m \in Node : \A fd \in Abiertos(h, m) :
              \/ fd \in Abiertos(k, m)
              \/ m = n /\ fd >= 3 /\ Punta(h, m, fd) = p
<1> DEFINE x == Libre(k, n)
           f == Abre(k.fds[n], x, p)
<1>1. Node \subseteq DOMAIN k.fds /\ FdsOK(k.fds[n])
  BY DEF SocketsOK
<1>2. x \notin Abiertos(k, n) /\ x >= 3
  BY <1>1, LibreEs
<1>3. h.fds[n] = f /\ \A m \in Node : m # n => h.fds[m] = k.fds[m]
  OBVIOUS
<1> HIDE DEF x
<1>4. /\ DOMAIN f = DOMAIN k.fds[n] \cup {x} /\ f[x] = p
      /\ \A fd \in DOMAIN k.fds[n] : fd # x => f[fd] = k.fds[n][fd]
  BY DEF Abre
<1> HIDE DEF f
<1> QED
  BY <1>2, <1>3, <1>4 DEF Abiertos, Punta

LEMMA EnlazadaSigue ==
  ASSUME NEW k, NEW e \in Escenas, NEW i \in Nat, Enlazada(k, e, i),
         i + 1 \in DOMAIN e.enlaces
  PROVE  Enlazada(Enlaza(k, e.enlaces[i + 1]), e, i + 1)
<1> DEFINE s == e.enlaces
           a == s[i + 1][1]
           b == Vecinos(s[i + 1])
           r == [nodo |-> <<a, b>>, buf |-> <<<<>>, <<>>>>,
                 ve |-> <<"vivo", "vivo">>, nueva |-> TRUE, rst |-> FALSE]
           g == Conecta(k, a, b)
           h == Acepta(g, b)
           p == [con |-> i + 1, lado |-> 1]
           q == [con |-> i + 1, lado |-> 2]
<1>1. /\ a \in Node /\ b \in Node /\ Enlaza(k, s[i + 1]) = h
      /\ \A j \in 1..(i + 1) : s[j][1] \in Node /\ Vecinos(s[j]) \in Node
      /\ a \notin e.frios /\ b \notin e.frios
  <2>1. \A j \in 1..(i + 1) : j \in DOMAIN s
    BY EscenaEs
  <2> QED
    BY <2>1, EscenaEs DEF Enlaza
<1>2. /\ SocketsOK(k) /\ Len(k.con) = i /\ k.perdidos = EmptyBag
      /\ \A j \in 1..i : EnlaceHecho(k.con[j], s[j])
      /\ \A j \in 1..i : ~k.con[j].nueva
      /\ Escuchan(k, e)
  <2>1. \A c, l : EnlaceHecho(c, l) => ~c.nueva
    BY DEF EnlaceHecho
  <2> QED
    BY <2>1 DEF Enlazada
<1>3. SocketsOK(g) /\ SocketsOK(h)
  BY <1>1, <1>2, SocketsConecta, SocketsAcepta
<1>4. /\ g.fds = [k.fds EXCEPT ![a] = Abre(@, Libre(k, a), p)]
      /\ g.con = Append(k.con, r) /\ g.perdidos = k.perdidos
  BY <1>2 DEF Conecta, SocketsOK
<1>5. /\ EsSeq(k.con) /\ DOMAIN k.con = 1..i
      /\ DOMAIN g.con = 1..(i + 1) /\ Len(g.con) = i + 1
      /\ \A c \in 1..i : g.con[c] = k.con[c]
      /\ g.con[i + 1] = r
  <2>1. EsSeq(k.con)
    BY <1>2 DEF SocketsOK
  <2> HIDE DEF r
  <2> QED
    BY <1>2, <1>4, <2>1, SeqAppend
<1>6. /\ \A c \in 1..i : ~g.con[c].nueva
      /\ g.con[i + 1].nueva /\ g.con[i + 1].nodo[2] = b
      /\ EnlaceHecho([r EXCEPT !.nueva = FALSE], s[i + 1])
  <2>1. EnlaceHecho([r EXCEPT !.nueva = FALSE], s[i + 1])
    BY DEF EnlaceHecho
  <2>2. r.nueva /\ r.nodo[2] = b
    OBVIOUS
  <2>3. \A c \in 1..i : ~g.con[c].nueva
    BY <1>2, <1>5
  <2> QED
    BY <1>5, <2>1, <2>2, <2>3
<1> HIDE DEF g, a, b, r, s
<1>7. Cola(g, b) = {i + 1}
  <2>1. \A c \in 1..(i + 1) : c \in 1..i \/ c = i + 1
    OBVIOUS
  <2>2. i + 1 \in 1..(i + 1)
    OBVIOUS
  <2> QED
    BY <1>5, <1>6, <2>1, <2>2 DEF Cola
<1>8. Min(Cola(g, b)) = i + 1
  <2>1. {i + 1} \in SUBSET Nat /\ {i + 1} # {}
    OBVIOUS
  <2> QED
    BY <1>7, <2>1, Minimo
<1>9. /\ h.fds = [g.fds EXCEPT ![b] = Abre(@, Libre(g, b), q)]
      /\ h.con = [g.con EXCEPT ![i + 1].nueva = FALSE]
      /\ h.perdidos = g.perdidos
  BY <1>3, <1>8 DEF Acepta, SocketsOK
<1>10. /\ Len(h.con) = i + 1 /\ h.perdidos = EmptyBag
       /\ \A j \in 1..(i + 1) : EnlaceHecho(h.con[j], s[j])
  <2>1. /\ DOMAIN h.con = 1..(i + 1)
        /\ \A c \in 1..i : h.con[c] = g.con[c]
        /\ h.con[i + 1] = [r EXCEPT !.nueva = FALSE]
    BY <1>5, <1>9
  <2>2. EsSeq(h.con)
    BY <1>3 DEF SocketsOK
  <2>3. Len(h.con) = i + 1
    BY <2>1, <2>2 DEF EsSeq
  <2>4. \A c \in 1..(i + 1) : c \in 1..i \/ c = i + 1
    OBVIOUS
  <2> QED
    BY <1>2, <1>4, <1>5, <1>6, <1>9, <2>1, <2>3, <2>4
<1> HIDE DEF h, p, q
<1>11. /\ \A m \in Node : \A fd \in Abiertos(k, m) :
            fd \in Abiertos(g, m) /\ Punta(g, m, fd) = Punta(k, m, fd)
       /\ \E fd \in Abiertos(g, a) : Punta(g, a, fd) = p
       /\ \A m \in Node : \A fd \in Abiertos(g, m) :
            fd \in Abiertos(k, m) \/ (m = a /\ fd >= 3 /\ Punta(g, m, fd) = p)
  <2>1. /\ g.fds[a] = Abre(k.fds[a], Libre(k, a), p)
        /\ \A m \in Node : m # a => g.fds[m] = k.fds[m]
    BY <1>1, <1>2, <1>4 DEF SocketsOK
  <2>2. SocketsOK(k) /\ a \in Node
    BY <1>1, <1>2
  <2> QED
    BY <2>1, <2>2, AbreSigue
<1>12. /\ \A m \in Node : \A fd \in Abiertos(g, m) :
            fd \in Abiertos(h, m) /\ Punta(h, m, fd) = Punta(g, m, fd)
       /\ \E fd \in Abiertos(h, b) : Punta(h, b, fd) = q
       /\ \A m \in Node : \A fd \in Abiertos(h, m) :
            fd \in Abiertos(g, m) \/ (m = b /\ fd >= 3 /\ Punta(h, m, fd) = q)
  <2>1. /\ h.fds[b] = Abre(g.fds[b], Libre(g, b), q)
        /\ \A m \in Node : m # b => h.fds[m] = g.fds[m]
    BY <1>1, <1>3, <1>9 DEF SocketsOK
  <2> QED
    BY <1>1, <1>3, <2>1, AbreSigue
<1>13. ASSUME NEW j \in 1..(i + 1)
       PROVE  /\ \E fd \in Abiertos(h, s[j][1]) :
                   Punta(h, s[j][1], fd) = [con |-> j, lado |-> 1]
              /\ \E fd \in Abiertos(h, Vecinos(s[j])) :
                   Punta(h, Vecinos(s[j]), fd) = [con |-> j, lado |-> 2]
  <2>1. CASE j = i + 1
    BY <1>1, <1>11, <1>12, <2>1 DEF a, b, p, q
  <2>2. CASE j # i + 1
    <3>1. j \in 1..i
      BY <2>2
    <3>2. PICK x \in Abiertos(k, s[j][1]) :
            Punta(k, s[j][1], x) = [con |-> j, lado |-> 1]
      BY <3>1 DEF Enlazada, s
    <3>3. PICK y \in Abiertos(k, Vecinos(s[j])) :
            Punta(k, Vecinos(s[j]), y) = [con |-> j, lado |-> 2]
      BY <3>1 DEF Enlazada, s
    <3>4. s[j][1] \in Node /\ Vecinos(s[j]) \in Node
      BY <1>1
    <3> QED
      BY <1>11, <1>12, <3>2, <3>3, <3>4
  <2> QED
    BY <2>1, <2>2
<1>14. ASSUME NEW m \in Node, NEW fd \in Abiertos(h, m)
       PROVE  fd >= 3 /\ EsDeEnlace(s, i + 1, m, Punta(h, m, fd))
  <2>1. i + 1 \in 1..(i + 1) /\ \A j \in 1..i : j \in 1..(i + 1)
    OBVIOUS
  <2>2. CASE fd \in Abiertos(k, m)
    <3>1. Punta(h, m, fd) = Punta(k, m, fd)
      BY <1>11, <1>12, <2>2
    <3>2. fd >= 3 /\ EsDeEnlace(s, i, m, Punta(k, m, fd))
      BY <2>2 DEF Enlazada, s
    <3> QED
      BY <2>1, <3>1, <3>2 DEF EsDeEnlace
  <2>3. CASE fd \in Abiertos(g, m) /\ m = a /\ fd >= 3 /\ Punta(g, m, fd) = p
    <3>1. Punta(h, m, fd) = p
      BY <1>12, <2>3
    <3> QED
      BY <2>1, <2>3, <3>1 DEF EsDeEnlace, p, a
  <2>4. CASE m = b /\ fd >= 3 /\ Punta(h, m, fd) = q
    BY <2>1, <2>4 DEF EsDeEnlace, q, b
  <2> QED
    BY <1>11, <1>12, <2>2, <2>3, <2>4
<1>15. Escuchan(h, e)
  <2>1. ASSUME NEW m \in Node, m \in e.frios
        PROVE  Abiertos(h, m) = {}
    BY <1>1, <1>2, <1>11, <1>12, <2>1 DEF Escuchan
  <2>2. ASSUME NEW m \in Node, m \notin e.frios
        PROVE  3 \in Abiertos(h, m) /\ Punta(h, m, 3) = PUERTO
    BY <1>2, <1>11, <1>12, <2>2 DEF Escuchan
  <2> QED
    BY <2>1, <2>2 DEF Escuchan
<1> QED
  BY <1>1, <1>3, <1>10, <1>13, <1>14, <1>15 DEF Enlazada, s

LEMMA SinEnlacesOK ==
  ASSUME NEW e
  PROVE  Enlazada(SinEnlaces(e), e, 0)
<1> DEFINE k == SinEnlaces(e)
           f == Abre(<<>>, 3, PUERTO)
<1>1. FdsOK(<<>>) /\ DOMAIN <<>> = {}
  BY SinFds, SeqCortas
<1>2. FdsOK(f) /\ DOMAIN f = {3} /\ f[3] = PUERTO
  <2>1. FdsOK(f)
    BY <1>1, AbreFds
  <2>2. DOMAIN f = {3} /\ f[3] = PUERTO
    BY <1>1 DEF Abre
  <2> QED
    BY <2>1, <2>2
<1>3. /\ {"fds", "con", "perdidos"} \subseteq DOMAIN k /\ k.con = <<>>
      /\ k.perdidos = EmptyBag /\ DOMAIN k.fds = Node
      /\ \A n \in Node : k.fds[n] = IF n \in e.frios THEN <<>> ELSE f
  BY DEF SinEnlaces
<1> HIDE DEF k, f
<1>4. \A n \in Node : FdsOK(k.fds[n])
  BY <1>1, <1>2, <1>3
<1>5. EsSeq(k.con) /\ DOMAIN k.con = {} /\ Len(k.con) = 0
  BY <1>3, SeqCortas
<1>6. SocketsOK(k)
  BY <1>3, <1>4, <1>5 DEF SocketsOK
<1>7. Escuchan(k, e)
  BY <1>1, <1>2, <1>3 DEF Escuchan, Abiertos, Punta
<1>8. ASSUME NEW n \in Node, NEW fd \in Abiertos(k, n)
      PROVE  fd >= 3 /\ EsDeEnlace(e.enlaces, 0, n, Punta(k, n, fd))
  <2>1. fd = 3 /\ Punta(k, n, fd) = PUERTO
    BY <1>1, <1>2, <1>3, <1>8 DEF Abiertos, Punta
  <2> QED
    BY <2>1 DEF EsDeEnlace
<1> QED
  BY <1>3, <1>5, <1>6, <1>7, <1>8 DEF Enlazada, k

(* The definition of Enlazados is by recursion on the links; the function  *)
(* it chooses exists, as there is no least number of links without one.    *)
LEMMA TrasEs ==
  ASSUME NEW e, NEW N \in Nat, N = Len(e.enlaces)
  PROVE  \E f : /\ Enlazados(e) = f[N]
                /\ f = [i \in 0..N |-> IF i = 0 THEN SinEnlaces(e)
                                       ELSE Enlaza(f[i - 1], e.enlaces[i])]
<1> DEFINE Es(f, m) == f = [i \in 0..m |-> IF i = 0 THEN SinEnlaces(e)
                                           ELSE Enlaza(f[i - 1], e.enlaces[i])]
           Malos == {m \in Nat : ~\E f : Es(f, m)}
<1>1. \E f : Es(f, N)
  <2>1. SUFFICES ASSUME Malos # {}
                 PROVE  FALSE
    OBVIOUS
  <2> DEFINE m == Min(Malos)
  <2>2. m \in Nat /\ m \in Malos /\ \A k \in Malos : m <= k
    <3>1. Malos \in SUBSET Nat
      OBVIOUS
    <3> HIDE DEF Malos
    <3> QED
      BY <2>1, <3>1, Minimo
  <2> HIDE DEF m, Es
  <2>3. m # 0
    <3> DEFINE f == [i \in 0..0 |-> SinEnlaces(e)]
    <3>1. Es(f, 0)
      BY DEF Es
    <3> QED
      BY <2>2, <3>1
  <2>4. m - 1 \in Nat /\ m - 1 \notin Malos
    <3>1. m - 1 \in Nat /\ ~(m <= m - 1)
      BY <2>2, <2>3
    <3> HIDE DEF Malos
    <3> QED
      BY <2>2, <3>1
  <2>5. PICK f : Es(f, m - 1)
    BY <2>4
  <2> DEFINE g == [i \in 0..m |-> IF i = m THEN Enlaza(f[m - 1], e.enlaces[m])
                                  ELSE f[i]]
  <2>6. Es(g, m)
    <3>1. ASSUME NEW i \in 0..m
          PROVE  g[i] = IF i = 0 THEN SinEnlaces(e)
                        ELSE Enlaza(g[i - 1], e.enlaces[i])
      <4>1. CASE i = 0
        BY <2>3, <2>4, <2>5, <4>1 DEF Es
      <4>2. CASE i = m
        <5>1. m - 1 \in 0..m /\ m - 1 # m /\ g[m - 1] = f[m - 1]
          BY <2>2, <2>4
        <5> QED
          BY <2>3, <4>2, <5>1
      <4>3. CASE i # 0 /\ i # m
        <5>1. i \in 0..(m - 1) /\ i - 1 \in 0..m /\ i - 1 # m
          BY <2>2, <2>4, <4>3
        <5>2. f[i] = Enlaza(f[i - 1], e.enlaces[i])
          BY <2>5, <4>3, <5>1 DEF Es
        <5>3. g[i] = f[i] /\ g[i - 1] = f[i - 1]
          BY <4>3, <5>1
        <5> QED
          BY <4>3, <5>2, <5>3
      <4> QED
        BY <4>1, <4>2, <4>3
    <3> QED
      BY <3>1 DEF Es
  <2> QED
    BY <2>2, <2>6
<1> DEFINE F == CHOOSE f : Es(f, N)
<1>2. Es(F, N)
  BY <1>1
<1>3. Enlazados(e) = F[N]
  BY DEF Enlazados
<1> HIDE DEF F
<1> QED
  BY <1>2, <1>3

LEMMA EnlazadosOK ==
  ASSUME NEW e \in Escenas
  PROVE  Enlazada(Enlazados(e), e, Len(e.enlaces))
<1> DEFINE N == Len(e.enlaces)
           s == e.enlaces
<1>1. N \in Nat /\ DOMAIN s = 1..N
  BY EscenaEs
<1>2. PICK f : /\ Enlazados(e) = f[N]
               /\ f = [i \in 0..N |-> IF i = 0 THEN SinEnlaces(e)
                                      ELSE Enlaza(f[i - 1], s[i])]
  BY <1>1, TrasEs
<1> DEFINE Malos == {i \in 0..N : ~Enlazada(f[i], e, i)}
<1>3. SUFFICES Malos = {}
  <2>1. N \in 0..N
    BY <1>1
  <2> QED
    BY <1>2, <1>3, <2>1
<1>4. SUFFICES ASSUME Malos # {}
               PROVE  FALSE
  OBVIOUS
<1> DEFINE m == Min(Malos)
<1>5. m \in 0..N /\ m \in Malos /\ \A k \in Malos : m <= k
  <2>1. Malos \in SUBSET Nat
    BY <1>1
  <2>2. m \in Malos /\ \A k \in Malos : m <= k
    <3> HIDE DEF Malos
    <3> QED
      BY <1>4, <2>1, Minimo
  <2> QED
    BY <2>2
<1> HIDE DEF m
<1>6. m # 0
  BY <1>2, <1>5, SinEnlacesOK
<1>7. m \in 0..N /\ m - 1 \in Nat /\ m - 1 \in 0..N /\ m - 1 \notin Malos
  <2>1. m \in 0..N /\ m - 1 \in Nat /\ m - 1 \in 0..N /\ ~(m <= m - 1)
    BY <1>1, <1>5, <1>6
  <2> HIDE DEF Malos
  <2> QED
    BY <1>5, <2>1
<1>8. Enlazada(f[m - 1], e, m - 1)
  BY <1>7
<1>9. f[m] = Enlaza(f[m - 1], s[m])
  BY <1>2, <1>6, <1>7
<1> DEFINE i == m - 1
<1>10. i \in Nat /\ i + 1 = m /\ i + 1 \in DOMAIN s
  BY <1>1, <1>7
<1>11. Enlazada(f[i], e, i)
  BY <1>8
<1> HIDE DEF i
<1>12. Enlazada(Enlaza(f[i], s[i + 1]), e, i + 1)
  BY <1>10, <1>11, EnlazadaSigue
<1> QED
  BY <1>5, <1>9, <1>10, <1>12 DEF i

(* The descriptor of the last of some of the connections is one, if there  *)
(* is any; and it is SOCK_ERRONEO if there is none.                        *)
LEMMA UltimoFdEs ==
  ASSUME NEW e \in Escenas, NEW n \in Node, NEW C, NEW l,
         \/ l = 1 /\ C \subseteq Hechos(e, n)
         \/ l = 2 /\ C \subseteq Aceptados(e, n)
  PROVE  /\ UltimoFd(e, n, C, l) \in Int
         /\ C = {} => UltimoFd(e, n, C, l) = SOCK_ERRONEO
         /\ C # {} =>
              /\ UltimoFd(e, n, C, l) \in Nat /\ Max(C) \in C
              /\ UltimoFd(e, n, C, l) \in Abiertos(Enlazados(e), n)
              /\ Punta(Enlazados(e), n, UltimoFd(e, n, C, l))
                   = [con |-> Max(C), lado |-> l]
<1> DEFINE k == Enlazados(e)
           s == e.enlaces
           N == Len(s)
           j == Max(C)
<1>1. N \in Nat /\ DOMAIN s = 1..N /\ Enlazada(k, e, N)
  BY EscenaEs, EnlazadosOK
<1>2. Abiertos(k, n) \subseteq Nat
  BY <1>1 DEF Enlazada, SocketsOK, FdsOK, Abiertos
<1>3. ASSUME C # {}
      PROVE  /\ UltimoFd(e, n, C, l) \in Nat /\ j \in C
             /\ UltimoFd(e, n, C, l) \in Abiertos(k, n)
             /\ Punta(k, n, UltimoFd(e, n, C, l)) = [con |-> j, lado |-> l]
  <2>1. C \in SUBSET (1..N)
    BY <1>1 DEF Hechos, Aceptados
  <2>2. j \in C
    BY <1>1, <1>3, <2>1, Maximo
  <2>3. \E fd \in Abiertos(k, n) : Punta(k, n, fd) = [con |-> j, lado |-> l]
    <3>1. CASE l = 1 /\ C \subseteq Hechos(e, n)
      <4>1. j \in 1..N /\ s[j][1] = n
        BY <2>1, <2>2, <3>1 DEF Hechos
      <4> HIDE DEF j, k
      <4> QED
        BY <1>1, <3>1, <4>1 DEF Enlazada
    <3>2. CASE l = 2 /\ C \subseteq Aceptados(e, n)
      <4>1. j \in 1..N /\ Vecinos(s[j]) = n
        BY <2>1, <2>2, <3>2 DEF Aceptados
      <4> HIDE DEF j, k
      <4> QED
        BY <1>1, <3>2, <4>1 DEF Enlazada
    <3> QED
      BY <3>1, <3>2
  <2>4. UltimoFd(e, n, C, l) = CHOOSE fd \in Abiertos(k, n) :
                                 Punta(k, n, fd) = [con |-> j, lado |-> l]
    BY <1>3 DEF UltimoFd
  <2> HIDE DEF j, k
  <2>5. /\ UltimoFd(e, n, C, l) \in Abiertos(k, n)
        /\ Punta(k, n, UltimoFd(e, n, C, l)) = [con |-> j, lado |-> l]
    BY <2>3, <2>4
  <2> QED
    BY <1>2, <2>2, <2>5
<1>4. CASE C = {}
  BY <1>4 DEF UltimoFd, SOCK_ERRONEO
<1> QED
  BY <1>3, <1>4

LEMMA RouterEnlazadoOK ==
  ASSUME NEW e \in Escenas, NEW n \in Node
  PROVE  RouterOK(RouterEnlazado(e, n)) /\ RouterEnlazado(e, n).paso = "libre"
<1> DEFINE hecho(k) == {i \in Hechos(e, n) : e.enlaces[i][2] = k}
           con(x) == {i \in Hechos(e, n) : Vecinos(e.enlaces[i]) = x}
           de(x) == {i \in Aceptados(e, n) : e.enlaces[i][1] = x}
           v == [k \in 1..2 |-> UltimoFd(e, n, hecho(k), 1)]
           c == [x \in {y \in Node : con(y) # {}} |-> UltimoFd(e, n, con(x), 1)]
           t == [x \in {y \in Node : de(y) # {}} |-> UltimoFd(e, n, de(x), 2)]
           r == [RouterNuevo EXCEPT !.vecino = v, !.cliente = c, !.servidor = t,
                    !.show_menu = TRUE, !.menus = 1, !.intentos = 0]
<1>1. RouterEnlazado(e, n) = r
  BY DEF RouterEnlazado
<1>2. v \in [1..2 -> Int]
  <2>1. \A k : hecho(k) \subseteq Hechos(e, n)
    OBVIOUS
  <2>2. \A k : UltimoFd(e, n, hecho(k), 1) \in Int
    <3> HIDE DEF hecho
    <3> QED
      BY <2>1, UltimoFdEs
  <2> HIDE DEF hecho
  <2> QED
    BY <2>2
<1>3. c \in [DOMAIN c -> Nat]
  <2>1. \A x : con(x) \subseteq Hechos(e, n)
    OBVIOUS
  <2>2. \A x : con(x) # {} => UltimoFd(e, n, con(x), 1) \in Nat
    <3> HIDE DEF con
    <3> QED
      BY <2>1, UltimoFdEs
  <2> HIDE DEF con
  <2> QED
    BY <2>2
<1>4. t \in [DOMAIN t -> Nat]
  <2>1. \A x : de(x) \subseteq Aceptados(e, n)
    OBVIOUS
  <2>2. \A x : de(x) # {} => UltimoFd(e, n, de(x), 2) \in Nat
    <3> HIDE DEF de
    <3> QED
      BY <2>1, UltimoFdEs
  <2> HIDE DEF de
  <2> QED
    BY <2>2
<1> HIDE DEF v, c, t
<1>5. RouterOK(RouterNuevo) /\ 0 \in 0..Intentos
  BY RouterNuevoOK, ConexionesAssumption
<1>6. RouterOK(r) /\ r.paso = "libre"
  BY <1>2, <1>3, <1>4, <1>5 DEF RouterOK, RouterNuevo, PasoRouter
<1> QED
  BY <1>1, <1>6

LEMMA ListenerEnlazadoOK ==
  ASSUME NEW e \in Escenas, NEW n \in Node
  PROVE  ListenerOK(ListenerEnlazado(e, n))
<1> DEFINE k == Enlazados(e)
           M == Abiertos(k, n)
           c == Cardinality(Aceptados(e, n))
           I == {fd \in M : Punta(k, n, fd).lado = 2}
           ev == [id |-> "LOOP"]
           q == <<ev>>
           l == [ListenerNuevo EXCEPT !.events = q, !.servSock = 3, !.master = M,
                                      !.cant = c, !.ip = I]
<1>1. ListenerEnlazado(e, n) = l
  BY DEF ListenerEnlazado
<1>2. M \subseteq Nat
  BY EnlazadosOK DEF Enlazada, SocketsOK, FdsOK, Abiertos
<1>3. c \in Int
  <2>1. /\ Len(e.enlaces) \in Nat
        /\ Aceptados(e, n) \in SUBSET (1..Len(e.enlaces))
    BY EscenaEs DEF Aceptados
  <2>2. IsFiniteSet(1..Len(e.enlaces))
    BY <2>1, Intervalo
  <2>3. IsFiniteSet(Aceptados(e, n))
    BY <2>1, <2>2, Finitos
  <2>4. c \in Nat
    BY <2>3, Finitos
  <2> QED
    BY <2>4
<1>4. EvListenerOK(ev) /\ ev.id = "LOOP"
  BY DEF EvListenerOK
<1> HIDE DEF k, M, c, I, ev
<1>5. EsSeq(q) /\ DOMAIN q = {1} /\ q[1] = ev
  BY SeqCortas
<1> HIDE DEF q
<1>6. ListenerOK(l)
  BY <1>2, <1>3, <1>4, <1>5 DEF ListenerOK, ListenerNuevo, PasoListener
<1> QED
  BY <1>1, <1>6

LEMMA TiposInit == Init => Tipos /\ Apagados
<1> SUFFICES ASSUME Init
             PROVE  Tipos /\ Apagados
  OBVIOUS
<1>1. /\ logicEvents = [n \in Node |-> <<>>]
      /\ routerEvents = [n \in Node |-> <<>>]
      /\ en_operacion = [n \in Node |-> FALSE]
  BY DEF Init, LogicInit
<1>2. PICK e \in Escenas :
       /\ tcp = Enlazados(e)
       /\ router = [n \in Node |->
                      IF n \in e.frios THEN RouterNuevo ELSE RouterEnlazado(e, n)]
       /\ listener = [n \in Node |->
                        IF n \in e.frios THEN ListenerNuevo ELSE ListenerEnlazado(e, n)]
       /\ vivo = [n \in Node |-> n \notin e.frios]
  BY DEF Init
<1>3. SocketsOK(tcp)
  BY <1>2, EnlazadosOK DEF Enlazada
<1>4. \A n \in Node : RouterOK(router[n]) /\ router[n].paso = "libre"
  BY <1>2, RouterNuevoOK, RouterEnlazadoOK DEF RouterNuevo
<1>5. \A n \in Node : ListenerOK(listener[n])
  BY <1>2, ListenerNuevoOK, ListenerEnlazadoOK
<1>6. Routers /\ Listeners
  BY <1>2, <1>4, <1>5 DEF Routers, Listeners
<1>7. Colas /\ Cursos
  BY <1>1, <1>4, SinCola DEF Colas, Cursos
<1>8. en_operacion \in [Node -> BOOLEAN]
  <2>1. FALSE \in BOOLEAN
    OBVIOUS
  <2> QED
    BY <1>1, <2>1, Zenon
<1>9. vivo \in [Node -> BOOLEAN]
  <2>1. \A n : (n \notin e.frios) \in BOOLEAN
    OBVIOUS
  <2> QED
    BY <1>2, <2>1, Zenon
<1>10. \A n \in Node : en_operacion[n] = FALSE
  BY <1>1, Zenon
<1>11. Apagados
  BY <1>1, <1>2, <1>10 DEF Apagados, Apagado
<1> QED
  BY <1>3, <1>6, <1>7, <1>8, <1>9, <1>11 DEF Tipos, Banderas

-----------------------------------------------------------------------------
(* ConexionesTypeOK holds in every reachable state, whatever the scene: a  *)
(* map of the Router never gives a name anything but a descriptor, the     *)
(* attempts of start_connections never go below 0, and the Listener never  *)
(* goes on with a descriptor that it has stopped watching (router.cpp,     *)
(* listener.cpp).                                                          *)
THEOREM SiempreConexionesTypeOK == Spec => []ConexionesTypeOK
<1>1. Tipos /\ Apagados /\ [Next]_vars => (Tipos /\ Apagados)'
  BY TiposNext, ApagadosNext
<1> QED
  BY TiposInit, <1>1, TiposBasta, PTL DEF Spec
=============================================================================
