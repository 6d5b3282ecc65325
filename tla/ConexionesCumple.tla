-------------------------- MODULE ConexionesCumple --------------------------
(***************************************************************************)
(* Conexiones implements Bazar while no node ends, for any nodes, orders   *)
(* and products: what the threads, their queues and the sockets do to the  *)
(* messages is a step of Bazar, or none, under the map of Conexiones.      *)
(* Each lemma on a step also says that Firme goes on.                      *)
(***************************************************************************)
EXTENDS ConexionesFirme

-----------------------------------------------------------------------------
(* What Bazar sees of a step.                                              *)
PasoDeBazar == [B!Next]_B!vars

LEMMA Tartamudea ==
  ASSUME UNCHANGED <<logicEvents, logicPropio, cuenta>>, UNCHANGED DeLogic,
         ElRed(tcp') = ElRed(tcp)
  PROVE  PasoDeBazar
<1>1. EnRed = ElRed(tcp) /\ EnRed' = ElRed(tcp')
  BY DEF EnRed, ElRed
<1>2. UNCHANGED B!vars
  BY <1>1 DEF B!vars, B!logicVars, logicPropio
<1> QED
  BY <1>2 DEF PasoDeBazar

LEMMA AtiendeDeBazar ==
  ASSUME Tipos, NEW n \in Node, routerEvents[n] # <<>>, Evento(n).id \in RouterId,
         FinRouter(n, <<>>), UNCHANGED <<logicEvents, logicPropio, cuenta>>
  PROVE  B!AtiendeRouter(n, Evento(n).id) /\ B!Cabeza(n) = Evento(n).tag
<1>1. /\ DeLogic[n] # <<>> /\ Head(DeLogic[n]) = Evento(n)
      /\ DeLogic' = [DeLogic EXCEPT ![n] = Tail(@)]
  BY DeLogicFin
<1> QED
  BY <1>1 DEF B!AtiendeRouter, B!Cabeza, logicPropio

LEMMA RouterDeBazar ==
  ASSUME NEW n \in Node, B!RouterStep(n)
  PROVE  PasoDeBazar
<1>1. B!Next
  BY DEF B!Next
<1> QED
  BY <1>1 DEF PasoDeBazar

-----------------------------------------------------------------------------
(* What comes of sending, while no node ends.                              *)
ResultaObra(n, r, b) ==
  /\ {"k", "vive"} \subseteq DOMAIN r
  /\ Obra(n, r.k) /\ Conserva(r.k) /\ r.k.fds = tcp.fds /\ ElRed(r.k) = b
  /\ r.vive

LEMMA ObraYa ==
  ASSUME Negocios, Firme, NEW n \in Node
  PROVE  /\ Obra(n, tcp) /\ Conserva(tcp)
         /\ ResultaObra(n, SinEnvios, ElRed(tcp))
<1>1. Hasta(n, tcp) /\ Queda(tcp, tcp, Ele, n)
  BY HastaYa, SigueIgual
<1>2. LetrasBien(tcp) /\ Respeta(tcp, tcp, Ele, n)
  BY RespetaIgual DEF Firme, RedFirme
<1>3. Obra(n, tcp) /\ Conserva(tcp)
  BY <1>1, <1>2 DEF Obra, Conserva
<1>4. SinEnvios.k = tcp /\ SinEnvios.vive /\ {"k", "vive"} \subseteq DOMAIN SinEnvios
  BY DEF SinEnvios
<1> QED
  BY <1>3, <1>4 DEF ResultaObra

LEMMA ConservaTras ==
  ASSUME NEW k, Conserva(k), DOMAIN k.con = DOMAIN tcp.con, NEW h, SinLeerse(k, h)
  PROVE  Conserva(h)
  BY DEF Conserva, SinLeerse, Anunciada

LEMMA EnvioObra ==
  ASSUME Negocios, NEW n \in Node, vivo[n], NEW r, NEW b, ResultaObra(n, r, b),
         NEW fd, NEW m, NEW x,
         Conectado(tcp, n, fd) =>
           EsOtro(tcp, n, fd, x) /\ x \in Node /\ DatoBien(Conocidos, x, Carta(m)),
         Envio(r, n, fd, Carta(m)).vive
  PROVE  ResultaObra(n, Envio(r, n, fd, Carta(m)),
                     IF Conectado(tcp, n, fd) THEN B!Envia(b, x, m) ELSE b)
<1> DEFINE k == r.k
           d == Carta(m)
           h == Envia(k, n, fd, d)
           s == Envio(r, n, fd, d)
<1>1. /\ Obra(n, k) /\ Conserva(k) /\ k.fds = tcp.fds /\ ElRed(k) = b
      /\ {"k", "vive"} \subseteq DOMAIN r /\ r.vive
  BY DEF ResultaObra
<1>2. ~EnvioMata(k, n, fd) /\ s = [r EXCEPT !.k = h]
  <2>1. ASSUME EnvioMata(k, n, fd)
        PROVE  FALSE
    <3>1. s = [r EXCEPT !.vive = FALSE]
      BY <1>1, <2>1 DEF Envio
    <3>2. s.vive = FALSE
      BY <1>1, <3>1
    <3> QED
      BY <3>2
  <2> QED
    BY <1>1, <2>1 DEF Envio
<1>3. s.k = h /\ s.vive = r.vive /\ DOMAIN s = DOMAIN r
  BY <1>1, <1>2
<1>4. Conectado(k, n, fd) <=> Conectado(tcp, n, fd)
  BY <1>1 DEF Conectado, Abiertos, Punta
<1>5. Conectado(k, n, fd) => EsOtro(k, n, fd, x)
  <2> SUFFICES ASSUME Conectado(k, n, fd)
               PROVE  EsOtro(k, n, fd, x)
    OBVIOUS
  <2>1. /\ RedBien(Conocidos, vivo, Ele, tcp) /\ Sigue(tcp, k, Ele, n)
        /\ Conectado(tcp, n, fd) /\ Punta(k, n, fd) = Punta(tcp, n, fd)
    BY <1>1, <1>4 DEF Negocios, Red, Obra, Hasta, Punta
  <2>2. EsPunta(Conocidos, vivo, Ele, tcp, n, Punta(tcp, n, fd).con, Punta(tcp, n, fd).lado)
    BY <2>1, PuntaEs
  <2> QED
    BY <2>1, <2>2 DEF EsPunta, Sigue, EsOtro
<1> HIDE DEF d, k, h
<1>6. h = Envia(k, n, fd, d) /\ d = Carta(m)
  BY DEF h, d
<1>7. Conectado(k, n, fd) => EsOtro(k, n, fd, x) /\ DatoBien(Conocidos, x, d)
  BY <1>4, <1>5, <1>6
<1>8. /\ Obra(n, h) /\ h.fds = k.fds
      /\ ~Conectado(k, n, fd) => ElRed(h) = ElRed(k)
      /\ d = Carta(m) /\ Conectado(k, n, fd) =>
           ElRed(h) = B!BagAdd(ElRed(k), [dst |-> x, tag |-> m])
  BY <1>1, <1>6, <1>7, ObraEnvia
<1>9. Conserva(h)
  <2>1. RedBien(Conocidos, vivo, Ele, k) /\ DOMAIN k.con = DOMAIN tcp.con
    BY <1>1 DEF Obra, Hasta, Respeta
  <2>2. Conectado(k, n, fd) =>
          DatoBien(Conocidos, k.con[Punta(k, n, fd).con].nodo[3 - Punta(k, n, fd).lado], d)
    BY <1>7 DEF EsOtro
  <2>3. SinLeerse(k, h)
    BY <1>6, <2>1, <2>2, EnviaBien
  <2> QED
    BY <1>1, <2>1, <2>3, ConservaTras
<1>10. ElRed(h) = IF Conectado(tcp, n, fd) THEN B!Envia(b, x, m) ELSE b
  <2>1. CASE Conectado(tcp, n, fd)
    <3>1. x # Nadie
      BY <2>1, MensajesAssumption
    <3> QED
      BY <1>1, <1>4, <1>6, <1>8, <2>1, <3>1 DEF B!Envia
  <2>2. CASE ~Conectado(tcp, n, fd)
    BY <1>1, <1>4, <1>8, <2>2
  <2> QED
    BY <2>1, <2>2
<1>11. s.k = h /\ {"k", "vive"} \subseteq DOMAIN s /\ s.vive
  BY <1>1, <1>3
<1>12. s = Envio(r, n, fd, Carta(m)) /\ h.fds = tcp.fds
  BY <1>1, <1>6, <1>8
<1> HIDE DEF s
<1> QED
  BY <1>8, <1>9, <1>10, <1>11, <1>12 DEF ResultaObra

(* To a neighbour, or nowhere.                                             *)
LEMMA VecinalConectado ==
  ASSUME Negocios, NEW n \in Node, NEW k, RedFirme(k), NEW fd, NEW x, Vecinal(k, n, fd, x),
         RedBien(Conocidos, vivo, Ele, k)
  PROVE  Conectado(k, n, fd) /\ Ve(k, n, fd) = "vivo"
<1>1. Punta(k, n, fd).con \in 1..Ele /\ fd \in Abiertos(k, n)
  BY DEF Vecinal
<1>2. Punta(k, n, fd) # PUERTO
  BY <1>1, NadieEnPuerto
<1>3. Conectado(k, n, fd)
  BY <1>1, <1>2 DEF Conectado
<1>4. Punta(k, n, fd).lado \in 1..2
  BY <1>3, PuntaEs DEF EsPunta
<1>5. k.con[Punta(k, n, fd).con].ve = Vivos
  BY <1>1 DEF RedFirme
<1> QED
  BY <1>3, <1>4, <1>5 DEF Ve, Vivos

LEMMA EnvioVecinal ==
  ASSUME Negocios, Firme, NEW n \in Node, vivo[n], NEW r, NEW b, ResultaObra(n, r, b),
         NEW fd, NEW m, NEW x,
         \/ x = Nadie /\ ~Conectado(tcp, n, fd)
         \/ x \in Node /\ Vecinal(tcp, n, fd, x) /\ DatoBien(Conocidos, x, Carta(m))
  PROVE  ResultaObra(n, Envio(r, n, fd, Carta(m)), B!Envia(b, x, m))
<1> DEFINE k == r.k
           d == Carta(m)
<1>1. /\ Obra(n, k) /\ k.fds = tcp.fds
      /\ {"k", "vive"} \subseteq DOMAIN r /\ r.vive
  BY DEF ResultaObra
<1>2. RedFirme(k) /\ RedBien(Conocidos, vivo, Ele, k)
  <2> HIDE DEF k
  <2> QED
    BY <1>1, ObraRed DEF Firme, Obra, Hasta
<1>3. ~EnvioMata(k, n, fd)
  <2>1. CASE ~Conectado(tcp, n, fd)
    BY <1>1, <2>1 DEF EnvioMata, Conectado, Abiertos, Punta
  <2>2. CASE Vecinal(tcp, n, fd, x)
    <3>1. RedFirme(tcp) /\ RedBien(Conocidos, vivo, Ele, tcp) /\ Sigue(tcp, k, Ele, n)
      BY <1>1 DEF Firme, Negocios, Red, Obra, Hasta
    <3>2. Guarda(tcp, k, n)
      BY <1>1 DEF Guarda, Abiertos, Punta
    <3>3. Vecinal(k, n, fd, x)
      <4> HIDE DEF k
      <4> QED
        BY <2>2, <3>1, <3>2, VecinalQueda
    <3>4. Ve(k, n, fd) = "vivo"
      <4> HIDE DEF k
      <4> QED
        BY <1>2, <3>3, VecinalConectado
    <3> QED
      BY <3>4 DEF EnvioMata
  <2> QED
    BY <2>1, <2>2
<1>4. Envio(r, n, fd, d).vive
  <2>1. Envio(r, n, fd, d) = [r EXCEPT !.k = Envia(r.k, n, fd, d)]
    BY <1>1, <1>3 DEF Envio
  <2>2. Envio(r, n, fd, d).vive = r.vive
    BY <1>1, <2>1
  <2> QED
    BY <1>1, <2>2
<1>5. CASE x = Nadie /\ ~Conectado(tcp, n, fd)
  <2>1. ResultaObra(n, Envio(r, n, fd, d), IF Conectado(tcp, n, fd) THEN B!Envia(b, x, m) ELSE b)
    BY <1>4, <1>5, EnvioObra
  <2>2. B!Envia(b, x, m) = b
    BY <1>5 DEF B!Envia
  <2> QED
    BY <1>5, <2>1, <2>2
<1>6. CASE x \in Node /\ Vecinal(tcp, n, fd, x) /\ DatoBien(Conocidos, x, Carta(m))
  <2>1. Conectado(tcp, n, fd) /\ EsOtro(tcp, n, fd, x)
    <3>1. RedFirme(tcp) /\ RedBien(Conocidos, vivo, Ele, tcp)
      BY DEF Firme, Negocios, Red
    <3> QED
      BY <1>6, <3>1, VecinalConectado DEF Vecinal
  <2>2. ResultaObra(n, Envio(r, n, fd, d), IF Conectado(tcp, n, fd) THEN B!Envia(b, x, m) ELSE b)
    BY <1>4, <1>6, <2>1, EnvioObra
  <2> QED
    BY <2>1, <2>2
<1> QED
  BY <1>5, <1>6

-----------------------------------------------------------------------------
(* The events of the Router that only send.                                *)
LEMMA EnviaCumple ==
  ASSUME Tipos, Apagados, Negocios, Firme, UNCHANGED vivo, NEW n \in Node, RouterStep(n),
         routerEvents[n] # <<>>, Evento(n).id \in RouterId, NEW r, NEW b,
         ResultaObra(n, r, b), NEW nuevo, MapasFirmes(tcp, n, nuevo),
         nuevo.paso = "libre", EnviaYListo(n, r, nuevo)
  PROVE  /\ Firme' /\ EnRed' = b
         /\ B!AtiendeRouter(n, Evento(n).id) /\ B!Cabeza(n) = Evento(n).tag
<1>1. r.vive /\ Obra(n, r.k) /\ Conserva(r.k) /\ ElRed(r.k) = b
  BY DEF ResultaObra
<1>2. /\ tcp' = r.k /\ router' = [router EXCEPT ![n] = nuevo] /\ FinRouter(n, <<>>)
      /\ UNCHANGED <<logicEvents, logicPropio, listener, en_operacion, vivo, cuenta>>
  BY <1>1 DEF EnviaYListo
<1>3. router'[n] = nuevo
  BY <1>2 DEF Tipos, Routers
<1>4. Obra(n, tcp') /\ Conserva(tcp')
  BY <1>1, <1>2
<1>5. Firme'
  <2>1. /\ MapasFirmes(tcp, n, router'[n]) /\ router'[n].paso = "libre"
        /\ listener'[n].paso = listener[n].paso /\ listener'[n].newfd = listener[n].newfd
        /\ UNCHANGED <<cuenta, vivo>> /\ FinRouter(n, <<>>)
    BY <1>2, <1>3
  <2> QED
    BY <1>4, <2>1, FinFirme
<1>6. EnRed' = b
  <2>1. EnRed' = ElRed(tcp')
    BY DEF EnRed, ElRed
  <2> QED
    BY <1>1, <1>2, <2>1
<1>7. B!AtiendeRouter(n, Evento(n).id) /\ B!Cabeza(n) = Evento(n).tag
  BY <1>2, AtiendeDeBazar
<1> QED
  BY <1>5, <1>6, <1>7

LEMMA CabezaEs ==
  ASSUME Tipos, NEW n \in Node, routerEvents[n] # <<>>, Evento(n).id \in RouterId
  PROVE  B!Cabeza(n) = Evento(n).tag
<1> DEFINE s == routerEvents[n]
<1>1. EsSeq(s) /\ s # <<>> /\ Head(s).id \in RouterId
  BY ColaEs DEF Evento
<1> HIDE DEF s
<1>2. Head(SinAvisos(s)) = Head(s)
  BY <1>1, SinAvisosTail
<1>3. DeLogic[n] = SinAvisos(s)
  BY DEF DeLogic, s
<1> QED
  BY <1>2, <1>3 DEF B!Cabeza, Evento, s

LEMMA SinConexion ==
  ASSUME Negocios, Firme, NEW n \in Node
  PROVE  ~Conectado(tcp, n, SOCK_ERRONEO) /\ ~Conectado(tcp, n, 0)
<1>1. SOCK_ERRONEO \notin Abiertos(tcp, n)
  BY DEF Negocios, Red, RedBien, SocketsOK, FdsOK, Abiertos, SOCK_ERRONEO
<1>2. 0 \notin Abiertos(tcp, n)
  BY DEF Firme, NodoFirme
<1> QED
  BY <1>1, <1>2 DEF Conectado

(* Where neighbour i of node n is, and what the Router knows of it.        *)
LEMMA VecinoEs ==
  ASSUME Tipos, Negocios, Firme, NEW n \in Node, NEW i \in 1..2
  PROVE  LET fd == router[n].vecino[i]
         IN  /\ Vecino[n][i] \in Node \cup {Nadie}
             /\ Vecino[n][i] = Nadie => fd = SOCK_ERRONEO
             /\ Vecino[n][i] # Nadie => Vecinal(tcp, n, fd, Vecino[n][i]) /\ ~EnvioFalla(tcp, n, fd)
<1> DEFINE fd == router[n].vecino[i]
<1>1. Vecino[n][i] \in Node \cup {Nadie}
  BY ConexionesAssumption
<1>2. VecinosFirmes(tcp, n, router[n])
  BY DEF Firme, NodoFirme, MapasFirmes
<1>3. /\ Vecino[n][i] = Nadie => fd = SOCK_ERRONEO
      /\ Vecino[n][i] # Nadie => Vecinal(tcp, n, fd, Vecino[n][i])
  BY <1>2 DEF VecinosFirmes
<1>4. ASSUME Vecinal(tcp, n, fd, Vecino[n][i])
      PROVE  ~EnvioFalla(tcp, n, fd)
  <2>1. RedFirme(tcp) /\ RedBien(Conocidos, vivo, Ele, tcp)
    BY DEF Firme, Negocios, Red
  <2> HIDE DEF fd
  <2>2. Conectado(tcp, n, fd) /\ Ve(tcp, n, fd) = "vivo"
    BY <1>4, <2>1, VecinalConectado
  <2> QED
    BY <2>2 DEF EnvioFalla
<1> QED
  BY <1>1, <1>3, <1>4

(* A LOOKUP goes to neighbours x and y, or to nobody for them.             *)
Destino(n, S, i, x) ==
  \/ x = Nadie /\ (i \notin S \/ Vecino[n][i] = Nadie)
  \/ x = Vecino[n][i] /\ i \in S

LEMMA DifundeCumple ==
  ASSUME Tipos, Apagados, Negocios, Firme, TodosViven, UNCHANGED vivo, NEW n \in Node,
         RouterStep(n), routerEvents[n] # <<>>, router[n].paso = "libre",
         Evento(n).id \in {"RT_FIRST_BROADCAST", "RT_BROADCAST"},
         NEW S, Difunde(n, S), NEW x, NEW y, Destino(n, S, 1, x), Destino(n, S, 2, y)
  PROVE  /\ Firme' /\ EnRed' = B!Envia(B!Envia(EnRed, x, B!Cabeza(n)), y, B!Cabeza(n))
         /\ B!AtiendeRouter(n, Evento(n).id)
<1> DEFINE m == Evento(n).tag
           d == Carta(m)
           v == router[n].vecino
           a(r, k) == Envio(r, n, IF k \in S THEN v[k] ELSE SOCK_ERRONEO, d)
           nuevo == [router[n] EXCEPT !.vecino =
                     [k \in 1..2 |-> IF k \in S /\ EnvioFalla(tcp, n, v[k])
                                     THEN SOCK_ERRONEO ELSE v[k]]]
<1>1. EnviaYListo(n, a(a(SinEnvios, 1), 2), nuevo)
  BY DEF Difunde
<1>2. vivo[n] /\ \A z : DatoBien(Conocidos, z, Carta(m))
  BY AvisoEs, CartaBien DEF AvisoBien, RouterId, TodosViven
<1>3. ASSUME NEW r, NEW b, ResultaObra(n, r, b), NEW i \in 1..2, NEW z, Destino(n, S, i, z)
      PROVE  ResultaObra(n, a(r, i), B!Envia(b, z, m))
  <2> DEFINE fd == IF i \in S THEN v[i] ELSE SOCK_ERRONEO
  <2>1. \/ z = Nadie /\ ~Conectado(tcp, n, fd)
        \/ z \in Node /\ Vecinal(tcp, n, fd, z) /\ DatoBien(Conocidos, z, Carta(m))
    <3>1. CASE i \notin S
      BY <1>3, <3>1, SinConexion DEF Destino
    <3>2. CASE i \in S /\ Vecino[n][i] = Nadie
      BY <1>3, <3>2, SinConexion, VecinoEs DEF Destino
    <3>3. CASE i \in S /\ Vecino[n][i] # Nadie
      BY <1>2, <1>3, <3>3, VecinoEs DEF Destino
    <3> QED
      BY <3>1, <3>2, <3>3
  <2> HIDE DEF fd, m
  <2>2. ResultaObra(n, Envio(r, n, fd, Carta(m)), B!Envia(b, z, m))
    BY <1>2, <1>3, <2>1, EnvioVecinal
  <2> QED
    BY <2>2 DEF fd
<1> DEFINE b1 == B!Envia(ElRed(tcp), x, m)
           b2 == B!Envia(b1, y, m)
           r1 == a(SinEnvios, 1)
           r2 == a(r1, 2)
<1>4. ResultaObra(n, SinEnvios, ElRed(tcp))
  BY ObraYa
<1>5. ResultaObra(n, r1, b1)
  <2> HIDE DEF a, m
  <2> QED
    BY <1>3, <1>4
<1>6. ResultaObra(n, r2, b2)
  <2> HIDE DEF a, m, r1, b1
  <2> QED
    BY <1>3, <1>5
<1>7. \A k \in 1..2 : (IF k \in S /\ EnvioFalla(tcp, n, v[k]) THEN SOCK_ERRONEO ELSE v[k]) = v[k]
  BY VecinoEs
<1>8. /\ RouterOK(router[n])
      /\ nuevo.vecino = v /\ nuevo.cliente = router[n].cliente
      /\ nuevo.servidor = router[n].servidor /\ nuevo.paso = "libre"
  <2>1. RouterOK(router[n])
    BY DEF Tipos, Routers
  <2>2. v = [k \in 1..2 |-> v[k]]
    BY <2>1 DEF RouterOK
  <2> QED
    BY <1>7, <2>1, <2>2 DEF RouterOK
<1>9. MapasFirmes(tcp, n, nuevo)
  <2>1. MapasFirmes(tcp, n, router[n])
    BY DEF Firme, NodoFirme
  <2> HIDE DEF nuevo
  <2> QED
    BY <1>8, <2>1, MapasIguales
<1>10. EnviaYListo(n, r2, nuevo) /\ nuevo.paso = "libre" /\ Evento(n).id \in RouterId
  BY <1>1, <1>8 DEF RouterId
<1> HIDE DEF r2, b2, nuevo, r1, b1, a, m
<1>11. /\ Firme' /\ EnRed' = b2
       /\ B!AtiendeRouter(n, Evento(n).id) /\ B!Cabeza(n) = Evento(n).tag
  BY <1>6, <1>9, <1>10, EnviaCumple
<1>12. EnRed = ElRed(tcp)
  BY DEF EnRed, ElRed
<1> QED
  BY <1>11, <1>12 DEF b1, b2, m

LEMMA PrimeroCumple ==
  ASSUME Tipos, Apagados, Negocios, Firme, TodosViven, UNCHANGED vivo, NEW n \in Node,
         send_first_broadcast_message(n)
  PROVE  Firme' /\ PasoDeBazar
<1>1. /\ routerEvents[n] # <<>> /\ router[n].paso = "libre" /\ RouterStep(n)
      /\ Evento(n).id = "RT_FIRST_BROADCAST" /\ Difunde(n, {1, 2})
  BY DEF send_first_broadcast_message, AtiendeRouter, EventoRouter, Evento, RouterStep
<1>2. Destino(n, {1, 2}, 1, Vecino[n][1]) /\ Destino(n, {1, 2}, 2, Vecino[n][2])
  BY DEF Destino
<1>3. /\ Firme' /\ B!AtiendeRouter(n, Evento(n).id)
      /\ EnRed' = B!Envia(B!Envia(EnRed, Vecino[n][1], B!Cabeza(n)), Vecino[n][2], B!Cabeza(n))
  BY <1>1, <1>2, DifundeCumple
<1>4. B!send_first_broadcast_message(n)
  BY <1>1, <1>3 DEF B!send_first_broadcast_message
<1> QED
  BY <1>3, <1>4, RouterDeBazar DEF B!RouterStep

LEMMA NombreUnico ==
  ASSUME NEW mapa, NEW fd
  PROVE  /\ Nombres(mapa, fd) = {} => NombreDe(mapa, fd) = {}
         /\ \A x : Nombres(mapa, fd) = {x} => NombreDe(mapa, fd) = {x}
<1>1. Nombres(mapa, fd) = {} => NombreDe(mapa, fd) = {}
  BY DEF NombreDe
<1>2. ASSUME NEW x, Nombres(mapa, fd) = {x}
      PROVE  NombreDe(mapa, fd) = {x}
  <2>1. (CHOOSE y \in {x} : TRUE) = x
    OBVIOUS
  <2>2. NombreDe(mapa, fd) = {z \in {x} : z = CHOOSE y \in {x} : TRUE}
    BY <1>2 DEF NombreDe
  <2> QED
    BY <2>1, <2>2
<1> QED
  BY <1>1, <1>2

LEMMA DifusionCumple ==
  ASSUME Tipos, Apagados, Negocios, Firme, TodosViven, UNCHANGED vivo, NEW n \in Node,
         send_broadcast_message(n)
  PROVE  Firme' /\ PasoDeBazar
<1> DEFINE c == get_creator_node_name(Evento(n).tag)
           S == {k \in 1..2 : c \notin NombreDe(router[n].cliente, router[n].vecino[k])}
<1>1. /\ routerEvents[n] # <<>> /\ router[n].paso = "libre" /\ RouterStep(n)
      /\ Evento(n).id = "RT_BROADCAST" /\ Difunde(n, S)
  BY DEF send_broadcast_message, AtiendeRouter, EventoRouter, Evento, RouterStep
<1>2. c \in Node
  <2>1. /\ MensajeBien(Conocidos, Evento(n).tag) /\ Evento(n).tag.code = "LOOKUP"
    BY <1>1, AvisoEs DEF AvisoBien, RouterId
  <2> QED
    BY <2>1 DEF MensajeBien, get_creator_node_name, Compradores
<1>3. B!Cabeza(n) = Evento(n).tag
  BY <1>1, CabezaEs DEF RouterId
<1>4. ASSUME NEW i \in 1..2
      PROVE  Destino(n, S, i, B!DestinoBroadcast(n, i))
  <2>1. Vecino[n][i] # Nadie =>
          NombreDe(router[n].cliente, router[n].vecino[i]) =
            IF i = 1 /\ Vecino[n][1] = Vecino[n][2] THEN {} ELSE {Vecino[n][i]}
    <3>1. Vecino[n][i] # Nadie =>
            Nombres(router[n].cliente, router[n].vecino[i]) =
              IF i = 1 /\ Vecino[n][1] = Vecino[n][2] THEN {} ELSE {Vecino[n][i]}
      BY DEF Firme, NodoFirme, MapasFirmes, VecinosFirmes
    <3> QED
      BY <3>1, NombreUnico
  <2>2. c # Nadie
    BY <1>2, MensajesAssumption
  <2>3. B!get_creator_node_name(B!Cabeza(n)) = c
    BY <1>3, CopiasDeMensajes
  <2> HIDE DEF c
  <2>4. B!DestinoBroadcast(n, i) =
          IF (IF i = 1 /\ Vecino[n][1] = Vecino[n][2] THEN Nadie ELSE Vecino[n][i]) = c
          THEN Nadie ELSE Vecino[n][i]
    BY <2>3 DEF B!DestinoBroadcast, B!find_in_client_sockets_nodo_nombre
  <2>5. CASE Vecino[n][i] = Nadie
    BY <2>4, <2>5 DEF Destino
  <2>6. CASE Vecino[n][i] # Nadie /\ i = 1 /\ Vecino[n][1] = Vecino[n][2]
    BY <2>1, <2>2, <2>4, <2>6 DEF Destino
  <2>7. CASE Vecino[n][i] # Nadie /\ ~(i = 1 /\ Vecino[n][1] = Vecino[n][2])
    BY <2>1, <2>2, <2>4, <2>7 DEF Destino
  <2> QED
    BY <2>5, <2>6, <2>7
<1>5. Destino(n, S, 1, B!DestinoBroadcast(n, 1)) /\ Destino(n, S, 2, B!DestinoBroadcast(n, 2))
  BY <1>4
<1> HIDE DEF S
<1>6. /\ Firme' /\ B!AtiendeRouter(n, Evento(n).id)
      /\ EnRed' = B!Envia(B!Envia(EnRed, B!DestinoBroadcast(n, 1), B!Cabeza(n)),
                          B!DestinoBroadcast(n, 2), B!Cabeza(n))
  BY <1>1, <1>5, DifundeCumple
<1>7. B!send_broadcast_message(n)
  BY <1>1, <1>6 DEF B!send_broadcast_message
<1> QED
  BY <1>6, <1>7, RouterDeBazar DEF B!RouterStep

LEMMA SinMuerte ==
  ASSUME Tipos, NEW n \in Node, TodosViven, UNCHANGED vivo
  PROVE  vivo[n] /\ \A k : ~Muere(n, k)
<1>1. vivo[n] /\ vivo \in [Node -> BOOLEAN]
  BY DEF Tipos, Banderas, TodosViven
<1>2. ASSUME NEW k, Muere(n, k)
      PROVE  FALSE
  <2>1. vivo'[n] = FALSE
    BY <1>1, <1>2 DEF Muere
  <2> QED
    BY <1>1, <2>1
<1> QED
  BY <1>1, <1>2

LEMMA ReplyCumple ==
  ASSUME Tipos, Apagados, Negocios, Firme, TodosViven, UNCHANGED vivo, NEW n \in Node,
         send_to_next_node_message(n)
  PROVE  Firme' /\ PasoDeBazar
<1> DEFINE m == Evento(n).tag
           x == get_next_node_name(m)
           mapa == router[n].servidor
           fd == IF x \in DOMAIN mapa THEN mapa[x] ELSE 0
           nuevo == [router[n] EXCEPT !.servidor = Pon(@, x, fd)]
           z == B!DestinoReply(n)
           r == Envio(SinEnvios, n, fd, Carta(m))
           b == B!Envia(ElRed(tcp), z, m)
<1>1. /\ routerEvents[n] # <<>> /\ router[n].paso = "libre" /\ RouterStep(n)
      /\ Evento(n).id = "RT_SEND_TO_SOCKET" /\ Evento(n).id \in RouterId
      /\ EnviaYListo(n, r, nuevo)
  BY DEF send_to_next_node_message, AtiendeRouter, EventoRouter, Evento, RouterStep, RouterId
<1>2. vivo[n] /\ \A y : DatoBien(Conocidos, y, Carta(m))
  BY <1>1, AvisoEs, CartaBien, SinMuerte DEF AvisoBien, RouterId
<1>3. RouterOK(router[n]) /\ MapasFirmes(tcp, n, router[n])
  BY DEF Tipos, Routers, Firme, NodoFirme
<1>4. z = IF x \in Node /\ n \in {Vecino[x][1], Vecino[x][2]} THEN x ELSE Nadie
  <2>1. B!Cabeza(n) = m
    BY <1>1, CabezaEs
  <2>2. B!get_next_node_name(B!Cabeza(n)) = x
    BY <2>1, CopiasDeMensajes
  <2> HIDE DEF x
  <2> QED
    BY <2>2 DEF B!DestinoReply, B!EsVecino
<1> HIDE DEF z, x, m
<1>5. IF x \in Node /\ n \in {Vecino[x][1], Vecino[x][2]}
      THEN x \in DOMAIN mapa /\ Vecinal(tcp, n, fd, x)
      ELSE fd = 0
  BY <1>3 DEF MapasFirmes, ServidorFirme
<1>6. \/ z = Nadie /\ ~Conectado(tcp, n, fd)
      \/ z \in Node /\ Vecinal(tcp, n, fd, z) /\ DatoBien(Conocidos, z, Carta(m))
  <2> HIDE DEF fd
  <2> QED
    BY <1>2, <1>4, <1>5, SinConexion
<1>7. ResultaObra(n, r, b)
  <2> HIDE DEF fd
  <2>1. ResultaObra(n, SinEnvios, ElRed(tcp))
    BY ObraYa
  <2> QED
    BY <1>2, <1>6, <2>1, EnvioVecinal
<1>8. /\ nuevo.vecino = router[n].vecino /\ nuevo.cliente = router[n].cliente
      /\ nuevo.paso = "libre" /\ nuevo.servidor = Pon(mapa, x, fd)
  BY <1>1, <1>3 DEF RouterOK
<1>9. MapasFirmes(tcp, n, nuevo)
  <2> DEFINE f == Pon(mapa, x, fd)
  <2>1. /\ DOMAIN f = DOMAIN mapa \cup {x}
        /\ f[x] = fd /\ \A y \in DOMAIN mapa : f[y] = mapa[y]
    BY DEF Pon
  <2> HIDE DEF nuevo, f, fd
  <2>2. VecinosFirmes(tcp, n, nuevo)
    BY <1>3, <1>8 DEF MapasFirmes, VecinosFirmes
  <2>3. ASSUME NEW y
        PROVE  IF y \in Node /\ n \in {Vecino[y][1], Vecino[y][2]}
               THEN y \in DOMAIN f /\ Vecinal(tcp, n, f[y], y)
               ELSE y \in DOMAIN f => f[y] = 0
    <3>1. CASE y = x
      BY <1>5, <2>1, <3>1
    <3>2. CASE y # x
      <4>1. IF y \in Node /\ n \in {Vecino[y][1], Vecino[y][2]}
            THEN y \in DOMAIN mapa /\ Vecinal(tcp, n, mapa[y], y)
            ELSE y \in DOMAIN mapa => mapa[y] = 0
        BY <1>3 DEF MapasFirmes, ServidorFirme
      <4> QED
        BY <2>1, <3>2, <4>1
    <3> QED
      BY <3>1, <3>2
  <2>4. nuevo.servidor = f
    BY <1>8 DEF f
  <2>5. ServidorFirme(tcp, n, nuevo)
    BY <2>3, <2>4 DEF ServidorFirme
  <2> QED
    BY <2>2, <2>5 DEF MapasFirmes
<1>10. nuevo.paso = "libre"
  BY <1>8
<1> HIDE DEF r, b, nuevo
<1>11. /\ Firme' /\ EnRed' = b
       /\ B!AtiendeRouter(n, Evento(n).id) /\ B!Cabeza(n) = Evento(n).tag
  BY <1>1, <1>7, <1>9, <1>10, EnviaCumple
<1>12. EnRed = ElRed(tcp)
  BY DEF EnRed, ElRed
<1>13. B!send_to_next_node_message(n)
  BY <1>1, <1>11, <1>12 DEF b, m, z, B!send_to_next_node_message
<1> QED
  BY <1>11, <1>13, RouterDeBazar DEF B!RouterStep

LEMMA RespuestaCumple ==
  ASSUME Tipos, Apagados, Negocios, Firme, TodosViven, UNCHANGED vivo, NEW n \in Node,
         send_to_p2p_socket_message(n)
  PROVE  Firme' /\ PasoDeBazar
<1> DEFINE m == Evento(n).tag
           fd == router[n].p2p
           r == Envio(SinEnvios, n, fd, Carta(m))
           e == Punta(tcp, n, fd)
           x == tcp.con[e.con].nodo[3 - e.lado]
           b == IF Conectado(tcp, n, fd) THEN B!Envia(ElRed(tcp), x, m) ELSE ElRed(tcp)
<1>1. /\ routerEvents[n] # <<>> /\ router[n].paso = "libre" /\ RouterStep(n)
      /\ Evento(n).id = "RT_SEND_TO_P2P_SOCKET" /\ Evento(n).id \in RouterId
      /\ EnviaYListo(n, r, router[n])
  BY DEF send_to_p2p_socket_message, AtiendeRouter, EventoRouter, Evento, RouterStep, RouterId
<1>2. /\ MensajeBien(Conocidos, m) /\ n \notin Compradores
      /\ m.code \in {"BUY_OK", "BUY_ERR"}
  BY <1>1, AvisoEs DEF AvisoBien, RouterId
<1>3. \A y \in Compradores : DatoBien(Conocidos, y, Carta(m))
  BY <1>2 DEF DatoBien, MensajeEn
<1>4. fd \in Directos(tcp, Ele, n) /\ RedBien(Conocidos, vivo, Ele, tcp)
  BY DEF Negocios, Nodo, RouterBien, Red
<1> HIDE DEF m, fd
<1>5. Conectado(tcp, n, fd) => x \in Compradores
  BY <1>2, <1>4, DirectoEs
<1>6. Conectado(tcp, n, fd) =>
        EsOtro(tcp, n, fd, x) /\ x \in Node /\ DatoBien(Conocidos, x, Carta(m))
  BY <1>3, <1>5 DEF EsOtro, Compradores
<1>7. vivo[n] /\ \A k : ~Muere(n, k)
  BY SinMuerte
<1>8. r.vive
  BY <1>1, <1>7 DEF EnviaYListo
<1>9. ResultaObra(n, SinEnvios, ElRed(tcp))
  BY ObraYa
<1>10. ResultaObra(n, r, b)
  <2> HIDE DEF x
  <2> QED
    BY <1>6, <1>7, <1>8, <1>9, EnvioObra
<1>11. MapasFirmes(tcp, n, router[n])
  BY DEF Firme, NodoFirme
<1> HIDE DEF r, b
<1>12. /\ Firme' /\ EnRed' = b
       /\ B!AtiendeRouter(n, Evento(n).id) /\ B!Cabeza(n) = Evento(n).tag
  BY <1>1, <1>10, <1>11, EnviaCumple
<1>13. EnRed = ElRed(tcp)
  BY DEF EnRed, ElRed
<1>14. \E dst \in Node \cup {Nadie} : EnRed' = B!Envia(EnRed, dst, B!Cabeza(n))
  <2>1. CASE Conectado(tcp, n, fd)
    <3> HIDE DEF x
    <3>1. x \in Node /\ EnRed' = B!Envia(EnRed, x, B!Cabeza(n))
      BY <1>6, <1>12, <1>13, <2>1 DEF b, m
    <3> QED
      BY <3>1
  <2>2. CASE ~Conectado(tcp, n, fd)
    <3>1. EnRed' = B!Envia(EnRed, Nadie, B!Cabeza(n))
      BY <1>12, <1>13, <2>2 DEF b, B!Envia
    <3> QED
      BY <3>1
  <2> QED
    BY <2>1, <2>2
<1>15. B!send_to_p2p_socket_message(n)
  BY <1>1, <1>12, <1>14 DEF B!send_to_p2p_socket_message
<1> QED
  BY <1>12, <1>15, RouterDeBazar DEF B!RouterStep

-----------------------------------------------------------------------------
(* What the Router is told is nothing to Bazar.                            *)
LEMMA RecuerdaCumple ==
  ASSUME Tipos, Apagados, Negocios, Firme, NEW n \in Node, RouterStep(n),
         routerEvents[n] # <<>>, Evento(n).id \notin RouterId, NEW nuevo,
         Recuerda(n, nuevo), nuevo.paso = "libre", MapasFirmes(tcp, n, nuevo)
  PROVE  Firme' /\ PasoDeBazar
<1>1. /\ router' = [router EXCEPT ![n] = nuevo] /\ FinRouter(n, <<>>)
      /\ UNCHANGED <<logicEvents, logicPropio, listener, en_operacion, tcp, vivo, cuenta>>
  BY DEF Recuerda
<1>2. router'[n] = nuevo
  BY <1>1 DEF Tipos, Routers
<1>3. Obra(n, tcp') /\ Conserva(tcp')
  BY <1>1, ObraYa
<1>4. /\ MapasFirmes(tcp, n, router'[n]) /\ router'[n].paso = "libre"
      /\ listener'[n].paso = listener[n].paso /\ listener'[n].newfd = listener[n].newfd
      /\ UNCHANGED <<cuenta, vivo>> /\ FinRouter(n, <<>>)
  BY <1>1, <1>2
<1>5. Firme'
  BY <1>3, <1>4, FinFirme
<1>6. DeLogic' = DeLogic
  BY <1>1, DeLogicFin
<1>7. ElRed(tcp') = ElRed(tcp)
  BY <1>1
<1> QED
  BY <1>1, <1>5, <1>6, <1>7, Tartamudea

LEMMA MapasCumplen ==
  ASSUME Tipos, Apagados, Negocios, Firme, NEW n \in Node,
         \/ set_socket_p2p(n) \/ unset_socket_p2p(n) \/ add_nodo_servidor(n)
         \/ rm_nodo_servidor(n)
  PROVE  Firme' /\ PasoDeBazar
<1>1. /\ RouterStep(n) /\ RouterOK(router[n]) /\ routerEvents[n] # <<>>
      /\ router[n].paso = "libre" /\ MapasFirmes(tcp, n, router[n])
  BY DEF RouterStep, Tipos, Routers, set_socket_p2p, unset_socket_p2p, add_nodo_servidor,
         rm_nodo_servidor, AtiendeRouter, EventoRouter, Firme, NodoFirme
<1>2. AvisoFirme(Directos(tcp, Ele, n), Evento(n))
  <2> DEFINE q == routerEvents[n]
             P == Directos(tcp, Ele, n)
  <2>1. EsSeq(q) /\ q # <<>> /\ AvisosFirmes(P, q)
    BY <1>1, ColaEs DEF Firme, NodoFirme
  <2> HIDE DEF q, P
  <2>2. Len(q) \in Nat /\ DOMAIN q = 1..Len(q) /\ Len(q) # 0 /\ Head(q) = q[1]
    BY <2>1, SeqTail, SeqAppend
  <2>3. AvisoFirme(P, Head(q))
    BY <2>1, <2>2 DEF AvisosFirmes
  <2> QED
    BY <2>3 DEF Evento, q, P
<1>3. CASE set_socket_p2p(n)
  <2> DEFINE nuevo == [router[n] EXCEPT !.p2p = Evento(n).fd]
  <2>1. Recuerda(n, nuevo) /\ Evento(n).id \notin RouterId
    BY <1>3 DEF set_socket_p2p, AtiendeRouter, EventoRouter, Evento, RouterId
  <2>2. /\ nuevo.paso = "libre" /\ nuevo.vecino = router[n].vecino
        /\ nuevo.cliente = router[n].cliente /\ nuevo.servidor = router[n].servidor
    BY <1>1 DEF RouterOK
  <2> HIDE DEF nuevo
  <2>3. MapasFirmes(tcp, n, nuevo)
    BY <1>1, <2>2, MapasIguales
  <2> QED
    BY <1>1, <2>1, <2>2, <2>3, RecuerdaCumple
<1>4. CASE unset_socket_p2p(n)
  <2> DEFINE nuevo == [router[n] EXCEPT !.p2p = SOCK_ERRONEO]
  <2>1. Recuerda(n, nuevo) /\ Evento(n).id \notin RouterId
    BY <1>4 DEF unset_socket_p2p, AtiendeRouter, EventoRouter, Evento, RouterId
  <2>2. /\ nuevo.paso = "libre" /\ nuevo.vecino = router[n].vecino
        /\ nuevo.cliente = router[n].cliente /\ nuevo.servidor = router[n].servidor
    BY <1>1 DEF RouterOK
  <2> HIDE DEF nuevo
  <2>3. MapasFirmes(tcp, n, nuevo)
    BY <1>1, <2>2, MapasIguales
  <2> QED
    BY <1>1, <2>1, <2>2, <2>3, RecuerdaCumple
<1>5. ~add_nodo_servidor(n)
  BY <1>2 DEF AvisoFirme, add_nodo_servidor, AtiendeRouter, EventoRouter, Evento
<1>6. CASE rm_nodo_servidor(n)
  <2> DEFINE v == router[n].servidor
             fd == Evento(n).fd
             s == Restrict(v, DOMAIN v \ NombreDe(v, fd))
             nuevo == [router[n] EXCEPT !.servidor = s]
  <2>1. Recuerda(n, nuevo) /\ Evento(n).id \notin RouterId
    BY <1>6 DEF rm_nodo_servidor, AtiendeRouter, EventoRouter, Evento, RouterId
  <2>2. /\ nuevo.paso = "libre" /\ nuevo.vecino = router[n].vecino
        /\ nuevo.cliente = router[n].cliente /\ nuevo.servidor = s
    BY <1>1 DEF RouterOK
  <2>3. fd \in Directos(tcp, Ele, n)
    BY <1>2, <1>6 DEF AvisoFirme, rm_nodo_servidor, AtiendeRouter, EventoRouter, Evento
  <2>4. /\ DOMAIN s \subseteq DOMAIN v /\ \A y \in DOMAIN s : s[y] = v[y]
        /\ \A y \in DOMAIN v : y \in DOMAIN s \/ v[y] = fd
    BY DEF Restrict, NombreDe, Nombres
  <2>5. \A x : ~Vecinal(tcp, n, fd, x)
    <3>1. Ele \in Nat
      BY DEF Negocios, Red, RedBien
    <3> HIDE DEF fd
    <3> QED
      BY <2>3, <3>1 DEF Directos, Vecinal
  <2> HIDE DEF nuevo, s, fd
  <2>6. VecinosFirmes(tcp, n, nuevo)
    BY <1>1, <2>2 DEF MapasFirmes, VecinosFirmes
  <2>7. ASSUME NEW y
        PROVE  IF y \in Node /\ n \in {Vecino[y][1], Vecino[y][2]}
               THEN y \in DOMAIN s /\ Vecinal(tcp, n, s[y], y)
               ELSE y \in DOMAIN s => s[y] = 0
    <3>1. IF y \in Node /\ n \in {Vecino[y][1], Vecino[y][2]}
          THEN y \in DOMAIN v /\ Vecinal(tcp, n, v[y], y)
          ELSE y \in DOMAIN v => v[y] = 0
      BY <1>1 DEF MapasFirmes, ServidorFirme
    <3> QED
      BY <2>4, <2>5, <3>1
  <2>8. MapasFirmes(tcp, n, nuevo)
    BY <2>2, <2>6, <2>7 DEF MapasFirmes, ServidorFirme
  <2> QED
    BY <1>1, <2>1, <2>2, <2>8, RecuerdaCumple
<1> QED
  BY <1>3, <1>4, <1>5, <1>6

(* A descriptor opens.                                                     *)
LEMMA AbreFirme ==
  ASSUME Tipos, Negocios, Firme, NEW n \in Node, NEW h, Sigue(tcp, h, Ele, n), NEW p,
         h.fds[n] = Abre(tcp.fds[n], Libre(tcp, n), p)
  PROVE  /\ 0 \notin Abiertos(h, n)
         /\ \A r : MapasFirmes(tcp, n, r) => MapasFirmes(h, n, r)
<1>1. \A m \in Node : m # n => h.fds[m] = tcp.fds[m]
  BY DEF Sigue
<1>2. SocketsOK(tcp) /\ RedBien(Conocidos, vivo, Ele, tcp)
  BY DEF Tipos, Negocios, Red
<1>3. /\ \A fd \in Abiertos(tcp, n) : fd \in Abiertos(h, n) /\ Punta(h, n, fd) = Punta(tcp, n, fd)
      /\ \A fd \in Abiertos(h, n) : fd \in Abiertos(tcp, n) \/ fd >= 3
  BY <1>1, <1>2, AbreSigue
<1>4. 0 \notin Abiertos(tcp, n)
  BY DEF Firme, NodoFirme
<1>5. Guarda(tcp, h, n)
  BY <1>3 DEF Guarda
<1>6. \A fd, x : Vecinal(tcp, n, fd, x) => Vecinal(h, n, fd, x)
  BY <1>2, <1>5, VecinalQueda
<1> QED
  BY <1>3, <1>4, <1>6, MapasQuedan

(* The connection with the seller is made, and announces itself.           *)
LEMMA AnunciaFirme ==
  ASSUME Tipos, Negocios, Firme, NEW n \in Node, n \in Compradores, vivo[n],
         NEW m \in Node \ Compradores, vivo[m], NEW fd, fd = Libre(tcp, n),
         NEW h, h = Conecta(tcp, n, m), NEW k, k = Envia(h, n, fd, P2P_CONNECT)
  PROVE  /\ RedBien(Conocidos, vivo, Ele, k) /\ Sigue(tcp, k, Ele, n) /\ RedFirme(k)
         /\ ElRed(k) = ElRed(tcp) /\ EsOtro(k, n, fd, m)
         /\ k.fds[n] = Abre(tcp.fds[n], fd, [con |-> Len(tcp.con) + 1, lado |-> 1])
<1> DEFINE c == Len(tcp.con) + 1
           e == [con |-> c, lado |-> 1]
<1>1. RedBien(Conocidos, vivo, Ele, tcp) /\ RedFirme(tcp) /\ LetrasBien(tcp)
  BY DEF Negocios, Red, Firme, RedFirme
<1>2. /\ RedBien(Conocidos, vivo, Ele, h) /\ Sigue(tcp, h, Ele, n) /\ Queda(tcp, h, Ele, n)
      /\ fd \in Abiertos(h, n) /\ Punta(h, n, fd) = e
      /\ c \in DOMAIN h.con /\ c > Ele
      /\ h.con[c].nodo = <<n, m>> /\ h.con[c].ve = Vivos /\ h.con[c].buf = <<<<>>, <<>>>>
      /\ \A j \in DOMAIN h.con : j # c => j \in DOMAIN tcp.con /\ h.con[j] = tcp.con[j]
  BY <1>1, ConectaBien
<1>3. Mismos(tcp, h) /\ LetrasBien(h)
  BY <1>1, CuentaConecta DEF Mismos
<1>4. h.fds[n] = Abre(tcp.fds[n], fd, e)
  BY <1>1 DEF Conecta, RedBien, SocketsOK
<1> HIDE DEF c
<1>5. Conectado(h, n, fd)
  <2>1. Ele \in Nat
    BY <1>1 DEF RedBien
  <2>2. e # PUERTO
    BY <1>2, <2>1, NadieEnPuerto
  <2> QED
    BY <1>2, <2>2 DEF Conectado
<1>6. /\ RedBien(Conocidos, vivo, Ele, k) /\ Sigue(h, k, Ele, n) /\ Queda(h, k, Ele, n)
      /\ k.fds = h.fds /\ SinLeerse(h, k)
  <2>1. \A x : DatoBien(Conocidos, x, P2P_CONNECT)
    BY DEF DatoBien
  <2> QED
    BY <1>2, <2>1, EnviaBien
<1>7. /\ LetrasBien(k)
      /\ \E o : \A p : Total(k, p) = Total(h, p) + Cardinality(De(<<P2P_CONNECT>>, o, p))
  <2> DEFINE o == h.con[Punta(h, n, fd).con].nodo[3 - Punta(h, n, fd).lado]
  <2>1. /\ LetrasBien(k)
        /\ \A p : Total(k, p) = Total(h, p) + Cardinality(De(<<P2P_CONNECT>>, o, p))
    BY <1>2, <1>3, <1>5, CuentaEnvia
  <2> HIDE DEF o
  <2> QED
    BY <2>1
<1>8. ElRed(k) = ElRed(tcp)
  <2>1. ElRed(h) = ElRed(tcp)
    BY <1>1, <1>3, RedMisma
  <2>2. ElRed(k) = ElRed(h)
    BY <1>3, <1>7, RedDato
  <2> QED
    BY <2>1, <2>2
<1>9. DOMAIN k.con = DOMAIN h.con
  BY <1>2, ConEnvia
<1>10. k.con[c].buf[2] = <<P2P_CONNECT>>
  <2>1. Ve(h, n, fd) = "vivo"
    BY <1>2 DEF Ve, Vivos
  <2>2. k = [h EXCEPT !.con[c].buf[2] = Append(@, P2P_CONNECT)]
    BY <1>2, <1>5, <2>1 DEF Envia
  <2>3. "con" \in DOMAIN h /\ "buf" \in DOMAIN h.con[c]
    BY <1>2 DEF RedBien, SocketsOK, ConexionOK
  <2>4. k.con[c].buf[2] = Append(h.con[c].buf[2], P2P_CONNECT)
    BY <1>2, <2>2, <2>3
  <2>5. h.con[c].buf[2] = <<>>
    BY <1>2
  <2> QED
    BY <2>4, <2>5
<1>11. ASSUME NEW j \in 1..Ele
       PROVE  k.con[j].ve = Vivos
  <2>1. j \in DOMAIN tcp.con /\ j \in DOMAIN h.con /\ tcp.con[j].ve = Vivos /\ j <= Ele
    BY <1>1, <1>2, DeLaEscena DEF RedFirme, Sigue
  <2>2. h.con[j].ve = Vivos
    BY <1>2, <2>1 DEF Queda
  <2> QED
    BY <1>6, <2>1, <2>2 DEF Queda
<1>12. ASSUME NEW j \in DOMAIN k.con, k.con[j].nueva
       PROVE  Anunciada(k.con[j].buf[2])
  <2>1. CASE j = c
    <3>1. k.con[j].buf[2] = <<P2P_CONNECT>>
      BY <1>10, <2>1
    <3>2. <<P2P_CONNECT>> # <<>> /\ <<P2P_CONNECT>>[1] = P2P_CONNECT
      OBVIOUS
    <3> QED
      BY <3>1, <3>2 DEF Anunciada
  <2>2. CASE j # c
    <3>1. j \in DOMAIN tcp.con /\ h.con[j] = tcp.con[j] /\ h.con[j].nueva
      BY <1>2, <1>6, <1>9, <1>12, <2>2 DEF Sigue
    <3>2. Anunciada(h.con[j].buf[2])
      BY <1>1, <3>1 DEF RedFirme
    <3> QED
      BY <1>6, <1>9, <3>2 DEF SinLeerse, Anunciada
  <2> QED
    BY <2>1, <2>2
<1>13. RedFirme(k)
  BY <1>7, <1>11, <1>12 DEF RedFirme
<1>14. Sigue(tcp, k, Ele, n)
  BY <1>2, <1>6, SigueTras
<1>15. EsOtro(k, n, fd, m)
  <2>1. Punta(k, n, fd) = e
    BY <1>2, <1>6 DEF Punta
  <2>2. k.con[c].nodo = <<n, m>>
    BY <1>2, <1>6 DEF Sigue
  <2> QED
    BY <2>1, <2>2 DEF EsOtro
<1> QED
  BY <1>4, <1>6, <1>8, <1>13, <1>14, <1>15 DEF c

LEMMA ConectaCumple ==
  ASSUME Tipos, Apagados, Negocios, Firme, TodosViven, UNCHANGED vivo, NEW n \in Node,
         start_p2p_connect(n)
  PROVE  Firme' /\ PasoDeBazar
<1> DEFINE m == Evento(n).tag.vendedor
           fd == Libre(tcp, n)
           h == Conecta(tcp, n, m)
<1>1. /\ RouterStep(n) /\ Toca(n) /\ RouterOK(router[n]) /\ router[n].paso = "libre"
      /\ UNCHANGED <<logicEvents, logicPropio, listener, en_operacion, vivo, cuenta>>
      /\ routerEvents[n] # <<>> /\ Evento(n).id = "RT_START_P2P_CONNECT"
      /\ MapasFirmes(tcp, n, router[n])
  BY TocaRouter DEF RouterStep, start_p2p_connect, Tipos, Routers, AtiendeRouter,
     EventoRouter, Evento, Firme, NodoFirme
<1>2. \/ /\ EnServicio(tcp, m)
         /\ tcp' = Envia(h, n, fd, P2P_CONNECT)
         /\ router' = [router EXCEPT ![n].paso = "p2p", ![n].fd = fd]
         /\ UNCHANGED routerEvents
      \/ /\ router' = [router EXCEPT ![n].p2p = SOCK_ERRONEO]
         /\ FinRouter(n, <<>>)
         /\ UNCHANGED tcp
  BY DEF start_p2p_connect
<1>3. router = [x \in Node |-> router[x]]
  BY DEF Tipos, Routers
<1>4. CASE /\ router' = [router EXCEPT ![n].p2p = SOCK_ERRONEO]
           /\ FinRouter(n, <<>>) /\ UNCHANGED tcp
  <2>1. /\ router'[n].paso = "libre" /\ router'[n].vecino = router[n].vecino
        /\ router'[n].cliente = router[n].cliente /\ router'[n].servidor = router[n].servidor
    BY <1>1, <1>3, <1>4 DEF RouterOK
  <2>2. MapasFirmes(tcp, n, router'[n])
    BY <1>1, <2>1, MapasIguales
  <2>3. Obra(n, tcp') /\ Conserva(tcp')
    BY <1>4, ObraYa
  <2>4. /\ listener'[n].paso = listener[n].paso /\ listener'[n].newfd = listener[n].newfd
        /\ UNCHANGED <<cuenta, vivo>>
    BY <1>1
  <2>5. Firme'
    BY <1>1, <1>4, <2>1, <2>2, <2>3, <2>4, FinFirme
  <2>6. B!AtiendeRouter(n, Evento(n).id)
    BY <1>1, <1>4, AtiendeDeBazar DEF RouterId
  <2>7. EnRed' = EnRed
    BY <1>4 DEF EnRed, EnBuzones, Letras, Sobre
  <2>8. B!start_p2p_connect(n)
    BY <1>1, <2>6, <2>7 DEF B!start_p2p_connect
  <2> QED
    BY <2>5, <2>8, RouterDeBazar DEF B!RouterStep
<1>5. CASE /\ EnServicio(tcp, m)
           /\ tcp' = Envia(h, n, fd, P2P_CONNECT)
           /\ router' = [router EXCEPT ![n].paso = "p2p", ![n].fd = fd]
           /\ UNCHANGED routerEvents
  <2>1. n \in Compradores /\ m \in Node \ Compradores /\ vivo[n] /\ vivo[m]
    BY <1>1, AvisoEs DEF AvisoBien, RouterId, MensajeBien, TodosViven
  <2>2. tcp' = Envia(h, n, fd, P2P_CONNECT) /\ h = Conecta(tcp, n, m)
    BY <1>5
  <2>3. /\ router'[n].paso = "p2p" /\ router'[n].vecino = router[n].vecino
        /\ router'[n].cliente = router[n].cliente /\ router'[n].servidor = router[n].servidor
        /\ router'[n].fd = fd
    BY <1>1, <1>3, <1>5 DEF RouterOK
  <2>4. Head(routerEvents'[n]).tag.vendedor = m
    BY <1>5 DEF Evento
  <2> HIDE DEF fd, h, m
  <2>5. /\ RedBien(Conocidos, vivo, Ele, tcp') /\ Sigue(tcp, tcp', Ele, n) /\ RedFirme(tcp')
        /\ ElRed(tcp') = ElRed(tcp) /\ EsOtro(tcp', n, fd, m)
        /\ \E p : tcp'.fds[n] = Abre(tcp.fds[n], Libre(tcp, n), p)
    <3>1. fd = Libre(tcp, n)
      BY DEF fd
    <3> QED
      BY <2>1, <2>2, <3>1, AnunciaFirme
  <2>6. /\ 0 \notin Abiertos(tcp', n)
        /\ \A r : MapasFirmes(tcp, n, r) => MapasFirmes(tcp', n, r)
    BY <2>5, AbreFirme
  <2>7. MapasFirmes(tcp', n, router'[n])
    BY <1>1, <2>3, <2>6, MapasIguales
  <2>8. CursoFirme(tcp', n, router'[n], routerEvents'[n])
    BY <2>3, <2>4, <2>5 DEF CursoFirme
  <2>9. ListenerFirme(tcp', n, listener'[n])
    <3>1. listener'[n].paso # "nombre"
      BY <1>1, <2>1 DEF Negocios, Nodo, ListenerBien, Saludando
    <3> QED
      BY <3>1 DEF ListenerFirme
  <2>10. AvisosFirmes(Directos(tcp', Ele, n), routerEvents'[n])
    <3>1. Directos(tcp, Ele, n) \subseteq Directos(tcp', Ele, n)
      BY <2>5, DirectosCrecen
    <3>2. AvisosFirmes(Directos(tcp, Ele, n), routerEvents[n]) /\ EsSeq(routerEvents[n])
      BY ColaEs DEF Firme, NodoFirme
    <3> QED
      BY <1>5, <3>1, <3>2, AvisosQuedan
  <2>11. Solo(n) /\ UNCHANGED Ele
    BY <1>1, ElVivo DEF Ele
  <2>12. Firme'
    BY <2>5, <2>6, <2>7, <2>8, <2>9, <2>10, <2>11, FirmeDe
  <2>13. UNCHANGED DeLogic
    BY <1>5 DEF DeLogic
  <2> QED
    BY <1>1, <2>5, <2>12, <2>13, Tartamudea
<1> QED
  BY <1>2, <1>4, <1>5

LEMMA LeeSiHayObra ==
  ASSUME Negocios, Firme, NEW n \in Node, NEW fd, NEW k, k = LeeSiHay(n, fd)
  PROVE  Obra(n, k) /\ k.fds = tcp.fds /\ ElRed(k) = ElRed(tcp)
<1>1. Obra(n, tcp)
  BY ObraYa
<1>2. CASE ~RecvDato(tcp, n, fd)
  BY <1>1, <1>2 DEF LeeSiHay
<1>3. CASE RecvDato(tcp, n, fd)
  <2>1. k = Descarta(tcp, n, fd)
    BY <1>3 DEF LeeSiHay
  <2>2. Obra(n, tcp) /\ RecvDato(tcp, n, fd)
    BY <1>1, <1>3
  <2> QED
    BY <2>1, <2>2, ObraDescarta
<1> QED
  BY <1>2, <1>3

(* The Router goes on with the direct connection, and sends no message.    *)
LEMMA AvanzaCumple ==
  ASSUME Tipos, Apagados, Negocios, Firme, NEW n \in Node, n \in Compradores, RouterStep(n),
         UNCHANGED <<logicEvents, routerEvents, logicPropio>>, UNCHANGED <<cuenta, vivo>>,
         Obra(n, tcp'), ElRed(tcp') = ElRed(tcp),
         router'[n].paso \in Entrando =>
           router[n].paso \in Entrando /\ router'[n].fd = router[n].fd,
         router'[n].vecino = router[n].vecino, router'[n].cliente = router[n].cliente,
         router'[n].servidor = router[n].servidor, listener'[n].paso = listener[n].paso
  PROVE  Firme' /\ PasoDeBazar
<1>1. Toca(n) /\ NodoFirme(n)
  BY TocaRouter DEF Firme
<1>2. MapasFirmes(tcp, n, router'[n])
  BY <1>1, MapasIguales DEF NodoFirme
<1>3. CursoFirme(tcp, n, router'[n], routerEvents'[n])
  BY <1>1 DEF NodoFirme, CursoFirme
<1>4. listener'[n].paso # "nombre"
  BY DEF Negocios, Nodo, ListenerBien, Saludando
<1>5. AvisosFirmes(Directos(tcp', Ele, n), routerEvents'[n])
  <2>1. Directos(tcp, Ele, n) \subseteq Directos(tcp', Ele, n) /\ EsSeq(routerEvents[n])
    BY ObraNodo, ColaEs
  <2> QED
    BY <1>1, <2>1, AvisosQuedan DEF NodoFirme
<1>6. Firme'
  BY <1>1, <1>2, <1>3, <1>4, <1>5, PasoFirme
<1>7. UNCHANGED DeLogic
  BY DEF DeLogic
<1> QED
  BY <1>6, <1>7, Tartamudea

LEMMA SaludaCumple ==
  ASSUME Tipos, Apagados, Negocios, Firme, TodosViven, UNCHANGED vivo, NEW n \in Node,
         start_p2p_connect_nombre(n)
  PROVE  Firme' /\ PasoDeBazar
<1> DEFINE fd == router[n].fd
           o == tcp.con[Punta(tcp, n, fd).con].nodo[3 - Punta(tcp, n, fd).lado]
<1>1. /\ RouterStep(n) /\ RouterOK(router[n]) /\ router = [x \in Node |-> router[x]]
      /\ UNCHANGED <<logicEvents, routerEvents, logicPropio, listener, vivo, cuenta>>
      /\ router[n].paso = "p2p" /\ tcp' = Envia(tcp, n, fd, SuNombre(n))
      /\ router' = [router EXCEPT ![n].paso = "p2p_nombre"]
  BY DEF RouterStep, start_p2p_connect_nombre, Tipos, Routers, logicVars, logicPropio
<1>2. vivo[n]
  BY SinMuerte
<1>3. Conectado(tcp, n, fd) => EsOtro(tcp, n, fd, o) /\ DatoBien(Conocidos, o, SuNombre(n))
  BY DEF EsOtro, DatoBien
<1>4. Obra(n, tcp)
  BY ObraYa
<1>5. /\ router'[n].paso = "p2p_nombre" /\ router'[n].fd = router[n].fd
      /\ router'[n].vecino = router[n].vecino
      /\ router'[n].cliente = router[n].cliente /\ router'[n].servidor = router[n].servidor
  BY <1>1 DEF RouterOK
<1> HIDE DEF fd, o
<1>6. Obra(n, tcp') /\ ElRed(tcp') = ElRed(tcp)
  <2> DEFINE d == SuNombre(n)
             h == tcp'
  <2>1. Callado(d)
    BY DEF Callado
  <2>2. /\ vivo[n] /\ Obra(n, tcp) /\ h = Envia(tcp, n, fd, d)
        /\ Conectado(tcp, n, fd) => EsOtro(tcp, n, fd, o) /\ DatoBien(Conocidos, o, d)
    BY <1>1, <1>2, <1>3, <1>4
  <2> HIDE DEF d, h
  <2>3. /\ Obra(n, h)
        /\ Callado(d) => ElRed(h) = ElRed(tcp)
    BY <2>2, ObraEnvia
  <2>4. Obra(n, h) /\ ElRed(h) = ElRed(tcp)
    BY <2>1, <2>3
  <2> QED
    BY <2>4 DEF h
<1>7. n \in Compradores /\ router[n].paso \in Entrando
  BY <1>1 DEF Negocios, Nodo, RouterBien, Entrando
<1>8. /\ UNCHANGED <<logicEvents, routerEvents, logicPropio>> /\ UNCHANGED <<cuenta, vivo>>
      /\ listener'[n].paso = listener[n].paso
  BY <1>1
<1> QED
  BY <1>1, <1>5, <1>6, <1>7, <1>8, AvanzaCumple

LEMMA OperaCumple ==
  ASSUME Tipos, Apagados, Negocios, Firme, TodosViven, UNCHANGED vivo, NEW n \in Node,
         start_p2p_connect_opera(n)
  PROVE  Firme' /\ PasoDeBazar
<1> DEFINE fd == router[n].fd
<1>1. \A h : ~Muere(n, h)
  BY SinMuerte
<1>2. /\ RouterStep(n) /\ RouterOK(router[n]) /\ router = [x \in Node |-> router[x]]
      /\ router[n].paso = "p2p_nombre" /\ tcp' = LeeSiHay(n, fd)
      /\ router' = [router EXCEPT ![n].p2p = fd, ![n].paso = "p2p_opera"]
      /\ UNCHANGED <<logicEvents, routerEvents, logicPropio, listener, vivo, cuenta>>
  BY <1>1 DEF RouterStep, start_p2p_connect_opera, RecvMata, Tipos, Routers, logicVars,
     logicPropio
<1>3. /\ router'[n].paso = "p2p_opera" /\ router'[n].fd = router[n].fd
      /\ router'[n].vecino = router[n].vecino
      /\ router'[n].cliente = router[n].cliente /\ router'[n].servidor = router[n].servidor
  BY <1>2 DEF RouterOK
<1>4. n \in Compradores /\ router[n].paso \in Entrando
  BY <1>2 DEF Negocios, Nodo, RouterBien, Entrando
<1> HIDE DEF fd
<1>5. Obra(n, tcp') /\ ElRed(tcp') = ElRed(tcp)
  BY <1>2, LeeSiHayObra
<1>6. /\ UNCHANGED <<logicEvents, routerEvents, logicPropio>> /\ UNCHANGED <<cuenta, vivo>>
      /\ listener'[n].paso = listener[n].paso
  BY <1>2
<1> QED
  BY <1>2, <1>3, <1>4, <1>5, <1>6, AvanzaCumple

(* The Router tells the Listener of the direct connection, to watch it or  *)
(* to forget it.                                                           *)
LEMMA AvisaCumple ==
  ASSUME Tipos, Apagados, Negocios, Firme, UNCHANGED vivo, NEW n \in Node,
         start_p2p_connect_avisa(n) \/ close_p2p_connect_avisa(n)
  PROVE  Firme' /\ PasoDeBazar
<1>1. /\ RouterStep(n) /\ RouterOK(router[n]) /\ router = [x \in Node |-> router[x]]
      /\ ListenerOK(listener[n]) /\ listener = [x \in Node |-> listener[x]]
      /\ UNCHANGED <<logicEvents, routerEvents, logicPropio>> /\ UNCHANGED <<cuenta, vivo>>
      /\ UNCHANGED tcp
  BY DEF RouterStep, start_p2p_connect_avisa, close_p2p_connect_avisa, Tipos, Routers,
     Listeners, logicVars, logicPropio
<1>2. PICK p \in {"p2p_buy", "p2p_cierra"} :
        /\ router' = [router EXCEPT ![n].paso = p]
        /\ p = "p2p_buy" => router[n].paso = "p2p_opera"
        /\ n \in Compradores
  <2>1. CASE start_p2p_connect_avisa(n)
    <3>1. router[n].paso = "p2p_opera" /\ router' = [router EXCEPT ![n].paso = "p2p_buy"]
      BY <2>1 DEF start_p2p_connect_avisa
    <3>2. n \in Compradores
      BY <3>1 DEF Negocios, Nodo, RouterBien
    <3> QED
      BY <3>1, <3>2
  <2>2. CASE close_p2p_connect_avisa(n)
    <3>1. /\ routerEvents[n] # <<>> /\ Evento(n).id = "RT_CLOSE_P2P_CONNECT"
          /\ router' = [router EXCEPT ![n].paso = "p2p_cierra"]
      BY <2>2 DEF close_p2p_connect_avisa, AtiendeRouter, EventoRouter, Evento
    <3>2. n \in Compradores
      BY <3>1, AvisoEs DEF AvisoBien
    <3> QED
      BY <3>1, <3>2
  <2> QED
    BY <2>1, <2>2
<1>3. /\ router'[n].paso = p /\ router'[n].fd = router[n].fd
      /\ router'[n].vecino = router[n].vecino
      /\ router'[n].cliente = router[n].cliente /\ router'[n].servidor = router[n].servidor
  BY <1>1, <1>2 DEF RouterOK
<1>4. router'[n].paso \in Entrando => router[n].paso \in Entrando
  BY <1>2, <1>3 DEF Entrando
<1>5. listener'[n].paso = listener[n].paso
  <2>1. PICK id, fd : PosteaListener(n, id, fd)
    BY DEF start_p2p_connect_avisa, close_p2p_connect_avisa
  <2> QED
    BY <1>1, <2>1 DEF PosteaListener, ListenerOK
<1>6. Obra(n, tcp') /\ ElRed(tcp') = ElRed(tcp)
  BY <1>1, ObraYa
<1> QED
  BY <1>1, <1>2, <1>3, <1>4, <1>5, <1>6, AvanzaCumple

LEMMA CompraCumple ==
  ASSUME Tipos, Apagados, Negocios, Firme, TodosViven, UNCHANGED vivo, NEW n \in Node,
         start_p2p_connect_buy(n)
  PROVE  Firme' /\ PasoDeBazar
<1> DEFINE fd == router[n].p2p
           m == Evento(n).tag
           o == m.vendedor
           r == Envio(SinEnvios, n, fd, Carta(m))
           nuevo == [router[n] EXCEPT !.paso = "libre", !.fd = SOCK_ERRONEO]
           b == IF Conectado(tcp, n, fd) THEN B!Envia(ElRed(tcp), o, m) ELSE ElRed(tcp)
<1>1. /\ RouterStep(n) /\ RouterOK(router[n]) /\ EnCurso(router[n], routerEvents[n])
      /\ router[n].paso = "p2p_buy" /\ NodoFirme(n) /\ EnviaYListo(n, r, nuevo)
  BY DEF RouterStep, start_p2p_connect_buy, Tipos, Routers, Cursos, Firme
<1>2. /\ routerEvents[n] # <<>> /\ Evento(n).id = "RT_START_P2P_CONNECT"
      /\ AvisoBien(Conocidos, n, Directos(tcp, Ele, n), Evento(n))
  BY <1>1, AvisoEs DEF EnCurso, Evento
<1>3. vivo[n] /\ \A h : ~Muere(n, h)
  BY SinMuerte
<1>4. r.vive
  BY <1>1, <1>3 DEF EnviaYListo
<1>5. /\ n \in Compradores /\ MensajeBien(Conocidos, m) /\ m.code = "BUY"
      /\ o \in Node \ Compradores
  BY <1>2 DEF AvisoBien, RouterId, MensajeBien
<1>6. DatoBien(Conocidos, o, Carta(m))
  BY <1>5 DEF DatoBien, MensajeEn
<1>7. Conectado(tcp, n, fd) => EsOtro(tcp, n, fd, o)
  <2>1. CursoFirme(tcp, n, router[n], routerEvents[n]) /\ router[n].fd = fd
    BY <1>1 DEF NodoFirme, RouterOK
  <2> QED
    BY <1>1, <2>1 DEF CursoFirme, Entrando, Evento
<1>8. /\ nuevo.paso = "libre" /\ nuevo.vecino = router[n].vecino
      /\ nuevo.cliente = router[n].cliente /\ nuevo.servidor = router[n].servidor
  BY <1>1 DEF RouterOK
<1> HIDE DEF nuevo, fd, o, m
<1>9. MapasFirmes(tcp, n, nuevo)
  BY <1>1, <1>8, MapasIguales DEF NodoFirme
<1>10. ResultaObra(n, r, b)
  <2>1. ResultaObra(n, SinEnvios, ElRed(tcp))
    BY ObraYa
  <2>2. Conectado(tcp, n, fd) =>
          EsOtro(tcp, n, fd, o) /\ o \in Node /\ DatoBien(Conocidos, o, Carta(m))
    BY <1>5, <1>6, <1>7
  <2> QED
    BY <1>3, <1>4, <2>1, <2>2, EnvioObra
<1>11. Evento(n).id \in RouterId
  BY <1>2 DEF RouterId
<1> HIDE DEF r, b
<1>12. /\ Firme' /\ EnRed' = b
       /\ B!AtiendeRouter(n, Evento(n).id) /\ B!Cabeza(n) = Evento(n).tag
  BY <1>1, <1>2, <1>8, <1>9, <1>10, <1>11, EnviaCumple
<1>13. \/ EnRed' = B!Envia(EnRed, B!Cabeza(n).vendedor, B!Cabeza(n))
       \/ EnRed' = EnRed
  <2>1. EnRed = ElRed(tcp)
    BY DEF EnRed, ElRed
  <2> QED
    BY <1>12, <2>1 DEF b, m, o
<1>14. B!start_p2p_connect(n)
  BY <1>2, <1>12, <1>13 DEF B!start_p2p_connect
<1> QED
  BY <1>12, <1>14, RouterDeBazar DEF B!RouterStep

LEMMA CierraCumple ==
  ASSUME Tipos, Apagados, Negocios, Firme, UNCHANGED vivo, NEW n \in Node,
         close_p2p_connect(n)
  PROVE  Firme' /\ PasoDeBazar
<1> DEFINE fd == router[n].p2p
<1>1. /\ RouterStep(n) /\ RouterOK(router[n]) /\ router = [x \in Node |-> router[x]]
      /\ router[n].paso = "p2p_cierra" /\ tcp' = Cierra(tcp, n, fd)
      /\ router' = [router EXCEPT ![n].p2p = SOCK_ERRONEO, ![n].paso = "p2p_fin"]
      /\ UNCHANGED <<logicEvents, routerEvents, logicPropio>> /\ UNCHANGED <<cuenta, vivo>>
      /\ listener' = listener
  BY DEF RouterStep, close_p2p_connect, Tipos, Routers, logicVars, logicPropio
<1>2. n \in Compradores
  BY <1>1 DEF Negocios, Nodo, RouterBien
<1>3. fd \in Directos(tcp, Ele, n) /\ Obra(n, tcp)
  BY ObraYa DEF Negocios, Nodo, RouterBien
<1>4. /\ router'[n].paso \notin Entrando /\ router'[n].vecino = router[n].vecino
      /\ router'[n].cliente = router[n].cliente /\ router'[n].servidor = router[n].servidor
  BY <1>1 DEF RouterOK, Entrando
<1> HIDE DEF fd
<1>5. Obra(n, tcp') /\ ElRed(tcp') = ElRed(tcp)
  <2>1. Conectado(tcp, n, fd) => Punta(tcp, n, fd).con > Ele
    BY <1>3 DEF Directos, Conectado
  <2> QED
    BY <1>1, <1>3, <2>1, ObraCierra
<1> QED
  BY <1>1, <1>2, <1>4, <1>5, AvanzaCumple

LEMMA CierraFinCumple ==
  ASSUME Tipos, Apagados, Negocios, Firme, UNCHANGED vivo, NEW n \in Node,
         close_p2p_connect_fin(n)
  PROVE  Firme' /\ PasoDeBazar
<1>1. /\ RouterStep(n) /\ RouterOK(router[n]) /\ router = [x \in Node |-> router[x]]
      /\ EnCurso(router[n], routerEvents[n]) /\ router[n].paso = "p2p_fin" /\ NodoFirme(n)
      /\ router' = [router EXCEPT ![n].paso = "libre"] /\ FinRouter(n, <<>>)
      /\ UNCHANGED <<logicEvents, logicPropio, cuenta>> /\ UNCHANGED <<cuenta, vivo>>
      /\ UNCHANGED tcp /\ listener' = listener
  BY DEF RouterStep, close_p2p_connect_fin, Tipos, Routers, Cursos, Firme
<1>2. /\ routerEvents[n] # <<>> /\ Evento(n).id = "RT_CLOSE_P2P_CONNECT"
      /\ n \in Compradores
  BY <1>1 DEF EnCurso, Evento, Negocios, Nodo, RouterBien
<1>3. /\ router'[n].paso = "libre" /\ router'[n].vecino = router[n].vecino
      /\ router'[n].cliente = router[n].cliente /\ router'[n].servidor = router[n].servidor
  BY <1>1 DEF RouterOK
<1>4. MapasFirmes(tcp, n, router'[n])
  BY <1>1, <1>3, MapasIguales DEF NodoFirme
<1>5. Obra(n, tcp')
  BY <1>1, ObraYa
<1>6. listener'[n].paso = listener[n].paso /\ listener'[n].newfd = listener[n].newfd
  BY <1>1
<1>7. Firme'
  BY <1>1, <1>2, <1>3, <1>4, <1>5, <1>6, FinFirme
<1>8. B!AtiendeRouter(n, Evento(n).id)
  BY <1>1, <1>2, AtiendeDeBazar DEF RouterId
<1>9. EnRed' = EnRed
  BY <1>1 DEF EnRed
<1>10. B!close_p2p_connect(n)
  BY <1>2, <1>8, <1>9 DEF B!close_p2p_connect
<1> QED
  BY <1>7, <1>10, RouterDeBazar DEF B!RouterStep

LEMMA RouterCumple ==
  ASSUME Tipos, Apagados, Negocios, Firme, TodosViven, UNCHANGED vivo, NEW n \in Node,
         RouterStep(n)
  PROVE  Firme' /\ PasoDeBazar
  BY SinArranques, PrimeroCumple, DifusionCumple, ReplyCumple, RespuestaCumple,
     MapasCumplen, ConectaCumple, SaludaCumple, OperaCumple, AvisaCumple, CompraCumple,
     CierraCumple, CierraFinCumple DEF RouterStep

-----------------------------------------------------------------------------
(* The Listener of node n, while no node ends.                             *)

(* It tells the Router nothing.                                            *)
LEMMA OyeFirme ==
  ASSUME Tipos, Apagados, Negocios, Firme, NEW n \in Node, ListenerStep(n),
         UNCHANGED <<router, routerEvents, cuenta, vivo>>, Obra(n, tcp'),
         listener'[n].paso # "nombre"
  PROVE  Firme'
<1>1. Toca(n)
  BY TocaListener
<1>2. NodoFirme(n) /\ EsSeq(routerEvents[n])
  BY ColaEs DEF Firme
<1>3. MapasFirmes(tcp, n, router'[n]) /\ CursoFirme(tcp, n, router'[n], routerEvents'[n])
  BY <1>2 DEF NodoFirme
<1>4. AvisosFirmes(Directos(tcp', Ele, n), routerEvents'[n])
  <2>1. Directos(tcp, Ele, n) \subseteq Directos(tcp', Ele, n)
    BY ObraNodo
  <2>2. AvisosFirmes(Directos(tcp, Ele, n), routerEvents[n])
    BY <1>2 DEF NodoFirme
  <2>3. AvisosFirmes(Directos(tcp', Ele, n), routerEvents[n])
    BY <1>2, <2>1, <2>2, AvisosQuedan
  <2> QED
    BY <2>3
<1> QED
  BY <1>1, <1>3, <1>4, PasoFirme

LEMMA OyeCumple ==
  ASSUME Tipos, Apagados, Negocios, Firme, NEW n \in Node, ListenerStep(n),
         UNCHANGED <<router, routerEvents, cuenta, vivo>>,
         UNCHANGED <<logicEvents, logicPropio>>, Obra(n, tcp'),
         ElRed(tcp') = ElRed(tcp), listener'[n].paso # "nombre"
  PROVE  Firme' /\ PasoDeBazar
<1>1. Firme'
  BY OyeFirme
<1>2. UNCHANGED DeLogic
  BY DEF DeLogic
<1> QED
  BY <1>1, <1>2, Tartamudea

LEMMA OyeQuieto ==
  ASSUME Tipos, Apagados, Negocios, Firme, NEW n \in Node, ListenerStep(n),
         UNCHANGED <<router, routerEvents, cuenta, vivo>>,
         UNCHANGED <<logicEvents, logicPropio, tcp>>, listener'[n].paso # "nombre"
  PROVE  Firme' /\ PasoDeBazar
<1>1. Obra(n, tcp') /\ ElRed(tcp') = ElRed(tcp)
  BY ObraYa
<1> QED
  BY <1>1, OyeCumple

LEMMA SelectCumple ==
  ASSUME Tipos, Apagados, Negocios, Firme, UNCHANGED vivo, NEW n \in Node,
         select(n) \/ client_connections_admin_fin(n)
  PROVE  Firme' /\ PasoDeBazar
<1> DEFINE l == listener[n]
           abiertos == l.master \cap Abiertos(tcp, n)
           listos == {fd \in abiertos : Listo(tcp, n, fd)}
<1>1. /\ ListenerStep(n) /\ ListenerOK(l) /\ listener = [x \in Node |-> listener[x]]
      /\ UNCHANGED <<router, routerEvents, cuenta, vivo>>
      /\ UNCHANGED <<logicEvents, logicPropio, tcp>>
  BY DEF ListenerStep, select, client_connections_admin_fin, Tipos, Listeners, listenerAparte
<1>2. /\ FinListener(l).paso = l.paso /\ OtraVuelta(l).paso = l.paso
      /\ [OtraVuelta(l) EXCEPT !.paso = "libre"].paso = "libre"
  BY <1>1 DEF ListenerOK, FinListener, OtraVuelta
<1>3. CASE client_connections_admin_fin(n)
  <2>1. listener'[n] = [OtraVuelta(l) EXCEPT !.paso = "libre"]
    BY <1>1, <1>3 DEF client_connections_admin_fin
  <2>2. listener'[n].paso # "nombre"
    BY <1>2, <2>1
  <2> QED
    BY <1>1, <2>2, OyeQuieto
<1>4. CASE select(n)
  <2>1. l.paso = "libre"
    BY <1>4 DEF select, EventoListener
  <2>2. \/ listener'[n] = FinListener(l) \/ listener'[n] = OtraVuelta(l)
        \/ listener' = [listener EXCEPT ![n].paso = "mirando", ![n].listos = listos]
    BY <1>1, <1>4 DEF select
  <2>3. listener'[n].paso # "nombre"
    <3>1. CASE listener'[n] = FinListener(l) \/ listener'[n] = OtraVuelta(l)
      BY <1>2, <2>1, <3>1
    <3>2. CASE listener' = [listener EXCEPT ![n].paso = "mirando", ![n].listos = listos]
      BY <1>1, <3>2 DEF ListenerOK
    <3> QED
      BY <2>2, <3>1, <3>2
  <2> QED
    BY <1>1, <2>3, OyeQuieto
<1> QED
  BY <1>3, <1>4

LEMMA VigilaCumple ==
  ASSUME Tipos, Apagados, Negocios, Firme, UNCHANGED vivo, NEW n \in Node,
         add_socket(n) \/ add_socket_p2p(n) \/ rm_socket_p2p(n)
  PROVE  Firme' /\ PasoDeBazar
<1> DEFINE l == listener[n]
           fd == EvListener(n).fd
<1>1. /\ ListenerStep(n) /\ ListenerOK(l) /\ listener = [x \in Node |-> listener[x]]
      /\ l.paso = "libre"
  BY DEF ListenerStep, add_socket, add_socket_p2p, rm_socket_p2p, EventoListener,
         Tipos, Listeners
<1>2. PICK r : /\ Vigila(n, r)
               /\ \/ r = [l EXCEPT !.master = @ \cup {fd}]
                  \/ r = [l EXCEPT !.master = @ \cup {fd}, !.p2p = fd]
                  \/ r = [l EXCEPT !.master = @ \ {fd}, !.ip = @ \ {fd}]
  BY DEF add_socket, add_socket_p2p, rm_socket_p2p
<1>3. FinListener(r).paso = "libre"
  BY <1>1, <1>2 DEF FinListener, ListenerOK
<1>4. listener'[n].paso # "nombre"
  BY <1>1, <1>2, <1>3 DEF Vigila
<1>5. UNCHANGED <<router, routerEvents, cuenta, vivo>>
      /\ UNCHANGED <<logicEvents, logicPropio, tcp>>
  BY <1>2 DEF Vigila, listenerAparte
<1> QED
  BY <1>1, <1>4, <1>5, OyeQuieto

LEMMA AcceptCumple ==
  ASSUME Tipos, Apagados, Negocios, Firme, UNCHANGED vivo, NEW n \in Node, accept(n)
  PROVE  Firme' /\ PasoDeBazar
<1> DEFINE l == listener[n]
           fd == Libre(tcp, n)
           s == l.servSock
<1>1. /\ ListenerStep(n) /\ ListenerOK(l) /\ listener = [x \in Node |-> listener[x]]
      /\ ListenerBien(tcp, n, Directos(tcp, Ele, n), l)
      /\ RedBien(Conocidos, vivo, Ele, tcp) /\ RedFirme(tcp) /\ LetrasBien(tcp)
      /\ UNCHANGED <<router, routerEvents, cuenta, vivo>>
      /\ UNCHANGED <<logicEvents, logicPropio>>
      /\ l.paso = "mirando" /\ l.listos # {} /\ Min(l.listos) = s
  BY ListenerEs DEF ListenerStep, accept, Mirando, Mirado, Firme, RedFirme, listenerAparte
<1>2. \/ /\ tcp' = Acepta(tcp, n)
         /\ listener' = [listener EXCEPT
              ![n].master = @ \cup {fd}, ![n].ip = @ \cup {fd},
              ![n].cant = @ + 1, ![n].newfd = fd, ![n].paso = "nombre"]
      \/ /\ listener' = [listener EXCEPT ![n].listos = @ \ {Mirado(n)}]
         /\ UNCHANGED tcp
  BY DEF accept
<1>3. CASE /\ listener' = [listener EXCEPT ![n].listos = @ \ {Mirado(n)}]
           /\ UNCHANGED tcp
  <2>1. listener'[n].paso # "nombre"
    BY <1>1, <1>3 DEF ListenerOK
  <2>2. UNCHANGED <<logicEvents, logicPropio, tcp>>
    BY <1>1, <1>3
  <2> QED
    BY <1>1, <2>1, <2>2, OyeQuieto
<1>4. CASE /\ tcp' = Acepta(tcp, n)
           /\ listener' = [listener EXCEPT
                ![n].master = @ \cup {fd}, ![n].ip = @ \cup {fd},
                ![n].cant = @ + 1, ![n].newfd = fd, ![n].paso = "nombre"]
  <2>1. Cola(tcp, n) # {}
    <3>1. l.listos \in SUBSET Nat
      BY <1>1 DEF ListenerOK
    <3> DEFINE C == l.listos
    <3> HIDE DEF C, s
    <3>2. Min(C) \in C
      BY <1>1, <3>1, Minimo DEF C
    <3>3. s \in l.listos
      BY <1>1, <3>2 DEF C
    <3> QED
      BY <1>1, <3>3 DEF ListenerBien, Recorriendo, s
  <2>2. tcp' = Acepta(tcp, n) /\ listener'[n].newfd = fd
    BY <1>1, <1>4 DEF ListenerOK
  <2> HIDE DEF s, l
  <2>3. \A j \in DOMAIN tcp'.con : /\ j \in DOMAIN tcp.con
                                   /\ tcp'.con[j].buf = tcp.con[j].buf
                                   /\ tcp'.con[j].ve = tcp.con[j].ve
                                   /\ tcp'.con[j].nueva => tcp.con[j].nueva
    <3> DEFINE c == Min(Cola(tcp, n))
    <3>1. \A j \in DOMAIN tcp.con : {"buf", "ve", "nueva"} \subseteq DOMAIN tcp.con[j]
      BY <1>1 DEF RedBien, SocketsOK, ConexionOK
    <3>2. tcp' = [tcp EXCEPT !.fds[n] = Abre(@, Libre(tcp, n), [con |-> c, lado |-> 2]),
                             !.con[c].nueva = FALSE]
      BY <2>2 DEF Acepta
    <3>3. {"con", "fds"} \subseteq DOMAIN tcp
      BY <1>1 DEF RedBien, SocketsOK
    <3> HIDE DEF c
    <3>4. tcp'.con = [tcp.con EXCEPT ![c].nueva = FALSE]
      BY <3>2, <3>3
    <3>5. DOMAIN tcp'.con = DOMAIN tcp.con
      BY <3>4
    <3>6. ASSUME NEW j \in DOMAIN tcp.con
          PROVE  /\ tcp'.con[j].buf = tcp.con[j].buf
                 /\ tcp'.con[j].ve = tcp.con[j].ve
                 /\ tcp'.con[j].nueva => tcp.con[j].nueva
      <4>1. CASE j = c
        <5>1. tcp'.con[j] = [tcp.con[j] EXCEPT !.nueva = FALSE]
          BY <3>4, <4>1
        <5> QED
          BY <3>1, <5>1
      <4>2. CASE j # c
        BY <3>4, <4>2
      <4> QED
        BY <4>1, <4>2
    <3> QED
      BY <3>5, <3>6
  <2>4. tcp'.fds[n] = Abre(tcp.fds[n], fd, [con |-> Min(Cola(tcp, n)), lado |-> 2])
    BY <1>1, <2>2 DEF Acepta, RedBien, SocketsOK
  <2>5. \E p : tcp'.fds[n] = Abre(tcp.fds[n], Libre(tcp, n), p)
    BY <2>4
  <2> HIDE DEF fd
  <2>6. fd = Libre(tcp, n)
    BY DEF fd
  <2>7. /\ RedBien(Conocidos, vivo, Ele, tcp') /\ Sigue(tcp, tcp', Ele, n)
        /\ Queda(tcp, tcp', Ele, n) /\ n \notin Compradores
        /\ \E c \in DOMAIN tcp.con :
              /\ tcp.con[c].nueva /\ Punta(tcp', n, fd) = [con |-> c, lado |-> 2]
    BY <1>1, <2>1, <2>2, <2>6, AceptaBien
  <2>8. Mismos(tcp, tcp') /\ LetrasBien(tcp') /\ ElRed(tcp') = ElRed(tcp)
    <3>1. Mismos(tcp, tcp')
      BY <1>1, <2>2, CuentaAcepta
    <3> QED
      BY <1>1, <3>1, RedMisma DEF Mismos
  <2>9. RedFirme(tcp')
    <3>1. 1..Ele \subseteq DOMAIN tcp'.con
      BY <2>7, DeLaEscena
    <3>2. \A j \in 1..Ele : tcp'.con[j].ve = Vivos
      BY <1>1, <2>3, <3>1 DEF RedFirme
    <3>3. \A j \in DOMAIN tcp'.con : tcp'.con[j].nueva => Anunciada(tcp'.con[j].buf[2])
      BY <1>1, <2>3 DEF RedFirme
    <3> QED
      BY <2>8, <3>2, <3>3 DEF RedFirme
  <2>10. /\ 0 \notin Abiertos(tcp', n)
         /\ \A r : MapasFirmes(tcp, n, r) => MapasFirmes(tcp', n, r)
    BY <2>5, <2>7, AbreFirme
  <2>11. MapasFirmes(tcp', n, router'[n])
    BY <1>1, <2>10 DEF Firme, NodoFirme
  <2>12. CursoFirme(tcp', n, router'[n], routerEvents'[n])
    <3>1. router'[n].paso = "libre"
      BY <1>1, <2>7 DEF Negocios, Nodo, RouterBien
    <3> QED
      BY <3>1 DEF CursoFirme, Entrando
  <2>13. ListenerFirme(tcp', n, listener'[n])
    <3>1. PICK c \in DOMAIN tcp.con :
             tcp.con[c].nueva /\ Punta(tcp', n, fd) = [con |-> c, lado |-> 2]
      BY <2>7
    <3>2. Anunciada(tcp.con[c].buf[2])
      BY <1>1, <3>1 DEF RedFirme
    <3>3. c \in DOMAIN tcp'.con
      BY <2>7 DEF Sigue
    <3>4. Recibido(tcp', n, fd) = tcp.con[c].buf[2]
      BY <2>3, <3>1, <3>3 DEF Recibido
    <3> QED
      BY <2>2, <3>2, <3>4 DEF ListenerFirme
  <2>14. AvisosFirmes(Directos(tcp', Ele, n), routerEvents'[n])
    <3>1. Directos(tcp, Ele, n) \subseteq Directos(tcp', Ele, n)
      BY <2>7, DirectosCrecen
    <3>2. EsSeq(routerEvents[n]) /\ AvisosFirmes(Directos(tcp, Ele, n), routerEvents[n])
      BY ColaEs DEF Firme, NodoFirme
    <3>3. AvisosFirmes(Directos(tcp', Ele, n), routerEvents[n])
      BY <3>1, <3>2, AvisosQuedan
    <3> QED
      BY <1>1, <3>3
  <2>15. Toca(n)
    BY <1>1, TocaListener
  <2>16. Solo(n) /\ UNCHANGED Ele
    BY <1>1, <2>15, ElVivo DEF Ele
  <2>17. Firme'
    BY <2>7, <2>9, <2>10, <2>11, <2>12, <2>13, <2>14, <2>16, FirmeDe
  <2>18. UNCHANGED DeLogic
    BY <1>1 DEF DeLogic
  <2>19. UNCHANGED <<logicEvents, logicPropio, cuenta>>
    BY <1>1
  <2> QED
    BY <2>8, <2>17, <2>18, <2>19, Tartamudea
<1> QED
  BY <1>2, <1>3, <1>4

(* It has read the names of a direct connection, and tells the Router.     *)
LEMMA SaludadoCumple ==
  ASSUME Tipos, Apagados, Negocios, Firme, TodosViven, UNCHANGED vivo, NEW n \in Node,
         accept_p2p_nombre(n)
  PROVE  Firme' /\ PasoDeBazar
<1> DEFINE l == listener[n]
           fd == l.newfd
           k == LeeSiHay(n, fd)
           ev == [id |-> "RT_SET_SOCKET_P2P", fd |-> fd]
           o == tcp.con[Punta(tcp, n, fd).con].nodo[3 - Punta(tcp, n, fd).lado]
           d == SuNombre(n)
           h == tcp'
<1>1. /\ ListenerStep(n) /\ ListenerOK(l) /\ listener = [x \in Node |-> listener[x]]
      /\ ListenerBien(tcp, n, Directos(tcp, Ele, n), l)
      /\ routerEvents = [x \in Node |-> routerEvents[x]] /\ EsSeq(routerEvents[n])
      /\ NodoFirme(n) /\ l.paso = "p2p_nombre"
  BY ListenerEs, ColaEs DEF ListenerStep, accept_p2p_nombre, Firme
<1>2. vivo[n] /\ \A x : ~Muere(n, x)
  BY SinMuerte
<1>3. /\ tcp' = Envia(k, n, fd, SuNombre(n))
      /\ listener' = [listener EXCEPT
           ![n].paso = "mirando", ![n].newfd = SOCK_ERRONEO,
           ![n].listos = @ \ {listener[n].servSock}]
      /\ routerEvents' = [routerEvents EXCEPT ![n] = Append(@, ev)]
      /\ UNCHANGED <<logicEvents, en_operacion, listenerAparte>>
  BY <1>2 DEF accept_p2p_nombre, Saludado, RecvMata
<1>4. /\ listener'[n].paso = "mirando" /\ routerEvents'[n] = Append(routerEvents[n], ev)
      /\ UNCHANGED <<cuenta, vivo>> /\ UNCHANGED <<logicEvents, logicPropio, cuenta>>
      /\ router' = router
  BY <1>1, <1>3 DEF ListenerOK, listenerAparte
<1>5. n \notin Compradores
  BY <1>1 DEF ListenerBien, Saludando
<1>6. ev.id = "RT_SET_SOCKET_P2P" /\ Callado(d) /\ h = Envia(k, n, fd, d)
  BY <1>3 DEF Callado
<1> HIDE DEF fd, k, ev, o, d, h
<1>7. Obra(n, k)
  BY LeeSiHayObra DEF k
<1>8. Obra(n, h) /\ ElRed(h) = ElRed(tcp)
  <2> DEFINE y == k.con[Punta(k, n, fd).con].nodo[3 - Punta(k, n, fd).lado]
  <2>1. EsOtro(k, n, fd, y) /\ DatoBien(Conocidos, y, d)
    BY DEF EsOtro, DatoBien, d
  <2> HIDE DEF y
  <2>2. Obra(n, h) /\ (Callado(d) => ElRed(h) = ElRed(k))
    BY <1>2, <1>6, <1>7, <2>1, ObraEnvia
  <2>3. ElRed(k) = ElRed(tcp)
    BY LeeSiHayObra DEF k
  <2> QED
    BY <1>6, <2>2, <2>3
<1>9. CursoFirme(tcp, n, router'[n], routerEvents'[n])
  <2>1. router'[n].paso = "libre"
    BY <1>4, <1>5 DEF Negocios, Nodo, RouterBien
  <2> QED
    BY <2>1 DEF CursoFirme, Entrando
<1>10. MapasFirmes(tcp, n, router'[n])
  BY <1>1, <1>4 DEF NodoFirme
<1>11. Obra(n, tcp')
  BY <1>8 DEF h
<1>12. AvisosFirmes(Directos(tcp', Ele, n), routerEvents'[n])
  <2>1. Directos(tcp, Ele, n) \subseteq Directos(tcp', Ele, n)
    BY <1>11, ObraNodo
  <2>2. EsSeq(routerEvents[n]) /\ AvisosFirmes(Directos(tcp, Ele, n), routerEvents[n])
    BY <1>1 DEF NodoFirme
  <2>3. AvisoFirme(Directos(tcp', Ele, n), ev)
    BY <1>6 DEF AvisoFirme
  <2>4. AvisosFirmes(Directos(tcp', Ele, n), Append(routerEvents[n], ev))
    BY <2>1, <2>2, <2>3, AvisosQuedan
  <2> QED
    BY <1>4, <2>4
<1>13. Toca(n)
  BY <1>1, TocaListener
<1>14. Firme'
  BY <1>4, <1>9, <1>10, <1>11, <1>12, <1>13, PasoFirme
<1>15. UNCHANGED DeLogic
  BY <1>3, <1>6, DeLogicPostea DEF RouterId
<1> QED
  BY <1>4, <1>8, <1>14, <1>15, Tartamudea DEF h

LEMMA NombreCumple ==
  ASSUME Tipos, Apagados, Negocios, Firme, TodosViven, UNCHANGED vivo, NEW n \in Node,
         accept_nombre(n)
  PROVE  Firme' /\ PasoDeBazar
<1> DEFINE l == listener[n]
           fd == l.newfd
<1>1. /\ ListenerStep(n) /\ ListenerOK(l) /\ listener = [x \in Node |-> listener[x]]
      /\ ListenerFirme(tcp, n, l) /\ l.paso = "nombre"
  BY ListenerEs DEF ListenerStep, accept_nombre, Firme, NodoFirme
<1>2. \A x : ~Muere(n, x)
  BY SinMuerte
<1>3. EsP2P(n)
  <2>1. SUFFICES ASSUME ~EsP2P(n)
                 PROVE  FALSE
    OBVIOUS
  <2>2. RecvVuelve(n, fd)
    BY <1>2, <2>1 DEF accept_nombre, Saludado, RecvMata
  <2>3. Conectado(tcp, n, fd)
    BY <2>2 DEF RecvVuelve, RecvDato, RecvFin
  <2>4. Anunciada(Recibido(tcp, n, fd))
    BY <1>1, <2>3 DEF ListenerFirme
  <2> QED
    BY <2>1, <2>3, <2>4 DEF EsP2P, RecvDato, Anunciada
<1>4. /\ listener' = [listener EXCEPT ![n].paso = "p2p_opera"]
      /\ tcp' = Lee(tcp, n, fd)
      /\ UNCHANGED <<router, routerEvents, cuenta, vivo>>
      /\ UNCHANGED <<logicEvents, logicPropio>>
  BY <1>2, <1>3 DEF accept_nombre, listenerAparte, Saludado, RecvMata
<1>5. listener'[n].paso # "nombre"
  BY <1>1, <1>4 DEF ListenerOK
<1>6. RecvDato(tcp, n, fd) /\ Recibido(tcp, n, fd)[1] = P2P_CONNECT
  BY <1>3 DEF EsP2P
<1>7. Obra(n, tcp)
  BY ObraYa
<1> HIDE DEF fd, l
<1>8. /\ Obra(n, tcp')
      /\ \A p : Total(tcp', p) + Cardinality(De(<<P2P_CONNECT>>, n, p)) = Total(tcp, p)
  <2> DEFINE d == P2P_CONNECT
             h == tcp'
  <2>1. d = Recibido(tcp, n, fd)[1] /\ h = Lee(tcp, n, fd)
    BY <1>4, <1>6
  <2> HIDE DEF d, h
  <2>2. Obra(n, h) /\ \A p : Total(h, p) + Cardinality(De(<<d>>, n, p)) = Total(tcp, p)
    BY <1>6, <1>7, <2>1, ObraLee
  <2> QED
    BY <2>2 DEF d, h
<1>9. ElRed(tcp') = ElRed(tcp)
  <2> DEFINE d == P2P_CONNECT
             h == tcp'
  <2>1. LetrasBien(tcp) /\ LetrasBien(h)
    BY <1>7, <1>8 DEF Obra
  <2>2. \A p : Total(h, p) + Cardinality(De(<<d>>, n, p)) = Total(tcp, p)
    BY <1>8
  <2>3. d = P2P_CONNECT
    OBVIOUS
  <2> HIDE DEF d, h
  <2>4. ElRed(h) = ElRed(tcp)
    BY <2>1, <2>2, <2>3, RedDato
  <2> QED
    BY <2>4 DEF h
<1> QED
  BY <1>1, <1>4, <1>5, <1>8, <1>9, OyeCumple

LEMMA DirectaCumple ==
  ASSUME Tipos, Apagados, Negocios, Firme, UNCHANGED vivo, NEW n \in Node,
         accept_p2p(n) \/ cierre_fin(n)
  PROVE  Firme' /\ PasoDeBazar
<1>1. /\ ListenerStep(n) /\ ListenerOK(listener[n]) /\ listener = [x \in Node |-> listener[x]]
      /\ UNCHANGED <<router, routerEvents, cuenta, vivo>>
      /\ UNCHANGED <<logicEvents, logicPropio, tcp>>
  BY DEF ListenerStep, accept_p2p, cierre_fin, Tipos, Listeners, listenerAparte
<1>2. listener'[n].paso # "nombre"
  BY <1>1 DEF accept_p2p, cierre_fin, ListenerOK
<1> QED
  BY <1>1, <1>2, OyeQuieto

LEMMA MensajeCumple ==
  ASSUME Tipos, Apagados, Negocios, Firme, UNCHANGED vivo, NEW n \in Node, mensaje(n)
  PROVE  Firme' /\ PasoDeBazar
<1> DEFINE i == Mirado(n)
           d == Recibido(tcp, n, i)[1]
           h == tcp'
<1>1. /\ ListenerStep(n) /\ ListenerOK(listener[n])
      /\ listener = [x \in Node |-> listener[x]] /\ listener[n].paso = "mirando"
      /\ RedBien(Conocidos, vivo, Ele, tcp)
      /\ logicEvents = [x \in Node |-> logicEvents[x]]
  BY ListenerEs DEF ListenerStep, Apagados, mensaje, Mirando
<1>2. /\ RecvDato(tcp, n, i)
      /\ listener' = [listener EXCEPT ![n].listos = @ \ {i}]
      /\ UNCHANGED <<router, routerEvents, cuenta, vivo>> /\ UNCHANGED logicPropio
      /\ \/ /\ h = Lee(tcp, n, i)
            /\ logicEvents' = [logicEvents EXCEPT ![n] =
                 IF d.que = "mensaje"
                 THEN Append(@, [id |-> "CLIENT_MSG", tag |-> d.tag]) ELSE @]
         \/ h = Descarta(tcp, n, i) /\ UNCHANGED logicEvents
  BY DEF mensaje, listenerAparte
<1>3. listener'[n].paso # "nombre"
  BY <1>1, <1>2 DEF ListenerOK
<1>4. Obra(n, tcp) /\ LetrasBien(tcp)
  BY ObraYa DEF Obra
<1>5. DatoBien(Conocidos, n, d)
  <2> DEFINE j == Punta(tcp, n, i).con
             s == Punta(tcp, n, i).lado
             q == tcp.con[j].buf[s]
  <2>1. Conectado(tcp, n, i) /\ Recibido(tcp, n, i) # <<>>
    BY <1>2 DEF RecvDato
  <2>2. EsPunta(Conocidos, vivo, Ele, tcp, n, j, s)
    <3> HIDE DEF i
    <3> QED
      BY <1>1, <2>1, PuntaEs
  <2>3. q = Recibido(tcp, n, i)
    BY DEF Recibido
  <2> HIDE DEF j, s, i
  <2>4. /\ EsSeq(q) /\ \A x \in DOMAIN q : DatoBien(Conocidos, n, q[x])
    BY <2>2 DEF EsPunta, ConexionBien, LadoBien
  <2>5. q # <<>>
    BY <2>1, <2>3
  <2> HIDE DEF q
  <2>6. 1 \in DOMAIN q
    BY <2>4, <2>5, SeqTail
  <2> QED
    BY <2>3, <2>4, <2>6
<1>6. d = P2P_CONNECT \/ (\E x : d = SuNombre(x)) \/ \E m : d = Carta(m)
  <2> HIDE DEF d
  <2> QED
    BY <1>5 DEF DatoBien
<1>7. CASE h = Descarta(tcp, n, i) /\ UNCHANGED logicEvents
  <2> HIDE DEF i, d, h
  <2>1. Obra(n, h) /\ ElRed(h) = ElRed(tcp)
    BY <1>2, <1>4, <1>7, ObraDescarta
  <2>2. UNCHANGED <<logicEvents, logicPropio>>
    BY <1>2, <1>7
  <2>3. Obra(n, tcp') /\ ElRed(tcp') = ElRed(tcp)
    BY <2>1 DEF h
  <2> QED
    BY <1>1, <1>2, <1>3, <2>2, <2>3, OyeCumple
<1>8. CASE /\ h = Lee(tcp, n, i)
           /\ logicEvents' = [logicEvents EXCEPT ![n] =
                 IF d.que = "mensaje"
                 THEN Append(@, [id |-> "CLIENT_MSG", tag |-> d.tag]) ELSE @]
  <2>1. d = Recibido(tcp, n, i)[1]
    OBVIOUS
  <2> HIDE DEF i, d, h
  <2>2. /\ Obra(n, h) /\ LetrasBien(h)
        /\ \A p : Total(h, p) + Cardinality(De(<<d>>, n, p)) = Total(tcp, p)
    BY <1>2, <1>4, <1>8, <2>1, ObraLee DEF Obra
  <2>3. Obra(n, tcp')
    BY <2>2 DEF h
  <2>4. CASE d = P2P_CONNECT \/ \E x : d = SuNombre(x)
    <3>1. ElRed(h) = ElRed(tcp)
      BY <1>4, <2>2, <2>4, RedDato
    <3>2. d.que # "mensaje"
      BY <2>4 DEF P2P_CONNECT, SuNombre
    <3>3. logicEvents' = logicEvents
      BY <1>1, <1>8, <3>2
    <3>4. ElRed(tcp') = ElRed(tcp) /\ UNCHANGED <<logicEvents, logicPropio>>
      BY <1>2, <3>1, <3>3 DEF h
    <3> QED
      BY <1>1, <1>2, <1>3, <2>3, <3>4, OyeCumple
  <2>5. ASSUME NEW m, d = Carta(m)
        PROVE  Firme' /\ PasoDeBazar
    <3> DEFINE p == [dst |-> n, tag |-> m]
    <3>1. Firme'
      BY <1>1, <1>2, <1>3, <2>3, OyeFirme
    <3>2. p \in B!BagToSet(ElRed(tcp)) /\ ElRed(h) = B!BagRemove(ElRed(tcp), p)
      BY <1>4, <2>2, <2>5, RedDato
    <3>3. d.que = "mensaje" /\ d.tag = m
      BY <2>5 DEF Carta
    <3>4. logicEvents' = [logicEvents EXCEPT ![n] = Append(@, [id |-> "CLIENT_MSG", tag |-> m])]
      BY <1>8, <3>3
    <3>5. p.dst = n /\ p.tag = m
      OBVIOUS
    <3> HIDE DEF p
    <3>6. EnRed = ElRed(tcp) /\ EnRed' = ElRed(h)
      BY DEF EnRed, ElRed, h
    <3>7. UNCHANGED <<logicPropio, cuenta>> /\ UNCHANGED DeLogic
      BY <1>2 DEF DeLogic
    <3>8. B!Entrega(p)
      BY <3>2, <3>4, <3>5, <3>6, <3>7 DEF B!Entrega, logicPropio
    <3>9. p \in B!BagToSet(EnRed)
      BY <3>2, <3>6
    <3>10. B!Next
      BY <3>8, <3>9 DEF B!Next
    <3> QED
      BY <3>1, <3>10 DEF PasoDeBazar
  <2> QED
    BY <1>6, <2>4, <2>5
<1> QED
  BY <1>2, <1>7, <1>8

(* The Router is told of it: at the end of its queue.                      *)
LEMMA CierreFirme ==
  ASSUME Tipos, Negocios, Firme, NEW n \in Node, NEW a, EsSeq(a),
         routerEvents'[n] = routerEvents[n] \o a, router'[n] = router[n],
         NEW P, Directos(tcp, Ele, n) \subseteq P, AvisosFirmes(P, a)
  PROVE  /\ CursoFirme(tcp, n, router'[n], routerEvents'[n])
         /\ AvisosFirmes(P, routerEvents'[n])
<1> DEFINE q == routerEvents[n]
           c == q \o a
<1>1. EsSeq(q) /\ NodoFirme(n) /\ EnCurso(router[n], q)
  BY ColaEs DEF Firme, Tipos, Cursos
<1>2. AvisosFirmes(P, q) /\ CursoFirme(tcp, n, router[n], q)
  BY <1>1, AvisosQuedan DEF NodoFirme
<1> HIDE DEF q
<1>3. AvisosFirmes(P, c)
  <2>1. \A i \in DOMAIN c :
          (i \in DOMAIN q /\ c[i] = q[i])
            \/ (i - Len(q) \in DOMAIN a /\ c[i] = a[i - Len(q)])
    BY <1>1, SeqJunta
  <2> QED
    BY <1>2, <2>1 DEF AvisosFirmes
<1>4. q # <<>> => c # <<>> /\ Head(c) = Head(q)
  <2>1. PICK S, R : q \in Seq(S) /\ a \in Seq(R)
    BY <1>1 DEF EsSeq
  <2>2. q \in Seq(S \cup R) /\ a \in Seq(S \cup R)
    BY <2>1
  <2> QED
    BY <2>2
<1>5. routerEvents'[n] = c
  BY DEF q
<1> HIDE DEF c
<1>6. CursoFirme(tcp, n, router[n], c)
  BY <1>1, <1>2, <1>4 DEF CursoFirme, EnCurso, Entrando
<1> QED
  BY <1>3, <1>5, <1>6

(* One has closed: no connection of the scene does.                        *)
LEMMA CierreCumple ==
  ASSUME Tipos, Apagados, Negocios, Firme, UNCHANGED vivo, NEW n \in Node, cierre(n)
  PROVE  Firme' /\ PasoDeBazar
<1> DEFINE l == listener[n]
           i == Mirado(n)
           a == IF RecvFin(tcp, n, i) /\ i \in l.ip /\ i # l.p2p
                THEN <<[id |-> "RT_RM_NODO_SERVIDOR", fd |-> i]>> ELSE <<>>
<1>1. /\ ListenerStep(n) /\ ListenerOK(l) /\ listener = [x \in Node |-> listener[x]]
      /\ RedBien(Conocidos, vivo, Ele, tcp)
      /\ routerEvents = [x \in Node |-> routerEvents[x]]
      /\ NodoFirme(n)
  BY ListenerEs DEF ListenerStep, Tipos, Colas, Firme
<1>2. /\ l.paso = "mirando" /\ i # l.servSock /\ tcp' = Cierra(tcp, n, i)
      /\ RecvFin(tcp, n, i) \/ RecvError(tcp, n, i)
      /\ UNCHANGED <<logicEvents, logicPropio, cuenta>> /\ UNCHANGED <<cuenta, vivo>>
      /\ router' = router
      /\ routerEvents' = [routerEvents EXCEPT ![n] = @ \o a]
      /\ listener' = [listener EXCEPT
           ![n].listos = @ \ {i}, ![n].master = @ \ {i}, ![n].ip = @ \ {i},
           ![n].cant = IF RecvFin(tcp, n, i) THEN @ - 1 ELSE @,
           ![n].paso = IF i = l.p2p THEN "cierre_p2p" ELSE @]
  BY DEF cierre, Mirando, listenerAparte
<1>3. listener'[n].paso # "nombre" /\ routerEvents'[n] = routerEvents[n] \o a
  BY <1>1, <1>2 DEF ListenerOK
<1>4. Conectado(tcp, n, i) => Punta(tcp, n, i).con > Ele
  <2> DEFINE j == Punta(tcp, n, i).con
             s == Punta(tcp, n, i).lado
  <2>1. SUFFICES ASSUME Conectado(tcp, n, i)
                 PROVE  j > Ele
    OBVIOUS
  <2>2. Ve(tcp, n, i) # "vivo"
    BY <1>2, <2>1 DEF RecvFin, RecvError
  <2>3. EsPunta(Conocidos, vivo, Ele, tcp, n, j, s)
    <3> HIDE DEF i
    <3> QED
      BY <1>1, <2>1, PuntaEs
  <2>4. j \in DOMAIN tcp.con /\ s \in 1..2 /\ EsSeq(tcp.con) /\ Ele \in Nat
    BY <1>1, <2>3 DEF EsPunta, RedBien, SocketsOK
  <2>5. j \notin 1..Ele
    <3>1. SUFFICES ASSUME j \in 1..Ele
                   PROVE  FALSE
      OBVIOUS
    <3>2. tcp.con[j].ve = Vivos
      BY <3>1 DEF Firme, RedFirme
    <3>3. Ve(tcp, n, i) = Vivos[s]
      BY <3>2 DEF Ve
    <3> QED
      BY <2>2, <2>4, <3>3 DEF Vivos
  <2> HIDE DEF j
  <2>6. j \in Nat /\ j >= 1
    BY <2>4, SeqAppend
  <2> QED
    BY <2>4, <2>5, <2>6
<1>5. /\ Obra(n, tcp') /\ ElRed(tcp') = ElRed(tcp)
      /\ Conectado(tcp, n, i) => i \notin Abiertos(tcp', n)
  <2> DEFINE h == tcp'
  <2>1. Obra(n, tcp) /\ h = Cierra(tcp, n, i)
    BY <1>2, ObraYa
  <2> HIDE DEF i, h
  <2>2. /\ Obra(n, h) /\ ElRed(h) = ElRed(tcp)
        /\ Conectado(tcp, n, i) => i \notin Abiertos(h, n)
    BY <1>4, <2>1, ObraCierra
  <2> QED
    BY <2>2 DEF h
<1> DEFINE e == [id |-> "RT_RM_NODO_SERVIDOR", fd |-> i]
           P == Directos(tcp', Ele, n)
<1>6. a = <<>> \/ (a = <<e>> /\ RecvFin(tcp, n, i))
  OBVIOUS
<1>7. RecvFin(tcp, n, i) => i \in P
  <2>1. SUFFICES ASSUME RecvFin(tcp, n, i)
                 PROVE  i \in P
    OBVIOUS
  <2>2. i \notin Abiertos(tcp', n) /\ Conectado(tcp, n, i)
    BY <1>5, <2>1 DEF RecvFin
  <2>3. i \in Int
    <3>1. i \in Abiertos(tcp, n)
      BY <2>2 DEF Conectado
    <3>2. DOMAIN tcp.fds[n] \subseteq Nat
      BY DEF Tipos, SocketsOK, FdsOK
    <3> QED
      BY <3>1, <3>2 DEF Abiertos
  <2> QED
    BY <2>2, <2>3 DEF Directos
<1>8. e.id = "RT_RM_NODO_SERVIDOR" /\ e.fd = i
  OBVIOUS
<1> HIDE DEF a, e, P
<1>9. Aviso(a)
  BY <1>6, <1>8 DEF Aviso, RouterId
<1>10. RecvFin(tcp, n, i) => AvisoFirme(P, e)
  BY <1>7, <1>8 DEF AvisoFirme
<1>11. EsSeq(a) /\ AvisosFirmes(P, a)
  <2>1. EsSeq(<<>>) /\ AvisosFirmes(P, <<>>)
    BY SeqCortas DEF AvisosFirmes
  <2>2. ASSUME NEW x, AvisoFirme(P, x)
        PROVE  EsSeq(<<x>>) /\ AvisosFirmes(P, <<x>>)
    BY <2>2, SeqCortas DEF AvisosFirmes
  <2> QED
    BY <1>6, <1>10, <2>1, <2>2
<1>12. Directos(tcp, Ele, n) \subseteq P
  BY <1>5, ObraNodo DEF P
<1>13. /\ CursoFirme(tcp, n, router'[n], routerEvents'[n])
       /\ AvisosFirmes(P, routerEvents'[n])
  BY <1>2, <1>3, <1>11, <1>12, CierreFirme
<1>14. MapasFirmes(tcp, n, router'[n])
  BY <1>1, <1>2 DEF NodoFirme
<1>15. Toca(n)
  BY <1>1, TocaListener
<1>16. AvisosFirmes(Directos(tcp', Ele, n), routerEvents'[n])
  BY <1>13 DEF P
<1>17. Firme'
  BY <1>2, <1>3, <1>5, <1>13, <1>14, <1>15, <1>16, PasoFirme
<1>18. DeLogic' = DeLogic
  BY <1>2, <1>9, DeLogicAvisa
<1> QED
  BY <1>2, <1>5, <1>17, <1>18, Tartamudea

LEMMA OlvidaCumple ==
  ASSUME Tipos, Apagados, Negocios, Firme, UNCHANGED vivo, NEW n \in Node, cierre_p2p(n)
  PROVE  Firme' /\ PasoDeBazar
<1> DEFINE f == [id |-> "RT_UNSET_SOCKET_P2P"]
<1>1. /\ ListenerStep(n) /\ ListenerOK(listener[n]) /\ listener = [x \in Node |-> listener[x]]
      /\ routerEvents = [x \in Node |-> routerEvents[x]] /\ EsSeq(routerEvents[n])
      /\ NodoFirme(n) /\ EnCurso(router[n], routerEvents[n])
      /\ UNCHANGED <<logicEvents, logicPropio, cuenta>> /\ UNCHANGED <<cuenta, vivo>>
      /\ router' = router /\ UNCHANGED tcp
      /\ routerEvents' = [routerEvents EXCEPT ![n] = Append(@, f)]
      /\ listener' = [listener EXCEPT ![n].p2p = SOCK_ERRONEO, ![n].paso = "cierre_fin"]
  BY ListenerEs, ColaEs DEF ListenerStep, cierre_p2p, listenerAparte, Firme, Tipos, Cursos
<1>2. listener'[n].paso # "nombre" /\ routerEvents'[n] = Append(routerEvents[n], f)
  BY <1>1 DEF ListenerOK
<1>3. Obra(n, tcp') /\ ElRed(tcp') = ElRed(tcp)
  BY <1>1, ObraYa
<1>4. f.id = "RT_UNSET_SOCKET_P2P"
  OBVIOUS
<1> DEFINE P == Directos(tcp', Ele, n)
<1> HIDE DEF f, P
<1>5. AvisosFirmes(P, routerEvents'[n])
  <2>1. AvisoFirme(P, f)
    BY <1>4 DEF AvisoFirme
  <2>2. Directos(tcp, Ele, n) \subseteq P
    BY <1>3, ObraNodo DEF P
  <2> QED
    BY <1>1, <1>2, <2>1, <2>2, AvisosQuedan DEF NodoFirme
<1>6. CursoFirme(tcp, n, router'[n], routerEvents'[n])
  <2> DEFINE q == routerEvents[n]
  <2>1. EsSeq(q) /\ EnCurso(router[n], q) /\ CursoFirme(tcp, n, router[n], q)
    BY <1>1 DEF NodoFirme
  <2> HIDE DEF q
  <2>2. q # <<>> => Head(Append(q, f)) = Head(q)
    <3>1. PICK S : q \in Seq(S)
      BY <2>1 DEF EsSeq
    <3>2. q \in Seq(S \cup {f}) /\ f \in S \cup {f}
      BY <3>1
    <3> QED
      BY <3>2
  <2>3. CursoFirme(tcp, n, router[n], Append(q, f))
    BY <2>1, <2>2 DEF CursoFirme, EnCurso, Entrando
  <2> QED
    BY <1>1, <1>2, <2>3 DEF q
<1>7. MapasFirmes(tcp, n, router'[n])
  BY <1>1 DEF NodoFirme
<1>8. Toca(n)
  BY <1>1, TocaListener
<1>9. AvisosFirmes(Directos(tcp', Ele, n), routerEvents'[n])
  BY <1>5 DEF P
<1>10. Firme'
  BY <1>1, <1>2, <1>3, <1>6, <1>7, <1>8, <1>9, PasoFirme
<1>11. DeLogic' = DeLogic
  BY <1>1, <1>4, DeLogicPostea DEF RouterId
<1> QED
  BY <1>1, <1>3, <1>10, <1>11, Tartamudea

LEMMA ListenerCumple ==
  ASSUME Tipos, Apagados, Negocios, Firme, TodosViven, UNCHANGED vivo, NEW n \in Node,
         ListenerStep(n)
  PROVE  Firme' /\ PasoDeBazar
  BY SinArranques, SelectCumple, AcceptCumple, NombreCumple, DirectaCumple, SaludadoCumple,
     CierreCumple, OlvidaCumple, MensajeCumple, VigilaCumple DEF ListenerStep

-----------------------------------------------------------------------------
(* Logic of node n, and its user.  The sockets stay as they are, and the   *)
(* Router gets one of the events of RouterId, or none.                     *)
LEMMA LogicaFirme ==
  ASSUME Tipos, Apagados, Negocios, Firme, NEW n \in Node, Toca(n),
         UNCHANGED <<router, listener, tcp, vivo>>, UNCHANGED Ele,
         \/ routerEvents' = routerEvents
         \/ \E id \in RouterId : \E m : PosteaRouter(n, id, m)
  PROVE  Firme'
<1> DEFINE P == Directos(tcp, Ele, n)
<1>1. /\ NodoFirme(n) /\ EsSeq(routerEvents[n])
      /\ routerEvents = [x \in Node |-> routerEvents[x]]
      /\ EnCurso(router[n], routerEvents[n])
  BY ColaEs DEF Firme, Tipos, Cursos
<1>2. /\ AvisosFirmes(P, routerEvents[n]) /\ CursoFirme(tcp, n, router[n], routerEvents[n])
      /\ MapasFirmes(tcp, n, router[n]) /\ ListenerFirme(tcp, n, listener[n])
      /\ 0 \notin Abiertos(tcp, n)
  BY <1>1 DEF NodoFirme
<1>3. /\ CursoFirme(tcp, n, router[n], routerEvents'[n])
      /\ AvisosFirmes(P, routerEvents'[n])
  <2>1. CASE routerEvents' = routerEvents
    BY <1>2, <2>1
  <2>2. ASSUME NEW id \in RouterId, NEW m, PosteaRouter(n, id, m)
        PROVE  /\ CursoFirme(tcp, n, router[n], routerEvents'[n])
               /\ AvisosFirmes(P, routerEvents'[n])
    <3> DEFINE q == routerEvents[n]
               e == [id |-> id, tag |-> m]
               t == Append(q, e)
    <3>1. routerEvents'[n] = t
      BY <1>1, <2>2 DEF PosteaRouter
    <3>2. AvisoFirme(P, e)
      BY DEF AvisoFirme, RouterId
    <3> HIDE DEF e, P
    <3>3. AvisosFirmes(P, t)
      BY <1>1, <1>2, <3>2, AvisosQuedan
    <3>4. q # <<>> => Head(t) = Head(q)
      <4>1. PICK S : q \in Seq(S)
        BY <1>1 DEF EsSeq
      <4>2. q \in Seq(S \cup {e}) /\ e \in S \cup {e}
        BY <4>1
      <4> HIDE DEF q
      <4> QED
        BY <4>2
    <3>5. router[n].paso \in Entrando => q # <<>>
      BY <1>1 DEF EnCurso, Entrando
    <3>6. CursoFirme(tcp, n, router[n], q)
      BY <1>2
    <3> HIDE DEF q, t
    <3>7. CursoFirme(tcp, n, router[n], t)
      BY <3>4, <3>5, <3>6 DEF CursoFirme
    <3> QED
      BY <3>1, <3>3, <3>7
  <2> QED
    BY <2>1, <2>2
<1>4. Solo(n)
  BY ElVivo
<1>5. Sigue(tcp, tcp', Ele, n) /\ RedFirme(tcp')
  <2>1. Obra(n, tcp)
    BY ObraYa
  <2> QED
    BY <2>1 DEF Obra, Hasta, Firme
<1> HIDE DEF P
<1>6. /\ MapasFirmes(tcp', n, router'[n]) /\ ListenerFirme(tcp', n, listener'[n])
      /\ CursoFirme(tcp', n, router'[n], routerEvents'[n])
      /\ 0 \notin Abiertos(tcp', n)
  BY <1>2, <1>3
<1>7. AvisosFirmes(Directos(tcp', Ele, n), routerEvents'[n])
  BY <1>3 DEF P
<1> QED
  BY <1>4, <1>5, <1>6, <1>7, FirmeDe

LEMMA LogicaCumple ==
  ASSUME Tipos, Apagados, Negocios, Firme, UNCHANGED vivo, NEW n \in Node, Logica(n)
  PROVE  Firme' /\ PasoDeBazar
<1>1. /\ LogicStep(n)
      /\ UNCHANGED <<router, listener, en_operacion, tcp, vivo, cuenta>>
  BY DEF Logica
<1>2. Firme'
  <2>1. UNCHANGED Ele /\ UNCHANGED <<router, listener, tcp, vivo>>
    BY <1>1 DEF Ele
  <2>2. \/ routerEvents' = routerEvents
        \/ \E id \in RouterId : \E m : PosteaRouter(n, id, m)
    BY <1>1, LogicPublica
  <2>3. Toca(n)
    BY TocaOtros
  <2> QED
    BY <2>1, <2>2, <2>3, LogicaFirme
<1>3. B!LogicStep(n)
  BY <1>1, LogicaSeCumple
<1>4. UNCHANGED <<EnRed, cuenta.ordenes>>
  BY <1>1 DEF EnRed
<1>5. B!Next
  BY <1>3, <1>4 DEF B!Next
<1> QED
  BY <1>2, <1>5 DEF PasoDeBazar

LEMMA LanzaCumple ==
  ASSUME Tipos, Apagados, Negocios, Firme, UNCHANGED vivo, NEW n \in Node,
         procesar_lanzar(n)
  PROVE  Firme' /\ PasoDeBazar
<1>1. /\ cuenta.ordenes < MaxPedidos
      /\ cuenta' = [cuenta EXCEPT !.pedidos[n] = @ + 1, !.ordenes = @ + 1]
      /\ UNCHANGED <<routerEvents, logicPropio, router, listener, tcp, vivo>>
  BY DEF procesar_lanzar
<1>2. PICK c \in Pedible :
        logicEvents' = [logicEvents EXCEPT ![n] = Append(@, [id |-> "DO_LOOKUP", cantidad |-> c])]
  BY DEF procesar_lanzar
<1>3. cuenta'.ordenes = cuenta.ordenes + 1 /\ cuenta'.escena = cuenta.escena
  BY <1>1 DEF Negocios, Cuentas
<1>4. Firme'
  <2>1. UNCHANGED Ele /\ UNCHANGED <<router, listener, tcp, vivo>>
        /\ routerEvents' = routerEvents
    BY <1>1, <1>3 DEF Ele
  <2>2. Toca(n)
    BY TocaOtros
  <2> QED
    BY <2>1, <2>2, LogicaFirme
<1> DEFINE ev == [id |-> "DO_LOOKUP", cantidad |-> c]
<1>5. UNCHANGED <<EnRed, DeLogic>>
  BY <1>1 DEF EnRed, DeLogic
<1>6. B!Ordena(n, ev)
  BY <1>1, <1>2, <1>3, <1>5 DEF B!Ordena, logicPropio
<1>7. B!procesar_lanzar(n)
  BY <1>6 DEF B!procesar_lanzar
<1>8. B!Next
  BY <1>7 DEF B!Next, B!Teclado
<1> QED
  BY <1>4, <1>8 DEF PasoDeBazar

LEMMA QuietoCumple ==
  ASSUME Firme, UNCHANGED vars
  PROVE  Firme' /\ PasoDeBazar
<1>1. UNCHANGED <<logicVars, router, listener, tcp, cuenta>>
  BY DEF vars
<1>2. UNCHANGED <<routerEvents, logicEvents, logicPropio>>
  BY <1>1 DEF logicVars, logicPropio
<1>3. Firme'
  <2>1. UNCHANGED Ele
    BY <1>1 DEF Ele
  <2>2. RedFirme(tcp)'
    BY <1>1, <2>1 DEF Firme, RedFirme
  <2>3. ASSUME NEW n \in Node
        PROVE  NodoFirme(n)'
    <3>1. NodoFirme(n)
      BY DEF Firme
    <3>2. MapasFirmes(tcp, n, router[n])'
      BY <1>1, <2>1, <3>1 DEF NodoFirme, MapasFirmes, VecinosFirmes, ServidorFirme, Vecinal
    <3>3. /\ CursoFirme(tcp, n, router[n], routerEvents[n])'
          /\ ListenerFirme(tcp, n, listener[n])'
      BY <1>1, <1>2, <3>1 DEF NodoFirme, CursoFirme, ListenerFirme
    <3>4. AvisosFirmes(Directos(tcp, Ele, n), routerEvents[n])'
      <4>1. Directos(tcp, Ele, n)' = Directos(tcp, Ele, n)
        BY <1>1, <2>1
      <4> QED
        BY <1>2, <3>1, <4>1 DEF NodoFirme
    <3> QED
      BY <1>1, <3>1, <3>2, <3>3, <3>4 DEF NodoFirme
  <2> QED
    BY <2>2, <2>3 DEF Firme
<1>4. UNCHANGED DeLogic
  BY <1>2 DEF DeLogic
<1>5. ElRed(tcp') = ElRed(tcp)
  BY <1>1
<1>6. PasoDeBazar
  BY <1>1, <1>2, <1>4, <1>5, Tartamudea
<1> QED
  BY <1>3, <1>6

LEMMA PasoCumple ==
  ASSUME SinVueltas, Tipos, Apagados, Negocios, Firme, TodosViven, TodosViven', Tipos',
         [Next]_vars
  PROVE  Firme' /\ PasoDeBazar
<1>1. UNCHANGED vivo
  <2>1. vivo \in [Node -> BOOLEAN] /\ vivo' \in [Node -> BOOLEAN]
    BY DEF Tipos, Banderas
  <2>2. \A n \in Node : vivo[n] = vivo'[n]
    BY <2>1 DEF TodosViven
  <2> QED
    BY <2>1, <2>2
<1>2. CASE UNCHANGED vars
  BY <1>2, QuietoCumple
<1>3. ASSUME NEW n \in Node,
             \/ Logica(n) \/ RouterStep(n) \/ ListenerStep(n) \/ procesar_lanzar(n)
             \/ try_reconnect(n) \/ Arranca(n) \/ Sale(n)
      PROVE  Firme' /\ PasoDeBazar
  <2>1. ~try_reconnect(n) /\ ~Arranca(n)
    BY SinVuelta
  <2>2. ~Sale(n)
    BY <1>1, SinMuerte DEF Sale
  <2> QED
    BY <1>1, <1>3, <2>1, <2>2, LogicaCumple, RouterCumple, ListenerCumple, LanzaCumple
<1> QED
  BY <1>2, <1>3 DEF Next

-----------------------------------------------------------------------------
(* Where a behaviour begins: every neighbour is on a connection.           *)

(* The connections of scene e that node n made with its neighbour i, those *)
(* it made with node x, and those that node x made with it.                *)
Hacia(e, n, i) == {j \in Hechos(e, n) : e.enlaces[j][2] = i}
Con(e, n, x) == {j \in Hechos(e, n) : Vecinos(e.enlaces[j]) = x}
Desde(e, n, x) == {j \in Aceptados(e, n) : e.enlaces[j][1] = x}

LEMMA UltimoVecinal ==
  ASSUME NEW e \in Escenas, Ele = Len(e.enlaces), NEW n \in Node, NEW C, C # {}
  PROVE  /\ C \subseteq Hechos(e, n) =>
              Vecinal(Enlazados(e), n, UltimoFd(e, n, C, 1), Vecinos(e.enlaces[Max(C)]))
         /\ C \subseteq Aceptados(e, n) =>
              Vecinal(Enlazados(e), n, UltimoFd(e, n, C, 2), e.enlaces[Max(C)][1])
<1> DEFINE k == Enlazados(e)
           s == e.enlaces
           j == Max(C)
<1>1. Ele \in Nat /\ DOMAIN s = 1..Ele /\ Enlazada(k, e, Ele)
  BY EscenaEs, EnlazadosOK
<1>2. \A i \in 1..Ele : k.con[i].nodo[1] = s[i][1] /\ k.con[i].nodo[2] = Vecinos(s[i])
  BY <1>1 DEF Enlazada, EnlaceHecho
<1>3. ASSUME NEW l, NEW S, C \subseteq S,
             (l = 1 /\ S = Hechos(e, n)) \/ (l = 2 /\ S = Aceptados(e, n))
      PROVE  /\ UltimoFd(e, n, C, l) \in Abiertos(k, n) /\ j \in 1..Ele
             /\ Punta(k, n, UltimoFd(e, n, C, l)) = [con |-> j, lado |-> l]
  <2>1. S \subseteq 1..Ele
    BY <1>1, <1>3 DEF Hechos, Aceptados
  <2>2. (l = 1 /\ C \subseteq Hechos(e, n)) \/ (l = 2 /\ C \subseteq Aceptados(e, n))
    BY <1>3
  <2> HIDE DEF s
  <2>3. /\ UltimoFd(e, n, C, l) \in Abiertos(Enlazados(e), n) /\ Max(C) \in C
        /\ Punta(Enlazados(e), n, UltimoFd(e, n, C, l)) = [con |-> Max(C), lado |-> l]
    BY <2>2, UltimoFdEs
  <2> QED
    BY <1>3, <2>1, <2>3
<1> HIDE DEF k, j
<1>4. ASSUME NEW fd, fd \in Abiertos(k, n), j \in 1..Ele, NEW l \in 1..2,
             Punta(k, n, fd) = [con |-> j, lado |-> l]
      PROVE  Vecinal(k, n, fd, k.con[j].nodo[3 - l])
  BY <1>4 DEF Vecinal, EsOtro
<1>5. ASSUME C \subseteq Hechos(e, n)
      PROVE  Vecinal(k, n, UltimoFd(e, n, C, 1), Vecinos(s[j]))
  <2>1. Vecinal(k, n, UltimoFd(e, n, C, 1), k.con[j].nodo[3 - 1]) /\ j \in 1..Ele
    BY <1>3, <1>4, <1>5
  <2> QED
    BY <1>2, <2>1
<1>6. ASSUME C \subseteq Aceptados(e, n)
      PROVE  Vecinal(k, n, UltimoFd(e, n, C, 2), s[j][1])
  <2> DEFINE fd == UltimoFd(e, n, C, 2)
  <2>1. fd \in Abiertos(k, n) /\ j \in 1..Ele /\ Punta(k, n, fd) = [con |-> j, lado |-> 2]
    BY <1>3, <1>6
  <2> HIDE DEF fd
  <2>2. Vecinal(k, n, fd, k.con[j].nodo[3 - 2])
    BY <1>4, <2>1
  <2> QED
    BY <1>2, <2>1, <2>2 DEF fd
<1> QED
  BY <1>5, <1>6 DEF k, j

LEMMA MapasEnlazados ==
  ASSUME NEW e, NEW n
  PROVE  LET r == RouterEnlazado(e, n)
         IN  /\ r.vecino = [i \in 1..2 |-> UltimoFd(e, n, Hacia(e, n, i), 1)]
             /\ r.cliente = [x \in {y \in Node : Con(e, n, y) # {}} |->
                               UltimoFd(e, n, Con(e, n, x), 1)]
             /\ r.servidor = [x \in {y \in Node : Desde(e, n, y) # {}} |->
                               UltimoFd(e, n, Desde(e, n, x), 2)]
  BY DEF RouterEnlazado, RouterNuevo, Hacia, Con, Desde

(* The last of the connections with one neighbour.                         *)
LEMMA HaciaEs ==
  ASSUME Completas, NEW e \in Escenas, NEW n \in Node, NEW i \in 1..2
  PROVE  /\ \A j \in Hacia(e, n, i) : e.enlaces[j] = <<n, i>> /\ j \in DOMAIN e.enlaces
         /\ Vecino[n][i] = Nadie => Hacia(e, n, i) = {}
         /\ Vecino[n][i] # Nadie => Hacia(e, n, i) # {}
<1>1. /\ e.enlaces \in Seq(Node \X (1..2))
      /\ \A j \in DOMAIN e.enlaces : Vecinos(e.enlaces[j]) \in Node
  BY EscenaEs
<1>2. \A j \in Hacia(e, n, i) : e.enlaces[j] = <<n, i>> /\ j \in DOMAIN e.enlaces
  <2>1. SUFFICES ASSUME NEW j \in Hacia(e, n, i)
                 PROVE  e.enlaces[j] = <<n, i>> /\ j \in DOMAIN e.enlaces
    OBVIOUS
  <2>2. j \in DOMAIN e.enlaces /\ e.enlaces[j][1] = n /\ e.enlaces[j][2] = i
    BY DEF Hacia, Hechos
  <2>3. e.enlaces[j] \in Node \X (1..2)
    BY <1>1, <2>2
  <2> QED
    BY <2>2, <2>3
<1>3. Vecino[n][i] = Nadie => Hacia(e, n, i) = {}
  <2>1. SUFFICES ASSUME NEW j \in Hacia(e, n, i)
                 PROVE  Vecino[n][i] # Nadie
    OBVIOUS
  <2>2. Vecinos(e.enlaces[j]) = Vecino[n][i] /\ Vecinos(e.enlaces[j]) \in Node
    BY <1>1, <1>2 DEF Vecinos
  <2> QED
    BY <2>2, MensajesAssumption
<1>4. ASSUME Vecino[n][i] # Nadie
      PROVE  Hacia(e, n, i) # {}
  <2>1. PICK j \in DOMAIN e.enlaces : e.enlaces[j] = <<n, i>>
    BY <1>4 DEF Completas
  <2>2. j \in Hacia(e, n, i)
    BY <2>1 DEF Hacia, Hechos
  <2> QED
    BY <2>2
<1> QED
  BY <1>2, <1>3, <1>4

(* When both neighbours are the same node, the last connection with it is  *)
(* with the second.                                                        *)
LEMMA ConEs ==
  ASSUME Completas, NEW e \in Escenas, NEW n \in Node, NEW i \in 1..2,
         Vecino[n][i] # Nadie
  PROVE  LET C == Con(e, n, Vecino[n][i])
         IN  /\ Hacia(e, n, i) \subseteq C
             /\ Max(C) = Max(Hacia(e, n, i)) <=> ~(i = 1 /\ Vecino[n][1] = Vecino[n][2])
<1> DEFINE s == e.enlaces
           C == Con(e, n, Vecino[n][i])
           H(k) == Hacia(e, n, k)
           m == Max(C)
<1>1. /\ s \in Seq(Node \X (1..2)) /\ Len(s) \in Nat /\ DOMAIN s = 1..Len(s)
  BY EscenaEs
<1>2. \A k \in 1..2 : \A j \in H(k) : s[j] = <<n, k>> /\ j \in DOMAIN s
  BY HaciaEs
<1>3. \A k \in 1..2 : Vecino[n][k] # Nadie => H(k) # {}
  BY HaciaEs
<1>4. C \subseteq DOMAIN s /\ \A k \in 1..2 : H(k) \subseteq DOMAIN s
  BY <1>2 DEF Con, Hechos
<1>5. \A k \in 1..2 : Vecino[n][k] = Vecino[n][i] => H(k) \subseteq C
  <2>1. SUFFICES ASSUME NEW k \in 1..2, Vecino[n][k] = Vecino[n][i], NEW j \in H(k)
                 PROVE  j \in C
    OBVIOUS
  <2>2. s[j] = <<n, k>> /\ j \in DOMAIN s
    BY <1>2
  <2> QED
    BY <2>1, <2>2 DEF Con, Hechos, Vecinos
<1>6. \A j \in C : \E k \in 1..2 : j \in H(k) /\ Vecino[n][k] = Vecino[n][i]
  <2>1. SUFFICES ASSUME NEW j \in C
                 PROVE  \E k \in 1..2 : j \in H(k) /\ Vecino[n][k] = Vecino[n][i]
    OBVIOUS
  <2>2. j \in DOMAIN s /\ s[j][1] = n /\ Vecinos(s[j]) = Vecino[n][i]
    BY DEF Con, Hechos
  <2>3. s[j][2] \in 1..2 /\ Vecino[n][s[j][2]] = Vecino[n][i]
    BY <1>1, <2>2 DEF Vecinos
  <2>4. j \in H(s[j][2])
    BY <2>2 DEF Hacia, Hechos
  <2> QED
    BY <2>3, <2>4
<1> HIDE DEF C, H, s
<1>7. H(i) # {} /\ C # {} /\ H(i) \subseteq C
  BY <1>3, <1>5
<1>8. m \in C /\ \A j \in C : j <= m
  BY <1>1, <1>4, <1>7, Maximo
<1>9. \A k \in 1..2 : H(k) # {} => Max(H(k)) \in H(k) /\ \A j \in H(k) : j <= Max(H(k))
  BY <1>1, <1>4, Maximo
<1>10. CASE Vecino[n][1] # Vecino[n][2]
  <2>1. \A k \in 1..2 : Vecino[n][k] = Vecino[n][i] => k = i
    BY <1>10
  <2>2. C = H(i)
    BY <1>6, <1>7, <2>1
  <2> QED
    BY <1>7, <1>10, <2>2 DEF C, H
<1>11. CASE Vecino[n][1] = Vecino[n][2]
  <2>1. Vecino[n][1] = Vecino[n][i] /\ Vecino[n][2] = Vecino[n][i] /\ Vecino[n][2] # Nadie
    BY <1>11
  <2>2. H(2) # {} /\ H(2) \subseteq C
    BY <1>3, <1>5, <2>1
  <2> DEFINE M == Max(H(2))
  <2>3. M \in H(2) /\ M \in C /\ M <= m /\ \A j \in H(2) : j <= M
    BY <1>8, <1>9, <2>2
  <2> HIDE DEF M, m
  <2>4. m \notin H(1)
    <3>1. SUFFICES ASSUME m \in H(1)
                   PROVE  FALSE
      OBVIOUS
    <3>2. m \in DOMAIN s /\ s[m] = <<n, 1>> /\ M \in DOMAIN s /\ s[M] = <<n, 2>>
      BY <1>2, <2>3, <3>1
    <3>3. m < M
      BY <3>2 DEF Completas, s
    <3> QED
      BY <1>1, <2>3, <3>2, <3>3
  <2>5. m \in H(2)
    BY <1>6, <1>8, <2>4
  <2>6. m = M
    <3>1. m <= M /\ M <= m /\ m \in Nat /\ M \in Nat
      BY <1>1, <1>4, <1>8, <2>3, <2>5
    <3> QED
      BY <3>1
  <2>7. i = 1 => m # Max(H(i))
    BY <1>7, <1>9, <2>4
  <2>8. i = 2 => m = Max(H(i))
    BY <2>6 DEF M
  <2> QED
    BY <1>7, <1>11, <2>7, <2>8 DEF C, H, m
<1> QED
  BY <1>10, <1>11

LEMMA VecinosEnlazados ==
  ASSUME Completas, NEW e \in Escenas, Ele = Len(e.enlaces), NEW n \in Node
  PROVE  VecinosFirmes(Enlazados(e), n, RouterEnlazado(e, n))
<1> DEFINE k == Enlazados(e)
           r == RouterEnlazado(e, n)
           fdDe(C) == UltimoFd(e, n, C, 1)
<1>1. /\ \A i \in 1..2 : r.vecino[i] = fdDe(Hacia(e, n, i))
      /\ DOMAIN r.cliente = {y \in Node : Con(e, n, y) # {}}
      /\ \A x \in DOMAIN r.cliente : r.cliente[x] = fdDe(Con(e, n, x))
  <2>1. /\ r.vecino = [i \in 1..2 |-> fdDe(Hacia(e, n, i))]
        /\ r.cliente = [x \in {y \in Node : Con(e, n, y) # {}} |-> fdDe(Con(e, n, x))]
    BY MapasEnlazados
  <2> HIDE DEF r, fdDe
  <2> QED
    BY <2>1
<1>2. \A C : C \subseteq Hechos(e, n) /\ C # {} =>
        Max(C) \in C /\ Punta(k, n, fdDe(C)) = [con |-> Max(C), lado |-> 1]
  BY UltimoFdEs
<1>3. /\ \A x : Con(e, n, x) \subseteq Hechos(e, n)
      /\ \A i : Hacia(e, n, i) \subseteq Hechos(e, n)
  BY DEF Con, Hacia
<1>4. ASSUME NEW C, NEW D, C # {}, D # {}, C \subseteq Hechos(e, n), D \subseteq Hechos(e, n)
      PROVE  fdDe(C) = fdDe(D) <=> Max(C) = Max(D)
  <2>1. Max(C) = Max(D) => fdDe(C) = fdDe(D)
    BY <1>4 DEF UltimoFd
  <2>2. /\ Punta(k, n, fdDe(C)) = [con |-> Max(C), lado |-> 1]
        /\ Punta(k, n, fdDe(D)) = [con |-> Max(D), lado |-> 1]
    BY <1>2, <1>4
  <2> HIDE DEF fdDe, k
  <2>3. fdDe(C) = fdDe(D) => [con |-> Max(C), lado |-> 1] = [con |-> Max(D), lado |-> 1]
    BY <2>2
  <2>4. [con |-> Max(C), lado |-> 1].con = Max(C) /\ [con |-> Max(D), lado |-> 1].con = Max(D)
    OBVIOUS
  <2>5. fdDe(C) = fdDe(D) => Max(C) = Max(D)
    BY <2>3, <2>4
  <2> QED
    BY <2>1, <2>5
<1> HIDE DEF r
<1>5. ASSUME NEW i \in 1..2, Vecino[n][i] = Nadie
      PROVE  r.vecino[i] = SOCK_ERRONEO
  <2>1. Hacia(e, n, i) = {}
    BY <1>5, HaciaEs
  <2>2. fdDe(Hacia(e, n, i)) = SOCK_ERRONEO
    BY <2>1 DEF UltimoFd
  <2> QED
    BY <1>1, <2>2
<1>6. ASSUME NEW i \in 1..2, Vecino[n][i] # Nadie
      PROVE  /\ Vecinal(k, n, r.vecino[i], Vecino[n][i])
             /\ Nombres(r.cliente, r.vecino[i]) =
                  IF i = 1 /\ Vecino[n][1] = Vecino[n][2] THEN {} ELSE {Vecino[n][i]}
  <2> DEFINE H == Hacia(e, n, i)
             V == Vecino[n][i]
  <2>1. H # {} /\ H \subseteq Hechos(e, n) /\ V \in Node
    BY <1>3, <1>6, HaciaEs, ConexionesAssumption
  <2>2. Max(H) \in H
    BY <1>2, <2>1
  <2>3. Vecinos(e.enlaces[Max(H)]) = V
    <3>1. e.enlaces[Max(H)] = <<n, i>>
      BY <2>2, HaciaEs
    <3> QED
      BY <3>1 DEF Vecinos
  <2>4. Vecinal(k, n, fdDe(H), V)
    <3> HIDE DEF H, V
    <3> QED
      BY <2>1, <2>3, UltimoVecinal
  <2>5. /\ Con(e, n, V) # {}
        /\ Max(Con(e, n, V)) = Max(H) <=> ~(i = 1 /\ Vecino[n][1] = Vecino[n][2])
    BY <1>6, <2>1, ConEs
  <2> HIDE DEF H, fdDe
  <2>6. ASSUME NEW x
        PROVE  x \in Nombres(r.cliente, r.vecino[i]) <=>
                 x = V /\ Max(Con(e, n, V)) = Max(H)
    <3>1. r.vecino[i] = fdDe(H)
      BY <1>1 DEF H
    <3>2. x \in Nombres(r.cliente, r.vecino[i]) <=>
            x \in Node /\ Con(e, n, x) # {} /\ fdDe(Con(e, n, x)) = fdDe(H)
      BY <1>1, <3>1 DEF Nombres
    <3>3. x \in Node /\ Con(e, n, x) # {} =>
            (fdDe(Con(e, n, x)) = fdDe(H) <=> Max(Con(e, n, x)) = Max(H))
      BY <1>3, <1>4, <2>1
    <3>4. Con(e, n, x) # {} /\ Max(Con(e, n, x)) = Max(H) => x = V
      <4>1. SUFFICES ASSUME Con(e, n, x) # {}, Max(Con(e, n, x)) = Max(H)
                     PROVE  x = V
        OBVIOUS
      <4>2. Max(H) \in Con(e, n, x)
        BY <1>2, <1>3, <4>1
      <4> QED
        BY <2>3, <4>2 DEF Con
    <3> QED
      BY <2>1, <2>5, <3>2, <3>3, <3>4
  <2>7. Nombres(r.cliente, r.vecino[i]) =
          IF i = 1 /\ Vecino[n][1] = Vecino[n][2] THEN {} ELSE {V}
    <3> DEFINE S == Nombres(r.cliente, r.vecino[i])
               mismo == i = 1 /\ Vecino[n][1] = Vecino[n][2]
    <3>1. \A x : x \in S <=> x = V /\ ~mismo
      BY <2>5, <2>6
    <3> HIDE DEF S, mismo, V
    <3>2. S = IF mismo THEN {} ELSE {V}
      BY <3>1
    <3> QED
      BY <3>2 DEF S, mismo
  <2> QED
    BY <1>1, <2>4, <2>7 DEF H
<1> QED
  BY <1>5, <1>6 DEF VecinosFirmes, r

LEMMA ServidorEnlazado ==
  ASSUME Completas, NEW e \in Escenas, Ele = Len(e.enlaces), NEW n \in Node
  PROVE  ServidorFirme(Enlazados(e), n, RouterEnlazado(e, n))
<1> DEFINE k == Enlazados(e)
           r == RouterEnlazado(e, n)
           s == e.enlaces
           fdDe(C) == UltimoFd(e, n, C, 2)
<1>1. /\ DOMAIN r.servidor = {y \in Node : Desde(e, n, y) # {}}
      /\ \A x \in DOMAIN r.servidor : r.servidor[x] = fdDe(Desde(e, n, x))
  <2>1. r.servidor = [x \in {y \in Node : Desde(e, n, y) # {}} |-> fdDe(Desde(e, n, x))]
    BY MapasEnlazados
  <2> HIDE DEF r, fdDe
  <2> QED
    BY <2>1
<1>2. /\ s \in Seq(Node \X (1..2))
      /\ \A j \in DOMAIN s : Vecinos(s[j]) \in Node
  BY EscenaEs
<1> HIDE DEF r
<1>3. ASSUME NEW x \in Node, n \in {Vecino[x][1], Vecino[x][2]}
      PROVE  x \in DOMAIN r.servidor
  <2>1. PICK i \in 1..2 : Vecino[x][i] = n
    BY <1>3
  <2>2. Vecino[x][i] # Nadie
    BY <2>1, MensajesAssumption
  <2>3. PICK j \in DOMAIN s : s[j] = <<x, i>>
    BY <2>2 DEF Completas
  <2>4. j \in Desde(e, n, x)
    BY <2>1, <2>3 DEF Desde, Aceptados, Vecinos
  <2> QED
    BY <1>1, <2>4
<1>4. ASSUME NEW x \in DOMAIN r.servidor
      PROVE  /\ n \in {Vecino[x][1], Vecino[x][2]} /\ Vecinal(k, n, r.servidor[x], x)
  <2> DEFINE C == Desde(e, n, x)
  <2>1. C # {} /\ C \subseteq Aceptados(e, n) /\ x \in Node
    BY <1>1, <1>4 DEF Desde
  <2>2. \A j \in C : j \in DOMAIN s /\ Vecinos(s[j]) = n /\ s[j][1] = x
    BY DEF Desde, Aceptados
  <2>3. Max(C) \in C
    <3> HIDE DEF C
    <3> QED
      BY <2>1, UltimoFdEs
  <2>4. Vecinal(k, n, fdDe(C), s[Max(C)][1])
    <3> HIDE DEF C
    <3> QED
      BY <2>1, UltimoVecinal
  <2> HIDE DEF C, k, fdDe
  <2>5. Vecinal(k, n, fdDe(C), x)
    BY <2>2, <2>3, <2>4
  <2>6. n \in {Vecino[x][1], Vecino[x][2]}
    <3>1. PICK j \in DOMAIN s : Vecinos(s[j]) = n /\ s[j][1] = x
      BY <2>2, <2>3
    <3>2. s[j][2] = 1 \/ s[j][2] = 2
      BY <1>2
    <3> QED
      BY <3>1, <3>2 DEF Vecinos
  <2> QED
    BY <1>1, <2>5, <2>6 DEF C
<1>5. DOMAIN r.servidor \subseteq Node
  BY <1>1
<1> HIDE DEF k
<1> QED
  BY <1>3, <1>4, <1>5 DEF ServidorFirme, r, k

LEMMA RouterEnlazadoFirme ==
  ASSUME Completas, NEW e \in Escenas, Ele = Len(e.enlaces), NEW n \in Node
  PROVE  MapasFirmes(Enlazados(e), n, RouterEnlazado(e, n))
  BY VecinosEnlazados, ServidorEnlazado DEF MapasFirmes

(* Nothing has been sent.                                                  *)
LEMMA RedEnlazada ==
  ASSUME NEW e \in Escenas, Ele = Len(e.enlaces)
  PROVE  /\ RedFirme(Enlazados(e)) /\ ElRed(Enlazados(e)) = EmptyBag
         /\ \A n \in Node : 0 \notin Abiertos(Enlazados(e), n)
<1> DEFINE k == Enlazados(e)
<1>1. Ele \in Nat /\ Enlazada(k, e, Ele)
  BY EscenaEs, EnlazadosOK
<1> HIDE DEF k
<1>2. /\ SocketsOK(k) /\ Len(k.con) = Ele /\ k.perdidos = EmptyBag
      /\ \A j \in 1..Ele : EnlaceHecho(k.con[j], e.enlaces[j])
      /\ \A n \in Node : \A fd \in Abiertos(k, n) : fd >= 3
  BY <1>1 DEF Enlazada
<1>3. DOMAIN k.con = 1..Ele
  BY <1>2 DEF SocketsOK, EsSeq
<1>4. \A j \in DOMAIN k.con : /\ k.con[j].ve = Vivos /\ ~k.con[j].nueva
                              /\ k.con[j].buf[1] = <<>> /\ k.con[j].buf[2] = <<>>
  BY <1>2, <1>3 DEF EnlaceHecho, Vivos
<1>5. Letras(k) = {}
  <2>1. \A c \in DOMAIN k.con, l \in 1..2 :
           {<<c, l, i>> : i \in {j \in DOMAIN k.con[c].buf[l] :
                                   k.con[c].buf[l][j].que = "mensaje"}} = {}
    <3>1. ASSUME NEW c \in DOMAIN k.con, NEW l \in 1..2
          PROVE  DOMAIN k.con[c].buf[l] = {}
      <4>1. k.con[c].buf[l] = <<>>
        BY <1>4
      <4> QED
        BY <4>1, SeqCortas
    <3> QED
      BY <3>1
  <2> QED
    BY <2>1 DEF Letras
<1>6. \A p : EnSobres(k, p) = {}
  BY <1>5 DEF EnSobres
<1>7. LetrasBien(k)
  <2>1. IsFiniteSet(1..0) /\ 1..0 = {}
    BY Intervalo
  <2> QED
    BY <1>2, <1>6, <2>1, BolsaVacia DEF LetrasBien
<1>8. EnBuzones(k) = EmptyBag
  <2>1. {Sobre(k, x) : x \in Letras(k)} = {}
    BY <1>5
  <2> QED
    BY <2>1 DEF EnBuzones, EmptyBag, SetToBag
<1>9. ElRed(k) = EmptyBag
  BY <1>2, <1>8, BolsaVacia DEF ElRed
<1>10. RedFirme(k)
  BY <1>3, <1>4, <1>7 DEF RedFirme
<1>11. \A n \in Node : 0 \notin Abiertos(k, n)
  <2>1. ~(0 >= 3)
    OBVIOUS
  <2> QED
    BY <1>2, <2>1, Zenon
<1> QED
  BY <1>9, <1>10, <1>11 DEF k

LEMMA InitCumple ==
  ASSUME Completas, TodosViven, Init
  PROVE  Firme /\ B!Init
<1>1. LogicInit
  BY DEF Init
<1>2. PICK e \in Escenas :
       /\ tcp = Enlazados(e)
       /\ router = [n \in Node |->
                      IF n \in e.frios THEN RouterNuevo ELSE RouterEnlazado(e, n)]
       /\ listener = [n \in Node |->
                        IF n \in e.frios THEN ListenerNuevo ELSE ListenerEnlazado(e, n)]
       /\ vivo = [n \in Node |-> n \notin e.frios]
       /\ cuenta = [escena |-> e, pedidos |-> [n \in Node |-> 0], ordenes |-> 0,
                    reconexiones |-> 0, salidas |-> 0,
                    arranques |-> [n \in Node |-> 0]]
  BY DEF Init
<1>3. Ele = Len(e.enlaces) /\ cuenta.ordenes = 0
  BY <1>2 DEF Ele
<1>4. \A n \in Node : n \notin e.frios
  <2>1. \A n \in Node : vivo[n] = (n \notin e.frios)
    BY <1>2, Zenon
  <2> QED
    BY <2>1, Zenon DEF TodosViven
<1>5. \A n \in Node : router[n] = RouterEnlazado(e, n) /\ listener[n] = ListenerEnlazado(e, n)
  BY <1>2, <1>4
<1>6. /\ RedFirme(tcp) /\ ElRed(tcp) = EmptyBag
      /\ \A n \in Node : 0 \notin Abiertos(tcp, n)
  BY <1>2, <1>3, RedEnlazada
<1>7. /\ logicEvents = [n \in Node |-> <<>>] /\ routerEvents = [n \in Node |-> <<>>]
      /\ \A n \in Node : routerEvents[n] = <<>>
  BY <1>1 DEF LogicInit
<1>8. ASSUME NEW n \in Node
      PROVE  NodoFirme(n)
  <2>1. MapasFirmes(tcp, n, router[n])
    BY <1>2, <1>3, <1>5, RouterEnlazadoFirme
  <2>2. router[n].paso = "libre" /\ listener[n].paso = "libre"
    BY <1>5, RouterEnlazadoEs, ListenerEnlazadoEs
  <2>3. AvisosFirmes(Directos(tcp, Ele, n), routerEvents[n])
    BY <1>7, SeqCortas DEF AvisosFirmes
  <2> QED
    BY <1>6, <2>1, <2>2, <2>3 DEF NodoFirme, CursoFirme, Entrando, ListenerFirme
<1>9. Firme
  BY <1>6, <1>8 DEF Firme
<1>10. DeLogic = [n \in Node |-> <<>>]
  <2>1. SinAvisos(<<>>) = <<>>
    BY SeqCortas, SinAvisosAppend
  <2> QED
    BY <1>7, <2>1 DEF DeLogic
<1>11. B!LogicInit
  BY <1>1, <1>10 DEF LogicInit, B!LogicInit
<1>12. EnRed = B!EmptyBag
  <2>1. EnRed = ElRed(tcp)
    BY DEF EnRed, ElRed
  <2> QED
    BY <1>6, <2>1 DEF EmptyBag, SetToBag, B!EmptyBag, B!SetToBag
<1> QED
  BY <1>3, <1>9, <1>11, <1>12 DEF B!Init

-----------------------------------------------------------------------------
(* While no node ends, the threads, their queues and the sockets do to the *)
(* messages what module Bazar allows: every broadcast, answer and purchase *)
(* goes over the connection that Bazar says, each message is delivered at  *)
(* most once, to the node it was sent to, or lost, and the Router handles  *)
(* what Logic posts in the order in which it was posted (router.cpp,       *)
(* listener.cpp, socket_util.cpp), for any number of nodes, where every    *)
(* neighbour is connected at start, no buyer sells what one looks for and  *)
(* no connection is tried again.                                           *)
THEOREM ConexionesCumpleBazar ==
  ASSUME SinMezcla, SinVueltas, Completas
  PROVE  Spec /\ []TodosViven => CumpleBazar
<1> DEFINE I == Tipos /\ Apagados /\ Negocios /\ Firme
<1>1. Init /\ TodosViven => I /\ B!Init
  BY TiposInit, NegociosInit, InitCumple
<1>2. I /\ TodosViven /\ TodosViven' /\ [Next]_vars => I' /\ PasoDeBazar
  <2>1. SUFFICES ASSUME I, TodosViven, TodosViven', [Next]_vars
                 PROVE  I' /\ PasoDeBazar
    OBVIOUS
  <2>2. Tipos' /\ Apagados' /\ Negocios'
    BY <2>1, TiposNext, ApagadosNext, NegociosNext
  <2>3. Firme' /\ PasoDeBazar
    BY <2>1, <2>2, PasoCumple
  <2> QED
    BY <2>2, <2>3
<1>3. PasoDeBazar => [B!Next]_B!vars
  BY DEF PasoDeBazar
<1> HIDE DEF I
<1> QED
  BY <1>1, <1>2, <1>3, PTL DEF Spec, CumpleBazar, B!Spec
=============================================================================
