--------------------------- MODULE ConexionesBazar ---------------------------
(***************************************************************************)
(* What Conexiones promises where nobody sells what a buyer looks for and  *)
(* buys too, and no node is started again: the connections that are made   *)
(* after those of the scene are direct connections, all of a buyer with a  *)
(* seller.                                                                 *)
(***************************************************************************)
EXTENDS ConexionesProofs

-----------------------------------------------------------------------------
(* What the queues and the sockets hold, where the messages are of the     *)
(* purchases S, the nodes that run are those of V, and the scene had L     *)
(* connections.                                                            *)

Buscados == {Config[x].compra : x \in Compradores}

(* A message follows from a LOOKUP of a buyer, and names a seller that     *)
(* does not buy; with the seller, or with the buyer, where its code says.  *)
MensajeBien(S, m) ==
  /\ m \in Mensaje /\ m.ts \in S
  /\ m.code = "LOOKUP" => m.producto \in Buscados
  /\ m.code \in {"LOOKUP", "REPLY"} => m.nodos # <<>> /\ m.nodos[1] \in Compradores
  /\ m.code \in {"REPLY", "BUY"} => m.vendedor \in Node \ Compradores

MensajeEn(S, n, m) ==
  /\ MensajeBien(S, m)
  /\ m.code = "BUY" => n \notin Compradores
  /\ m.code \in {"BUY_OK", "BUY_ERR"} => n \in Compradores

DatoBien(S, n, d) ==
  \/ d = P2P_CONNECT
  \/ \E x : d = SuNombre(x)
  \/ \E m : d = Carta(m) /\ MensajeEn(S, n, m)

(* End l of connection r: nothing is sent to one that is closed, and the   *)
(* process of one that is not, runs.                                       *)
LadoBien(S, V, r, l) ==
  /\ EsSeq(r.buf[l])
  /\ \A i \in DOMAIN r.buf[l] : DatoBien(S, r.nodo[l], r.buf[l][i])
  /\ r.ve[l] = "cerrado" => r.buf[l] = <<>> /\ r.ve[3 - l] # "vivo"
  /\ r.ve[l] # "cerrado" => V[r.nodo[l]]

(* Only the connections of the scene do not go from a buyer to a seller.   *)
ConexionBien(S, V, L, j, r) ==
  /\ ConexionOK(r) /\ r.nodo \in [1..2 -> Node] /\ r.nueva \in BOOLEAN
  /\ r.buf = [l \in 1..2 |-> r.buf[l]]
  /\ r.nueva => j > L
  /\ j > L => r.nodo[1] \in Compradores /\ r.nodo[2] \notin Compradores
  /\ LadoBien(S, V, r, 1) /\ LadoBien(S, V, r, 2)

PuntaBien(k, n, e) ==
  \/ e = PUERTO
  \/ /\ e.con \in DOMAIN k.con /\ e.lado \in 1..2
     /\ k.con[e.con].nodo[e.lado] = n
     /\ e.lado = 2 => k.con[e.con].nueva = FALSE

RedBien(S, V, L, k) ==
  /\ SocketsOK(k) /\ L \in Nat /\ L <= Len(k.con)
  /\ \A j \in DOMAIN k.con : ConexionBien(S, V, L, j, k.con[j])
  /\ \A n \in Node : \A fd \in Abiertos(k, n) : PuntaBien(k, n, Punta(k, n, fd))

(* What a step of node n may do to the sockets: k become h.  Its own       *)
(* descriptors close, or are of new connections; a connection keeps its    *)
(* nodes, and what came first to its second end until it is read there.    *)
Sigue(k, h, L, n) ==
  /\ DOMAIN k.con \subseteq DOMAIN h.con
  /\ \A m \in Node : m # n => h.fds[m] = k.fds[m]
  /\ \A fd \in Abiertos(h, n) :
       \/ fd \in Abiertos(k, n) /\ Punta(h, n, fd) = Punta(k, n, fd)
       \/ Punta(h, n, fd).con > L
  /\ \A j \in DOMAIN k.con :
       /\ h.con[j].nodo = k.con[j].nodo
       /\ h.con[j].nueva => k.con[j].nueva
       /\ k.con[j].nueva /\ k.con[j].nodo[2] # n => h.con[j].nueva
       /\ k.con[j].buf[2] # <<>> /\ (h.con[j].nueva \/ k.con[j].nodo[2] # n)
            => h.con[j].buf[2] # <<>> /\ h.con[j].buf[2][1] = k.con[j].buf[2][1]

(* And where it goes on: the port stays open, and so do both ends of the   *)
(* connections of the scene.                                               *)
Vivos == <<"vivo", "vivo">>

PuertoQueda(k, h, n) ==
  \A fd \in Abiertos(k, n) : Punta(k, n, fd) = PUERTO =>
    fd \in Abiertos(h, n) /\ Punta(h, n, fd) = PUERTO

Queda(k, h, L, n) ==
  /\ PuertoQueda(k, h, n)
  /\ \A j \in DOMAIN k.con : j <= L /\ k.con[j].ve = Vivos => h.con[j].ve = Vivos

(* Nor does it accept anybody.                                             *)
Quieta(k, h) == \A j \in DOMAIN k.con : k.con[j].nueva => h.con[j].nueva

(* Nor does it read at the second end of a connection.                     *)
SinLeerse(k, h) ==
  \A j \in DOMAIN k.con : k.con[j].buf[2] # <<>> =>
    h.con[j].buf[2] # <<>> /\ h.con[j].buf[2][1] = k.con[j].buf[2][1]

-----------------------------------------------------------------------------
LEMMA SigueTras ==
  ASSUME NEW k, NEW h, NEW g, NEW L, NEW n, NEW V, NEW S,
         RedBien(S, V, L, h), Sigue(k, h, L, n), Sigue(h, g, L, n)
  PROVE  Sigue(k, g, L, n)
<1>1. DOMAIN k.con \subseteq DOMAIN g.con
  BY DEF Sigue
<1>2. \A m \in Node : m # n => g.fds[m] = k.fds[m]
  BY DEF Sigue
<1>3. \A fd \in Abiertos(g, n) :
        \/ fd \in Abiertos(k, n) /\ Punta(g, n, fd) = Punta(k, n, fd)
        \/ Punta(g, n, fd).con > L
  BY DEF Sigue
<1>4. ASSUME NEW j \in DOMAIN k.con
      PROVE  /\ g.con[j].nodo = k.con[j].nodo
             /\ g.con[j].nueva => k.con[j].nueva
             /\ k.con[j].nueva /\ k.con[j].nodo[2] # n => g.con[j].nueva
             /\ k.con[j].buf[2] # <<>> /\ (g.con[j].nueva \/ k.con[j].nodo[2] # n)
                 => g.con[j].buf[2] # <<>> /\ g.con[j].buf[2][1] = k.con[j].buf[2][1]
  <2>1. j \in DOMAIN h.con
    BY DEF Sigue
  <2> QED
    BY <2>1 DEF Sigue
<1> QED
  BY <1>1, <1>2, <1>3, <1>4 DEF Sigue

LEMMA QuedaTras ==
  ASSUME NEW k, NEW h, NEW g, NEW L, NEW n,
         DOMAIN k.con \subseteq DOMAIN h.con
  PROVE  /\ Queda(k, h, L, n) /\ Queda(h, g, L, n) => Queda(k, g, L, n)
         /\ Quieta(k, h) /\ Quieta(h, g) => Quieta(k, g)
<1>1. ASSUME Queda(k, h, L, n), Queda(h, g, L, n)
      PROVE  Queda(k, g, L, n)
  BY <1>1 DEF Queda, PuertoQueda
<1>2. ASSUME Quieta(k, h), Quieta(h, g)
      PROVE  Quieta(k, g)
  BY <1>2 DEF Quieta
<1> QED
  BY <1>1, <1>2

LEMMA SigueIgual ==
  ASSUME NEW k, NEW L, NEW n
  PROVE  Sigue(k, k, L, n) /\ Queda(k, k, L, n) /\ Quieta(k, k)
  BY DEF Sigue, Queda, PuertoQueda, Quieta

(* One connection changes, and descriptors may close.                      *)
LEMMA UnaBien ==
  ASSUME NEW S, NEW V, NEW L, NEW k, RedBien(S, V, L, k), NEW h, SocketsOK(h),
         NEW j \in DOMAIN k.con, NEW r, h.con = [k.con EXCEPT ![j] = r],
         NEW n \in Node, \A m \in Node : m # n => h.fds[m] = k.fds[m],
         \A fd \in Abiertos(h, n) :
           fd \in Abiertos(k, n) /\ Punta(h, n, fd) = Punta(k, n, fd),
         ConexionBien(S, V, L, j, r), r.nodo = k.con[j].nodo,
         r.nueva => k.con[j].nueva,
         k.con[j].nueva /\ k.con[j].nodo[2] # n => r.nueva,
         k.con[j].buf[2] # <<>> /\ (r.nueva \/ k.con[j].nodo[2] # n)
           => r.buf[2] # <<>> /\ r.buf[2][1] = k.con[j].buf[2][1]
  PROVE  RedBien(S, V, L, h) /\ Sigue(k, h, L, n)
<1>1. /\ DOMAIN h.con = DOMAIN k.con
      /\ \A c \in DOMAIN k.con : h.con[c] = IF c = j THEN r ELSE k.con[c]
  OBVIOUS
<1>2. Len(h.con) = Len(k.con)
  <2>1. EsSeq(k.con) /\ EsSeq(h.con)
    BY DEF RedBien, SocketsOK
  <2>2. /\ Len(k.con) \in Nat /\ DOMAIN k.con = 1..Len(k.con)
        /\ Len(h.con) \in Nat /\ DOMAIN h.con = 1..Len(h.con)
    BY <2>1, SeqAppend
  <2> QED
    BY <1>1, <2>2
<1>3. \A c \in DOMAIN h.con : ConexionBien(S, V, L, c, h.con[c])
  BY <1>1 DEF RedBien
<1>4. ASSUME NEW m \in Node, NEW fd \in Abiertos(h, m)
      PROVE  PuntaBien(h, m, Punta(h, m, fd))
  <2>1. fd \in Abiertos(k, m) /\ Punta(h, m, fd) = Punta(k, m, fd)
    BY DEF Abiertos, Punta
  <2>2. PuntaBien(k, m, Punta(k, m, fd))
    BY <2>1 DEF RedBien
  <2>3. \A c \in DOMAIN k.con : /\ h.con[c].nodo = k.con[c].nodo
                               /\ h.con[c].nueva => k.con[c].nueva
                               /\ h.con[c].nueva \in BOOLEAN
    BY <1>1, <1>3 DEF ConexionBien
  <2> QED
    BY <1>1, <2>1, <2>2, <2>3 DEF PuntaBien
<1>5. RedBien(S, V, L, h)
  BY <1>2, <1>3, <1>4 DEF RedBien
<1>6. Sigue(k, h, L, n)
  BY <1>1 DEF Sigue
<1> QED
  BY <1>5, <1>6

LEMMA NadieEnPuerto == PUERTO.con = 0 /\ PUERTO.lado = 0
  BY DEF PUERTO

(* The calls of module Sockets.                                            *)
LEMMA ConectaBien ==
  ASSUME NEW S, NEW V, NEW L, NEW k, RedBien(S, V, L, k),
         NEW n \in Node, n \in Compradores, NEW m \in Node \ Compradores, V[n], V[m],
         NEW h, h = Conecta(k, n, m), NEW fd, fd = Libre(k, n)
  PROVE  /\ RedBien(S, V, L, h) /\ Sigue(k, h, L, n) /\ Queda(k, h, L, n)
         /\ Quieta(k, h)
         /\ fd \in Abiertos(h, n)
         /\ Punta(h, n, fd) = [con |-> Len(k.con) + 1, lado |-> 1]
         /\ Len(k.con) + 1 \in DOMAIN h.con /\ Len(k.con) + 1 > L
         /\ LET c == h.con[Len(k.con) + 1]
            IN  c.nodo = <<n, m>> /\ c.ve = Vivos /\ c.buf = <<<<>>, <<>>>> /\ c.nueva
         /\ \A c \in DOMAIN h.con : c # Len(k.con) + 1 =>
              c \in DOMAIN k.con /\ h.con[c] = k.con[c]
         /\ h.perdidos = k.perdidos
<1> DEFINE j == Len(k.con) + 1
           p == [con |-> j, lado |-> 1]
           r == [nodo |-> <<n, m>>, buf |-> <<<<>>, <<>>>>,
                 ve |-> <<"vivo", "vivo">>, nueva |-> TRUE, rst |-> FALSE]
<1>1. /\ SocketsOK(k) /\ SocketsOK(h) /\ L \in Nat /\ L <= Len(k.con)
      /\ EsSeq(k.con)
  BY SocketsConecta DEF RedBien, SocketsOK
<1>2. /\ h.fds = [k.fds EXCEPT ![n] = Abre(@, fd, p)]
      /\ h.con = Append(k.con, r) /\ h.perdidos = k.perdidos
  BY <1>1 DEF Conecta, SocketsOK
<1>3. /\ r.nodo = <<n, m>> /\ r.ve = Vivos /\ r.buf = <<<<>>, <<>>>>
      /\ r.nueva = TRUE /\ ConexionOK(r)
  BY DEF ConexionOK, Vivos, Estado
<1> HIDE DEF r
<1>4. /\ Len(k.con) \in Nat /\ DOMAIN k.con = 1..Len(k.con)
      /\ Len(h.con) = j /\ DOMAIN h.con = 1..j
      /\ \A c \in DOMAIN k.con : h.con[c] = k.con[c]
      /\ h.con[j] = r
  BY <1>1, <1>2, SeqAppend
<1>5. /\ j \in DOMAIN h.con /\ j > L /\ DOMAIN k.con \subseteq DOMAIN h.con
      /\ \A c \in DOMAIN h.con : c # j => c \in DOMAIN k.con
  BY <1>1, <1>4
<1>6. /\ \A x \in Node : \A y \in Abiertos(k, x) :
           y \in Abiertos(h, x) /\ Punta(h, x, y) = Punta(k, x, y)
      /\ \A x \in Node : \A y \in Abiertos(h, x) :
           \/ y \in Abiertos(k, x)
           \/ x = n /\ Punta(h, x, y) = p
      /\ fd \in Abiertos(h, n) /\ Punta(h, n, fd) = p
      /\ \A x \in Node : x # n => h.fds[x] = k.fds[x]
  <2>1. h.fds[n] = Abre(k.fds[n], fd, p) /\ \A x \in Node : x # n => h.fds[x] = k.fds[x]
    BY <1>1, <1>2 DEF SocketsOK
  <2>2. fd \notin Abiertos(k, n)
    BY <1>1, LibreEs DEF SocketsOK
  <2>3. fd \in Abiertos(h, n) /\ Punta(h, n, fd) = p
    BY <2>1 DEF Abre, Abiertos, Punta
  <2>4. \A y \in Abiertos(h, n) : y # fd => y \in Abiertos(k, n) /\ Punta(h, n, y) = Punta(k, n, y)
    BY <2>1 DEF Abre, Abiertos, Punta
  <2>5. \A y \in Abiertos(k, n) : y # fd => y \in Abiertos(h, n) /\ Punta(h, n, y) = Punta(k, n, y)
    BY <2>1 DEF Abre, Abiertos, Punta
  <2> HIDE DEF p
  <2> QED
    BY <2>1, <2>2, <2>3, <2>4, <2>5 DEF Abiertos, Punta
<1>7. p.con = j /\ p.lado = 1
  OBVIOUS
<1>8. ConexionBien(S, V, L, j, r)
  <2>1. /\ r.nodo \in [1..2 -> Node] /\ r.nodo[1] = n /\ r.nodo[2] = m
        /\ r.buf = [l \in 1..2 |-> r.buf[l]] /\ r.buf[1] = <<>> /\ r.buf[2] = <<>>
        /\ r.ve[1] = "vivo" /\ r.ve[2] = "vivo"
    BY <1>3 DEF Vivos
  <2>2. EsSeq(<<>>) /\ DOMAIN <<>> = {}
    BY SeqCortas
  <2> QED
    BY <1>3, <1>5, <2>1, <2>2 DEF ConexionBien, LadoBien
<1>9. \A c \in DOMAIN h.con : ConexionBien(S, V, L, c, h.con[c])
  BY <1>4, <1>5, <1>8 DEF RedBien
<1>10. ASSUME NEW x \in Node, NEW y \in Abiertos(h, x)
       PROVE  PuntaBien(h, x, Punta(h, x, y))
  <2>1. CASE y \in Abiertos(k, x)
    <3>1. PuntaBien(k, x, Punta(k, x, y)) /\ Punta(h, x, y) = Punta(k, x, y)
      BY <1>6, <2>1 DEF RedBien
    <3> QED
      BY <1>4, <1>5, <3>1 DEF PuntaBien
  <2>2. CASE x = n /\ Punta(h, x, y) = p
    <3>1. h.con[j].nodo[1] = n
      BY <1>3, <1>4
    <3> HIDE DEF p
    <3> QED
      BY <1>5, <1>7, <2>2, <3>1 DEF PuntaBien
  <2> QED
    BY <1>6, <2>1, <2>2
<1>11. RedBien(S, V, L, h)
  BY <1>1, <1>4, <1>9, <1>10 DEF RedBien
<1> HIDE DEF p
<1>12. Sigue(k, h, L, n)
  BY <1>4, <1>5, <1>6, <1>7 DEF Sigue
<1>13. Queda(k, h, L, n) /\ Quieta(k, h)
  BY <1>4, <1>6 DEF Queda, PuertoQueda, Quieta
<1> QED
  BY <1>2, <1>3, <1>4, <1>5, <1>6, <1>11, <1>12, <1>13 DEF p

LEMMA AceptaBien ==
  ASSUME NEW S, NEW V, NEW L, NEW k, RedBien(S, V, L, k), NEW n \in Node,
         Cola(k, n) # {}, NEW h, h = Acepta(k, n), NEW fd, fd = Libre(k, n)
  PROVE  /\ RedBien(S, V, L, h) /\ Sigue(k, h, L, n) /\ Queda(k, h, L, n)
         /\ n \notin Compradores
         /\ fd \in Abiertos(h, n) /\ h.perdidos = k.perdidos
         /\ \E c \in DOMAIN k.con :
              /\ k.con[c].nueva /\ k.con[c].nodo[2] = n /\ c > L
              /\ Punta(h, n, fd) = [con |-> c, lado |-> 2]
<1> DEFINE c == Min(Cola(k, n))
           p == [con |-> c, lado |-> 2]
           r == [k.con[c] EXCEPT !.nueva = FALSE]
<1>1. /\ SocketsOK(k) /\ SocketsOK(h) /\ L \in Nat /\ L <= Len(k.con)
      /\ EsSeq(k.con) /\ EsSeq(h.con)
  BY SocketsAcepta DEF RedBien, SocketsOK
<1>2. c \in DOMAIN k.con /\ k.con[c].nueva /\ k.con[c].nodo[2] = n
  <2>1. Cola(k, n) \in SUBSET Nat
    <3>1. DOMAIN k.con \subseteq Nat
      BY <1>1, SeqAppend
    <3> QED
      BY <3>1 DEF Cola
  <2>2. c \in Cola(k, n)
    <3> HIDE DEF c
    <3> QED
      BY <2>1, Minimo DEF c
  <2> QED
    BY <2>2 DEF Cola
<1> HIDE DEF c
<1>3. ConexionBien(S, V, L, c, k.con[c]) /\ c > L /\ n \notin Compradores
  BY <1>2 DEF RedBien, ConexionBien
<1>4. /\ h.fds = [k.fds EXCEPT ![n] = Abre(@, fd, p)]
      /\ h.con = [k.con EXCEPT ![c] = r] /\ h.perdidos = k.perdidos
      /\ h.con = [k.con EXCEPT ![c].nueva = FALSE]
  BY <1>1 DEF Acepta, SocketsOK, c
<1>5. /\ r.nueva = FALSE /\ r.nodo = k.con[c].nodo /\ r.buf = k.con[c].buf
      /\ r.ve = k.con[c].ve /\ ConexionOK(r)
  <2>1. ConexionOK(k.con[c])
    BY <1>3 DEF ConexionBien
  <2>2. ConexionOK(r)
    BY <2>1, ConexionCambia
  <2> QED
    BY <2>1, <2>2 DEF ConexionOK
<1>6. ConexionBien(S, V, L, c, r)
  <2>1. \A l : LadoBien(S, V, k.con[c], l) => LadoBien(S, V, r, l)
    BY <1>5 DEF LadoBien
  <2> HIDE DEF r
  <2> QED
    BY <1>3, <1>5, <2>1 DEF ConexionBien
<1> HIDE DEF r
<1>7. /\ DOMAIN h.con = DOMAIN k.con /\ Len(h.con) = Len(k.con)
      /\ \A j \in DOMAIN k.con : h.con[j] = IF j = c THEN r ELSE k.con[j]
  <2>1. /\ DOMAIN h.con = DOMAIN k.con
        /\ \A j \in DOMAIN k.con : h.con[j] = IF j = c THEN r ELSE k.con[j]
    BY <1>4
  <2>2. /\ Len(k.con) \in Nat /\ DOMAIN k.con = 1..Len(k.con)
        /\ Len(h.con) \in Nat /\ DOMAIN h.con = 1..Len(h.con)
    BY <1>1, SeqAppend
  <2> QED
    BY <2>1, <2>2
<1>8. /\ \A x \in Node : \A y \in Abiertos(k, x) :
           y \in Abiertos(h, x) /\ Punta(h, x, y) = Punta(k, x, y)
      /\ \A x \in Node : \A y \in Abiertos(h, x) :
           \/ y \in Abiertos(k, x)
           \/ x = n /\ Punta(h, x, y) = p
      /\ fd \in Abiertos(h, n) /\ Punta(h, n, fd) = p
      /\ \A x \in Node : x # n => h.fds[x] = k.fds[x]
  <2>1. h.fds[n] = Abre(k.fds[n], fd, p) /\ \A x \in Node : x # n => h.fds[x] = k.fds[x]
    BY <1>1, <1>4 DEF SocketsOK
  <2>2. fd \notin Abiertos(k, n)
    BY <1>1, LibreEs DEF SocketsOK
  <2>3. fd \in Abiertos(h, n) /\ Punta(h, n, fd) = p
    BY <2>1 DEF Abre, Abiertos, Punta
  <2>4. \A y \in Abiertos(h, n) : y # fd => y \in Abiertos(k, n) /\ Punta(h, n, y) = Punta(k, n, y)
    BY <2>1 DEF Abre, Abiertos, Punta
  <2>5. \A y \in Abiertos(k, n) : y # fd => y \in Abiertos(h, n) /\ Punta(h, n, y) = Punta(k, n, y)
    BY <2>1 DEF Abre, Abiertos, Punta
  <2> HIDE DEF p
  <2> QED
    BY <2>1, <2>2, <2>3, <2>4, <2>5 DEF Abiertos, Punta
<1>9. p.con = c /\ p.lado = 2
  OBVIOUS
<1> HIDE DEF p
<1>10. ASSUME NEW x \in Node, NEW y \in Abiertos(h, x)
       PROVE  PuntaBien(h, x, Punta(h, x, y))
  <2>1. CASE y \in Abiertos(k, x)
    <3>1. PuntaBien(k, x, Punta(k, x, y)) /\ Punta(h, x, y) = Punta(k, x, y)
      BY <1>8, <2>1 DEF RedBien
    <3>2. \A j \in DOMAIN k.con : /\ h.con[j].nodo = k.con[j].nodo
                                 /\ k.con[j].nueva = FALSE => h.con[j].nueva = FALSE
      BY <1>5, <1>7
    <3>3. DOMAIN h.con = DOMAIN k.con
      BY <1>7
    <3> DEFINE e == Punta(k, x, y)
    <3>4. PuntaBien(k, x, e) /\ Punta(h, x, y) = e
      BY <3>1
    <3> HIDE DEF e
    <3>5. CASE e = PUERTO
      BY <3>5, <3>4 DEF PuntaBien
    <3>6. CASE e # PUERTO
      <4>1. /\ e.con \in DOMAIN k.con /\ e.lado \in 1..2
            /\ k.con[e.con].nodo[e.lado] = x
            /\ e.lado = 2 => k.con[e.con].nueva = FALSE
        BY <3>4, <3>6 DEF PuntaBien
      <4> HIDE DEF c
      <4>2. /\ e.con \in DOMAIN h.con /\ h.con[e.con].nodo = k.con[e.con].nodo
            /\ k.con[e.con].nueva = FALSE => h.con[e.con].nueva = FALSE
        <5>1. e.con \in DOMAIN h.con
          BY <3>3, <4>1
        <5>2. h.con[e.con] = IF e.con = c THEN r ELSE k.con[e.con]
          BY <1>7, <4>1
        <5>3. CASE e.con = c
          BY <5>1, <5>2, <5>3, <1>5
        <5>4. CASE e.con # c
          BY <5>1, <5>2, <5>4
        <5> QED
          BY <5>3, <5>4
      <4> QED
        BY <3>4, <4>1, <4>2 DEF PuntaBien
    <3> QED
      BY <3>5, <3>6
  <2>2. CASE x = n /\ Punta(h, x, y) = p
    BY <1>2, <1>5, <1>7, <1>9, <2>2 DEF PuntaBien
  <2> QED
    BY <1>8, <2>1, <2>2
<1>11. RedBien(S, V, L, h)
  BY <1>1, <1>6, <1>7, <1>10 DEF RedBien
<1>12. Sigue(k, h, L, n)
  BY <1>2, <1>3, <1>5, <1>7, <1>8, <1>9 DEF Sigue
<1>13. Queda(k, h, L, n)
  BY <1>5, <1>7, <1>8 DEF Queda, PuertoQueda
<1> QED
  BY <1>2, <1>3, <1>4, <1>7, <1>8, <1>11, <1>12, <1>13 DEF p

(* What may become of one connection.                                      *)
LEMMA CambiaBuf ==
  ASSUME NEW S, NEW V, NEW L, NEW j, NEW c, ConexionBien(S, V, L, j, c),
         NEW l \in 1..2, NEW b, EsSeq(b),
         \A i \in DOMAIN b : DatoBien(S, c.nodo[l], b[i]),
         c.ve[l] = "cerrado" => b = <<>>,
         NEW r, r = [c EXCEPT !.buf[l] = b]
  PROVE  /\ ConexionBien(S, V, L, j, r)
         /\ r.nodo = c.nodo /\ r.ve = c.ve /\ r.nueva = c.nueva
         /\ r.buf[l] = b /\ r.buf[3 - l] = c.buf[3 - l]
<1>1. /\ ConexionOK(c) /\ DOMAIN c.buf = 1..2
  <2>1. ConexionOK(c) /\ c.buf = [x \in 1..2 |-> c.buf[x]]
    BY DEF ConexionBien
  <2> QED
    BY <2>1
<1>2. /\ r.nodo = c.nodo /\ r.ve = c.ve /\ r.nueva = c.nueva
      /\ r.buf = [x \in 1..2 |-> r.buf[x]]
      /\ r.buf[l] = b /\ \A x \in 1..2 : x # l => r.buf[x] = c.buf[x]
  BY <1>1 DEF ConexionOK
<1>3. ConexionOK(r)
  BY <1>1, ConexionCambia
<1>4. ASSUME NEW x \in 1..2, LadoBien(S, V, c, x)
      PROVE  LadoBien(S, V, r, x)
  <2>1. CASE x = l
    BY <1>2, <1>4, <2>1 DEF LadoBien
  <2>2. CASE x # l
    BY <1>2, <1>4, <2>2 DEF LadoBien
  <2> QED
    BY <2>1, <2>2
<1>5. LadoBien(S, V, r, 1) /\ LadoBien(S, V, r, 2)
  BY <1>4 DEF ConexionBien
<1>6. ConexionBien(S, V, L, j, r)
  BY <1>2, <1>3, <1>5 DEF ConexionBien
<1> QED
  BY <1>2, <1>6

LEMMA CambiaRoto ==
  ASSUME NEW S, NEW V, NEW L, NEW j, NEW c, ConexionBien(S, V, L, j, c),
         NEW l \in 1..2, c.ve[l] # "vivo", V[c.nodo[l]],
         NEW r, r = [c EXCEPT !.ve[l] = "roto"]
  PROVE  /\ ConexionBien(S, V, L, j, r)
         /\ r.nodo = c.nodo /\ r.buf = c.buf /\ r.nueva = c.nueva
         /\ r.ve[l] = "roto" /\ r.ve[3 - l] = c.ve[3 - l]
<1>1. ConexionOK(c) /\ DOMAIN c.ve = 1..2
  BY DEF ConexionBien, ConexionOK
<1>2. /\ r.nodo = c.nodo /\ r.buf = c.buf /\ r.nueva = c.nueva
      /\ r.ve[l] = "roto" /\ \A x \in 1..2 : x # l => r.ve[x] = c.ve[x]
  BY <1>1 DEF ConexionOK
<1>3. ConexionOK(r)
  BY <1>1, ConexionCambia DEF Estado
<1>4. LadoBien(S, V, r, 1) /\ LadoBien(S, V, r, 2)
  <2>1. LadoBien(S, V, c, 1) /\ LadoBien(S, V, c, 2)
    BY DEF ConexionBien
  <2>2. CASE l = 1
    BY <1>2, <2>1, <2>2 DEF LadoBien
  <2>3. CASE l = 2
    BY <1>2, <2>1, <2>3 DEF LadoBien
  <2> QED
    BY <2>2, <2>3
<1>5. ConexionBien(S, V, L, j, r)
  BY <1>2, <1>3, <1>4 DEF ConexionBien
<1> QED
  BY <1>2, <1>5

LEMMA CambiaCierra ==
  ASSUME NEW S, NEW V, NEW L, NEW j, NEW c, ConexionBien(S, V, L, j, c),
         NEW l \in 1..2, NEW r, r = CierraLado(c, l)
  PROVE  /\ ConexionBien(S, V, L, j, r)
         /\ r.nodo = c.nodo /\ r.ve[l] = "cerrado"
         /\ r.ve[3 - l] # "vivo"
         /\ c.ve[3 - l] = "cerrado" => r.ve[3 - l] = "cerrado"
         /\ r.buf[3 - l] = c.buf[3 - l]
         /\ r.nueva => c.nueva /\ l = 1
         /\ c.nueva /\ l = 1 => r.nueva
<1>1. /\ ConexionOK(c) /\ DOMAIN c.buf = 1..2 /\ c.nueva \in BOOLEAN
  <2>1. ConexionOK(c) /\ c.buf = [x \in 1..2 |-> c.buf[x]] /\ c.nueva \in BOOLEAN
    BY DEF ConexionBien
  <2> QED
    BY <2>1
<1> DEFINE deja == IF c.buf[l] # <<>> \/ (c.nueva /\ l = 2) THEN "rst" ELSE "fin"
<1>2. deja \in {"rst", "fin"}
  OBVIOUS
<1>3. /\ r.nodo = c.nodo /\ r.nueva = (c.nueva /\ l # 2)
      /\ r.buf = [c.buf EXCEPT ![l] = <<>>]
      /\ r.ve = [x \in 1..2 |-> IF x = l THEN "cerrado"
                                ELSE IF c.ve[x] = "vivo" THEN deja ELSE c.ve[x]]
  BY <1>1 DEF ConexionOK, CierraLado
<1> HIDE DEF deja
<1>4. /\ r.buf = [x \in 1..2 |-> r.buf[x]]
      /\ r.buf[l] = <<>> /\ \A x \in 1..2 : x # l => r.buf[x] = c.buf[x]
      /\ r.ve[l] = "cerrado" /\ \A x \in 1..2 : x # l => r.ve[x] # "vivo"
      /\ \A x \in 1..2 : c.ve[x] = "cerrado" => r.ve[x] = "cerrado"
      /\ \A x \in 1..2 : r.ve[x] = "cerrado" => x = l \/ c.ve[x] = "cerrado"
      /\ r.ve \in [1..2 -> Estado]
  <2>1. c.ve \in [1..2 -> Estado]
    BY <1>1 DEF ConexionOK
  <2> QED
    BY <1>1, <1>2, <1>3, <2>1 DEF Estado
<1>5. ConexionOK(r)
  <2>1. DOMAIN r = DOMAIN c
    BY DEF CierraLado
  <2> QED
    BY <1>1, <1>4, <2>1 DEF ConexionOK
<1>6. r.nueva \in BOOLEAN /\ (r.nueva => c.nueva /\ l = 1) /\ (c.nueva /\ l = 1 => r.nueva)
  <2>1. l # 2 <=> l = 1
    OBVIOUS
  <2>2. r.nueva = (c.nueva /\ l # 2) /\ c.nueva \in BOOLEAN
    BY <1>1, <1>3
  <2> QED
    BY <2>1, <2>2, Zenon
<1>7. LadoBien(S, V, r, 1) /\ LadoBien(S, V, r, 2)
  <2>1. LadoBien(S, V, c, 1) /\ LadoBien(S, V, c, 2)
    BY DEF ConexionBien
  <2>2. EsSeq(<<>>) /\ DOMAIN <<>> = {}
    BY SeqCortas
  <2>3. CASE l = 1
    BY <1>3, <1>4, <2>1, <2>2, <2>3 DEF LadoBien
  <2>4. CASE l = 2
    BY <1>3, <1>4, <2>1, <2>2, <2>4 DEF LadoBien
  <2> QED
    BY <2>3, <2>4
<1>8. ConexionBien(S, V, L, j, r)
  BY <1>3, <1>4, <1>5, <1>6, <1>7 DEF ConexionBien
<1>9. 3 - l \in 1..2 /\ 3 - l # l
  OBVIOUS
<1> QED
  BY <1>3, <1>4, <1>6, <1>8, <1>9

(* The connection that a descriptor of node n stands for: end l of j.      *)
EsPunta(S, V, L, k, n, j, l) ==
  /\ j \in DOMAIN k.con /\ l \in 1..2 /\ k.con[j].nodo[l] = n
  /\ l = 2 => k.con[j].nueva = FALSE
  /\ ConexionBien(S, V, L, j, k.con[j])

LEMMA PuntaEs ==
  ASSUME NEW S, NEW V, NEW L, NEW k, RedBien(S, V, L, k), NEW n \in Node,
         NEW fd, Conectado(k, n, fd)
  PROVE  EsPunta(S, V, L, k, n, Punta(k, n, fd).con, Punta(k, n, fd).lado)
<1> DEFINE e == Punta(k, n, fd)
<1>1. /\ e.con \in DOMAIN k.con /\ e.lado \in 1..2
      /\ k.con[e.con].nodo[e.lado] = n
      /\ e.lado = 2 => k.con[e.con].nueva = FALSE
  BY DEF RedBien, Conectado, PuntaBien
<1>2. ConexionBien(S, V, L, e.con, k.con[e.con])
  BY <1>1 DEF RedBien
<1> QED
  BY <1>1, <1>2 DEF EsPunta

LEMMA LeeBien ==
  ASSUME NEW S, NEW V, NEW L, NEW k, RedBien(S, V, L, k), NEW n \in Node,
         NEW fd, Conectado(k, n, fd),
         NEW h, h = Lee(k, n, fd) \/ h = Descarta(k, n, fd)
  PROVE  /\ RedBien(S, V, L, h) /\ Sigue(k, h, L, n) /\ Queda(k, h, L, n)
         /\ Quieta(k, h) /\ h.fds = k.fds
<1> DEFINE j == Punta(k, n, fd).con
           l == Punta(k, n, fd).lado
           r == [k.con[j] EXCEPT !.buf[l] = <<>>]
<1>1. /\ SocketsOK(k) /\ SocketsOK(h)
  BY SocketsLee DEF RedBien
<1>2. /\ h.fds = k.fds /\ h.con = [k.con EXCEPT ![j].buf[l] = <<>>]
      /\ h.con = [k.con EXCEPT ![j] = r]
  BY <1>1 DEF SocketsOK, Lee, Descarta
<1>3. EsPunta(S, V, L, k, n, j, l)
  BY PuntaEs
<1>4. r = [k.con[j] EXCEPT !.buf[l] = <<>>]
  OBVIOUS
<1> HIDE DEF j, l, r
<1>11. /\ j \in DOMAIN k.con /\ l \in 1..2 /\ k.con[j].nodo[l] = n
       /\ l = 2 => k.con[j].nueva = FALSE
       /\ ConexionBien(S, V, L, j, k.con[j])
  BY <1>3 DEF EsPunta
<1>5. EsSeq(<<>>) /\ DOMAIN <<>> = {}
  BY SeqCortas
<1>6. /\ ConexionBien(S, V, L, j, r)
      /\ r.nodo = k.con[j].nodo /\ r.ve = k.con[j].ve /\ r.nueva = k.con[j].nueva
      /\ r.buf[3 - l] = k.con[j].buf[3 - l]
  BY <1>11, <1>4, <1>5, CambiaBuf
<1>7. k.con[j].buf[2] # <<>> /\ (r.nueva \/ k.con[j].nodo[2] # n)
        => r.buf[2] # <<>> /\ r.buf[2][1] = k.con[j].buf[2][1]
  <2>1. CASE l = 1
    BY <1>6, <2>1
  <2>2. CASE l = 2
    BY <1>11, <1>6, <2>2
  <2> QED
    BY <1>11, <2>1, <2>2
<1>8. \A fd_1 \in Abiertos(h, n) :
        fd_1 \in Abiertos(k, n) /\ Punta(h, n, fd_1) = Punta(k, n, fd_1)
  BY <1>2 DEF Abiertos, Punta
<1>9. RedBien(S, V, L, h) /\ Sigue(k, h, L, n)
  BY <1>1, <1>2, <1>11, <1>6, <1>7, <1>8, UnaBien
<1>10. Queda(k, h, L, n) /\ Quieta(k, h)
  BY <1>2, <1>6 DEF Queda, PuertoQueda, Quieta, Abiertos, Punta
<1> QED
  BY <1>2, <1>9, <1>10 DEF j, l

LEMMA EnviaBien ==
  ASSUME NEW S, NEW V, NEW L, NEW k, RedBien(S, V, L, k), NEW n \in Node, V[n],
         NEW fd, NEW d,
         Conectado(k, n, fd) =>
           DatoBien(S, k.con[Punta(k, n, fd).con].nodo[3 - Punta(k, n, fd).lado], d),
         NEW h, h = Envia(k, n, fd, d)
  PROVE  /\ RedBien(S, V, L, h) /\ Sigue(k, h, L, n) /\ Queda(k, h, L, n)
         /\ Quieta(k, h) /\ SinLeerse(k, h) /\ h.fds = k.fds
<1>1. CASE ~Conectado(k, n, fd)
  BY <1>1, SigueIgual DEF Envia, SinLeerse
<1>2. CASE Conectado(k, n, fd)
  <2> DEFINE j == Punta(k, n, fd).con
             l == Punta(k, n, fd).lado
             a == 3 - l
             c == k.con[j]
  <2>1. /\ SocketsOK(k) /\ SocketsOK(h)
    BY SocketsEnvia DEF RedBien
  <2>2. EsPunta(S, V, L, k, n, j, l) /\ DatoBien(S, c.nodo[a], d)
    BY <1>2, PuntaEs
  <2>3. /\ h.fds = k.fds
        /\ \/ c.ve[l] = "vivo" /\ h.con = [k.con EXCEPT ![j].buf[a] = Append(@, d)]
           \/ c.ve[l] # "vivo" /\ h.con = [k.con EXCEPT ![j].ve[l] = "roto"]
    BY <1>2, <2>1 DEF SocketsOK, Envia, Ve
  <2> HIDE DEF j, l
  <2>4. /\ j \in DOMAIN k.con /\ l \in 1..2 /\ c.nodo[l] = n
        /\ l = 2 => c.nueva = FALSE
        /\ ConexionBien(S, V, L, j, c)
    BY <2>2 DEF EsPunta
  <2>5. /\ a \in 1..2 /\ 3 - a = l
        /\ LadoBien(S, V, c, a) /\ LadoBien(S, V, c, l)
        /\ DOMAIN c.buf = 1..2
    <3>1. LadoBien(S, V, c, 1) /\ LadoBien(S, V, c, 2)
          /\ c.buf = [x \in 1..2 |-> c.buf[x]]
      BY <2>4 DEF ConexionBien
    <3>2. a \in 1..2 /\ 3 - a = l /\ l \in {1, 2} /\ a \in {1, 2}
      BY <2>4
    <3> HIDE DEF a, c
    <3> QED
      BY <3>1, <3>2
  <2> HIDE DEF a
  <2>6. \E r : /\ h.con = [k.con EXCEPT ![j] = r]
               /\ ConexionBien(S, V, L, j, r)
               /\ r.nodo = c.nodo /\ r.nueva = c.nueva
               /\ c.buf[2] # <<>> => r.buf[2] # <<>> /\ r.buf[2][1] = c.buf[2][1]
               /\ c.ve = Vivos => r.ve = Vivos
    <3>1. CASE c.ve[l] = "vivo" /\ h.con = [k.con EXCEPT ![j].buf[a] = Append(@, d)]
      <4> DEFINE b == Append(c.buf[a], d)
                 r == [c EXCEPT !.buf[a] = b]
      <4>1. h.con = [k.con EXCEPT ![j] = r]
        BY <3>1
      <4>2. /\ EsSeq(c.buf[a]) /\ EsSeq(b)
            /\ \A i \in DOMAIN c.buf[a] : DatoBien(S, c.nodo[a], c.buf[a][i])
            /\ c.ve[a] # "cerrado"
        BY <2>5, <3>1, SeqAppend DEF LadoBien
      <4>3. /\ \A i \in DOMAIN c.buf[a] : i \in DOMAIN b /\ b[i] = c.buf[a][i]
            /\ \A i \in DOMAIN b : i \in DOMAIN c.buf[a] \/ b[i] = d
            /\ c.buf[a] # <<>> => 1 \in DOMAIN c.buf[a] /\ b # <<>>
        <5> DEFINE q == c.buf[a]
        <5>1. EsSeq(q) /\ b = Append(q, d)
          BY <4>2
        <5> HIDE DEF q, b
        <5>2. /\ Len(q) \in Nat /\ DOMAIN q = 1..Len(q) /\ DOMAIN b = 1..(Len(q) + 1)
              /\ \A i \in DOMAIN q : b[i] = q[i]
              /\ b[Len(q) + 1] = d
          BY <5>1, SeqAppend
        <5>3. q # <<>> => 1 \in DOMAIN q
          BY <5>1, SeqTail
        <5>4. DOMAIN <<>> = {}
          BY SeqCortas
        <5>5. \A i \in DOMAIN q : i \in DOMAIN b /\ b[i] = q[i]
          BY <5>2
        <5>6. \A i \in DOMAIN b : i \in DOMAIN q \/ b[i] = d
          BY <5>2
        <5> QED
          BY <5>3, <5>4, <5>5, <5>6 DEF q
      <4> HIDE DEF b
      <4>4. \A i \in DOMAIN b : DatoBien(S, c.nodo[a], b[i])
        BY <2>2, <4>2, <4>3 DEF a
      <4>5. r = [c EXCEPT !.buf[a] = b]
        OBVIOUS
      <4> HIDE DEF r, c
      <4>6. /\ ConexionBien(S, V, L, j, r)
            /\ r.nodo = c.nodo /\ r.ve = c.ve /\ r.nueva = c.nueva
            /\ r.buf[a] = b /\ r.buf[l] = c.buf[l]
        BY <2>4, <2>5, <4>2, <4>4, <4>5, CambiaBuf
      <4>7. c.buf[2] # <<>> => r.buf[2] # <<>> /\ r.buf[2][1] = c.buf[2][1]
        <5>1. CASE a = 2
          BY <4>3, <4>6, <5>1
        <5>2. CASE l = 2
          BY <4>6, <5>2
        <5> QED
          BY <2>4, <2>5, <5>1, <5>2
      <4> QED
        BY <4>1, <4>6, <4>7
    <3>2. CASE c.ve[l] # "vivo" /\ h.con = [k.con EXCEPT ![j].ve[l] = "roto"]
      <4> DEFINE r == [c EXCEPT !.ve[l] = "roto"]
      <4>1. h.con = [k.con EXCEPT ![j] = r]
        BY <3>2
      <4>2. r = [c EXCEPT !.ve[l] = "roto"] /\ V[c.nodo[l]]
        BY <2>4
      <4>3. c.ve # Vivos
        BY <2>4, <3>2 DEF Vivos
      <4> HIDE DEF r, c
      <4>4. /\ ConexionBien(S, V, L, j, r)
            /\ r.nodo = c.nodo /\ r.buf = c.buf /\ r.nueva = c.nueva
        BY <2>4, <3>2, <4>2, CambiaRoto
      <4> QED
        BY <4>1, <4>3, <4>4
    <3> QED
      BY <2>3, <3>1, <3>2
  <2>7. PICK r : /\ h.con = [k.con EXCEPT ![j] = r]
                 /\ ConexionBien(S, V, L, j, r)
                 /\ r.nodo = c.nodo /\ r.nueva = c.nueva
                 /\ c.buf[2] # <<>> => r.buf[2] # <<>> /\ r.buf[2][1] = c.buf[2][1]
                 /\ c.ve = Vivos => r.ve = Vivos
    BY <2>6
  <2>8. \A y \in Abiertos(h, n) : y \in Abiertos(k, n) /\ Punta(h, n, y) = Punta(k, n, y)
    BY <2>3 DEF Abiertos, Punta
  <2>9. RedBien(S, V, L, h) /\ Sigue(k, h, L, n)
    BY <2>1, <2>3, <2>4, <2>7, <2>8, UnaBien
  <2>10. Queda(k, h, L, n) /\ Quieta(k, h)
    BY <2>3, <2>7 DEF Queda, PuertoQueda, Quieta, Abiertos, Punta
  <2>11. SinLeerse(k, h)
    BY <2>4, <2>7 DEF SinLeerse
  <2> QED
    BY <2>3, <2>9, <2>10, <2>11
<1> QED
  BY <1>1, <1>2

LEMMA CierraBien ==
  ASSUME NEW S, NEW V, NEW L, NEW k, RedBien(S, V, L, k), NEW n \in Node, NEW fd,
         NEW h, h = Cierra(k, n, fd)
  PROVE  /\ RedBien(S, V, L, h) /\ Sigue(k, h, L, n) /\ Quieta(k, h)
         /\ PuertoQueda(k, h, n)
         /\ (Conectado(k, n, fd) => \/ Punta(k, n, fd).con > L
                                    \/ k.con[Punta(k, n, fd).con].ve # Vivos)
              => Queda(k, h, L, n)
         /\ \A y \in Abiertos(h, n) : y \in Abiertos(k, n) /\ Punta(h, n, y) = Punta(k, n, y)
         /\ Abiertos(h, n) = Abiertos(k, n) \ (IF Conectado(k, n, fd) THEN {fd} ELSE {})
<1>1. CASE ~Conectado(k, n, fd)
  <2>1. h = k
    BY <1>1 DEF Cierra
  <2> QED
    BY <1>1, <2>1, SigueIgual DEF Queda
<1>2. CASE Conectado(k, n, fd)
  <2> DEFINE j == Punta(k, n, fd).con
             l == Punta(k, n, fd).lado
             c == k.con[j]
             r == CierraLado(c, l)
  <2>1. /\ SocketsOK(k) /\ SocketsOK(h)
    BY SocketsCierra DEF RedBien
  <2>2. EsPunta(S, V, L, k, n, j, l)
    BY <1>2, PuntaEs
  <2>3. /\ h.fds = [k.fds EXCEPT ![n] = Restrict(@, DOMAIN @ \ {fd})]
        /\ h.con = [k.con EXCEPT ![j] = r]
    BY <1>2, <2>1 DEF SocketsOK, Cierra
  <2>4. r = CierraLado(c, l)
    OBVIOUS
  <2> HIDE DEF j, l, c, r
  <2>5. /\ j \in DOMAIN k.con /\ l \in 1..2 /\ c.nodo[l] = n
        /\ l = 2 => c.nueva = FALSE
        /\ ConexionBien(S, V, L, j, c)
    BY <2>2 DEF EsPunta, c
  <2>6. /\ ConexionBien(S, V, L, j, r)
        /\ r.nodo = c.nodo
        /\ r.buf[3 - l] = c.buf[3 - l]
        /\ r.nueva => c.nueva /\ l = 1
        /\ c.nueva /\ l = 1 => r.nueva
    BY <2>4, <2>5, CambiaCierra
  <2>7. c.nueva => r.nueva
    BY <2>5, <2>6
  <2>8. c.buf[2] # <<>> /\ (r.nueva \/ c.nodo[2] # n)
          => r.buf[2] # <<>> /\ r.buf[2][1] = c.buf[2][1]
    <3>1. CASE l = 1
      BY <2>6, <3>1
    <3>2. CASE l = 2
      BY <2>5, <2>6, <3>2
    <3> QED
      BY <2>5, <3>1, <3>2
  <2>9. /\ Abiertos(h, n) = Abiertos(k, n) \ {fd}
        /\ \A y \in Abiertos(h, n) : y \in Abiertos(k, n) /\ Punta(h, n, y) = Punta(k, n, y)
        /\ \A m \in Node : m # n => h.fds[m] = k.fds[m]
    <3>1. h.fds[n] = Restrict(k.fds[n], DOMAIN k.fds[n] \ {fd})
      BY <2>1, <2>3 DEF SocketsOK
    <3> QED
      BY <2>3, <3>1 DEF Abiertos, Punta, Restrict
  <2>10. RedBien(S, V, L, h) /\ Sigue(k, h, L, n)
    <3>1. c = k.con[j]
      BY DEF c
    <3>2. /\ r.nodo = k.con[j].nodo /\ (r.nueva => k.con[j].nueva)
          /\ k.con[j].nueva /\ k.con[j].nodo[2] # n => r.nueva
          /\ k.con[j].buf[2] # <<>> /\ (r.nueva \/ k.con[j].nodo[2] # n)
              => r.buf[2] # <<>> /\ r.buf[2][1] = k.con[j].buf[2][1]
      BY <2>6, <2>7, <2>8, <3>1, Zenon
    <3> QED
      <4>1. /\ SocketsOK(h) /\ j \in DOMAIN k.con /\ h.con = [k.con EXCEPT ![j] = r]
            /\ \A m \in Node : m # n => h.fds[m] = k.fds[m]
            /\ \A y \in Abiertos(h, n) :
                 y \in Abiertos(k, n) /\ Punta(h, n, y) = Punta(k, n, y)
            /\ ConexionBien(S, V, L, j, r)
        BY <2>1, <2>3, <2>5, <2>6, <2>9
      <4> QED
        BY <3>2, <4>1, UnaBien
  <2>11. Quieta(k, h)
    BY <2>3, <2>7 DEF Quieta, c
  <2>13. PuertoQueda(k, h, n)
    <3>1. Punta(k, n, fd) # PUERTO
      BY <1>2 DEF Conectado
    <3> QED
      BY <2>9, <3>1 DEF PuertoQueda
  <2>12. ASSUME j > L \/ c.ve # Vivos
         PROVE  Queda(k, h, L, n)
    <3>2. L \in Nat /\ j \in Nat
      <4>1. EsSeq(k.con) /\ L \in Nat
        BY DEF RedBien, SocketsOK
      <4> QED
        BY <2>5, <4>1, SeqAppend
    <3> QED
      BY <2>3, <2>12, <2>13, <3>2 DEF Queda, c
  <2> QED
    BY <1>2, <2>9, <2>10, <2>11, <2>12, <2>13 DEF j, c
<1> QED
  BY <1>1, <1>2

(* The process of n ends: what becomes of end l of connection c.           *)
Cae(c, n, l) ==
  IF c.nodo[l] = n /\ c.ve[l] # "cerrado" THEN CierraLado(c, l) ELSE c

LEMMA CambiaCae ==
  ASSUME NEW S, NEW V, NEW L, NEW j, NEW c, ConexionBien(S, V, L, j, c),
         NEW n, NEW l \in 1..2, NEW r, r = Cae(c, n, l)
  PROVE  /\ ConexionBien(S, V, L, j, r)
         /\ r.nodo = c.nodo
         /\ c.nodo[l] = n => r.ve[l] = "cerrado"
         /\ c.ve[3 - l] = "cerrado" => r.ve[3 - l] = "cerrado"
         /\ r.buf[3 - l] = c.buf[3 - l]
         /\ r.nueva => c.nueva
         /\ c.nueva /\ (c.nodo[l] # n \/ l = 1) => r.nueva
         /\ c.nodo[l] # n \/ (r.nueva /\ l = 2) => r.buf[l] = c.buf[l]
<1>1. CASE c.nodo[l] = n /\ c.ve[l] # "cerrado"
  <2>1. r = CierraLado(c, l)
    BY <1>1 DEF Cae
  <2>2. /\ ConexionBien(S, V, L, j, r)
        /\ r.nodo = c.nodo /\ r.ve[l] = "cerrado"
        /\ c.ve[3 - l] = "cerrado" => r.ve[3 - l] = "cerrado"
        /\ r.buf[3 - l] = c.buf[3 - l]
        /\ r.nueva => c.nueva /\ l = 1
        /\ c.nueva /\ l = 1 => r.nueva
    BY <2>1, CambiaCierra
  <2>3. l = 2 => l # 1
    OBVIOUS
  <2> QED
    BY <1>1, <2>2, <2>3, Zenon
<1>2. CASE ~(c.nodo[l] = n /\ c.ve[l] # "cerrado")
  <2>1. r = c
    BY <1>2 DEF Cae
  <2> QED
    BY <1>2, <2>1, Zenon
<1> QED
  BY <1>1, <1>2

LEMMA CierraTodoBien ==
  ASSUME NEW S, NEW V, NEW L, NEW k, RedBien(S, V, L, k), NEW n \in Node,
         NEW W, W = [V EXCEPT ![n] = FALSE], V \in [Node -> BOOLEAN],
         NEW h, h = CierraTodo(k, n)
  PROVE  /\ RedBien(S, W, L, h) /\ Sigue(k, h, L, n) /\ Abiertos(h, n) = {}
         /\ \A m \in Node : m # n => h.fds[m] = k.fds[m]
<1>1. /\ SocketsOK(k) /\ SocketsOK(h) /\ L \in Nat /\ L <= Len(k.con)
  BY SocketsCierraTodo DEF RedBien
<1>2. /\ h.fds = [k.fds EXCEPT ![n] = <<>>]
      /\ h.con = [c \in DOMAIN k.con |-> Cae(Cae(k.con[c], n, 1), n, 2)]
  BY <1>1 DEF SocketsOK, CierraTodo, Cae
<1>3. /\ DOMAIN h.con = DOMAIN k.con /\ Len(h.con) = Len(k.con)
      /\ \A m \in Node : m # n => h.fds[m] = k.fds[m]
      /\ h.fds[n] = <<>> /\ Abiertos(h, n) = {}
  <2>1. DOMAIN h.con = DOMAIN k.con
    BY <1>2
  <2>2. /\ Len(k.con) \in Nat /\ DOMAIN k.con = 1..Len(k.con)
        /\ Len(h.con) \in Nat /\ DOMAIN h.con = 1..Len(h.con)
    BY <1>1, SeqAppend DEF SocketsOK
  <2>3. h.fds[n] = <<>> /\ \A m \in Node : m # n => h.fds[m] = k.fds[m]
    BY <1>1, <1>2 DEF SocketsOK
  <2> QED
    BY <2>1, <2>2, <2>3, SeqCortas DEF Abiertos
<1>4. ASSUME NEW j \in DOMAIN k.con
      PROVE  /\ ConexionBien(S, W, L, j, h.con[j])
             /\ h.con[j].nodo = k.con[j].nodo
             /\ h.con[j].nueva => k.con[j].nueva
             /\ k.con[j].nueva /\ k.con[j].nodo[2] # n => h.con[j].nueva
             /\ h.con[j].nueva \/ k.con[j].nodo[2] # n
                  => h.con[j].buf[2] = k.con[j].buf[2]
  <2> DEFINE c == k.con[j]
             q == Cae(c, n, 1)
             r == Cae(q, n, 2)
  <2>1. h.con[j] = r /\ ConexionBien(S, V, L, j, c)
    BY <1>2 DEF RedBien
  <2>2. q = Cae(c, n, 1) /\ r = Cae(q, n, 2) /\ c = k.con[j]
    OBVIOUS
  <2> HIDE DEF q, r, c
  <2>3. /\ ConexionBien(S, V, L, j, q)
        /\ q.nodo = c.nodo
        /\ c.nodo[1] = n => q.ve[1] = "cerrado"
        /\ q.buf[2] = c.buf[2]
        /\ q.nueva => c.nueva
        /\ c.nueva => q.nueva
    <3>1. 1 \in 1..2 /\ 3 - 1 = 2
      OBVIOUS
    <3>2. /\ ConexionBien(S, V, L, j, q)
          /\ q.nodo = c.nodo
          /\ c.nodo[1] = n => q.ve[1] = "cerrado"
          /\ q.buf[3 - 1] = c.buf[3 - 1]
          /\ q.nueva => c.nueva
          /\ c.nueva /\ (c.nodo[1] # n \/ 1 = 1) => q.nueva
      BY <2>1, <2>2, <3>1, CambiaCae
    <3> QED
      BY <3>1, <3>2
  <2>4. /\ ConexionBien(S, V, L, j, r)
        /\ r.nodo = q.nodo
        /\ q.nodo[2] = n => r.ve[2] = "cerrado"
        /\ q.ve[1] = "cerrado" => r.ve[1] = "cerrado"
        /\ r.nueva => q.nueva
        /\ q.nueva /\ q.nodo[2] # n => r.nueva
        /\ q.nodo[2] # n \/ r.nueva => r.buf[2] = q.buf[2]
    <3>1. 2 \in 1..2 /\ 3 - 2 = 1
      OBVIOUS
    <3>2. /\ ConexionBien(S, V, L, j, r)
          /\ r.nodo = q.nodo
          /\ q.nodo[2] = n => r.ve[2] = "cerrado"
          /\ q.ve[3 - 2] = "cerrado" => r.ve[3 - 2] = "cerrado"
          /\ r.nueva => q.nueva
          /\ q.nueva /\ (q.nodo[2] # n \/ 2 = 1) => r.nueva
          /\ q.nodo[2] # n \/ (r.nueva /\ 2 = 2) => r.buf[2] = q.buf[2]
      BY <2>2, <2>3, <3>1, CambiaCae
    <3> QED
      BY <3>1, <3>2
  <2>5. ConexionBien(S, W, L, j, r)
    <3>1. ASSUME NEW l \in {1, 2}, LadoBien(S, V, r, l)
          PROVE  LadoBien(S, W, r, l)
      <4>1. r.nodo[l] = n => r.ve[l] = "cerrado"
        BY <2>3, <2>4
      <4>2. r.ve[l] # "cerrado" => W[r.nodo[l]]
        <5>1. ASSUME r.ve[l] # "cerrado"
              PROVE  W[r.nodo[l]]
          <6>1. r.nodo[l] # n /\ V[r.nodo[l]]
            BY <3>1, <4>1, <5>1 DEF LadoBien
          <6> QED
            BY <6>1
        <5> QED
          BY <5>1
      <4> QED
        BY <3>1, <4>2 DEF LadoBien
    <3> QED
      BY <2>4, <3>1 DEF ConexionBien
  <2> QED
    BY <2>1, <2>2, <2>3, <2>4, <2>5, Zenon
<1>5. RedBien(S, W, L, h)
  <2>1. ASSUME NEW m \in Node, NEW y \in Abiertos(h, m)
        PROVE  PuntaBien(h, m, Punta(h, m, y))
    <3>1. y \in Abiertos(k, m) /\ Punta(h, m, y) = Punta(k, m, y) /\ m # n
      BY <1>3 DEF Abiertos, Punta
    <3> DEFINE e == Punta(k, m, y)
    <3>2. PuntaBien(k, m, e) /\ Punta(h, m, y) = e
      BY <3>1 DEF RedBien
    <3> HIDE DEF e
    <3>3. CASE e = PUERTO
      BY <3>2, <3>3 DEF PuntaBien
    <3>4. CASE e # PUERTO
      <4>1. /\ e.con \in DOMAIN k.con /\ e.lado \in 1..2
            /\ k.con[e.con].nodo[e.lado] = m
            /\ e.lado = 2 => k.con[e.con].nueva = FALSE
        BY <3>2, <3>4 DEF PuntaBien
      <4>2. /\ e.con \in DOMAIN h.con /\ h.con[e.con].nodo = k.con[e.con].nodo
            /\ h.con[e.con].nueva => k.con[e.con].nueva
            /\ h.con[e.con].nueva \in BOOLEAN
        BY <1>3, <1>4, <4>1 DEF ConexionBien
      <4>3. e.lado = 2 => h.con[e.con].nueva = FALSE
        BY <4>1, <4>2
      <4> QED
        BY <3>2, <4>1, <4>2, <4>3 DEF PuntaBien
    <3> QED
      BY <3>3, <3>4
  <2>2. \A j \in DOMAIN h.con : ConexionBien(S, W, L, j, h.con[j])
    BY <1>3, <1>4
  <2> QED
    BY <1>1, <1>3, <2>1, <2>2 DEF RedBien
<1>6. Sigue(k, h, L, n)
  <2>1. \A j \in DOMAIN k.con :
          k.con[j].buf[2] # <<>> /\ (h.con[j].nueva \/ k.con[j].nodo[2] # n)
            => h.con[j].buf[2] # <<>> /\ h.con[j].buf[2][1] = k.con[j].buf[2][1]
    BY <1>4
  <2> QED
    BY <1>3, <1>4, <2>1 DEF Sigue
<1> QED
  BY <1>3, <1>5, <1>6

-----------------------------------------------------------------------------
(* The nodes.  The purchases that are known to who began them, where only  *)
(* one node buys; and the connections that the scene had.                  *)

Conocidos ==
  {ts \in Nat : UnComprador => \A b \in Compradores :
                                 vivo[b] => ts \in DOMAIN mapaPedidos[b]}

Ele == Len(cuenta.escena.enlaces)

(* The numbers that are no descriptor of node n, or that of a connection   *)
(* made since.                                                             *)
Directos(k, L, n) == {fd \in Int : fd \in Abiertos(k, n) => Punta(k, n, fd).con > L}

(* An event of the Logic of node n, and one of its Router.                 *)
LogicaBien(S, n, ev) ==
  /\ ev.id \in MensajeId \cup {"DO_LOOKUP"}
  /\ ev.id \in MensajeId => MensajeEn(S, n, ev.tag)
  /\ ev.id \in {"DO_REPLY", "DO_LOOKUP_FORWARD"} => ev.tag.code = "LOOKUP"
  /\ ev.id = "DO_REPLY" => n \notin Compradores
  /\ ev.id = "DO_REPLY_FORWARD" => ev.tag.code = "REPLY" /\ Len(ev.tag.nodos) > 1
  /\ ev.id = "DO_BUY" => ev.tag.code = "REPLY" /\ n \in Compradores
  /\ ev.id \in {"DO_BUY_REPLY_OK", "DO_BUY_REPLY_ERR"} => ev.tag.code = "BUY"
  /\ ev.id = "DO_LOOKUP" => n \in Compradores /\ ev.cantidad \in Int

AvisoId == {"RT_SET_SOCKET_P2P", "RT_UNSET_SOCKET_P2P", "RT_RM_NODO_SERVIDOR",
            "RT_ADD_NODO_SERVIDOR"}

AvisoBien(S, n, P, ev) ==
  /\ ev.id \in RouterId \cup AvisoId
  /\ ev.id \in RouterId => MensajeBien(S, ev.tag)
  /\ ev.id \in {"RT_FIRST_BROADCAST", "RT_BROADCAST"} => ev.tag.code = "LOOKUP"
  /\ ev.id = "RT_SEND_TO_SOCKET" => ev.tag.code = "REPLY"
  /\ ev.id = "RT_SEND_TO_P2P_SOCKET" =>
       n \notin Compradores /\ ev.tag.code \in {"BUY_OK", "BUY_ERR"}
  /\ ev.id = "RT_START_P2P_CONNECT" => n \in Compradores /\ ev.tag.code = "BUY"
  /\ ev.id = "RT_CLOSE_P2P_CONNECT" => n \in Compradores
  /\ ev.id = "RT_SET_SOCKET_P2P" => n \notin Compradores /\ ev.fd \in P

(* Where the Router enters a direct connection, and the Listener accepts   *)
(* one; and where the Listener goes through what select found.             *)
Entrando == {"p2p", "p2p_nombre", "p2p_opera", "p2p_buy"}
Saludando == {"nombre", "p2p_opera", "p2p_nombre"}
Recorriendo == {"mirando", "cierre_p2p", "cierre_fin"}

RouterBien(n, P, r) ==
  /\ r.paso \in {"libre"} \cup Entrando \cup {"p2p_cierra", "p2p_fin"}
  /\ r.paso # "libre" => n \in Compradores
  /\ r.paso \in Entrando => r.fd \in P
  /\ r.p2p \in P

ListenerBien(k, n, P, l) ==
  /\ \A i \in DOMAIN l.events : l.events[i].id # "INIT"
  /\ l.paso \in Saludando => n \notin Compradores /\ l.newfd \in P
  /\ l.servSock # SOCK_ERRONEO =>
       l.servSock \in Abiertos(k, n) /\ Punta(k, n, l.servSock) = PUERTO
  /\ l.paso \in Recorriendo /\ l.servSock \in l.listos => Cola(k, n) # {}

(* What a step keeps of node n.                                            *)
Logico(n) ==
  /\ compro[n] = Config[n].compra /\ vendo[n] = Config[n].venta
  /\ EsSeq(logicEvents[n])
  /\ \A i \in DOMAIN logicEvents[n] : LogicaBien(Conocidos, n, logicEvents[n][i])

Avisado(n) ==
  \A i \in DOMAIN routerEvents[n] :
    AvisoBien(Conocidos, n, Directos(tcp, Ele, n), routerEvents[n][i])

Nodo(n) ==
  /\ Logico(n) /\ Avisado(n)
  /\ RouterBien(n, Directos(tcp, Ele, n), router[n])
  /\ ListenerBien(tcp, n, Directos(tcp, Ele, n), listener[n])
  /\ ~vivo[n] => Abiertos(tcp, n) = {}

Cuentas ==
  /\ {"escena", "pedidos", "ordenes", "reconexiones", "arranques"} \subseteq DOMAIN cuenta
  /\ cuenta.escena \in Escenas
  /\ cuenta.pedidos \in [Node -> Nat] /\ cuenta.arranques \in [Node -> Nat]
  /\ cuenta.reconexiones \in Nat
  /\ reloj \in Nat
  /\ mapaPedidos = [n \in Node |-> mapaPedidos[n]]
  /\ mapa_stock = [n \in Node |-> mapa_stock[n]]
  /\ compro = [n \in Node |-> compro[n]] /\ vendo = [n \in Node |-> vendo[n]]

Red == RedBien(Conocidos, vivo, Ele, tcp)

Negocios == Cuentas /\ Red /\ \A n \in Node : Nodo(n)

-----------------------------------------------------------------------------
(* More purchases may be known, and more descriptors be direct.            *)
LEMMA MensajeCrece ==
  ASSUME NEW S, NEW R, S \subseteq R
  PROVE  /\ \A m : MensajeBien(S, m) => MensajeBien(R, m)
         /\ \A n, m : MensajeEn(S, n, m) => MensajeEn(R, n, m)
         /\ \A n, d : DatoBien(S, n, d) => DatoBien(R, n, d)
         /\ \A n, ev : LogicaBien(S, n, ev) => LogicaBien(R, n, ev)
<1>1. \A m : MensajeBien(S, m) => MensajeBien(R, m)
  BY DEF MensajeBien
<1>2. \A n, m : MensajeEn(S, n, m) => MensajeEn(R, n, m)
  BY <1>1 DEF MensajeEn
<1>3. \A n, d : DatoBien(S, n, d) => DatoBien(R, n, d)
  BY <1>2 DEF DatoBien
<1>4. \A n, ev : LogicaBien(S, n, ev) => LogicaBien(R, n, ev)
  BY <1>2 DEF LogicaBien
<1> QED
  BY <1>1, <1>2, <1>3, <1>4

LEMMA AvisoCrece ==
  ASSUME NEW S, NEW R, S \subseteq R, NEW n, NEW P, NEW Q, P \subseteq Q
  PROVE  /\ \A ev : AvisoBien(S, n, P, ev) => AvisoBien(R, n, Q, ev)
         /\ \A r : RouterBien(n, P, r) => RouterBien(n, Q, r)
  BY MensajeCrece DEF AvisoBien, RouterBien

LEMMA RedCrece ==
  ASSUME NEW S, NEW R, S \subseteq R, NEW V, NEW L, NEW k, RedBien(S, V, L, k)
  PROVE  RedBien(R, V, L, k)
<1>1. \A r, l : LadoBien(S, V, r, l) => LadoBien(R, V, r, l)
  BY MensajeCrece DEF LadoBien
<1>2. \A j, r : ConexionBien(S, V, L, j, r) => ConexionBien(R, V, L, j, r)
  BY <1>1 DEF ConexionBien
<1> QED
  BY <1>2 DEF RedBien

LEMMA DirectosCrecen ==
  ASSUME NEW k, NEW h, NEW L, NEW n \in Node, Sigue(k, h, L, n), NEW m \in Node
  PROVE  Directos(k, L, m) \subseteq Directos(h, L, m)
<1>1. CASE m = n
  BY <1>1 DEF Sigue, Directos
<1>2. CASE m # n
  BY <1>2 DEF Sigue, Directos, Abiertos, Punta
<1> QED
  BY <1>1, <1>2

LEMMA SinSocket ==
  ASSUME NEW k, SocketsOK(k), NEW L, NEW n \in Node
  PROVE  SOCK_ERRONEO \in Directos(k, L, n)
  BY DEF SocketsOK, FdsOK, Directos, Abiertos, SOCK_ERRONEO

(* A node sees nothing of the step of another but what comes to it.        *)
LEMMA OtrosSiguen ==
  ASSUME NEW S, NEW V, NEW L, NEW k, RedBien(S, V, L, k), NEW h,
         NEW n \in Node, Sigue(k, h, L, n), NEW m \in Node, m # n
  PROVE  /\ Abiertos(h, m) = Abiertos(k, m)
         /\ \A fd : Punta(h, m, fd) = Punta(k, m, fd)
         /\ Cola(k, m) # {} => Cola(h, m) # {}
         /\ \A P, Q, l : P \subseteq Q /\ ListenerBien(k, m, P, l) => ListenerBien(h, m, Q, l)
<1>1. Abiertos(h, m) = Abiertos(k, m) /\ \A fd : Punta(h, m, fd) = Punta(k, m, fd)
  BY DEF Sigue, Abiertos, Punta
<1>2. Cola(k, m) # {} => Cola(h, m) # {}
  <2>1. ASSUME NEW c \in Cola(k, m)
        PROVE  c \in Cola(h, m)
    <3>1. c \in DOMAIN k.con /\ k.con[c].nueva /\ k.con[c].nodo[2] = m
      BY DEF Cola
    <3> QED
      BY <3>1 DEF Sigue, Cola
  <2> QED
    BY <2>1
<1>3. \A P, Q, l : P \subseteq Q /\ ListenerBien(k, m, P, l) => ListenerBien(h, m, Q, l)
  BY <1>1, <1>2 DEF ListenerBien
<1> QED
  BY <1>1, <1>2, <1>3

-----------------------------------------------------------------------------
(* The messages that the handlers build.                                   *)
LEMMA MensajesBien ==
  ASSUME NEW S, NEW m, MensajeBien(S, m), NEW n \in Node
  PROVE  /\ m.code = "LOOKUP" => MensajeBien(S, add_nodo(less_hopcount(m), n))
         /\ add_nodo(less_hopcount(m), n).code = m.code
         /\ m.code = "LOOKUP" /\ n \notin Compradores => MensajeBien(S, build_reply_msg(m, n))
         /\ build_reply_msg(m, n).code = "REPLY"
         /\ m.code = "REPLY" /\ Len(m.nodos) > 1 => MensajeBien(S, less_nodo(m))
         /\ less_nodo(m).code = m.code
         /\ m.code = "REPLY" => MensajeBien(S, build_buy_msg(m))
         /\ build_buy_msg(m).code = "BUY"
         /\ MensajeBien(S, build_buy_reply_ok_msg(m))
         /\ build_buy_reply_ok_msg(m).code = "BUY_OK"
         /\ MensajeBien(S, build_buy_reply_err_msg(m))
         /\ build_buy_reply_err_msg(m).code = "BUY_ERR"
<1>1. m \in Mensaje
  BY DEF MensajeBien
<1>2. m.code = "LOOKUP" => MensajeBien(S, add_nodo(less_hopcount(m), n))
  <2> DEFINE a == add_nodo(less_hopcount(m), n)
  <2>1. ASSUME m.code = "LOOKUP"
        PROVE  MensajeBien(S, a)
    <3>1. a \in Mensaje
      <4>1. less_hopcount(m) \in Mensaje
        BY <1>1 DEF Mensaje, less_hopcount
      <4>2. Append(less_hopcount(m).nodos, n) \in Seq(Node)
        BY <4>1 DEF Mensaje
      <4> QED
        BY <4>1, <4>2 DEF Mensaje, add_nodo
    <3>2. m.nodos \in Seq(Node) /\ m.nodos # <<>>
      BY <1>1, <2>1 DEF Mensaje, MensajeBien
    <3>3. Append(m.nodos, n) # <<>> /\ Append(m.nodos, n)[1] = m.nodos[1]
      BY <3>2
    <3>4. /\ a.ts = m.ts /\ a.code = m.code /\ a.producto = m.producto
          /\ a.nodos = Append(m.nodos, n)
      BY <1>1 DEF Mensaje, add_nodo, less_hopcount
    <3> QED
      BY <2>1, <3>1, <3>3, <3>4 DEF MensajeBien
  <2> QED
    BY <2>1
<1>3. add_nodo(less_hopcount(m), n).code = m.code /\ less_nodo(m).code = m.code
  BY <1>1 DEF Mensaje, add_nodo, less_hopcount, less_nodo
<1>4. /\ build_reply_msg(m, n) \in Mensaje /\ build_buy_msg(m) \in Mensaje
      /\ build_buy_reply_ok_msg(m) \in Mensaje /\ build_buy_reply_err_msg(m) \in Mensaje
  <2>1. <<>> \in Seq(Node) /\ -1 \in Int
    OBVIOUS
  <2>2. build_reply_msg(m, n) \in Mensaje
    BY <1>1, <2>1 DEF Mensaje, Codigo, build_reply_msg
  <2>3. build_buy_msg(m) \in Mensaje
    BY <1>1, <2>1 DEF Mensaje, Codigo, build_buy_msg
  <2>4. build_buy_reply_ok_msg(m) \in Mensaje
    BY <1>1, <2>1 DEF Mensaje, Codigo, build_buy_reply_ok_msg
  <2>5. build_buy_reply_err_msg(m) \in Mensaje
    BY <1>1, <2>1 DEF Mensaje, Codigo, build_buy_reply_err_msg
  <2> QED
    BY <2>2, <2>3, <2>4, <2>5
<1>5. ASSUME m.code = "LOOKUP", n \notin Compradores
      PROVE  MensajeBien(S, build_reply_msg(m, n))
  BY <1>1, <1>4, <1>5 DEF MensajeBien, build_reply_msg, Mensaje
<1>6. ASSUME m.code = "REPLY", Len(m.nodos) > 1
      PROVE  MensajeBien(S, less_nodo(m))
  <2>1. m.nodos \in Seq(Node) /\ Len(m.nodos) > 1
    BY <1>1, <1>6 DEF Mensaje
  <2> DEFINE q == SubSeq(m.nodos, 1, Len(m.nodos) - 1)
  <2>2. q \in Seq(Node) /\ q # <<>> /\ q[1] = m.nodos[1]
    <3>1. /\ Len(m.nodos) \in Nat /\ q \in Seq(Node) /\ Len(q) = Len(m.nodos) - 1
          /\ \A i \in 1..(Len(m.nodos) - 1) : q[i] = m.nodos[i]
      BY <2>1
    <3> HIDE DEF q
    <3> QED
      BY <2>1, <3>1
  <2> HIDE DEF q
  <2>3. less_nodo(m) = [m EXCEPT !.nodos = q]
    BY DEF less_nodo, q
  <2>4. less_nodo(m) \in Mensaje
    BY <1>1, <2>2, <2>3 DEF Mensaje
  <2>5. /\ less_nodo(m).nodos = q /\ less_nodo(m).code = "REPLY"
        /\ less_nodo(m).ts = m.ts /\ less_nodo(m).vendedor = m.vendedor
    BY <1>1, <1>6, <2>3 DEF Mensaje
  <2> QED
    BY <1>6, <2>2, <2>4, <2>5 DEF MensajeBien
<1>7. ASSUME m.code = "REPLY"
      PROVE  MensajeBien(S, build_buy_msg(m))
  BY <1>1, <1>4, <1>7 DEF MensajeBien, build_buy_msg, Mensaje
<1>8. /\ MensajeBien(S, build_buy_reply_ok_msg(m))
      /\ MensajeBien(S, build_buy_reply_err_msg(m))
  BY <1>1, <1>4 DEF MensajeBien, build_buy_reply_ok_msg, build_buy_reply_err_msg, Mensaje
<1>9. /\ build_reply_msg(m, n).code = "REPLY" /\ build_buy_msg(m).code = "BUY"
      /\ build_buy_reply_ok_msg(m).code = "BUY_OK"
      /\ build_buy_reply_err_msg(m).code = "BUY_ERR"
  BY <1>1 DEF Mensaje, build_reply_msg, build_buy_msg, build_buy_reply_ok_msg,
              build_buy_reply_err_msg
<1> QED
  BY <1>2, <1>3, <1>5, <1>6, <1>7, <1>8, <1>9

LEMMA LoadBien ==
  ASSUME NEW S, NEW n, NEW p, MensajeEn(S, n, p), NEW m \in Load(p)
  PROVE  MensajeEn(S, n, m)
<1>1. p \in Mensaje
  BY DEF MensajeEn, MensajeBien
<1>2. PICK c \in Leido(p.cantidad), h \in Leido(p.hopcount) : m = Lectura(p, c, h)
  BY DEF Load
<1>3. c \in Int /\ h \in Int
  BY <1>1, <1>2, MensajesAssumption DEF Leido, Mensaje
<1>4. m \in Mensaje
  BY <1>1, <1>2, <1>3 DEF Lectura, Mensaje
<1>5. /\ m.code = p.code /\ m.producto = p.producto /\ m.vendedor = p.vendedor
      /\ m.ts = p.ts /\ m.nodos = p.nodos
  BY <1>1, <1>2 DEF Lectura, Mensaje
<1> QED
  BY <1>4, <1>5 DEF MensajeEn, MensajeBien

-----------------------------------------------------------------------------
(* The Logic of node n.                                                    *)
LEMMA PedidosCrecen ==
  ASSUME Cuentas, NEW n \in Node, UNCHANGED vivo,
         UNCHANGED mapaPedidos \/ \E ts, x : setEstadoPedido(n, ts, x)
  PROVE  /\ Conocidos \subseteq Conocidos'
         /\ mapaPedidos' = [m \in Node |-> mapaPedidos'[m]]
         /\ \A ts, x : setEstadoPedido(n, ts, x) => ts \in DOMAIN mapaPedidos'[n]
<1>1. CASE UNCHANGED mapaPedidos /\ ~\E ts, x : setEstadoPedido(n, ts, x)
  BY <1>1 DEF Conocidos, Cuentas
<1>2. ASSUME NEW t, NEW e, setEstadoPedido(n, t, e)
      PROVE  /\ \A b \in Node : DOMAIN mapaPedidos[b] \subseteq DOMAIN mapaPedidos'[b]
             /\ mapaPedidos' = [m \in Node |-> mapaPedidos'[m]]
             /\ t \in DOMAIN mapaPedidos'[n]
  <2>1. /\ mapaPedidos'[n] = Pon(mapaPedidos[n], t, e)
        /\ \A b \in Node : b # n => mapaPedidos'[b] = mapaPedidos[b]
        /\ mapaPedidos' = [m \in Node |-> mapaPedidos'[m]]
    BY <1>2 DEF setEstadoPedido, Cuentas
  <2>2. DOMAIN Pon(mapaPedidos[n], t, e) = DOMAIN mapaPedidos[n] \cup {t}
    BY DEF Pon
  <2> QED
    BY <2>1, <2>2
<1>3. CASE \E ts, x : setEstadoPedido(n, ts, x)
  <2>1. \A b \in Node : DOMAIN mapaPedidos[b] \subseteq DOMAIN mapaPedidos'[b]
    BY <1>2, <1>3
  <2>2. Conocidos \subseteq Conocidos'
    BY <2>1 DEF Conocidos, Compradores
  <2> QED
    BY <1>2, <1>3, <2>2
<1> QED
  BY <1>1, <1>3

LEMMA AtendidoBien ==
  ASSUME Tipos, Apagados, NEW n \in Node, Logico(n), logicEvents[n] # <<>>,
         Conocidos \subseteq Conocidos', UNCHANGED <<compro, vendo>>
  PROVE  /\ LogicaBien(Conocidos, n, Head(logicEvents[n]))
         /\ Hecho(n) => Logico(n)'
         /\ \A id, m : HechoYPostea(n, id, m)
                         /\ LogicaBien(Conocidos, n, [id |-> id, tag |-> m]) => Logico(n)'
<1> DEFINE q == logicEvents[n]
           t == Tail(q)
<1>1. EsSeq(q) /\ q # <<>> /\ \A i \in DOMAIN q : LogicaBien(Conocidos, n, q[i])
  BY DEF Logico
<1>2. LogicaBien(Conocidos, n, Head(q))
  <2> HIDE DEF q
  <2> QED
    BY <1>1, SeqTail
<1>3. EsSeq(t) /\ \A i \in DOMAIN t : LogicaBien(Conocidos, n, t[i])
  <2> HIDE DEF q
  <2> QED
    BY <1>1, SeqTail
<1>4. \A ev : LogicaBien(Conocidos, n, ev) => LogicaBien(Conocidos', n, ev)
  BY MensajeCrece
<1>5. logicEvents = [m \in Node |-> logicEvents[m]]
  BY DEF Apagados
<1> HIDE DEF t
<1>6. ASSUME Hecho(n)
      PROVE  Logico(n)'
  <2>1. logicEvents'[n] = t
    BY <1>5, <1>6 DEF Hecho, t
  <2> QED
    BY <1>3, <1>4, <2>1 DEF Logico
<1>7. ASSUME NEW id, NEW m, HechoYPostea(n, id, m),
             LogicaBien(Conocidos, n, [id |-> id, tag |-> m])
      PROVE  Logico(n)'
  <2> DEFINE ev == [id |-> id, tag |-> m]
  <2>1. logicEvents'[n] = Append(t, ev)
    BY <1>5, <1>7 DEF HechoYPostea, t
  <2>2. LogicaBien(Conocidos', n, ev)
    BY <1>4, <1>7
  <2> HIDE DEF ev
  <2>3. EsSeq(Append(t, ev)) /\ \A i \in DOMAIN Append(t, ev) :
          LogicaBien(Conocidos', n, Append(t, ev)[i])
    <3>1. /\ EsSeq(Append(t, ev)) /\ Len(t) \in Nat /\ DOMAIN t = 1..Len(t)
          /\ DOMAIN Append(t, ev) = 1..(Len(t) + 1)
          /\ \A i \in DOMAIN t : Append(t, ev)[i] = t[i]
          /\ Append(t, ev)[Len(t) + 1] = ev
      BY <1>3, SeqAppend
    <3>2. \A i \in 1..(Len(t) + 1) : i \in 1..Len(t) \/ i = Len(t) + 1
      BY <3>1
    <3> QED
      BY <1>3, <1>4, <2>2, <3>1, <3>2
  <2> QED
    BY <2>1, <2>3 DEF Logico
<1> QED
  BY <1>2, <1>6, <1>7

(* What a step of Logic leaves: what it posts to the Router is in order.   *)
Postea(n) ==
  \/ UNCHANGED routerEvents
  \/ \E id, m : /\ PosteaRouter(n, id, m)
                /\ \A P : AvisoBien(Conocidos', n, P, [id |-> id, tag |-> m])

LogicoPasa(n) == Cuentas' /\ Conocidos \subseteq Conocidos' /\ Logico(n)' /\ Postea(n)

LEMMA PosteaBien ==
  ASSUME NEW n \in Node, NEW id \in RouterId, NEW m, MensajeBien(Conocidos', m),
         PosteaRouter(n, id, m),
         id \in {"RT_FIRST_BROADCAST", "RT_BROADCAST"} => m.code = "LOOKUP",
         id = "RT_SEND_TO_SOCKET" => m.code = "REPLY",
         id = "RT_SEND_TO_P2P_SOCKET" =>
           n \notin Compradores /\ m.code \in {"BUY_OK", "BUY_ERR"},
         id = "RT_START_P2P_CONNECT" => n \in Compradores /\ m.code = "BUY",
         id = "RT_CLOSE_P2P_CONNECT" => n \in Compradores
  PROVE  Postea(n)
<1> DEFINE ev == [id |-> id, tag |-> m]
<1>1. ASSUME NEW P
      PROVE  AvisoBien(Conocidos', n, P, ev)
  <2>1. ev.id = id /\ ev.tag = m /\ id # "RT_SET_SOCKET_P2P"
    BY DEF RouterId
  <2> HIDE DEF ev
  <2> QED
    BY <2>1 DEF AvisoBien
<1> QED
  BY <1>1 DEF Postea

LEMMA LogicaOrdena ==
  ASSUME Tipos, Apagados, NEW n \in Node, Cuentas, Logico(n),
         UNCHANGED <<vivo, cuenta>>
  PROVE  /\ ~set_stock_product(n) /\ ~set_cur_prod_compra(n) /\ ~set_cur_prod_venta(n)
         /\ on_send_look_up(n) => LogicoPasa(n)
<1>1. ASSUME NEW id \in {"SET_STOCK", "SET_CUR_PROD_COMPRA", "SET_CUR_PROD_VENTA"},
             Atiende(n, id)
      PROVE  FALSE
  <2>1. logicEvents[n] # <<>> /\ EsSeq(logicEvents[n]) /\ Head(logicEvents[n]).id = id
    BY <1>1 DEF Atiende, Logico
  <2>2. LogicaBien(Conocidos, n, Head(logicEvents[n]))
    BY <2>1, SeqTail DEF Logico
  <2> QED
    BY <2>1, <2>2 DEF LogicaBien, MensajeId
<1>2. ASSUME on_send_look_up(n)
      PROVE  LogicoPasa(n)
  <2> DEFINE c == Head(logicEvents[n]).cantidad
             b == build_look_up_msg(compro[n], c, reloj)
             m == add_nodo(b, n)
  <2>1. /\ logicEvents[n] # <<>> /\ Head(logicEvents[n]).id = "DO_LOOKUP"
        /\ PosteaRouter(n, "RT_FIRST_BROADCAST", m)
        /\ setEstadoPedido(n, reloj, "LOOKUP_ENVIADO")
        /\ reloj' = reloj + 1 /\ Hecho(n)
        /\ UNCHANGED <<mapa_stock, compro, vendo, vivo, cuenta>>
    BY <1>2 DEF on_send_look_up, Atiende
  <2>2. /\ Conocidos \subseteq Conocidos'
        /\ mapaPedidos' = [x \in Node |-> mapaPedidos'[x]]
        /\ reloj \in DOMAIN mapaPedidos'[n]
    BY <2>1, PedidosCrecen
  <2>3. Logico(n)' /\ LogicaBien(Conocidos, n, Head(logicEvents[n]))
    BY <2>1, <2>2, AtendidoBien
  <2>4. n \in Compradores /\ c \in Int
    BY <2>1, <2>3 DEF LogicaBien
  <2>5. reloj \in Conocidos'
    <3>1. \A x \in Compradores : UnComprador => x = n
      BY <2>4 DEF UnComprador
    <3> QED
      BY <2>2, <3>1 DEF Conocidos, Cuentas, UnComprador, Compradores
  <2>6. compro[n] = Config[n].compra /\ compro[n] \in Nombre
    BY LogicAssumption DEF Logico
  <2>7. b \in Mensaje /\ b.nodos = <<>> /\ b.code = "LOOKUP" /\ b.ts = reloj
        /\ b.producto = compro[n]
    <3>1. <<>> \in Seq(Node) /\ Hopcount \in Int /\ reloj \in Nat
      BY MensajesAssumption DEF Cuentas
    <3> HIDE DEF c
    <3> QED
      BY <2>4, <2>6, <3>1 DEF build_look_up_msg, Mensaje, Codigo
  <2> HIDE DEF b
  <2>8. /\ m \in Mensaje /\ m.nodos = <<n>> /\ m.code = "LOOKUP" /\ m.ts = reloj
        /\ m.producto = compro[n]
    <3>1. Append(b.nodos, n) \in Seq(Node) /\ Append(b.nodos, n) = <<n>>
      BY <2>7
    <3> QED
      BY <2>7, <3>1 DEF add_nodo, Mensaje
  <2> HIDE DEF m
  <2>9. MensajeBien(Conocidos', m)
    BY <2>4, <2>5, <2>6, <2>8 DEF MensajeBien, Buscados
  <2>10. Postea(n)
    BY <2>1, <2>8, <2>9, PosteaBien DEF RouterId
  <2>11. Cuentas'
    BY <2>1, <2>2 DEF Cuentas
  <2> QED
    BY <2>2, <2>3, <2>10, <2>11 DEF LogicoPasa
<1> QED
  BY <1>1, <1>2 DEF set_stock_product, set_cur_prod_compra, set_cur_prod_venta

LEMMA LogicaEnvia ==
  ASSUME Tipos, Apagados, NEW n \in Node, Cuentas, Logico(n),
         UNCHANGED <<vivo, cuenta>>
  PROVE  /\ on_send_look_up_forward(n) => LogicoPasa(n)
         /\ on_send_replay(n) => LogicoPasa(n)
         /\ on_send_replay_forward(n) => LogicoPasa(n)
         /\ on_send_buy(n) => LogicoPasa(n)
         /\ on_send_buy_reply_ok(n) => LogicoPasa(n)
         /\ on_send_buy_reply_err(n) => LogicoPasa(n)
<1> DEFINE m == Head(logicEvents[n]).tag
<1>1. ASSUME NEW id \in MensajeId, Atiende(n, id), Hecho(n),
             UNCHANGED <<mapa_stock, compro, vendo, mapaPedidos, reloj>>
      PROVE  /\ Cuentas' /\ Conocidos \subseteq Conocidos' /\ Logico(n)'
             /\ MensajeEn(Conocidos', n, m) /\ LogicaBien(Conocidos, n, Head(logicEvents[n]))
             /\ Head(logicEvents[n]).id = id
  <2>1. Conocidos \subseteq Conocidos'
    BY <1>1, PedidosCrecen
  <2>2. logicEvents[n] # <<>> /\ Head(logicEvents[n]).id = id
    BY <1>1 DEF Atiende
  <2>3. Logico(n)' /\ LogicaBien(Conocidos, n, Head(logicEvents[n]))
    BY <1>1, <2>1, <2>2, AtendidoBien
  <2>4. MensajeEn(Conocidos', n, m)
    BY <2>1, <2>2, <2>3, MensajeCrece DEF LogicaBien
  <2>5. Cuentas'
    BY <1>1 DEF Cuentas
  <2> QED
    BY <2>1, <2>2, <2>3, <2>4, <2>5
<1>2. MensajeEn(Conocidos', n, m) => MensajeBien(Conocidos', m)
  BY DEF MensajeEn
<1> HIDE DEF m
<1>3. ASSUME on_send_look_up_forward(n)
      PROVE  LogicoPasa(n)
  <2>1. /\ Atiende(n, "DO_LOOKUP_FORWARD") /\ Hecho(n)
        /\ UNCHANGED <<mapa_stock, compro, vendo, mapaPedidos, reloj>>
        /\ \/ PosteaRouter(n, "RT_BROADCAST", add_nodo(less_hopcount(m), n))
           \/ UNCHANGED routerEvents
    BY <1>3 DEF on_send_look_up_forward, m
  <2>2. /\ Cuentas' /\ Conocidos \subseteq Conocidos' /\ Logico(n)'
        /\ MensajeBien(Conocidos', m) /\ m.code = "LOOKUP"
    BY <1>1, <1>2, <2>1 DEF MensajeId, LogicaBien, m
  <2>3. /\ MensajeBien(Conocidos', add_nodo(less_hopcount(m), n))
        /\ add_nodo(less_hopcount(m), n).code = "LOOKUP"
    BY <2>2, MensajesBien
  <2>4. Postea(n)
    <3>1. CASE UNCHANGED routerEvents
      BY <3>1 DEF Postea
    <3>2. CASE PosteaRouter(n, "RT_BROADCAST", add_nodo(less_hopcount(m), n))
      BY <2>3, <3>2, PosteaBien DEF RouterId
    <3> QED
      BY <2>1, <3>1, <3>2
  <2> QED
    BY <2>2, <2>4 DEF LogicoPasa
<1>4. ASSUME on_send_replay(n)
      PROVE  LogicoPasa(n)
  <2>1. /\ Atiende(n, "DO_REPLY") /\ Hecho(n)
        /\ UNCHANGED <<mapa_stock, compro, vendo, mapaPedidos, reloj>>
        /\ PosteaRouter(n, "RT_SEND_TO_SOCKET", build_reply_msg(m, n))
    BY <1>4 DEF on_send_replay, m
  <2>2. /\ Cuentas' /\ Conocidos \subseteq Conocidos' /\ Logico(n)'
        /\ MensajeBien(Conocidos', m) /\ m.code = "LOOKUP" /\ n \notin Compradores
    BY <1>1, <1>2, <2>1 DEF MensajeId, LogicaBien, m
  <2>3. /\ MensajeBien(Conocidos', build_reply_msg(m, n))
        /\ build_reply_msg(m, n).code = "REPLY"
    BY <2>2, MensajesBien
  <2>4. Postea(n)
    BY <2>1, <2>3, PosteaBien DEF RouterId
  <2> QED
    BY <2>2, <2>4 DEF LogicoPasa
<1>5. ASSUME on_send_replay_forward(n)
      PROVE  LogicoPasa(n)
  <2>1. /\ Atiende(n, "DO_REPLY_FORWARD") /\ Hecho(n)
        /\ UNCHANGED <<mapa_stock, compro, vendo, mapaPedidos, reloj>>
        /\ PosteaRouter(n, "RT_SEND_TO_SOCKET", less_nodo(m))
    BY <1>5 DEF on_send_replay_forward, m
  <2>2. /\ Cuentas' /\ Conocidos \subseteq Conocidos' /\ Logico(n)'
        /\ MensajeBien(Conocidos', m) /\ m.code = "REPLY" /\ Len(m.nodos) > 1
    BY <1>1, <1>2, <2>1 DEF MensajeId, LogicaBien, m
  <2>3. MensajeBien(Conocidos', less_nodo(m)) /\ less_nodo(m).code = "REPLY"
    <3>1. /\ m.code = "REPLY" /\ Len(m.nodos) > 1 => MensajeBien(Conocidos', less_nodo(m))
          /\ less_nodo(m).code = m.code
      <4>1. MensajeBien(Conocidos', m)
        BY <2>2
      <4> QED
        BY <4>1, MensajesBien
    <3> QED
      BY <2>2, <3>1
  <2>4. Postea(n)
    BY <2>1, <2>3, PosteaBien DEF RouterId
  <2> QED
    BY <2>2, <2>4 DEF LogicoPasa
<1>6. ASSUME on_send_buy(n)
      PROVE  LogicoPasa(n)
  <2>1. /\ Atiende(n, "DO_BUY") /\ Hecho(n)
        /\ UNCHANGED <<mapa_stock, compro, vendo, mapaPedidos, reloj>>
        /\ PosteaRouter(n, "RT_START_P2P_CONNECT", build_buy_msg(m))
    BY <1>6 DEF on_send_buy, m
  <2>2. /\ Cuentas' /\ Conocidos \subseteq Conocidos' /\ Logico(n)'
        /\ MensajeBien(Conocidos', m) /\ m.code = "REPLY" /\ n \in Compradores
    BY <1>1, <1>2, <2>1 DEF MensajeId, LogicaBien, m
  <2>3. MensajeBien(Conocidos', build_buy_msg(m)) /\ build_buy_msg(m).code = "BUY"
    BY <2>2, MensajesBien
  <2>4. Postea(n)
    BY <2>1, <2>2, <2>3, PosteaBien DEF RouterId
  <2> QED
    BY <2>2, <2>4 DEF LogicoPasa
<1>7. ASSUME on_send_buy_reply_ok(n)
      PROVE  LogicoPasa(n)
  <2>1. /\ Atiende(n, "DO_BUY_REPLY_OK") /\ Hecho(n)
        /\ UNCHANGED <<mapa_stock, compro, vendo, mapaPedidos, reloj>>
        /\ PosteaRouter(n, "RT_SEND_TO_P2P_SOCKET", build_buy_reply_ok_msg(m))
    BY <1>7 DEF on_send_buy_reply_ok, m
  <2>2. /\ Cuentas' /\ Conocidos \subseteq Conocidos' /\ Logico(n)'
        /\ MensajeBien(Conocidos', m) /\ n \notin Compradores
    BY <1>1, <1>2, <2>1 DEF MensajeId, LogicaBien, MensajeEn, m
  <2>3. /\ MensajeBien(Conocidos', build_buy_reply_ok_msg(m))
        /\ build_buy_reply_ok_msg(m).code = "BUY_OK"
    BY <2>2, MensajesBien
  <2>4. Postea(n)
    BY <2>1, <2>2, <2>3, PosteaBien DEF RouterId
  <2> QED
    BY <2>2, <2>4 DEF LogicoPasa
<1>8. ASSUME on_send_buy_reply_err(n)
      PROVE  LogicoPasa(n)
  <2>1. /\ Atiende(n, "DO_BUY_REPLY_ERR") /\ Hecho(n)
        /\ UNCHANGED <<mapa_stock, compro, vendo, mapaPedidos, reloj>>
        /\ PosteaRouter(n, "RT_SEND_TO_P2P_SOCKET", build_buy_reply_err_msg(m))
    BY <1>8 DEF on_send_buy_reply_err, m
  <2>2. /\ Cuentas' /\ Conocidos \subseteq Conocidos' /\ Logico(n)'
        /\ MensajeBien(Conocidos', m) /\ n \notin Compradores
    BY <1>1, <1>2, <2>1 DEF MensajeId, LogicaBien, MensajeEn, m
  <2>3. /\ MensajeBien(Conocidos', build_buy_reply_err_msg(m))
        /\ build_buy_reply_err_msg(m).code = "BUY_ERR"
    BY <2>2, MensajesBien
  <2>4. Postea(n)
    BY <2>1, <2>2, <2>3, PosteaBien DEF RouterId
  <2> QED
    BY <2>2, <2>4 DEF LogicoPasa
<1> QED
  BY <1>3, <1>4, <1>5, <1>6, <1>7, <1>8

LEMMA LogicaRecibe ==
  ASSUME SinMezcla, Tipos, Apagados, NEW n \in Node, Cuentas, Logico(n),
         UNCHANGED <<vivo, cuenta>>, on_client_msg(n)
  PROVE  LogicoPasa(n)
<1>1. PICK m \in Load(Head(logicEvents[n]).tag) :
        \/ m.code = "LOOKUP"  /\ on_receive_look_up(n, m)
        \/ m.code = "REPLY"   /\ on_receive_replay(n, m)
        \/ m.code = "BUY"     /\ on_receive_buy(n, m)
        \/ m.code = "BUY_OK"  /\ on_receive_buy_reply_ok(n, m)
        \/ m.code = "BUY_ERR" /\ on_receive_buy_reply_err(n, m)
  BY DEF on_client_msg
<1>2. /\ logicEvents[n] # <<>> /\ Head(logicEvents[n]).id = "CLIENT_MSG"
      /\ UNCHANGED <<compro, vendo, reloj>>
  BY DEF on_client_msg, Atiende
<1>3. LogicaBien(Conocidos, n, Head(logicEvents[n]))
  BY <1>2, SeqTail DEF Logico
<1>4. MensajeEn(Conocidos, n, m)
  BY <1>1, <1>2, <1>3, LoadBien DEF LogicaBien, MensajeId
<1>5. ASSUME mapaPedidos' = mapaPedidos \/ \E ts, x : setEstadoPedido(n, ts, x),
             mapa_stock' = mapa_stock \/ \E p, c : set_stock(n, p, c),
             \/ Hecho(n)
             \/ \E id : /\ HechoYPostea(n, id, m)
                        /\ LogicaBien(Conocidos, n, [id |-> id, tag |-> m])
      PROVE  Cuentas' /\ Conocidos \subseteq Conocidos' /\ Logico(n)'
             /\ MensajeEn(Conocidos', n, m)
  <2>1. /\ Conocidos \subseteq Conocidos'
        /\ mapaPedidos' = [x \in Node |-> mapaPedidos'[x]]
    BY <1>5, PedidosCrecen
  <2>2. Logico(n)'
    BY <1>2, <1>5, <2>1, AtendidoBien
  <2>3. mapa_stock' = [x \in Node |-> mapa_stock'[x]]
    BY <1>5 DEF set_stock, Cuentas
  <2>4. Cuentas'
    BY <1>2, <2>1, <2>3 DEF Cuentas
  <2> QED
    BY <1>4, <2>1, <2>2, <2>4, MensajeCrece
<1>6. ASSUME NEW id \in MensajeId,
             id \in {"DO_REPLY", "DO_LOOKUP_FORWARD"} => m.code = "LOOKUP",
             id = "DO_REPLY" => n \notin Compradores,
             id = "DO_REPLY_FORWARD" => m.code = "REPLY" /\ Len(m.nodos) > 1,
             id = "DO_BUY" => m.code = "REPLY" /\ n \in Compradores,
             id \in {"DO_BUY_REPLY_OK", "DO_BUY_REPLY_ERR"} => m.code = "BUY"
      PROVE  LogicaBien(Conocidos, n, [id |-> id, tag |-> m])
  <2> DEFINE ev == [id |-> id, tag |-> m]
  <2>1. ev.id = id /\ ev.tag = m /\ id # "DO_LOOKUP"
    BY DEF MensajeId
  <2> HIDE DEF ev
  <2> QED
    BY <1>4, <1>6, <2>1 DEF LogicaBien
<1>7. CASE m.code = "LOOKUP"  /\ on_receive_look_up(n, m)
  <2>1. PICK id \in {"DO_REPLY", "DO_LOOKUP_FORWARD"} :
          /\ HechoYPostea(n, id, m)
          /\ id = "DO_REPLY" => m.producto = vendo[n]
    BY <1>7 DEF on_receive_look_up
  <2>2. UNCHANGED <<routerEvents, mapa_stock, mapaPedidos>>
    BY <1>7 DEF on_receive_look_up
  <2>3. m.producto = vendo[n] => n \notin Compradores
    <3>1. m.producto \in Buscados /\ vendo[n] = Config[n].venta
      BY <1>4, <1>7 DEF MensajeEn, MensajeBien, Logico
    <3> QED
      BY <3>1 DEF Buscados, SinMezcla
  <2>4. LogicaBien(Conocidos, n, [id |-> id, tag |-> m])
    BY <1>6, <1>7, <2>1, <2>3 DEF MensajeId
  <2> QED
    BY <1>5, <2>1, <2>2, <2>4 DEF LogicoPasa, Postea
<1>8. CASE m.code = "REPLY" /\ on_receive_replay(n, m)
  <2>1. UNCHANGED <<routerEvents, mapa_stock>>
    BY <1>8 DEF on_receive_replay
  <2>2. \/ /\ HechoYPostea(n, "DO_REPLY_FORWARD", m) /\ Len(m.nodos) > 1
           /\ UNCHANGED mapaPedidos
        \/ /\ HechoYPostea(n, "DO_BUY", m) /\ get_next_node_name(m) = n
           /\ Len(m.nodos) <= 1
           /\ setEstadoPedido(n, m.ts, "REPLY_RECIBIDO")
        \/ Hecho(n) /\ UNCHANGED mapaPedidos
    BY <1>8 DEF on_receive_replay
  <2>3. m.nodos \in Seq(Node) /\ m.nodos # <<>> /\ m.nodos[1] \in Compradores
    BY <1>4, <1>8 DEF MensajeEn, MensajeBien, Mensaje
  <2>4. get_next_node_name(m) = n /\ Len(m.nodos) <= 1 => n \in Compradores
    <3>1. Len(m.nodos) <= 1 => Len(m.nodos) = 1
      <4> DEFINE q == m.nodos
      <4>1. q \in Seq(Node) /\ q # <<>>
        BY <2>3
      <4> HIDE DEF q
      <4>2. Len(q) <= 1 => Len(q) = 1
        <5>1. Len(q) \in Nat /\ Len(q) # 0
          BY <4>1
        <5> HIDE DEF q
        <5>2. \A x \in Nat : x # 0 /\ x <= 1 => x = 1
          OBVIOUS
        <5> QED
          BY <5>1, <5>2
      <4> QED
        BY <4>2 DEF q
    <3> QED
      BY <2>3, <3>1 DEF get_next_node_name
  <2>5. /\ Len(m.nodos) > 1 => LogicaBien(Conocidos, n, [id |-> "DO_REPLY_FORWARD", tag |-> m])
        /\ n \in Compradores => LogicaBien(Conocidos, n, [id |-> "DO_BUY", tag |-> m])
    BY <1>6, <1>8 DEF MensajeId
  <2> QED
    BY <1>5, <2>1, <2>2, <2>4, <2>5 DEF LogicoPasa, Postea
<1>9. CASE m.code = "BUY" /\ on_receive_buy(n, m)
  <2>1. PICK id \in {"DO_BUY_REPLY_OK", "DO_BUY_REPLY_ERR"} : HechoYPostea(n, id, m)
    BY <1>9 DEF on_receive_buy
  <2>2. /\ UNCHANGED <<routerEvents, mapaPedidos>>
        /\ mapa_stock' = mapa_stock \/ \E p, c : set_stock(n, p, c)
    BY <1>9 DEF on_receive_buy, decrement_stock
  <2>3. LogicaBien(Conocidos, n, [id |-> id, tag |-> m])
    BY <1>6, <1>9, <2>1 DEF MensajeId
  <2> QED
    BY <1>5, <2>1, <2>2, <2>3 DEF LogicoPasa, Postea
<1>10. CASE \/ m.code = "BUY_OK"  /\ on_receive_buy_reply_ok(n, m)
            \/ m.code = "BUY_ERR" /\ on_receive_buy_reply_err(n, m)
  <2>1. /\ UNCHANGED mapaPedidos /\ Hecho(n)
        /\ PosteaRouter(n, "RT_CLOSE_P2P_CONNECT", m)
        /\ mapa_stock' = mapa_stock \/ \E p, c : set_stock(n, p, c)
    BY <1>10 DEF on_receive_buy_reply_ok, on_receive_buy_reply_err, increment_stock
  <2>2. n \in Compradores
    BY <1>4, <1>10 DEF MensajeEn
  <2>3. Cuentas' /\ Conocidos \subseteq Conocidos' /\ Logico(n)' /\ MensajeEn(Conocidos', n, m)
    BY <1>5, <2>1
  <2>4. Postea(n)
    BY <2>1, <2>2, <2>3, PosteaBien DEF RouterId, MensajeEn
  <2> QED
    BY <2>3, <2>4 DEF LogicoPasa
<1> QED
  BY <1>1, <1>7, <1>8, <1>9, <1>10

LEMMA LogicaBienPasa ==
  ASSUME SinMezcla, Tipos, Apagados, NEW n \in Node, Cuentas, Logico(n), Logica(n)
  PROVE  LogicoPasa(n)
  BY LogicaOrdena, LogicaEnvia, LogicaRecibe DEF Logica, LogicStep

-----------------------------------------------------------------------------
(* A step of node n, from what it does at n and to the sockets.            *)
LEMMA NodosSiguen ==
  ASSUME Negocios, NEW n \in Node, UNCHANGED Ele, Conocidos \subseteq Conocidos',
         \A m \in Node : m # n =>
           /\ router'[m] = router[m] /\ listener'[m] = listener[m]
           /\ logicEvents'[m] = logicEvents[m] /\ routerEvents'[m] = routerEvents[m]
           /\ compro'[m] = compro[m] /\ vendo'[m] = vendo[m] /\ vivo'[m] = vivo[m],
         Sigue(tcp, tcp', Ele, n), NEW m \in Node, m # n
  PROVE  Nodo(m)'
<1> DEFINE P == Directos(tcp, Ele, m)
           Q == Directos(tcp', Ele, m)
<1>1. P \subseteq Q
  BY DirectosCrecen
<1>2. /\ Logico(m) /\ Avisado(m) /\ RouterBien(m, P, router[m])
      /\ ListenerBien(tcp, m, P, listener[m])
      /\ ~vivo[m] => Abiertos(tcp, m) = {}
  BY DEF Negocios, Nodo
<1>3. /\ Abiertos(tcp', m) = Abiertos(tcp, m)
      /\ ListenerBien(tcp', m, Q, listener[m])
  <2> HIDE DEF P, Q
  <2> QED
    BY <1>1, <1>2, OtrosSiguen DEF Negocios, Red
<1> HIDE DEF P, Q
<1>4. Logico(m)'
  <2>1. \A ev : LogicaBien(Conocidos, m, ev) => LogicaBien(Conocidos', m, ev)
    BY MensajeCrece
  <2> QED
    BY <1>2, <2>1 DEF Logico
<1>5. /\ \A ev : AvisoBien(Conocidos, m, P, ev) => AvisoBien(Conocidos', m, Q, ev)
      /\ \A r : RouterBien(m, P, r) => RouterBien(m, Q, r)
  BY <1>1, AvisoCrece
<1>6. Q = Directos(tcp, Ele, m)'
  BY DEF Q
<1>7. Avisado(m)'
  BY <1>2, <1>5, <1>6 DEF Avisado, P
<1> QED
  BY <1>2, <1>3, <1>4, <1>5, <1>6, <1>7 DEF Nodo

LEMMA Compone ==
  ASSUME Tipos, Apagados, Negocios, NEW n \in Node, Solo(n), Cuentas',
         UNCHANGED <<vivo, compro, vendo>>, UNCHANGED Ele, Conocidos \subseteq Conocidos',
         RedBien(Conocidos, vivo, Ele, tcp'), Sigue(tcp, tcp', Ele, n), Nodo(n)'
  PROVE  Negocios'
<1>1. \A m \in Node : m # n =>
        /\ router'[m] = router[m] /\ listener'[m] = listener[m]
        /\ logicEvents'[m] = logicEvents[m] /\ routerEvents'[m] = routerEvents[m]
        /\ compro'[m] = compro[m] /\ vendo'[m] = vendo[m] /\ vivo'[m] = vivo[m]
  BY DEF Solo
<1>2. \A m \in Node : m # n => Nodo(m)'
  BY <1>1, NodosSiguen
<1>3. Red'
  <2>1. RedBien(Conocidos', vivo, Ele, tcp')
    BY RedCrece
  <2> QED
    BY <2>1 DEF Red
<1> QED
  BY <1>2, <1>3 DEF Negocios

MismaCuenta ==
  /\ DOMAIN cuenta \subseteq DOMAIN cuenta'
  /\ cuenta'.escena = cuenta.escena /\ cuenta'.pedidos = cuenta.pedidos
  /\ cuenta'.arranques = cuenta.arranques /\ cuenta'.reconexiones = cuenta.reconexiones

LEMMA MuereCompone ==
  ASSUME Tipos, Apagados, Negocios, NEW n \in Node, NEW k, Muere(n, k), MismaCuenta,
         RedBien(Conocidos, vivo, Ele, k), Sigue(tcp, k, Ele, n)
  PROVE  Negocios'
<1>1. /\ vivo' = [vivo EXCEPT ![n] = FALSE] /\ tcp' = CierraTodo(k, n)
      /\ vivo \in [Node -> BOOLEAN]
  BY DEF Muere, Tipos, Banderas
<1>2. /\ RedBien(Conocidos, vivo', Ele, tcp') /\ Sigue(k, tcp', Ele, n)
      /\ Abiertos(tcp', n) = {}
  BY <1>1, CierraTodoBien
<1>3. Sigue(tcp, tcp', Ele, n)
  BY <1>2, SigueTras
<1>4. \A m \in Node : m # n =>
        /\ router'[m] = router[m] /\ listener'[m] = listener[m]
        /\ logicEvents'[m] = logicEvents[m] /\ routerEvents'[m] = routerEvents[m]
        /\ compro'[m] = compro[m] /\ vendo'[m] = vendo[m] /\ vivo'[m] = vivo[m]
        /\ mapaPedidos'[m] = mapaPedidos[m]
  BY DEF Muere
<1>5. UNCHANGED Ele
  BY DEF Ele, MismaCuenta
<1>6. Conocidos \subseteq Conocidos'
  <2>1. \A b \in Compradores : vivo'[b] => vivo[b] /\ mapaPedidos'[b] = mapaPedidos[b]
    BY <1>1, <1>4 DEF Compradores
  <2> QED
    BY <2>1 DEF Conocidos, UnComprador
<1>7. \A m \in Node : m # n => Nodo(m)'
  BY <1>3, <1>4, <1>5, <1>6, NodosSiguen
<1>8. /\ router'[n] = RouterNuevo /\ listener'[n] = ListenerNuevo
      /\ logicEvents'[n] = <<>> /\ routerEvents'[n] = <<>>
      /\ compro'[n] = Config[n].compra /\ vendo'[n] = Config[n].venta
  BY SonFunciones DEF Muere, Negocios, Cuentas, Funciones
<1>9. Nodo(n)'
  <2>1. EsSeq(<<>>) /\ DOMAIN <<>> = {}
    BY SeqCortas
  <2>2. Logico(n)' /\ Avisado(n)'
    BY <1>8, <2>1 DEF Logico, Avisado
  <2>3. SOCK_ERRONEO \in Directos(tcp', Ele', n)
    BY <1>2 DEF Directos, SOCK_ERRONEO
  <2>4. RouterBien(n, Directos(tcp', Ele', n), RouterNuevo)
    BY <2>3 DEF RouterBien, RouterNuevo
  <2>5. ListenerBien(tcp', n, Directos(tcp', Ele', n), ListenerNuevo)
    BY <2>1 DEF ListenerBien, ListenerNuevo, Saludando, Recorriendo
  <2> QED
    BY <1>2, <1>8, <2>2, <2>4, <2>5 DEF Nodo
<1>10. Red'
  <2>1. RedBien(Conocidos', vivo', Ele, tcp')
    BY <1>2, <1>6, RedCrece
  <2> QED
    BY <1>5, <2>1 DEF Red
<1>11. Cuentas'
  BY DEF Cuentas, Negocios, MismaCuenta, Muere
<1> QED
  BY <1>7, <1>9, <1>10, <1>11 DEF Negocios

(* A step that leaves the sockets alone, or only what node n says of it.   *)
LEMMA MisCuentas ==
  ASSUME Negocios, UNCHANGED <<logicPropio, cuenta, vivo>>
  PROVE  /\ Cuentas' /\ UNCHANGED Ele /\ Conocidos' = Conocidos /\ MismaCuenta
         /\ UNCHANGED <<compro, vendo>>
  BY DEF Negocios, Cuentas, Ele, Conocidos, logicPropio, MismaCuenta

LEMMA ElVivo ==
  ASSUME Tipos, NEW n \in Node, Toca(n), UNCHANGED vivo
  PROVE  Solo(n) /\ vivo[n]
<1>1. \A k : ~Muere(n, k)
  BY DEF Muere, Toca, Tipos, Banderas
<1> QED
  BY <1>1 DEF Toca

(* What node n makes of the sockets in a step in which it ends nothing of  *)
(* its own but what it closes.                                             *)
Hasta(n, k) ==
  /\ RedBien(Conocidos, vivo, Ele, k) /\ Sigue(tcp, k, Ele, n)
  /\ PuertoQueda(tcp, k, n)

LEMMA HastaTras ==
  ASSUME NEW n \in Node, NEW k, Hasta(n, k), NEW h,
         RedBien(Conocidos, vivo, Ele, h), Sigue(k, h, Ele, n), PuertoQueda(k, h, n)
  PROVE  Hasta(n, h)
<1>1. Sigue(tcp, h, Ele, n)
  BY SigueTras DEF Hasta
<1>2. PuertoQueda(tcp, h, n)
  BY DEF Hasta, PuertoQueda
<1> QED
  BY <1>1, <1>2 DEF Hasta

LEMMA HastaYa ==
  ASSUME Negocios, NEW n \in Node
  PROVE  Hasta(n, tcp)
  BY SigueIgual DEF Negocios, Red, Hasta, Queda

(* A step of the Router or of the Listener.                                *)
LEMMA PasoBien ==
  ASSUME Tipos, Apagados, Negocios, NEW n \in Node, Toca(n),
         UNCHANGED <<logicPropio, cuenta, vivo>>, Hasta(n, tcp'), Logico(n)',
         Avisado(n)',
         RouterBien(n, Directos(tcp', Ele, n), router'[n]),
         ListenerBien(tcp', n, Directos(tcp', Ele, n), listener'[n])
  PROVE  Negocios'
<1>1. Solo(n) /\ vivo[n]
  BY ElVivo
<1>2. /\ Cuentas' /\ UNCHANGED Ele /\ Conocidos' = Conocidos
      /\ UNCHANGED <<compro, vendo>>
  BY MisCuentas
<1>3. RedBien(Conocidos, vivo, Ele, tcp') /\ Sigue(tcp, tcp', Ele, n)
  BY DEF Hasta
<1>4. Directos(tcp, Ele, n)' = Directos(tcp', Ele, n)
  BY <1>2
<1>5. Nodo(n)'
  BY <1>1, <1>4 DEF Nodo
<1> QED
  BY <1>1, <1>2, <1>3, <1>5, Compone

LEMMA MuereBien ==
  ASSUME Tipos, Apagados, Negocios, NEW n \in Node, NEW k, Muere(n, k),
         UNCHANGED cuenta, Hasta(n, k)
  PROVE  Negocios'
<1>1. MismaCuenta
  BY DEF MismaCuenta
<1> QED
  BY <1>1, MuereCompone DEF Hasta

(* What stays in order when a step leaves it alone.                        *)
LEMMA LogicoQueda ==
  ASSUME Negocios, NEW n \in Node, UNCHANGED <<logicPropio, cuenta, vivo>>,
         logicEvents'[n] = logicEvents[n]
  PROVE  Logico(n)'
<1>1. Conocidos' = Conocidos /\ UNCHANGED <<compro, vendo>>
  BY MisCuentas
<1> QED
  BY <1>1 DEF Negocios, Nodo, Logico

LEMMA AvisadoQueda ==
  ASSUME Tipos, Negocios, NEW n \in Node, UNCHANGED <<logicPropio, cuenta, vivo>>,
         Sigue(tcp, tcp', Ele, n),
         \/ routerEvents'[n] = routerEvents[n]
         \/ routerEvents[n] # <<>> /\ routerEvents'[n] = Tail(routerEvents[n])
         \/ \E ev : /\ routerEvents'[n] = Append(routerEvents[n], ev)
                    /\ AvisoBien(Conocidos, n, Directos(tcp', Ele, n), ev)
  PROVE  Avisado(n)'
<1> DEFINE q == routerEvents[n]
           P == Directos(tcp, Ele, n)
           Q == Directos(tcp', Ele, n)
<1>1. Conocidos' = Conocidos /\ UNCHANGED Ele
  BY MisCuentas
<1>2. P \subseteq Q
  BY DirectosCrecen
<1>3. \A i \in DOMAIN q : AvisoBien(Conocidos, n, P, q[i])
  BY DEF Negocios, Nodo, Avisado
<1> HIDE DEF P, Q
<1>4. \A i \in DOMAIN q : AvisoBien(Conocidos, n, Q, q[i])
  BY <1>2, <1>3, AvisoCrece
<1>5. EsSeq(q)
  BY DEF Tipos, Colas, ColaOK
<1>6. Directos(tcp, Ele, n)' = Q
  BY <1>1 DEF Q
<1> HIDE DEF q
<1>7. \A i \in DOMAIN routerEvents'[n] : AvisoBien(Conocidos, n, Q, routerEvents'[n][i])
  <2>1. CASE routerEvents'[n] = q
    BY <1>4, <2>1
  <2>2. CASE q # <<>> /\ routerEvents'[n] = Tail(q)
    BY <1>4, <1>5, <2>2, SeqTail
  <2>3. ASSUME NEW ev, routerEvents'[n] = Append(q, ev), AvisoBien(Conocidos, n, Q, ev)
        PROVE  \A i \in DOMAIN routerEvents'[n] :
                 AvisoBien(Conocidos, n, Q, routerEvents'[n][i])
    <3>1. /\ Len(q) \in Nat /\ DOMAIN q = 1..Len(q)
          /\ DOMAIN Append(q, ev) = 1..(Len(q) + 1)
          /\ \A i \in DOMAIN q : Append(q, ev)[i] = q[i]
          /\ Append(q, ev)[Len(q) + 1] = ev
      BY <1>5, SeqAppend
    <3>2. \A i \in 1..(Len(q) + 1) : i \in 1..Len(q) \/ i = Len(q) + 1
      BY <3>1
    <3> QED
      BY <1>4, <2>3, <3>1, <3>2
  <2> QED
    BY <2>1, <2>2, <2>3 DEF q, Q
<1> QED
  BY <1>1, <1>6, <1>7 DEF Avisado

LEMMA RouterQueda ==
  ASSUME Negocios, NEW n \in Node, Sigue(tcp, tcp', Ele, n)
  PROVE  \A r : /\ r = router[n] => RouterBien(n, Directos(tcp', Ele, n), r)
                /\ r.paso = "libre" /\ r.p2p = router[n].p2p
                     => RouterBien(n, Directos(tcp', Ele, n), r)
<1> DEFINE P == Directos(tcp, Ele, n)
           Q == Directos(tcp', Ele, n)
<1>1. P \subseteq Q
  BY DirectosCrecen
<1>2. RouterBien(n, P, router[n])
  BY DEF Negocios, Nodo
<1> HIDE DEF P, Q
<1> QED
  BY <1>1, <1>2 DEF RouterBien, Q, Entrando

LEMMA ListenerQueda ==
  ASSUME Tipos, Negocios, NEW n \in Node, Hasta(n, tcp'), Quieta(tcp, tcp'),
         \/ listener'[n] = listener[n]
         \/ \E id, fd :
              /\ id # "INIT"
              /\ listener'[n] = [listener[n] EXCEPT
                                   !.events = Append(@, [id |-> id, fd |-> fd])]
  PROVE  ListenerBien(tcp', n, Directos(tcp', Ele, n), listener'[n])
<1> DEFINE P == Directos(tcp, Ele, n)
           Q == Directos(tcp', Ele, n)
           l == listener[n]
<1>1. P \subseteq Q
  BY DirectosCrecen DEF Hasta
<1>2. ListenerBien(tcp, n, P, l) /\ ListenerOK(l)
  BY DEF Negocios, Nodo, Tipos, Listeners
<1> HIDE DEF P, Q, l
<1>3. Cola(tcp, n) # {} => Cola(tcp', n) # {}
  <2>1. ASSUME NEW c \in Cola(tcp, n)
        PROVE  c \in Cola(tcp', n)
    <3>1. c \in DOMAIN tcp.con /\ tcp.con[c].nueva /\ tcp.con[c].nodo[2] = n
      BY DEF Cola
    <3>2. c \in DOMAIN tcp'.con /\ tcp'.con[c].nueva /\ tcp'.con[c].nodo = tcp.con[c].nodo
      BY <3>1 DEF Hasta, Sigue, Quieta
    <3> QED
      BY <3>1, <3>2 DEF Cola
  <2> QED
    BY <2>1
<1>4. ListenerBien(tcp', n, Q, l)
  BY <1>1, <1>2, <1>3 DEF ListenerBien, Hasta, PuertoQueda
<1>5. CASE listener'[n] = l
  BY <1>4, <1>5 DEF Q
<1>6. ASSUME NEW id, NEW fd, id # "INIT",
             listener'[n] = [l EXCEPT !.events = Append(@, [id |-> id, fd |-> fd])]
      PROVE  ListenerBien(tcp', n, Q, listener'[n])
  <2> DEFINE s == Append(l.events, [id |-> id, fd |-> fd])
  <2>1. /\ EsSeq(l.events) /\ \A i \in DOMAIN l.events : l.events[i].id # "INIT"
        /\ {"events", "master", "servSock", "listos", "p2p", "cant", "ip", "paso",
            "newfd"} \subseteq DOMAIN l
    BY <1>2 DEF ListenerOK, ListenerBien
  <2>2. \A i \in DOMAIN s : s[i].id # "INIT"
    <3> DEFINE ev == [id |-> id, fd |-> fd]
               q == l.events
    <3>1. ev.id # "INIT"
      BY <1>6
    <3> HIDE DEF ev, q
    <3>2. EsSeq(q) /\ \A i \in DOMAIN q : q[i].id # "INIT"
      BY <2>1 DEF q
    <3>3. /\ Len(q) \in Nat /\ DOMAIN q = 1..Len(q)
          /\ DOMAIN Append(q, ev) = 1..(Len(q) + 1)
          /\ \A i \in DOMAIN q : Append(q, ev)[i] = q[i]
          /\ Append(q, ev)[Len(q) + 1] = ev
      BY <3>2, SeqAppend
    <3>4. \A i \in 1..(Len(q) + 1) : i \in 1..Len(q) \/ i = Len(q) + 1
      BY <3>3
    <3>5. \A i \in DOMAIN Append(q, ev) : Append(q, ev)[i].id # "INIT"
      BY <3>1, <3>2, <3>3, <3>4
    <3> QED
      BY <3>5 DEF q, ev
  <2> HIDE DEF s
  <2>3. listener'[n] = [l EXCEPT !.events = s]
    BY <1>6 DEF s
  <2>4. /\ listener'[n].events = s /\ listener'[n].paso = l.paso
        /\ listener'[n].newfd = l.newfd /\ listener'[n].servSock = l.servSock
        /\ listener'[n].listos = l.listos
    BY <2>1, <2>3
  <2> QED
    BY <1>4, <2>2, <2>4 DEF ListenerBien
<1> QED
  BY <1>5, <1>6 DEF l, Q

-----------------------------------------------------------------------------
(* The Router of node n.                                                   *)
LEMMA RouterPasaBien ==
  ASSUME Tipos, Apagados, Negocios, NEW n \in Node, Toca(n),
         UNCHANGED <<logicPropio, cuenta, vivo>>, logicEvents'[n] = logicEvents[n],
         Hasta(n, tcp'), Quieta(tcp, tcp'),
         \/ routerEvents'[n] = routerEvents[n]
         \/ routerEvents[n] # <<>> /\ routerEvents'[n] = Tail(routerEvents[n]),
         \/ listener'[n] = listener[n]
         \/ \E id, fd :
              /\ id # "INIT"
              /\ listener'[n] = [listener[n] EXCEPT
                                   !.events = Append(@, [id |-> id, fd |-> fd])],
         RouterBien(n, Directos(tcp', Ele, n), router'[n])
  PROVE  Negocios'
<1>1. Logico(n)'
  BY LogicoQueda
<1>2. Avisado(n)'
  BY AvisadoQueda DEF Hasta
<1>3. ListenerBien(tcp', n, Directos(tcp', Ele, n), listener'[n])
  BY ListenerQueda
<1> QED
  BY <1>1, <1>2, <1>3, PasoBien

(* The event it is at.                                                     *)
LEMMA AvisoEs ==
  ASSUME Tipos, Negocios, NEW n \in Node, routerEvents[n] # <<>>
  PROVE  AvisoBien(Conocidos, n, Directos(tcp, Ele, n), Evento(n))
<1> DEFINE q == routerEvents[n]
           P == Directos(tcp, Ele, n)
<1>1. EsSeq(q) /\ q # <<>> /\ \A i \in DOMAIN q : AvisoBien(Conocidos, n, P, q[i])
  BY DEF Tipos, Colas, ColaOK, Negocios, Nodo, Avisado
<1> HIDE DEF q, P
<1>2. AvisoBien(Conocidos, n, P, Head(q))
  BY <1>1, SeqTail
<1> QED
  BY <1>2 DEF P, q, Evento

LEMMA TailVacio ==
  ASSUME NEW s, EsSeq(s), s # <<>>
  PROVE  Tail(s) \o <<>> = Tail(s)
<1>1. PICK S : s \in Seq(S)
  BY DEF EsSeq
<1>2. Tail(s) \in Seq(S)
  BY <1>1
<1> QED
  BY <1>2

LEMMA FinEs ==
  ASSUME Tipos, NEW n \in Node, routerEvents[n] # <<>>, FinRouter(n, <<>>)
  PROVE  routerEvents'[n] = Tail(routerEvents[n])
<1>1. EsSeq(routerEvents[n]) /\ routerEvents = [m \in Node |-> routerEvents[m]]
  BY DEF Tipos, Colas, ColaOK
<1>2. routerEvents'[n] = Tail(routerEvents[n]) \o <<>>
  BY <1>1 DEF FinRouter
<1> QED
  BY <1>1, <1>2, TailVacio

(* What comes of sending.                                                  *)
ResultaBien(n, r) ==
  /\ {"k", "vive"} \subseteq DOMAIN r
  /\ Hasta(n, r.k) /\ Quieta(tcp, r.k) /\ r.k.fds = tcp.fds

LEMMA EnvioBien ==
  ASSUME NEW n \in Node, vivo[n], NEW r, ResultaBien(n, r), NEW fd, NEW d,
         Conectado(r.k, n, fd) =>
           DatoBien(Conocidos, r.k.con[Punta(r.k, n, fd).con].nodo[3 - Punta(r.k, n, fd).lado], d)
  PROVE  ResultaBien(n, Envio(r, n, fd, d))
<1> DEFINE x == Envia(r.k, n, fd, d)
<1>1. /\ RedBien(Conocidos, vivo, Ele, x) /\ Sigue(r.k, x, Ele, n)
      /\ Queda(r.k, x, Ele, n) /\ Quieta(r.k, x) /\ x.fds = r.k.fds
  <2>1. RedBien(Conocidos, vivo, Ele, r.k)
    BY DEF ResultaBien, Hasta
  <2> QED
    BY <2>1, EnviaBien
<1>2. Envio(r, n, fd, d) \in {r, [r EXCEPT !.vive = FALSE], [r EXCEPT !.k = x]}
  BY DEF Envio
<1> HIDE DEF x
<1>3. Hasta(n, x)
  BY <1>1, HastaTras DEF ResultaBien, Queda
<1>4. Quieta(tcp, x)
  BY <1>1, QuedaTras DEF ResultaBien, Quieta, Hasta, Sigue
<1> QED
  BY <1>1, <1>2, <1>3, <1>4 DEF ResultaBien

LEMMA EnvioInicial ==
  ASSUME Negocios, NEW n \in Node
  PROVE  ResultaBien(n, SinEnvios)
  BY HastaYa, SigueIgual DEF SinEnvios, ResultaBien

LEMMA EnviaYListoBien ==
  ASSUME Tipos, Apagados, Negocios, NEW n \in Node, RouterStep(n),
         routerEvents[n] # <<>>, NEW r, ResultaBien(n, r), NEW nuevo,
         nuevo.paso = "libre", nuevo.p2p = router[n].p2p, EnviaYListo(n, r, nuevo)
  PROVE  Negocios'
<1>1. CASE ~r.vive
  BY <1>1, MuereBien DEF EnviaYListo, ResultaBien
<1>2. CASE r.vive
  <2>1. /\ tcp' = r.k /\ router'[n] = nuevo /\ FinRouter(n, <<>>)
        /\ UNCHANGED <<logicEvents, logicPropio, listener, en_operacion, vivo, cuenta>>
        \/ \E k : Muere(n, k) /\ UNCHANGED cuenta /\ Hasta(n, k)
    BY <1>2 DEF EnviaYListo, Tipos, Routers, ResultaBien
  <2>2. CASE \E k : Muere(n, k) /\ UNCHANGED cuenta /\ Hasta(n, k)
    BY <2>2, MuereBien
  <2>3. CASE /\ tcp' = r.k /\ router'[n] = nuevo /\ FinRouter(n, <<>>)
             /\ UNCHANGED <<logicEvents, logicPropio, listener, en_operacion, vivo, cuenta>>
    <3>1. Toca(n)
      BY TocaRouter
    <3>2. Hasta(n, tcp') /\ Quieta(tcp, tcp')
      BY <2>3 DEF ResultaBien
    <3>3. RouterBien(n, Directos(tcp', Ele, n), router'[n])
      BY <2>3, <3>2, RouterQueda DEF Hasta
    <3>4. routerEvents'[n] = Tail(routerEvents[n])
      BY <2>3, FinEs
    <3> QED
      BY <2>3, <3>1, <3>2, <3>3, <3>4, RouterPasaBien
  <2> QED
    BY <2>1, <2>2, <2>3
<1> QED
  BY <1>1, <1>2

LEMMA CartaBien ==
  ASSUME NEW S, NEW m, MensajeBien(S, m), m.code \in {"LOOKUP", "REPLY"}, NEW n
  PROVE  DatoBien(S, n, Carta(m))
<1>1. MensajeEn(S, n, m)
  BY DEF MensajeEn
<1> QED
  BY <1>1 DEF DatoBien

(* The other end of a direct connection.                                   *)
LEMMA DirectoEs ==
  ASSUME NEW S, NEW V, NEW L, NEW k, RedBien(S, V, L, k), NEW n \in Node,
         NEW fd \in Directos(k, L, n), Conectado(k, n, fd)
  PROVE  LET e == Punta(k, n, fd)
         IN  /\ n \in Compradores => e.lado = 1 /\ k.con[e.con].nodo[3 - e.lado] \notin Compradores
             /\ n \notin Compradores => e.lado = 2 /\ k.con[e.con].nodo[3 - e.lado] \in Compradores
<1> DEFINE j == Punta(k, n, fd).con
           l == Punta(k, n, fd).lado
<1>1. EsPunta(S, V, L, k, n, j, l) /\ j > L
  BY PuntaEs DEF Directos, Conectado
<1> HIDE DEF j, l
<1>2. /\ k.con[j].nodo[1] \in Compradores /\ k.con[j].nodo[2] \notin Compradores
      /\ l \in 1..2 /\ k.con[j].nodo[l] = n
  BY <1>1 DEF EsPunta, ConexionBien
<1>3. CASE l = 1
  BY <1>2, <1>3 DEF j, l
<1>4. CASE l = 2
  BY <1>2, <1>4 DEF j, l
<1> QED
  BY <1>2, <1>3, <1>4

LEMMA DifundeBien ==
  ASSUME Tipos, Apagados, Negocios, NEW n \in Node,
         \/ send_first_broadcast_message(n) \/ send_broadcast_message(n)
  PROVE  Negocios'
<1> DEFINE d == Carta(Evento(n).tag)
<1>1. PICK S : Difunde(n, S)
  BY DEF send_first_broadcast_message, send_broadcast_message
<1>2. /\ routerEvents[n] # <<>> /\ router[n].paso = "libre" /\ RouterStep(n)
      /\ Evento(n).id \in {"RT_FIRST_BROADCAST", "RT_BROADCAST"}
  BY DEF send_first_broadcast_message, send_broadcast_message, AtiendeRouter,
         EventoRouter, Evento, RouterStep
<1>3. vivo[n]
  BY <1>2, Despierto
<1>4. \A x : DatoBien(Conocidos, x, d)
  BY <1>2, AvisoEs, CartaBien DEF AvisoBien, RouterId
<1> DEFINE v == router[n].vecino
           a(r, k) == Envio(r, n, IF k \in S THEN v[k] ELSE SOCK_ERRONEO, d)
           nuevo == [router[n] EXCEPT !.vecino =
                     [k \in 1..2 |-> IF k \in S /\ EnvioFalla(tcp, n, v[k])
                                     THEN SOCK_ERRONEO ELSE v[k]]]
<1>5. EnviaYListo(n, a(a(SinEnvios, 1), 2), nuevo)
  BY <1>1 DEF Difunde
<1>6. nuevo.paso = "libre" /\ nuevo.p2p = router[n].p2p
  BY <1>2
<1> HIDE DEF d
<1>7. ResultaBien(n, a(SinEnvios, 1))
  BY <1>3, <1>4, EnvioInicial, EnvioBien
<1>8. ResultaBien(n, a(a(SinEnvios, 1), 2))
  <2> DEFINE r == a(SinEnvios, 1)
  <2>1. ResultaBien(n, r)
    BY <1>7
  <2> HIDE DEF r
  <2>2. ResultaBien(n, a(r, 2))
    BY <1>3, <1>4, <2>1, EnvioBien
  <2> QED
    BY <2>2 DEF r
<1> DEFINE r == a(a(SinEnvios, 1), 2)
<1>9. ResultaBien(n, r) /\ EnviaYListo(n, r, nuevo)
  BY <1>5, <1>8
<1> HIDE DEF r, nuevo
<1> QED
  BY <1>2, <1>6, <1>9, EnviaYListoBien

LEMMA RespondeBien ==
  ASSUME Tipos, Apagados, Negocios, NEW n \in Node,
         \/ send_to_next_node_message(n) \/ send_to_p2p_socket_message(n)
  PROVE  Negocios'
<1> DEFINE d == Carta(Evento(n).tag)
<1>1. /\ routerEvents[n] # <<>> /\ router[n].paso = "libre" /\ RouterStep(n)
  BY DEF send_to_next_node_message, send_to_p2p_socket_message, AtiendeRouter,
         EventoRouter, RouterStep
<1>2. vivo[n]
  BY <1>1, Despierto
<1>3. AvisoBien(Conocidos, n, Directos(tcp, Ele, n), Evento(n))
  BY <1>1, AvisoEs
<1>4. SinEnvios.k = tcp
  BY DEF SinEnvios
<1>5. ASSUME NEW fd, NEW nuevo, EnviaYListo(n, Envio(SinEnvios, n, fd, d), nuevo),
             nuevo.paso = "libre", nuevo.p2p = router[n].p2p,
             Conectado(tcp, n, fd) =>
               DatoBien(Conocidos, tcp.con[Punta(tcp, n, fd).con].nodo[3 - Punta(tcp, n, fd).lado], d)
      PROVE  Negocios'
  <2> HIDE DEF d
  <2>1. ResultaBien(n, Envio(SinEnvios, n, fd, d))
    BY <1>2, <1>4, <1>5, EnvioInicial, EnvioBien
  <2> QED
    BY <1>1, <1>5, <2>1, EnviaYListoBien
<1>6. CASE send_to_next_node_message(n)
  <2>1. Evento(n).id = "RT_SEND_TO_SOCKET"
    BY <1>6 DEF send_to_next_node_message, AtiendeRouter, EventoRouter, Evento
  <2>2. \A x : DatoBien(Conocidos, x, d)
    BY <1>3, <2>1, CartaBien DEF AvisoBien, RouterId
  <2> DEFINE x == get_next_node_name(Evento(n).tag)
             mapa == router[n].servidor
             fd == IF x \in DOMAIN mapa THEN mapa[x] ELSE 0
             nuevo == [router[n] EXCEPT !.servidor = Pon(@, x, fd)]
  <2>3. EnviaYListo(n, Envio(SinEnvios, n, fd, d), nuevo)
    BY <1>6 DEF send_to_next_node_message
  <2>4. nuevo.paso = "libre" /\ nuevo.p2p = router[n].p2p
    BY <1>1
  <2> HIDE DEF fd, nuevo, d
  <2> QED
    BY <1>5, <2>2, <2>3, <2>4
<1>7. CASE send_to_p2p_socket_message(n)
  <2>1. Evento(n).id = "RT_SEND_TO_P2P_SOCKET"
    BY <1>7 DEF send_to_p2p_socket_message, AtiendeRouter, EventoRouter, Evento
  <2>2. /\ MensajeBien(Conocidos, Evento(n).tag) /\ n \notin Compradores
        /\ Evento(n).tag.code \in {"BUY_OK", "BUY_ERR"}
    BY <1>3, <2>1 DEF AvisoBien, RouterId
  <2>3. \A x \in Compradores : DatoBien(Conocidos, x, d)
    BY <2>2 DEF DatoBien, MensajeEn
  <2> DEFINE fd == router[n].p2p
  <2>4. fd \in Directos(tcp, Ele, n) /\ RedBien(Conocidos, vivo, Ele, tcp)
    BY DEF Negocios, Nodo, RouterBien, Red
  <2>5. Conectado(tcp, n, fd) =>
          tcp.con[Punta(tcp, n, fd).con].nodo[3 - Punta(tcp, n, fd).lado] \in Compradores
    <3> HIDE DEF fd
    <3> QED
      BY <2>2, <2>4, DirectoEs
  <2>6. EnviaYListo(n, Envio(SinEnvios, n, fd, d), router[n])
    BY <1>7 DEF send_to_p2p_socket_message
  <2> HIDE DEF d, fd
  <2> QED
    BY <1>1, <1>5, <2>3, <2>5, <2>6 DEF d, fd
<1> QED
  BY <1>6, <1>7

LEMMA LeeSiHayBien ==
  ASSUME Negocios, NEW n \in Node, NEW fd
  PROVE  /\ Hasta(n, LeeSiHay(n, fd)) /\ Quieta(tcp, LeeSiHay(n, fd))
         /\ LeeSiHay(n, fd).fds = tcp.fds
<1>1. CASE ~RecvDato(tcp, n, fd)
  BY <1>1, HastaYa, SigueIgual DEF LeeSiHay
<1>2. CASE RecvDato(tcp, n, fd)
  <2> DEFINE h == Descarta(tcp, n, fd)
  <2>1. Conectado(tcp, n, fd) /\ h = Descarta(tcp, n, fd)
    BY <1>2 DEF RecvDato
  <2>2. LeeSiHay(n, fd) = h
    BY <1>2 DEF LeeSiHay
  <2>3. RedBien(Conocidos, vivo, Ele, tcp)
    BY DEF Negocios, Red
  <2> HIDE DEF h
  <2>4. /\ RedBien(Conocidos, vivo, Ele, h) /\ Sigue(tcp, h, Ele, n)
        /\ Queda(tcp, h, Ele, n) /\ Quieta(tcp, h) /\ h.fds = tcp.fds
    BY <2>1, <2>3, LeeBien
  <2> QED
    BY <2>2, <2>4 DEF Hasta, Queda
<1> QED
  BY <1>1, <1>2

LEMMA RecvMataBien ==
  ASSUME Tipos, Apagados, Negocios, NEW n \in Node, NEW fd, RecvMata(n, fd)
  PROVE  Negocios'
  BY HastaYa, MuereBien DEF RecvMata

(* The connection with the seller.                                         *)
LEMMA EnServicioVive ==
  ASSUME Negocios, NEW m \in Node, EnServicio(tcp, m)
  PROVE  vivo[m]
<1>1. Abiertos(tcp, m) # {}
  BY DEF EnServicio
<1> QED
  BY <1>1 DEF Negocios, Nodo

LEMMA ConectaHasta ==
  ASSUME Tipos, Apagados, Negocios, NEW n \in Node,
         AtiendeRouter(n, "RT_START_P2P_CONNECT"), NEW m, m = Evento(n).tag.vendedor,
         EnServicio(tcp, m), NEW h, h = Conecta(tcp, n, m), NEW fd, fd = Libre(tcp, n)
  PROVE  /\ Hasta(n, h) /\ Quieta(tcp, h) /\ fd \in Directos(h, Ele, n)
         /\ n \in Compradores /\ vivo[n]
<1>1. AvisoBien(Conocidos, n, Directos(tcp, Ele, n), Evento(n)) /\ vivo[n]
  BY AvisoEs, Despierto DEF AtiendeRouter, EventoRouter
<1>2. n \in Compradores /\ m \in Node \ Compradores
  BY <1>1 DEF AvisoBien, MensajeBien, AtiendeRouter, EventoRouter, Evento, RouterId
<1>3. vivo[m]
  BY <1>2, EnServicioVive
<1>4. RedBien(Conocidos, vivo, Ele, tcp) /\ SocketsOK(tcp)
  BY DEF Negocios, Red, Tipos
<1>5. /\ RedBien(Conocidos, vivo, Ele, h) /\ Sigue(tcp, h, Ele, n)
      /\ Queda(tcp, h, Ele, n) /\ Quieta(tcp, h)
      /\ Punta(h, n, fd) = [con |-> Len(tcp.con) + 1, lado |-> 1]
      /\ Len(tcp.con) + 1 > Ele
  BY <1>1, <1>2, <1>3, <1>4, ConectaBien
<1>6. fd \in Int
  <2>1. FdsOK(tcp.fds[n])
    BY <1>4 DEF SocketsOK
  <2> QED
    BY <2>1, LibreEs
<1>7. fd \in Directos(h, Ele, n)
  <2>1. Punta(h, n, fd).con = Len(tcp.con) + 1
    BY <1>5
  <2> QED
    BY <1>5, <1>6, <2>1 DEF Directos
<1> QED
  BY <1>1, <1>2, <1>5, <1>7 DEF Hasta, Queda

LEMMA ConectaVendedor ==
  ASSUME Tipos, Apagados, Negocios, NEW n \in Node, start_p2p_connect(n)
  PROVE  Negocios'
<1> DEFINE m == Evento(n).tag.vendedor
           fd == Libre(tcp, n)
           h == Conecta(tcp, n, m)
<1>1. /\ RouterStep(n) /\ Toca(n) /\ RouterOK(router[n])
      /\ router = [x \in Node |-> router[x]]
      /\ UNCHANGED <<logicEvents, logicPropio, listener, en_operacion, vivo, cuenta>>
      /\ AtiendeRouter(n, "RT_START_P2P_CONNECT") /\ routerEvents[n] # <<>>
  BY TocaRouter DEF RouterStep, start_p2p_connect, Tipos, Routers, AtiendeRouter, EventoRouter
<1>2. \/ /\ EnServicio(tcp, m)
         /\ tcp' = Envia(h, n, fd, P2P_CONNECT)
         /\ router' = [router EXCEPT ![n].paso = "p2p", ![n].fd = fd]
         /\ UNCHANGED routerEvents
      \/ /\ router' = [router EXCEPT ![n].p2p = SOCK_ERRONEO]
         /\ FinRouter(n, <<>>)
         /\ UNCHANGED tcp
  BY DEF start_p2p_connect
<1>3. CASE /\ router' = [router EXCEPT ![n].p2p = SOCK_ERRONEO]
           /\ FinRouter(n, <<>>) /\ UNCHANGED tcp
  <2>1. /\ router'[n].p2p = SOCK_ERRONEO /\ router'[n].paso = "libre"
    BY <1>1, <1>3 DEF RouterOK, AtiendeRouter
  <2>2. SOCK_ERRONEO \in Directos(tcp', Ele, n)
    BY <1>3, SinSocket DEF Tipos
  <2>3. RouterBien(n, Directos(tcp', Ele, n), router'[n])
    BY <2>1, <2>2 DEF RouterBien, Entrando
  <2>4. routerEvents'[n] = Tail(routerEvents[n])
    BY <1>1, <1>3, FinEs
  <2>5. Hasta(n, tcp') /\ Quieta(tcp, tcp')
    BY <1>3, HastaYa, SigueIgual
  <2> QED
    BY <1>1, <2>3, <2>4, <2>5, RouterPasaBien
<1>4. CASE /\ EnServicio(tcp, m)
           /\ tcp' = Envia(h, n, fd, P2P_CONNECT)
           /\ router' = [router EXCEPT ![n].paso = "p2p", ![n].fd = fd]
           /\ UNCHANGED routerEvents
  <2>1. /\ Hasta(n, h) /\ Quieta(tcp, h) /\ fd \in Directos(h, Ele, n)
        /\ n \in Compradores /\ vivo[n]
    BY <1>1, <1>4, ConectaHasta
  <2>2. tcp' = Envia(h, n, fd, P2P_CONNECT)
    BY <1>4
  <2> HIDE DEF h, fd, m
  <2>3. /\ RedBien(Conocidos, vivo, Ele, tcp') /\ Sigue(h, tcp', Ele, n)
        /\ Queda(h, tcp', Ele, n) /\ Quieta(h, tcp')
    <3>1. RedBien(Conocidos, vivo, Ele, h) /\ \A x : DatoBien(Conocidos, x, P2P_CONNECT)
      BY <2>1 DEF Hasta, DatoBien
    <3> QED
      BY <2>1, <2>2, <3>1, EnviaBien
  <2>4. Hasta(n, tcp') /\ Quieta(tcp, tcp')
    <3>1. Hasta(n, tcp')
      BY <2>1, <2>3, HastaTras DEF Queda
    <3>2. Quieta(tcp, tcp')
      BY <2>1, <2>3 DEF Quieta, Hasta, Sigue
    <3> QED
      BY <3>1, <3>2
  <2>5. fd \in Directos(tcp', Ele, n) /\ router[n].p2p \in Directos(tcp', Ele, n)
    <3>1. Directos(h, Ele, n) \subseteq Directos(tcp', Ele, n)
      BY <2>3, DirectosCrecen
    <3>2. Directos(tcp, Ele, n) \subseteq Directos(tcp', Ele, n)
      BY <2>4, DirectosCrecen DEF Hasta
    <3> QED
      BY <2>1, <3>1, <3>2 DEF Negocios, Nodo, RouterBien
  <2>6. router'[n].paso = "p2p" /\ router'[n].fd = fd /\ router'[n].p2p = router[n].p2p
    BY <1>1, <1>4 DEF RouterOK
  <2>7. RouterBien(n, Directos(tcp', Ele, n), router'[n])
    BY <2>1, <2>5, <2>6 DEF RouterBien, Entrando
  <2> QED
    BY <1>1, <1>4, <2>4, <2>7, RouterPasaBien
<1> QED
  BY <1>2, <1>3, <1>4

LEMMA SaludaVendedor ==
  ASSUME Tipos, Apagados, Negocios, NEW n \in Node, start_p2p_connect_nombre(n)
  PROVE  Negocios'
<1> DEFINE fd == router[n].fd
<1>1. /\ RouterStep(n) /\ Toca(n) /\ RouterOK(router[n])
      /\ router = [x \in Node |-> router[x]]
      /\ UNCHANGED <<logicEvents, routerEvents, logicPropio, listener, en_operacion, vivo, cuenta>>
      /\ router[n].paso = "p2p" /\ tcp' = Envia(tcp, n, fd, SuNombre(n))
      /\ router' = [router EXCEPT ![n].paso = "p2p_nombre"]
  BY TocaRouter DEF RouterStep, start_p2p_connect_nombre, Tipos, Routers, logicVars, logicPropio
<1>2. vivo[n]
  BY <1>1, Despierto
<1>3. /\ RedBien(Conocidos, vivo, Ele, tcp') /\ Sigue(tcp, tcp', Ele, n)
      /\ Queda(tcp, tcp', Ele, n) /\ Quieta(tcp, tcp')
  <2>1. RedBien(Conocidos, vivo, Ele, tcp) /\ \A x : DatoBien(Conocidos, x, SuNombre(n))
    BY DEF Negocios, Red, DatoBien
  <2> QED
    BY <1>1, <1>2, <2>1, EnviaBien
<1>4. Hasta(n, tcp')
  BY <1>3 DEF Hasta, Queda
<1>5. RouterBien(n, Directos(tcp', Ele, n), router[n])
  BY <1>3, RouterQueda
<1>6. /\ router'[n].paso = "p2p_nombre" /\ router'[n].fd = router[n].fd
      /\ router'[n].p2p = router[n].p2p
  BY <1>1 DEF RouterOK
<1>7. RouterBien(n, Directos(tcp', Ele, n), router'[n])
  BY <1>1, <1>5, <1>6 DEF RouterBien, Entrando
<1> QED
  BY <1>1, <1>3, <1>4, <1>7, RouterPasaBien

LEMMA OperaVendedor ==
  ASSUME Tipos, Apagados, Negocios, NEW n \in Node, start_p2p_connect_opera(n)
  PROVE  Negocios'
<1> DEFINE fd == router[n].fd
           k == LeeSiHay(n, fd)
<1>1. /\ RouterStep(n) /\ Toca(n) /\ RouterOK(router[n])
      /\ router = [x \in Node |-> router[x]] /\ router[n].paso = "p2p_nombre"
  BY TocaRouter DEF RouterStep, start_p2p_connect_opera, Tipos, Routers
<1>2. Hasta(n, k) /\ Quieta(tcp, k) /\ k.fds = tcp.fds
  BY LeeSiHayBien
<1>3. CASE RecvMata(n, fd)
  BY <1>3, RecvMataBien
<1>4. CASE /\ tcp' = k
           /\ router' = [router EXCEPT ![n].p2p = fd, ![n].paso = "p2p_opera"]
           /\ UNCHANGED <<logicVars, listener, vivo, cuenta>>
  <2>1. router'[n].p2p = fd /\ router'[n].paso = "p2p_opera" /\ router'[n].fd = fd
    BY <1>1, <1>4 DEF RouterOK
  <2>2. n \in Compradores /\ fd \in Directos(tcp, Ele, n)
    BY <1>1 DEF Negocios, Nodo, RouterBien, Entrando
  <2>3. Directos(tcp, Ele, n) \subseteq Directos(tcp', Ele, n)
    BY <1>2, <1>4, DirectosCrecen DEF Hasta
  <2>4. RouterBien(n, Directos(tcp', Ele, n), router'[n])
    BY <2>1, <2>2, <2>3 DEF RouterBien, Entrando
  <2>5. Hasta(n, tcp') /\ Quieta(tcp, tcp')
    BY <1>2, <1>4
  <2>6. /\ UNCHANGED <<logicPropio, cuenta, vivo>> /\ logicEvents'[n] = logicEvents[n]
        /\ routerEvents'[n] = routerEvents[n] /\ listener'[n] = listener[n]
    BY <1>4 DEF logicVars, logicPropio
  <2> QED
    BY <1>1, <2>4, <2>5, <2>6, RouterPasaBien
<1> QED
  BY <1>3, <1>4 DEF start_p2p_connect_opera

(* A step of the Router that goes from one point of an event to another,   *)
(* the sockets as they were.                                               *)
LEMMA AvisaBien ==
  ASSUME Tipos, Apagados, Negocios, NEW n \in Node, RouterStep(n),
         UNCHANGED <<logicVars, tcp, vivo, cuenta>>, NEW id, NEW fd, id # "INIT",
         PosteaListener(n, id, fd), NEW p, router' = [router EXCEPT ![n].paso = p],
         RouterBien(n, Directos(tcp, Ele, n), [router[n] EXCEPT !.paso = p])
  PROVE  Negocios'
<1>1. /\ Toca(n) /\ router = [x \in Node |-> router[x]]
      /\ listener = [x \in Node |-> listener[x]]
  BY TocaRouter DEF Tipos, Routers, Listeners
<1>2. RouterBien(n, Directos(tcp', Ele, n), router'[n])
  <2>1. router'[n] = [router[n] EXCEPT !.paso = p]
    BY <1>1
  <2>2. Directos(tcp', Ele, n) = Directos(tcp, Ele, n)
    OBVIOUS
  <2> QED
    BY <2>1, <2>2
<1>3. listener'[n] = [listener[n] EXCEPT !.events = Append(@, [id |-> id, fd |-> fd])]
  BY <1>1 DEF PosteaListener
<1>4. Hasta(n, tcp') /\ Quieta(tcp, tcp')
  BY HastaYa, SigueIgual
<1>5. /\ UNCHANGED <<logicPropio, cuenta, vivo>> /\ logicEvents'[n] = logicEvents[n]
      /\ routerEvents'[n] = routerEvents[n]
  BY DEF logicVars, logicPropio
<1>6. \E x, y : /\ x # "INIT"
               /\ listener'[n] = [listener[n] EXCEPT
                                    !.events = Append(@, [id |-> x, fd |-> y])]
  BY <1>3
<1> QED
  BY <1>1, <1>2, <1>4, <1>5, <1>6, RouterPasaBien

LEMMA AvisanVendedor ==
  ASSUME Tipos, Apagados, Negocios, NEW n \in Node,
         start_p2p_connect_avisa(n) \/ close_p2p_connect_avisa(n)
  PROVE  Negocios'
<1>1. RouterStep(n) /\ RouterOK(router[n]) /\ RouterBien(n, Directos(tcp, Ele, n), router[n])
  BY DEF RouterStep, Tipos, Routers, Negocios, Nodo
<1>2. CASE start_p2p_connect_avisa(n)
  <2> DEFINE r == [router[n] EXCEPT !.paso = "p2p_buy"]
  <2>1. /\ UNCHANGED <<logicVars, tcp, vivo, cuenta>> /\ router[n].paso = "p2p_opera"
        /\ PosteaListener(n, "LS_ADD_SOCKET_P2P", router[n].p2p)
        /\ router' = [router EXCEPT ![n].paso = "p2p_buy"]
    BY <1>2 DEF start_p2p_connect_avisa
  <2>2. r.paso = "p2p_buy" /\ r.fd = router[n].fd /\ r.p2p = router[n].p2p
    BY <1>1 DEF RouterOK
  <2>3. RouterBien(n, Directos(tcp, Ele, n), r)
    BY <1>1, <2>1, <2>2 DEF RouterBien, Entrando
  <2> HIDE DEF r
  <2> QED
    BY <1>1, <2>1, <2>3, AvisaBien DEF r
<1>3. CASE close_p2p_connect_avisa(n)
  <2> DEFINE r == [router[n] EXCEPT !.paso = "p2p_cierra"]
  <2>1. /\ UNCHANGED <<logicVars, tcp, vivo, cuenta>> /\ routerEvents[n] # <<>>
        /\ Evento(n).id = "RT_CLOSE_P2P_CONNECT"
        /\ PosteaListener(n, "LS_RM_SOCKET_P2P", router[n].p2p)
        /\ router' = [router EXCEPT ![n].paso = "p2p_cierra"]
    BY <1>3 DEF close_p2p_connect_avisa, AtiendeRouter, EventoRouter, Evento
  <2>2. r.paso = "p2p_cierra" /\ r.fd = router[n].fd /\ r.p2p = router[n].p2p
    BY <1>1 DEF RouterOK
  <2>3. n \in Compradores
    BY <2>1, AvisoEs DEF AvisoBien
  <2>4. RouterBien(n, Directos(tcp, Ele, n), r)
    BY <1>1, <2>2, <2>3 DEF RouterBien, Entrando
  <2> HIDE DEF r
  <2> QED
    BY <1>1, <2>1, <2>4, AvisaBien DEF r
<1> QED
  BY <1>2, <1>3

LEMMA CompraVendedor ==
  ASSUME Tipos, Apagados, Negocios, NEW n \in Node, start_p2p_connect_buy(n)
  PROVE  Negocios'
<1> DEFINE d == Carta(Evento(n).tag)
           fd == router[n].p2p
           nuevo == [router[n] EXCEPT !.paso = "libre", !.fd = SOCK_ERRONEO]
<1>1. /\ RouterStep(n) /\ RouterOK(router[n]) /\ EnCurso(router[n], routerEvents[n])
      /\ router[n].paso = "p2p_buy"
  BY DEF RouterStep, start_p2p_connect_buy, Tipos, Routers, Cursos
<1>2. /\ vivo[n] /\ routerEvents[n] # <<>> /\ Evento(n).id = "RT_START_P2P_CONNECT"
      /\ AvisoBien(Conocidos, n, Directos(tcp, Ele, n), Evento(n))
  BY <1>1, Despierto, AvisoEs DEF EnCurso, Evento
<1>3. n \in Compradores /\ MensajeBien(Conocidos, Evento(n).tag) /\ Evento(n).tag.code = "BUY"
  BY <1>2 DEF AvisoBien, RouterId
<1>4. \A x : x \notin Compradores => DatoBien(Conocidos, x, d)
  BY <1>3 DEF DatoBien, MensajeEn
<1>5. fd \in Directos(tcp, Ele, n) /\ RedBien(Conocidos, vivo, Ele, tcp)
  BY DEF Negocios, Nodo, RouterBien, Red
<1>6. EnviaYListo(n, Envio(SinEnvios, n, fd, d), nuevo)
  BY DEF start_p2p_connect_buy
<1>7. nuevo.paso = "libre" /\ nuevo.p2p = router[n].p2p /\ SinEnvios.k = tcp
  BY <1>1 DEF RouterOK, SinEnvios
<1> HIDE DEF d, fd, nuevo
<1>8. Conectado(tcp, n, fd) =>
        tcp.con[Punta(tcp, n, fd).con].nodo[3 - Punta(tcp, n, fd).lado] \notin Compradores
  BY <1>3, <1>5, DirectoEs
<1>9. ResultaBien(n, Envio(SinEnvios, n, fd, d))
  BY <1>2, <1>4, <1>7, <1>8, EnvioInicial, EnvioBien
<1> QED
  BY <1>1, <1>2, <1>6, <1>7, <1>9, EnviaYListoBien

LEMMA CierraVendedor ==
  ASSUME Tipos, Apagados, Negocios, NEW n \in Node, close_p2p_connect(n)
  PROVE  Negocios'
<1> DEFINE fd == router[n].p2p
<1>1. /\ RouterStep(n) /\ Toca(n) /\ RouterOK(router[n])
      /\ router = [x \in Node |-> router[x]]
      /\ router[n].paso = "p2p_cierra" /\ tcp' = Cierra(tcp, n, fd)
      /\ router' = [router EXCEPT ![n].p2p = SOCK_ERRONEO, ![n].paso = "p2p_fin"]
      /\ UNCHANGED <<logicEvents, routerEvents, logicPropio, listener, vivo, cuenta>>
  BY TocaRouter DEF RouterStep, close_p2p_connect, Tipos, Routers, logicVars, logicPropio
<1>2. /\ RedBien(Conocidos, vivo, Ele, tcp') /\ Sigue(tcp, tcp', Ele, n)
      /\ Quieta(tcp, tcp') /\ PuertoQueda(tcp, tcp', n)
  <2>1. RedBien(Conocidos, vivo, Ele, tcp)
    BY DEF Negocios, Red
  <2> QED
    BY <1>1, <2>1, CierraBien
<1>3. Hasta(n, tcp')
  BY <1>2 DEF Hasta
<1>4. router'[n].p2p = SOCK_ERRONEO /\ router'[n].paso = "p2p_fin"
  BY <1>1 DEF RouterOK
<1>5. SOCK_ERRONEO \in Directos(tcp', Ele, n)
  BY <1>2, SinSocket DEF RedBien
<1>6. n \in Compradores
  BY <1>1 DEF Negocios, Nodo, RouterBien
<1>7. RouterBien(n, Directos(tcp', Ele, n), router'[n])
  BY <1>4, <1>5, <1>6 DEF RouterBien, Entrando
<1> QED
  BY <1>1, <1>2, <1>3, <1>7, RouterPasaBien

LEMMA SaleDeOperacion ==
  ASSUME Tipos, Apagados, Negocios, NEW n \in Node, close_p2p_connect_fin(n)
  PROVE  Negocios'
<1>1. /\ RouterStep(n) /\ Toca(n) /\ RouterOK(router[n]) /\ EnCurso(router[n], routerEvents[n])
      /\ router = [x \in Node |-> router[x]] /\ router[n].paso = "p2p_fin"
      /\ router' = [router EXCEPT ![n].paso = "libre"] /\ FinRouter(n, <<>>)
      /\ UNCHANGED <<logicEvents, logicPropio, listener, tcp, vivo, cuenta>>
  BY TocaRouter DEF RouterStep, close_p2p_connect_fin, Tipos, Routers, Cursos
<1>2. routerEvents[n] # <<>>
  BY <1>1 DEF EnCurso
<1>3. routerEvents'[n] = Tail(routerEvents[n])
  BY <1>1, <1>2, FinEs
<1>4. router'[n].paso = "libre" /\ router'[n].p2p = router[n].p2p
  BY <1>1 DEF RouterOK
<1>5. RouterBien(n, Directos(tcp', Ele, n), router'[n])
  BY <1>1, <1>4 DEF RouterBien, Negocios, Nodo, Entrando
<1>6. Hasta(n, tcp') /\ Quieta(tcp, tcp')
  BY <1>1, HastaYa, SigueIgual
<1> QED
  BY <1>1, <1>2, <1>3, <1>5, <1>6, RouterPasaBien

(* What it is told, and what it is not.                                    *)
LEMMA RecuerdaBien ==
  ASSUME Tipos, Apagados, Negocios, NEW n \in Node, RouterStep(n),
         routerEvents[n] # <<>>, NEW nuevo, Recuerda(n, nuevo),
         nuevo.paso = "libre", nuevo.p2p \in Directos(tcp, Ele, n)
  PROVE  Negocios'
<1>1. /\ Toca(n) /\ router = [x \in Node |-> router[x]]
      /\ router' = [router EXCEPT ![n] = nuevo] /\ FinRouter(n, <<>>)
      /\ UNCHANGED <<logicEvents, logicPropio, listener, en_operacion, tcp, vivo, cuenta>>
  BY TocaRouter DEF Recuerda, Tipos, Routers
<1>2. RouterBien(n, Directos(tcp', Ele, n), router'[n])
  BY <1>1 DEF RouterBien, Entrando
<1>3. routerEvents'[n] = Tail(routerEvents[n])
  BY <1>1, FinEs
<1>4. Hasta(n, tcp') /\ Quieta(tcp, tcp')
  BY <1>1, HastaYa, SigueIgual
<1> QED
  BY <1>1, <1>2, <1>3, <1>4, RouterPasaBien

LEMMA MapasBien ==
  ASSUME Tipos, Apagados, Negocios, NEW n \in Node,
         \/ set_socket_p2p(n) \/ unset_socket_p2p(n) \/ add_nodo_servidor(n)
         \/ rm_nodo_servidor(n)
  PROVE  Negocios'
<1>1. /\ RouterStep(n) /\ RouterOK(router[n]) /\ routerEvents[n] # <<>>
      /\ router[n].paso = "libre"
  BY DEF RouterStep, Tipos, Routers, set_socket_p2p, unset_socket_p2p, add_nodo_servidor,
         rm_nodo_servidor, AtiendeRouter, EventoRouter
<1>2. AvisoBien(Conocidos, n, Directos(tcp, Ele, n), Evento(n))
  BY <1>1, AvisoEs
<1>3. router[n].p2p \in Directos(tcp, Ele, n)
  BY DEF Negocios, Nodo, RouterBien
<1>4. SOCK_ERRONEO \in Directos(tcp, Ele, n)
  BY SinSocket DEF Tipos
<1>5. CASE set_socket_p2p(n)
  <2> DEFINE nuevo == [router[n] EXCEPT !.p2p = Evento(n).fd]
  <2>1. Recuerda(n, nuevo) /\ Evento(n).id = "RT_SET_SOCKET_P2P"
    BY <1>5 DEF set_socket_p2p, AtiendeRouter, EventoRouter, Evento
  <2>2. nuevo.paso = "libre" /\ nuevo.p2p = Evento(n).fd
    BY <1>1 DEF RouterOK
  <2>3. Evento(n).fd \in Directos(tcp, Ele, n)
    BY <1>2, <2>1 DEF AvisoBien
  <2> HIDE DEF nuevo
  <2> QED
    BY <1>1, <2>1, <2>2, <2>3, RecuerdaBien
<1>6. CASE unset_socket_p2p(n)
  <2> DEFINE nuevo == [router[n] EXCEPT !.p2p = SOCK_ERRONEO]
  <2>1. Recuerda(n, nuevo)
    BY <1>6 DEF unset_socket_p2p
  <2>2. nuevo.paso = "libre" /\ nuevo.p2p = SOCK_ERRONEO
    BY <1>1 DEF RouterOK
  <2> HIDE DEF nuevo
  <2> QED
    BY <1>1, <1>4, <2>1, <2>2, RecuerdaBien
<1>7. ASSUME NEW s, Recuerda(n, [router[n] EXCEPT !.servidor = s])
      PROVE  Negocios'
  <2> DEFINE nuevo == [router[n] EXCEPT !.servidor = s]
  <2>1. Recuerda(n, nuevo)
    BY <1>7
  <2>2. nuevo.paso = "libre" /\ nuevo.p2p = router[n].p2p
    BY <1>1
  <2> HIDE DEF nuevo
  <2> QED
    BY <1>1, <1>3, <2>1, <2>2, RecuerdaBien
<1>8. CASE add_nodo_servidor(n)
  <2>1. CASE Muere(n, tcp) /\ UNCHANGED cuenta
    BY <2>1, HastaYa, MuereBien
  <2> DEFINE s == Pon(router[n].servidor, Evento(n).nodo, Evento(n).fd)
  <2>2. CASE Recuerda(n, [router[n] EXCEPT !.servidor = s])
    <3> HIDE DEF s
    <3> QED
      BY <1>7, <2>2
  <2> QED
    BY <1>8, <2>1, <2>2 DEF add_nodo_servidor
<1>9. CASE rm_nodo_servidor(n)
  <2> DEFINE v == router[n].servidor
             s == Restrict(v, DOMAIN v \ NombreDe(v, Evento(n).fd))
  <2>1. Recuerda(n, [router[n] EXCEPT !.servidor = s])
    BY <1>9 DEF rm_nodo_servidor
  <2> HIDE DEF s
  <2> QED
    BY <1>7, <2>1
<1> QED
  BY <1>5, <1>6, <1>8, <1>9

LEMMA SinArranques ==
  ASSUME Tipos, Negocios, NEW n \in Node
  PROVE  /\ ~vecino_conectado(n) /\ ~try_connection(n) /\ ~try_connection_nombre(n)
         /\ ~start_connections(n) /\ ~add_nodo_cliente(n) /\ ~prepare_connections(n)
         /\ ~PasoVecino(n)
<1>1. router[n].paso \in {"libre"} \cup Entrando \cup {"p2p_cierra", "p2p_fin"}
  BY DEF Negocios, Nodo, RouterBien
<1>2. \A id : EventoRouter(n, id) => id \in RouterId \cup AvisoId
  <2>1. ASSUME NEW id, EventoRouter(n, id)
        PROVE  id \in RouterId \cup AvisoId
    BY <2>1, AvisoEs DEF EventoRouter, Evento, AvisoBien
  <2> QED
    BY <2>1
<1>3. ~EventoRouter(n, "INIT") /\ ~EventoRouter(n, "RT_ADD_NODO_CLIENTE")
  BY <1>2 DEF RouterId, AvisoId
<1>4. ~PasoVecino(n)
  BY <1>1, <1>3 DEF PasoVecino, AtiendeRouter, Entrando
<1>5. ~prepare_connections(n)
  <2>1. SUFFICES ASSUME EventoListener(n, "INIT")
                 PROVE  FALSE
    BY DEF prepare_connections
  <2> DEFINE q == listener[n].events
  <2>2. EsSeq(q) /\ q # <<>> /\ Head(q).id = "INIT" /\ \A i \in DOMAIN q : q[i].id # "INIT"
    BY <2>1 DEF EventoListener, Tipos, Listeners, ListenerOK, Negocios, Nodo, ListenerBien
  <2> HIDE DEF q
  <2> QED
    BY <2>2, SeqTail
<1> QED
  BY <1>1, <1>3, <1>4, <1>5 DEF vecino_conectado, try_connection, try_connection_nombre,
     start_connections, add_nodo_cliente, AtiendeRouter, Entrando

LEMMA RouterBienPasa ==
  ASSUME Tipos, Apagados, Negocios, NEW n \in Node, RouterStep(n)
  PROVE  Negocios'
  BY SinArranques, DifundeBien, RespondeBien, ConectaVendedor, SaludaVendedor,
     OperaVendedor, AvisanVendedor, CompraVendedor, CierraVendedor, SaleDeOperacion,
     MapasBien DEF RouterStep

-----------------------------------------------------------------------------
(* The Listener of node n.                                                 *)
LEMMA ColaQueda ==
  ASSUME NEW k, NEW h, NEW L, NEW n \in Node, Sigue(k, h, L, n), Quieta(k, h)
  PROVE  Cola(k, n) # {} => Cola(h, n) # {}
<1>1. ASSUME NEW c \in Cola(k, n)
      PROVE  c \in Cola(h, n)
  <2>1. c \in DOMAIN k.con /\ k.con[c].nueva /\ k.con[c].nodo[2] = n
    BY DEF Cola
  <2>2. c \in DOMAIN h.con /\ h.con[c].nueva /\ h.con[c].nodo = k.con[c].nodo
    BY <2>1 DEF Sigue, Quieta
  <2> QED
    BY <2>1, <2>2 DEF Cola
<1> QED
  BY <1>1

LEMMA ListenerSigue ==
  ASSUME Tipos, Negocios, NEW n \in Node, Hasta(n, tcp'), Quieta(tcp, tcp'), NEW l,
         l.servSock = listener[n].servSock,
         \A i \in DOMAIN l.events : l.events[i].id # "INIT",
         l.paso \in Saludando =>
           listener[n].paso \in Saludando /\ l.newfd = listener[n].newfd,
         l.paso \in Recorriendo /\ l.servSock \in l.listos =>
           listener[n].paso \in Recorriendo /\ l.servSock \in listener[n].listos
  PROVE  ListenerBien(tcp', n, Directos(tcp', Ele, n), l)
<1> DEFINE P == Directos(tcp, Ele, n)
           Q == Directos(tcp', Ele, n)
<1>1. P \subseteq Q
  BY DirectosCrecen DEF Hasta
<1>2. ListenerBien(tcp, n, P, listener[n])
  BY DEF Negocios, Nodo
<1>3. Cola(tcp, n) # {} => Cola(tcp', n) # {}
  BY ColaQueda DEF Hasta
<1> HIDE DEF P, Q
<1>4. ListenerBien(tcp', n, Q, l)
  BY <1>1, <1>2, <1>3 DEF ListenerBien, Hasta, PuertoQueda
<1> QED
  BY <1>4 DEF Q

LEMMA ListenerPasaBien ==
  ASSUME Tipos, Apagados, Negocios, NEW n \in Node, ListenerStep(n),
         UNCHANGED <<logicPropio, router, cuenta, vivo>>, Hasta(n, tcp'),
         Logico(n)', Avisado(n)',
         ListenerBien(tcp', n, Directos(tcp', Ele, n), listener'[n])
  PROVE  Negocios'
<1>1. Toca(n)
  BY TocaListener
<1>2. RouterBien(n, Directos(tcp', Ele, n), router'[n])
  BY RouterQueda DEF Hasta
<1> QED
  BY <1>1, <1>2, PasoBien

LEMMA ListenerAvisa ==
  ASSUME Tipos, Apagados, Negocios, NEW n \in Node, ListenerStep(n),
         UNCHANGED <<logicEvents, logicPropio, router, cuenta, vivo>>, Hasta(n, tcp'),
         \/ routerEvents'[n] = routerEvents[n]
         \/ \E ev : /\ routerEvents'[n] = Append(routerEvents[n], ev)
                    /\ AvisoBien(Conocidos, n, Directos(tcp', Ele, n), ev),
         ListenerBien(tcp', n, Directos(tcp', Ele, n), listener'[n])
  PROVE  Negocios'
<1>1. Logico(n)'
  BY LogicoQueda
<1>2. Avisado(n)'
  BY AvisadoQueda DEF Hasta
<1> QED
  BY <1>1, <1>2, ListenerPasaBien

(* The events of the Listener, with the one it is at done with.            *)
LEMMA VueltaBien ==
  ASSUME NEW q, EsSeq(q), q # <<>>, \A i \in DOMAIN q : q[i].id # "INIT"
  PROVE  /\ \A i \in DOMAIN Tail(q) : Tail(q)[i].id # "INIT"
         /\ LET s == Append(Tail(q), [id |-> "LOOP"])
            IN  \A i \in DOMAIN s : s[i].id # "INIT"
<1> DEFINE t == Tail(q)
           ev == [id |-> "LOOP"]
<1>1. EsSeq(t) /\ \A i \in DOMAIN t : t[i].id # "INIT"
  BY SeqTail
<1>2. ev.id # "INIT"
  OBVIOUS
<1> HIDE DEF t, ev
<1>3. /\ Len(t) \in Nat /\ DOMAIN t = 1..Len(t)
      /\ DOMAIN Append(t, ev) = 1..(Len(t) + 1)
      /\ \A i \in DOMAIN t : Append(t, ev)[i] = t[i]
      /\ Append(t, ev)[Len(t) + 1] = ev
  BY <1>1, SeqAppend
<1>4. \A i \in 1..(Len(t) + 1) : i \in 1..Len(t) \/ i = Len(t) + 1
  BY <1>3
<1>5. \A i \in DOMAIN Append(t, ev) : Append(t, ev)[i].id # "INIT"
  BY <1>1, <1>2, <1>3, <1>4
<1> QED
  BY <1>1, <1>5 DEF t, ev

(* What it is, to begin with.                                              *)
LEMMA ListenerEs ==
  ASSUME Tipos, Negocios, NEW n \in Node
  PROVE  /\ ListenerOK(listener[n]) /\ listener = [x \in Node |-> listener[x]]
         /\ ListenerBien(tcp, n, Directos(tcp, Ele, n), listener[n])
         /\ EsSeq(listener[n].events)
         /\ \A i \in DOMAIN listener[n].events : listener[n].events[i].id # "INIT"
         /\ RedBien(Conocidos, vivo, Ele, tcp)
         /\ Hasta(n, tcp) /\ Quieta(tcp, tcp)
<1>1. ListenerOK(listener[n]) /\ listener = [x \in Node |-> listener[x]]
  BY DEF Tipos, Listeners
<1>2. ListenerBien(tcp, n, Directos(tcp, Ele, n), listener[n])
  BY DEF Negocios, Nodo
<1>3. Hasta(n, tcp) /\ Quieta(tcp, tcp)
  BY HastaYa, SigueIgual
<1>4. /\ EsSeq(listener[n].events)
      /\ \A i \in DOMAIN listener[n].events : listener[n].events[i].id # "INIT"
  BY <1>1, <1>2 DEF ListenerOK, ListenerBien
<1> QED
  BY <1>1, <1>2, <1>3, <1>4 DEF Negocios, Red

LEMMA SelectBien ==
  ASSUME Tipos, Apagados, Negocios, NEW n \in Node,
         select(n) \/ client_connections_admin_fin(n)
  PROVE  Negocios'
<1> DEFINE l == listener[n]
           abiertos == l.master \cap Abiertos(tcp, n)
           listos == {fd \in abiertos : Listo(tcp, n, fd)}
<1>1. /\ ListenerStep(n) /\ ListenerOK(l) /\ listener = [x \in Node |-> listener[x]]
      /\ ListenerBien(tcp, n, Directos(tcp, Ele, n), l)
      /\ EsSeq(l.events) /\ \A i \in DOMAIN l.events : l.events[i].id # "INIT"
      /\ Hasta(n, tcp) /\ Quieta(tcp, tcp)
      /\ UNCHANGED <<logicEvents, routerEvents, en_operacion, tcp, listenerAparte>>
  BY ListenerEs DEF ListenerStep, select, client_connections_admin_fin
<1>2. l.events # <<>>
  BY <1>1 DEF select, client_connections_admin_fin, EventoListener, ListenerOK
<1>3. /\ \A i \in DOMAIN Tail(l.events) : Tail(l.events)[i].id # "INIT"
      /\ LET s == Append(Tail(l.events), [id |-> "LOOP"])
         IN  \A i \in DOMAIN s : s[i].id # "INIT"
  <2> DEFINE q == l.events
  <2>1. EsSeq(q) /\ q # <<>> /\ \A i \in DOMAIN q : q[i].id # "INIT"
    BY <1>1, <1>2
  <2> HIDE DEF q
  <2>2. /\ \A i \in DOMAIN Tail(q) : Tail(q)[i].id # "INIT"
        /\ LET s == Append(Tail(q), [id |-> "LOOP"])
           IN  \A i \in DOMAIN s : s[i].id # "INIT"
    BY <2>1, VueltaBien
  <2> QED
    BY <2>2 DEF q
<1>4. /\ FinListener(l).events = Tail(l.events) /\ FinListener(l).paso = l.paso
      /\ FinListener(l).servSock = l.servSock /\ FinListener(l).newfd = l.newfd
      /\ FinListener(l).listos = l.listos
      /\ OtraVuelta(l).events = Append(Tail(l.events), [id |-> "LOOP"])
      /\ OtraVuelta(l).paso = l.paso /\ OtraVuelta(l).listos = l.listos
      /\ OtraVuelta(l).servSock = l.servSock /\ OtraVuelta(l).newfd = l.newfd
      /\ LET r == [OtraVuelta(l) EXCEPT !.paso = "libre"]
         IN  /\ r.events = Append(Tail(l.events), [id |-> "LOOP"])
             /\ r.paso = "libre" /\ r.servSock = l.servSock
  BY <1>1 DEF ListenerOK, FinListener, OtraVuelta
<1>5. ListenerBien(tcp', n, Directos(tcp', Ele, n), listener'[n])
  <2>1. CASE client_connections_admin_fin(n)
    <3>1. listener'[n] = [OtraVuelta(l) EXCEPT !.paso = "libre"]
      BY <1>1, <2>1 DEF client_connections_admin_fin
    <3> QED
      BY <1>1, <1>3, <1>4, <3>1, ListenerSigue DEF Saludando, Recorriendo
  <2>6. ASSUME NEW r, r.servSock = l.servSock, r.paso = l.paso, r.newfd = l.newfd,
               r.listos = l.listos, \A i \in DOMAIN r.events : r.events[i].id # "INIT"
        PROVE  ListenerBien(tcp', n, Directos(tcp', Ele, n), r)
    <3>1. Hasta(n, tcp') /\ Quieta(tcp, tcp')
      BY <1>1
    <3> QED
      BY <2>6, <3>1, ListenerSigue
  <2>2. CASE select(n) /\ listener'[n] = FinListener(l)
    <3> DEFINE r == FinListener(l)
    <3>1. /\ r.servSock = l.servSock /\ r.paso = l.paso /\ r.newfd = l.newfd
          /\ r.listos = l.listos /\ \A i \in DOMAIN r.events : r.events[i].id # "INIT"
      BY <1>3, <1>4
    <3> HIDE DEF r
    <3>2. ListenerBien(tcp', n, Directos(tcp', Ele, n), r)
      BY <2>6, <3>1
    <3> QED
      BY <2>2, <3>2 DEF r
  <2>3. CASE select(n) /\ listener'[n] = OtraVuelta(l)
    <3> DEFINE r == OtraVuelta(l)
    <3>1. /\ r.servSock = l.servSock /\ r.paso = l.paso /\ r.newfd = l.newfd
          /\ r.listos = l.listos /\ \A i \in DOMAIN r.events : r.events[i].id # "INIT"
      BY <1>3, <1>4
    <3> HIDE DEF r
    <3>2. ListenerBien(tcp', n, Directos(tcp', Ele, n), r)
      BY <2>6, <3>1
    <3> QED
      BY <2>3, <3>2 DEF r
  <2>4. CASE select(n) /\ listener' = [listener EXCEPT ![n].paso = "mirando", ![n].listos = listos]
    <3>1. /\ listener'[n].paso = "mirando" /\ listener'[n].listos = listos
          /\ listener'[n].servSock = l.servSock /\ listener'[n].events = l.events
      BY <1>1, <2>4 DEF ListenerOK
    <3>2. l.servSock \in listos => Cola(tcp, n) # {}
      <4>1. SUFFICES ASSUME l.servSock \in listos
                     PROVE  Cola(tcp, n) # {}
        OBVIOUS
      <4>2. l.servSock \in Nat /\ Listo(tcp, n, l.servSock)
        BY <1>1, <4>1 DEF ListenerOK
      <4>3. l.servSock # SOCK_ERRONEO
        BY <4>2 DEF SOCK_ERRONEO
      <4>4. Punta(tcp, n, l.servSock) = PUERTO
        BY <1>1, <4>3 DEF ListenerBien
      <4> QED
        BY <4>2, <4>4 DEF Listo
    <3> HIDE DEF listos
    <3> QED
      BY <1>1, <3>1, <3>2 DEF ListenerBien, Saludando, Recorriendo
  <2>5. select(n) => \/ listener'[n] = FinListener(l) \/ listener'[n] = OtraVuelta(l)
                     \/ listener' = [listener EXCEPT ![n].paso = "mirando", ![n].listos = listos]
    BY <1>1 DEF select
  <2> QED
    BY <2>1, <2>2, <2>3, <2>4, <2>5
<1> QED
  BY <1>1, <1>5, ListenerAvisa DEF listenerAparte

LEMMA AcceptBien ==
  ASSUME Tipos, Apagados, Negocios, NEW n \in Node, accept(n)
  PROVE  Negocios'
<1> DEFINE l == listener[n]
           fd == Libre(tcp, n)
           s == l.servSock
<1>1. /\ ListenerStep(n) /\ ListenerOK(l) /\ listener = [x \in Node |-> listener[x]]
      /\ ListenerBien(tcp, n, Directos(tcp, Ele, n), l)
      /\ \A i \in DOMAIN l.events : l.events[i].id # "INIT"
      /\ RedBien(Conocidos, vivo, Ele, tcp)
      /\ Hasta(n, tcp) /\ Quieta(tcp, tcp)
      /\ UNCHANGED <<logicEvents, routerEvents, en_operacion, listenerAparte>>
      /\ l.paso = "mirando" /\ l.listos # {} /\ Min(l.listos) = s
  BY ListenerEs DEF ListenerStep, accept, Mirando, Mirado
<1>2. l.listos \in SUBSET Nat /\ s \in l.listos /\ s \in Nat
  <2>1. l.listos \in SUBSET Nat
    BY <1>1 DEF ListenerOK
  <2> DEFINE C == l.listos
  <2> HIDE DEF C, s
  <2>2. Min(C) \in C
    BY <1>1, <2>1, Minimo DEF C
  <2> QED
    BY <1>1, <2>1, <2>2 DEF C
<1>3. Cola(tcp, n) # {} /\ Punta(tcp, n, s) = PUERTO /\ s \in Abiertos(tcp, n)
  <2>1. s # SOCK_ERRONEO
    BY <1>2 DEF SOCK_ERRONEO
  <2> QED
    BY <1>1, <1>2, <2>1 DEF ListenerBien, Saludando, Recorriendo
<1>4. \/ /\ tcp' = Acepta(tcp, n)
         /\ listener' = [listener EXCEPT
              ![n].master = @ \cup {fd}, ![n].ip = @ \cup {fd},
              ![n].cant = @ + 1, ![n].newfd = fd, ![n].paso = "nombre"]
      \/ /\ listener' = [listener EXCEPT ![n].listos = @ \ {Mirado(n)}]
         /\ UNCHANGED tcp
  BY DEF accept
<1>5. CASE /\ listener' = [listener EXCEPT ![n].listos = @ \ {Mirado(n)}]
           /\ UNCHANGED tcp
  <2>1. /\ listener'[n].servSock = s /\ listener'[n].events = l.events
        /\ listener'[n].paso = "mirando" /\ s \notin listener'[n].listos
    BY <1>1, <1>5 DEF ListenerOK, Mirado
  <2>2. ListenerBien(tcp', n, Directos(tcp', Ele, n), listener'[n])
    BY <1>1, <1>5, <2>1, ListenerSigue DEF Saludando, Recorriendo
  <2> QED
    BY <1>1, <1>5, <2>2, ListenerAvisa DEF listenerAparte
<1>6. CASE /\ tcp' = Acepta(tcp, n)
           /\ listener' = [listener EXCEPT
                ![n].master = @ \cup {fd}, ![n].ip = @ \cup {fd},
                ![n].cant = @ + 1, ![n].newfd = fd, ![n].paso = "nombre"]
  <2>1. tcp' = Acepta(tcp, n)
    BY <1>6
  <2>2. /\ listener'[n].servSock = s /\ listener'[n].events = l.events
        /\ listener'[n].paso = "nombre" /\ listener'[n].newfd = fd
    BY <1>1, <1>6 DEF ListenerOK
  <2>3. fd \in Int
    <3>1. FdsOK(tcp.fds[n])
      BY DEF Tipos, SocketsOK
    <3> QED
      BY <3>1, LibreEs
  <2> HIDE DEF fd, s
  <2>4. /\ RedBien(Conocidos, vivo, Ele, tcp') /\ Sigue(tcp, tcp', Ele, n)
        /\ Queda(tcp, tcp', Ele, n) /\ n \notin Compradores
        /\ \E c : c > Ele /\ Punta(tcp', n, fd) = [con |-> c, lado |-> 2]
    <3>1. fd = Libre(tcp, n)
      BY DEF fd
    <3> QED
      BY <1>1, <1>3, <2>1, <3>1, AceptaBien
  <2>5. Hasta(n, tcp')
    BY <2>4 DEF Hasta, Queda
  <2>6. fd \in Directos(tcp', Ele, n)
    <3>1. Punta(tcp', n, fd).con > Ele
      BY <2>4
    <3> QED
      BY <2>3, <3>1 DEF Directos
  <2>7. s \in Abiertos(tcp', n) /\ Punta(tcp', n, s) = PUERTO
    BY <1>3, <2>5 DEF Hasta, PuertoQueda
  <2>8. ListenerBien(tcp', n, Directos(tcp', Ele, n), listener'[n])
    BY <1>1, <2>2, <2>4, <2>6, <2>7 DEF ListenerBien, Saludando, Recorriendo
  <2> QED
    BY <1>1, <2>5, <2>8, ListenerAvisa DEF listenerAparte
<1> QED
  BY <1>4, <1>5, <1>6

LEMMA SaludadoBien ==
  ASSUME Tipos, Apagados, Negocios, NEW n \in Node, ListenerStep(n), NEW ev,
         Saludado(n, ev), listener[n].paso # "libre",
         \A P : Directos(tcp, Ele, n) \subseteq P => AvisoBien(Conocidos, n, P, ev)
  PROVE  Negocios'
<1> DEFINE l == listener[n]
           fd == l.newfd
           k == LeeSiHay(n, fd)
<1>1. /\ ListenerOK(l) /\ listener = [x \in Node |-> listener[x]]
      /\ \A i \in DOMAIN l.events : l.events[i].id # "INIT"
      /\ vivo[n] /\ routerEvents = [x \in Node |-> routerEvents[x]]
  BY ListenerEs, Despierto DEF Tipos, Colas
<1>2. Hasta(n, k) /\ Quieta(tcp, k)
  BY LeeSiHayBien
<1>3. CASE RecvMata(n, fd)
  BY <1>3, RecvMataBien
<1>4. CASE /\ tcp' = Envia(k, n, fd, SuNombre(n))
           /\ listener' = [listener EXCEPT
                ![n].paso = "mirando", ![n].newfd = SOCK_ERRONEO,
                ![n].listos = @ \ {listener[n].servSock}]
           /\ routerEvents' = [routerEvents EXCEPT ![n] = Append(@, ev)]
           /\ UNCHANGED <<logicEvents, en_operacion, listenerAparte>>
  <2>1. /\ tcp' = Envia(k, n, fd, SuNombre(n))
        /\ listener'[n].servSock = l.servSock /\ listener'[n].events = l.events
        /\ listener'[n].paso = "mirando" /\ l.servSock \notin listener'[n].listos
        /\ routerEvents'[n] = Append(routerEvents[n], ev)
        /\ UNCHANGED <<logicEvents, logicPropio, router, cuenta, vivo>>
    BY <1>1, <1>4 DEF ListenerOK, listenerAparte
  <2> HIDE DEF k, fd
  <2>2. /\ RedBien(Conocidos, vivo, Ele, tcp') /\ Sigue(k, tcp', Ele, n)
        /\ Queda(k, tcp', Ele, n) /\ Quieta(k, tcp')
    <3>1. RedBien(Conocidos, vivo, Ele, k) /\ \A x : DatoBien(Conocidos, x, SuNombre(n))
      BY <1>2 DEF Hasta, DatoBien
    <3> QED
      BY <1>1, <2>1, <3>1, EnviaBien
  <2>3. Hasta(n, tcp') /\ Quieta(tcp, tcp')
    <3>1. Hasta(n, tcp')
      BY <1>2, <2>2, HastaTras DEF Queda
    <3>2. Quieta(tcp, tcp')
      BY <1>2, <2>2 DEF Quieta, Hasta, Sigue
    <3> QED
      BY <3>1, <3>2
  <2>4. ListenerBien(tcp', n, Directos(tcp', Ele, n), listener'[n])
    BY <1>1, <2>1, <2>3, ListenerSigue DEF Saludando, Recorriendo
  <2>5. AvisoBien(Conocidos, n, Directos(tcp', Ele, n), ev)
    BY <2>3, DirectosCrecen DEF Hasta
  <2> QED
    BY <2>1, <2>3, <2>4, <2>5, ListenerAvisa
<1> QED
  BY <1>3, <1>4 DEF Saludado

LEMMA SaludosBien ==
  ASSUME Tipos, Apagados, Negocios, NEW n \in Node,
         accept_nombre(n) \/ accept_p2p(n) \/ accept_p2p_nombre(n)
  PROVE  Negocios'
<1> DEFINE l == listener[n]
           fd == l.newfd
<1>1. /\ ListenerStep(n) /\ ListenerOK(l) /\ listener = [x \in Node |-> listener[x]]
      /\ ListenerBien(tcp, n, Directos(tcp, Ele, n), l)
      /\ \A i \in DOMAIN l.events : l.events[i].id # "INIT"
      /\ RedBien(Conocidos, vivo, Ele, tcp)
      /\ l.paso \in Saludando
  BY ListenerEs DEF ListenerStep, accept_nombre, accept_p2p, accept_p2p_nombre, Saludando
<1>2. n \notin Compradores /\ fd \in Directos(tcp, Ele, n) /\ l.paso # "libre"
  BY <1>1 DEF ListenerBien, Saludando
<1>3. CASE accept_p2p_nombre(n)
  <2> DEFINE ev == [id |-> "RT_SET_SOCKET_P2P", fd |-> fd]
  <2>1. ev.id = "RT_SET_SOCKET_P2P" /\ ev.fd = fd
    OBVIOUS
  <2>2. Saludado(n, ev)
    BY <1>3 DEF accept_p2p_nombre
  <2> HIDE DEF ev, fd
  <2>3. \A P : Directos(tcp, Ele, n) \subseteq P => AvisoBien(Conocidos, n, P, ev)
    BY <1>2, <2>1 DEF AvisoBien, AvisoId, RouterId
  <2> QED
    BY <1>1, <1>2, <2>2, <2>3, SaludadoBien
<1>4. CASE accept_nombre(n) /\ ~EsP2P(n)
  <2> DEFINE ev == [id |-> "RT_ADD_NODO_SERVIDOR", nodo |-> NombreLeido(n, fd), fd |-> fd]
  <2>1. ev.id = "RT_ADD_NODO_SERVIDOR"
    OBVIOUS
  <2>2. Saludado(n, ev)
    BY <1>4 DEF accept_nombre
  <2> HIDE DEF ev, fd
  <2>3. \A P : Directos(tcp, Ele, n) \subseteq P => AvisoBien(Conocidos, n, P, ev)
    BY <2>1 DEF AvisoBien, AvisoId, RouterId
  <2> QED
    BY <1>1, <1>2, <2>2, <2>3, SaludadoBien
<1>5. CASE accept_nombre(n) /\ EsP2P(n)
  <2>1. /\ listener' = [listener EXCEPT ![n].paso = "p2p_opera"]
        /\ tcp' = Lee(tcp, n, fd)
        /\ UNCHANGED <<logicEvents, routerEvents, listenerAparte>>
        /\ l.paso = "nombre" /\ Conectado(tcp, n, fd)
    BY <1>5 DEF accept_nombre, EsP2P, RecvDato
  <2>2. /\ listener'[n].servSock = l.servSock /\ listener'[n].events = l.events
        /\ listener'[n].paso = "p2p_opera" /\ listener'[n].newfd = l.newfd
    BY <1>1, <2>1 DEF ListenerOK
  <2>3. /\ RedBien(Conocidos, vivo, Ele, tcp') /\ Sigue(tcp, tcp', Ele, n)
        /\ Queda(tcp, tcp', Ele, n) /\ Quieta(tcp, tcp')
    <3> HIDE DEF fd
    <3> QED
      BY <1>1, <2>1, LeeBien
  <2>4. Hasta(n, tcp')
    BY <2>3 DEF Hasta, Queda
  <2>5. ListenerBien(tcp', n, Directos(tcp', Ele, n), listener'[n])
    BY <1>1, <2>2, <2>3, <2>4, ListenerSigue DEF Saludando, Recorriendo
  <2> QED
    BY <1>1, <2>1, <2>4, <2>5, ListenerAvisa DEF listenerAparte
<1>6. CASE accept_p2p(n)
  <2>1. /\ listener' = [listener EXCEPT ![n].p2p = fd, ![n].paso = "p2p_nombre"]
        /\ UNCHANGED <<logicEvents, routerEvents, tcp, listenerAparte>>
        /\ l.paso = "p2p_opera"
    BY <1>6 DEF accept_p2p
  <2>2. /\ listener'[n].servSock = l.servSock /\ listener'[n].events = l.events
        /\ listener'[n].paso = "p2p_nombre" /\ listener'[n].newfd = l.newfd
    BY <1>1, <2>1 DEF ListenerOK
  <2>3. Hasta(n, tcp') /\ Quieta(tcp, tcp')
    BY <2>1, HastaYa, SigueIgual
  <2>4. ListenerBien(tcp', n, Directos(tcp', Ele, n), listener'[n])
    BY <1>1, <2>1, <2>2, <2>3, ListenerSigue DEF Saludando, Recorriendo
  <2> QED
    BY <1>1, <2>1, <2>3, <2>4, ListenerAvisa DEF listenerAparte
<1> QED
  BY <1>3, <1>4, <1>5, <1>6

LEMMA VigilaBien ==
  ASSUME Tipos, Apagados, Negocios, NEW n \in Node,
         add_socket(n) \/ add_socket_p2p(n) \/ rm_socket_p2p(n)
  PROVE  Negocios'
<1> DEFINE l == listener[n]
           fd == EvListener(n).fd
           q == l.events
<1>1. /\ ListenerStep(n) /\ ListenerOK(l) /\ listener = [x \in Node |-> listener[x]]
      /\ EsSeq(q) /\ \A i \in DOMAIN q : q[i].id # "INIT"
      /\ Hasta(n, tcp) /\ Quieta(tcp, tcp) /\ q # <<>> /\ l.paso = "libre"
  BY ListenerEs DEF ListenerStep, add_socket, add_socket_p2p, rm_socket_p2p, EventoListener
<1>2. PICK r : /\ Vigila(n, r)
               /\ \/ r = [l EXCEPT !.master = @ \cup {fd}]
                  \/ r = [l EXCEPT !.master = @ \cup {fd}, !.p2p = fd]
                  \/ r = [l EXCEPT !.master = @ \ {fd}, !.ip = @ \ {fd}]
  BY DEF add_socket, add_socket_p2p, rm_socket_p2p
<1>3. /\ FinListener(r).events = Tail(q) /\ FinListener(r).paso = "libre"
      /\ FinListener(r).servSock = l.servSock
  BY <1>1, <1>2 DEF FinListener, ListenerOK
<1>4. \A i \in DOMAIN Tail(q) : Tail(q)[i].id # "INIT"
  <2> HIDE DEF q
  <2> QED
    BY <1>1, VueltaBien
<1>5. /\ listener'[n] = FinListener(r)
      /\ UNCHANGED <<logicEvents, routerEvents, en_operacion, tcp, listenerAparte>>
  BY <1>1, <1>2 DEF Vigila
<1>6. ListenerBien(tcp', n, Directos(tcp', Ele, n), listener'[n])
  <2> DEFINE g == FinListener(r)
  <2>1. /\ g.servSock = listener[n].servSock /\ g.paso = "libre"
        /\ \A i \in DOMAIN g.events : g.events[i].id # "INIT"
    BY <1>3, <1>4
  <2>2. Hasta(n, tcp') /\ Quieta(tcp, tcp')
    BY <1>1, <1>5
  <2> HIDE DEF g
  <2>3. ListenerBien(tcp', n, Directos(tcp', Ele, n), g)
    BY <2>1, <2>2, ListenerSigue DEF Saludando, Recorriendo
  <2> QED
    BY <1>5, <2>3 DEF g
<1> QED
  BY <1>1, <1>5, <1>6, ListenerAvisa DEF listenerAparte

LEMMA AvisadoJunta ==
  ASSUME Tipos, Negocios, NEW n \in Node, UNCHANGED <<logicPropio, cuenta, vivo>>,
         Sigue(tcp, tcp', Ele, n), NEW a, EsSeq(a),
         routerEvents'[n] = routerEvents[n] \o a,
         \A i \in DOMAIN a : \A P : AvisoBien(Conocidos, n, P, a[i])
  PROVE  Avisado(n)'
<1> DEFINE q == routerEvents[n]
           P == Directos(tcp, Ele, n)
           Q == Directos(tcp', Ele, n)
<1>1. Conocidos' = Conocidos /\ UNCHANGED Ele
  BY MisCuentas
<1>2. P \subseteq Q
  BY DirectosCrecen
<1>3. EsSeq(q) /\ \A i \in DOMAIN q : AvisoBien(Conocidos, n, P, q[i])
  BY DEF Negocios, Nodo, Avisado, Tipos, Colas, ColaOK
<1> HIDE DEF P, Q
<1>4. \A i \in DOMAIN q : AvisoBien(Conocidos, n, Q, q[i])
  BY <1>2, <1>3, AvisoCrece
<1> HIDE DEF q
<1>5. \A i \in DOMAIN (q \o a) : AvisoBien(Conocidos, n, Q, (q \o a)[i])
  <2>1. \A i \in DOMAIN (q \o a) :
             (i \in DOMAIN q /\ (q \o a)[i] = q[i])
               \/ (i - Len(q) \in DOMAIN a /\ (q \o a)[i] = a[i - Len(q)])
    BY <1>3, SeqJunta
  <2>2. \A i \in DOMAIN a : AvisoBien(Conocidos, n, Q, a[i])
    OBVIOUS
  <2> QED
    BY <1>4, <2>1, <2>2
<1>6. routerEvents'[n] = q \o a
  BY DEF q
<1>7. Directos(tcp, Ele, n)' = Q
  BY <1>1 DEF Q
<1> QED
  BY <1>1, <1>5, <1>6, <1>7 DEF Avisado

LEMMA CierreBien ==
  ASSUME Tipos, Apagados, Negocios, NEW n \in Node, cierre(n)
  PROVE  Negocios'
<1> DEFINE l == listener[n]
           i == Mirado(n)
           e == [id |-> "RT_RM_NODO_SERVIDOR", fd |-> i]
           a == IF RecvFin(tcp, n, i) /\ i \in l.ip /\ i # l.p2p THEN <<e>> ELSE <<>>
           p == IF i = l.p2p THEN "cierre_p2p" ELSE l.paso
<1>1. /\ ListenerStep(n) /\ ListenerOK(l) /\ listener = [x \in Node |-> listener[x]]
      /\ \A x \in DOMAIN l.events : l.events[x].id # "INIT"
      /\ RedBien(Conocidos, vivo, Ele, tcp)
      /\ routerEvents = [x \in Node |-> routerEvents[x]]
  BY ListenerEs DEF ListenerStep, Tipos, Colas
<1>2. /\ l.paso = "mirando" /\ i # l.servSock /\ tcp' = Cierra(tcp, n, i)
      /\ UNCHANGED <<logicEvents, listenerAparte>>
      /\ routerEvents' = [routerEvents EXCEPT ![n] = @ \o a]
      /\ listener' = [listener EXCEPT
           ![n].listos = @ \ {i}, ![n].master = @ \ {i}, ![n].ip = @ \ {i},
           ![n].cant = IF RecvFin(tcp, n, i) THEN @ - 1 ELSE @,
           ![n].paso = IF i = l.p2p THEN "cierre_p2p" ELSE @]
  BY DEF cierre, Mirando
<1>3. /\ listener'[n].servSock = l.servSock /\ listener'[n].events = l.events
      /\ listener'[n].paso = p /\ listener'[n].listos = l.listos \ {i}
      /\ p \in Recorriendo /\ p \notin Saludando
  BY <1>1, <1>2 DEF ListenerOK, Recorriendo, Saludando
<1>4. routerEvents'[n] = routerEvents[n] \o a
  BY <1>1, <1>2
<1>5. EsSeq(a) /\ \A x \in DOMAIN a : \A P : AvisoBien(Conocidos, n, P, a[x])
  <2>1. EsSeq(<<>>) /\ DOMAIN <<>> = {}
    BY SeqCortas
  <2>2. e.id = "RT_RM_NODO_SERVIDOR" /\ a \in {<<e>>, <<>>}
    OBVIOUS
  <2> HIDE DEF a, e
  <2>3. \A P : AvisoBien(Conocidos, n, P, e)
    BY <2>2 DEF AvisoBien, AvisoId, RouterId
  <2>4. EsSeq(<<e>>) /\ DOMAIN <<e>> = {1} /\ <<e>>[1] = e
    BY SeqCortas
  <2> QED
    BY <2>1, <2>2, <2>3, <2>4
<1> HIDE DEF a, p
<1>6. /\ RedBien(Conocidos, vivo, Ele, tcp') /\ Sigue(tcp, tcp', Ele, n)
      /\ Quieta(tcp, tcp') /\ PuertoQueda(tcp, tcp', n)
  <2>1. tcp' = Cierra(tcp, n, i)
    BY <1>2
  <2> HIDE DEF i
  <2> QED
    BY <1>1, <2>1, CierraBien
<1>7. Hasta(n, tcp')
  BY <1>6 DEF Hasta
<1>8. ListenerBien(tcp', n, Directos(tcp', Ele, n), listener'[n])
  <2>1. l.paso \in Recorriendo
    BY <1>2 DEF Recorriendo
  <2> QED
    BY <1>1, <1>3, <1>6, <1>7, <2>1, ListenerSigue
<1>9. UNCHANGED <<logicEvents, logicPropio, router, cuenta, vivo>>
  BY <1>2 DEF listenerAparte
<1>10. Avisado(n)'
  BY <1>4, <1>5, <1>6, <1>9, AvisadoJunta
<1>11. Logico(n)'
  BY <1>9, LogicoQueda
<1> QED
  BY <1>1, <1>7, <1>8, <1>9, <1>10, <1>11, ListenerPasaBien

(* The rest of the end of a direct connection.                             *)
LEMMA CierreDirecto ==
  ASSUME Tipos, Apagados, Negocios, NEW n \in Node, cierre_p2p(n) \/ cierre_fin(n)
  PROVE  Negocios'
<1> DEFINE l == listener[n]
           ev == [id |-> "RT_UNSET_SOCKET_P2P"]
<1>1. /\ ListenerStep(n) /\ ListenerOK(l) /\ listener = [x \in Node |-> listener[x]]
      /\ \A x \in DOMAIN l.events : l.events[x].id # "INIT"
      /\ routerEvents = [x \in Node |-> routerEvents[x]]
  BY ListenerEs DEF ListenerStep, Tipos, Colas
<1>2. /\ l.paso \in {"cierre_p2p", "cierre_fin"}
      /\ UNCHANGED <<logicEvents, tcp, listenerAparte>>
      /\ \/ /\ routerEvents' = [routerEvents EXCEPT ![n] = Append(@, ev)]
            /\ listener' = [listener EXCEPT ![n].p2p = SOCK_ERRONEO,
                                            ![n].paso = "cierre_fin"]
         \/ /\ UNCHANGED routerEvents
            /\ listener' = [listener EXCEPT ![n].paso = "mirando"]
  BY DEF cierre_p2p, cierre_fin
<1>3. /\ listener'[n].paso \in {"cierre_fin", "mirando"}
      /\ listener'[n].servSock = l.servSock /\ listener'[n].events = l.events
      /\ listener'[n].listos = l.listos
  <2>1. CASE listener' = [listener EXCEPT ![n].p2p = SOCK_ERRONEO, ![n].paso = "cierre_fin"]
    BY <1>1, <2>1 DEF ListenerOK
  <2>2. CASE listener' = [listener EXCEPT ![n].paso = "mirando"]
    BY <1>1, <2>2 DEF ListenerOK
  <2> QED
    BY <1>2, <2>1, <2>2
<1>4. \/ routerEvents'[n] = routerEvents[n]
      \/ routerEvents'[n] = Append(routerEvents[n], ev)
  BY <1>1, <1>2
<1>5. Hasta(n, tcp') /\ Quieta(tcp, tcp')
  BY <1>2, HastaYa, SigueIgual
<1>6. ListenerBien(tcp', n, Directos(tcp', Ele, n), listener'[n])
  BY <1>1, <1>2, <1>3, <1>5, ListenerSigue DEF Saludando, Recorriendo
<1>7. ev.id = "RT_UNSET_SOCKET_P2P"
  OBVIOUS
<1> HIDE DEF ev
<1>8. AvisoBien(Conocidos, n, Directos(tcp', Ele, n), ev)
  BY <1>7 DEF AvisoBien, AvisoId, RouterId
<1> QED
  BY <1>1, <1>2, <1>4, <1>5, <1>6, <1>8, ListenerAvisa DEF listenerAparte

LEMMA MensajeBienPasa ==
  ASSUME Tipos, Apagados, Negocios, NEW n \in Node, mensaje(n)
  PROVE  Negocios'
<1> DEFINE l == listener[n]
           i == Mirado(n)
           d == Recibido(tcp, n, i)[1]
<1>1. /\ ListenerStep(n) /\ ListenerOK(l) /\ listener = [x \in Node |-> listener[x]]
      /\ \A x \in DOMAIN l.events : l.events[x].id # "INIT"
      /\ RedBien(Conocidos, vivo, Ele, tcp)
      /\ logicEvents = [x \in Node |-> logicEvents[x]]
  BY ListenerEs DEF ListenerStep, Apagados
<1>2. /\ l.paso = "mirando" /\ i # l.servSock /\ RecvDato(tcp, n, i)
      /\ listener' = [listener EXCEPT ![n].listos = @ \ {i}]
      /\ UNCHANGED <<routerEvents, en_operacion, listenerAparte>>
      /\ tcp' = Lee(tcp, n, i) \/ tcp' = Descarta(tcp, n, i)
      /\ \/ UNCHANGED logicEvents
         \/ /\ d.que = "mensaje"
            /\ logicEvents' = [logicEvents EXCEPT
                 ![n] = Append(@, [id |-> "CLIENT_MSG", tag |-> d.tag])]
  <2>1. logicEvents = [logicEvents EXCEPT ![n] = @]
    BY <1>1
  <2> QED
    BY <2>1 DEF mensaje, Mirando
<1>3. /\ listener'[n].servSock = l.servSock /\ listener'[n].events = l.events
      /\ listener'[n].paso = "mirando" /\ listener'[n].listos = l.listos \ {i}
  BY <1>1, <1>2 DEF ListenerOK
<1>4. Conectado(tcp, n, i) /\ Recibido(tcp, n, i) # <<>>
  BY <1>2 DEF RecvDato
<1>5. /\ RedBien(Conocidos, vivo, Ele, tcp') /\ Sigue(tcp, tcp', Ele, n)
      /\ Quieta(tcp, tcp') /\ Queda(tcp, tcp', Ele, n)
  <2> HIDE DEF i
  <2> QED
    BY <1>1, <1>2, <1>4, LeeBien
<1>6. Hasta(n, tcp')
  BY <1>5 DEF Hasta, Queda
<1>7. ListenerBien(tcp', n, Directos(tcp', Ele, n), listener'[n])
  BY <1>1, <1>2, <1>3, <1>5, <1>6, ListenerSigue DEF Saludando, Recorriendo
<1>8. UNCHANGED <<logicPropio, router, cuenta, vivo>>
  BY <1>2 DEF listenerAparte
<1>9. Avisado(n)'
  BY <1>2, <1>5, <1>8, AvisadoQueda
<1>10. DatoBien(Conocidos, n, d)
  <2> DEFINE j == Punta(tcp, n, i).con
             s == Punta(tcp, n, i).lado
             c == tcp.con[j]
             q == c.buf[s]
  <2>1. EsPunta(Conocidos, vivo, Ele, tcp, n, j, s)
    <3> HIDE DEF i
    <3> QED
      BY <1>1, <1>4, PuntaEs
  <2>2. q = Recibido(tcp, n, i)
    BY DEF Recibido
  <2> HIDE DEF j, s, i
  <2>3. /\ EsSeq(q) /\ \A x \in DOMAIN q : DatoBien(Conocidos, n, q[x])
    BY <2>1 DEF EsPunta, ConexionBien, LadoBien
  <2>4. q # <<>>
    BY <1>4, <2>2
  <2> HIDE DEF q, c
  <2>5. 1 \in DOMAIN q
    BY <2>3, <2>4, SeqTail
  <2> QED
    BY <2>2, <2>3, <2>5
<1>11. Logico(n)'
  <2>1. CASE UNCHANGED logicEvents
    BY <1>8, <2>1, LogicoQueda
  <2>2. CASE /\ d.que = "mensaje"
             /\ logicEvents' = [logicEvents EXCEPT
                  ![n] = Append(@, [id |-> "CLIENT_MSG", tag |-> d.tag])]
    <3> DEFINE q == logicEvents[n]
               ev == [id |-> "CLIENT_MSG", tag |-> d.tag]
    <3>1. logicEvents'[n] = Append(q, ev)
      BY <1>1, <2>2
    <3>2. MensajeEn(Conocidos, n, d.tag)
      <4> HIDE DEF d
      <4> QED
        BY <1>10, <2>2 DEF DatoBien, P2P_CONNECT, SuNombre, Carta
    <3>3. ev.id = "CLIENT_MSG" /\ ev.tag = d.tag
      OBVIOUS
    <3> HIDE DEF ev, d
    <3>4. LogicaBien(Conocidos, n, ev)
      BY <3>2, <3>3 DEF LogicaBien, MensajeId
    <3>5. /\ EsSeq(q) /\ \A x \in DOMAIN q : LogicaBien(Conocidos, n, q[x])
          /\ compro[n] = Config[n].compra /\ vendo[n] = Config[n].venta
      BY DEF Negocios, Nodo, Logico
    <3> HIDE DEF q
    <3>6. /\ EsSeq(Append(q, ev)) /\ Len(q) \in Nat /\ DOMAIN q = 1..Len(q)
          /\ DOMAIN Append(q, ev) = 1..(Len(q) + 1)
          /\ \A x \in DOMAIN q : Append(q, ev)[x] = q[x]
          /\ Append(q, ev)[Len(q) + 1] = ev
      BY <3>5, SeqAppend
    <3>7. \A x \in 1..(Len(q) + 1) : x \in 1..Len(q) \/ x = Len(q) + 1
      BY <3>6
    <3>8. \A x \in DOMAIN Append(q, ev) : LogicaBien(Conocidos, n, Append(q, ev)[x])
      BY <3>4, <3>5, <3>6, <3>7
    <3>9. Conocidos' = Conocidos /\ UNCHANGED <<compro, vendo>>
      BY <1>8, MisCuentas
    <3> QED
      BY <3>1, <3>5, <3>6, <3>8, <3>9 DEF Logico
  <2> QED
    BY <1>2, <2>1, <2>2
<1> QED
  BY <1>1, <1>6, <1>7, <1>8, <1>9, <1>11, ListenerPasaBien

LEMMA ListenerBienPasa ==
  ASSUME Tipos, Apagados, Negocios, NEW n \in Node, ListenerStep(n)
  PROVE  Negocios'
  BY SinArranques, SelectBien, AcceptBien, SaludosBien, CierreBien, CierreDirecto,
     MensajeBienPasa, VigilaBien DEF ListenerStep

-----------------------------------------------------------------------------
(* The Logic of node n, its user, and its end.                             *)
LEMMA NodoQuieto ==
  ASSUME Tipos, Apagados, Negocios, NEW n \in Node, Toca(n), Cuentas', UNCHANGED Ele,
         UNCHANGED <<vivo, compro, vendo, router, listener, tcp>>,
         Conocidos \subseteq Conocidos', Logico(n)', Avisado(n)'
  PROVE  Negocios'
<1>1. Solo(n) /\ vivo[n]
  BY ElVivo
<1>2. RedBien(Conocidos, vivo, Ele, tcp') /\ Sigue(tcp, tcp', Ele, n)
  BY SigueIgual DEF Negocios, Red
<1>3. Nodo(n)'
  <2>1. Directos(tcp, Ele, n)' = Directos(tcp, Ele, n)
    OBVIOUS
  <2>2. /\ RouterBien(n, Directos(tcp, Ele, n), router[n])
        /\ ListenerBien(tcp, n, Directos(tcp, Ele, n), listener[n])
    BY DEF Negocios, Nodo
  <2>3. /\ RouterBien(n, Directos(tcp, Ele, n)', router'[n])
        /\ ListenerBien(tcp', n, Directos(tcp, Ele, n)', listener'[n])
    BY <2>1, <2>2
  <2> QED
    BY <1>1, <2>3 DEF Nodo
<1> QED
  BY <1>1, <1>2, <1>3, Compone

LEMMA LogicaSigue ==
  ASSUME SinMezcla, Tipos, Apagados, Negocios, NEW n \in Node, Logica(n)
  PROVE  Negocios'
<1>1. /\ Cuentas' /\ Conocidos \subseteq Conocidos' /\ Logico(n)' /\ Postea(n)
  BY LogicaBienPasa DEF LogicoPasa, Negocios, Nodo
<1>2. /\ LogicStep(n) /\ UNCHANGED <<router, listener, en_operacion, tcp, vivo, cuenta>>
  BY DEF Logica
<1>3. UNCHANGED <<compro, vendo>>
  <2>1. ~set_stock_product(n) /\ ~set_cur_prod_compra(n) /\ ~set_cur_prod_venta(n)
    BY <1>2, LogicaOrdena DEF Negocios, Nodo
  <2> QED
    BY <1>2, <2>1 DEF LogicStep, on_send_look_up, on_send_look_up_forward, on_send_replay,
       on_send_replay_forward, on_send_buy, on_send_buy_reply_ok, on_send_buy_reply_err,
       on_client_msg
<1>4. Toca(n)
  BY TocaOtros
<1>5. UNCHANGED Ele /\ Directos(tcp, Ele, n)' = Directos(tcp, Ele, n)
  BY <1>2 DEF Ele
<1>6. Avisado(n)'
  <2> DEFINE q == routerEvents[n]
             P == Directos(tcp, Ele, n)
  <2>1. EsSeq(q) /\ \A i \in DOMAIN q : AvisoBien(Conocidos, n, P, q[i])
    BY DEF Tipos, Colas, ColaOK, Negocios, Nodo, Avisado
  <2>2. \A i \in DOMAIN q : AvisoBien(Conocidos', n, P, q[i])
    <3> HIDE DEF P, q
    <3> QED
      BY <1>1, <2>1, AvisoCrece
  <2>3. CASE UNCHANGED routerEvents
    BY <1>5, <2>2, <2>3 DEF Avisado
  <2>4. ASSUME NEW id, NEW m, PosteaRouter(n, id, m),
               \A R : AvisoBien(Conocidos', n, R, [id |-> id, tag |-> m])
        PROVE  Avisado(n)'
    <3> DEFINE ev == [id |-> id, tag |-> m]
    <3>1. routerEvents'[n] = Append(q, ev)
      BY <2>4 DEF PosteaRouter, Tipos, Colas
    <3>2. AvisoBien(Conocidos', n, P, ev)
      BY <2>4
    <3> HIDE DEF q, P, ev
    <3>3. /\ Len(q) \in Nat /\ DOMAIN q = 1..Len(q)
          /\ DOMAIN Append(q, ev) = 1..(Len(q) + 1)
          /\ \A x \in DOMAIN q : Append(q, ev)[x] = q[x]
          /\ Append(q, ev)[Len(q) + 1] = ev
      BY <2>1, SeqAppend
    <3>4. \A x \in 1..(Len(q) + 1) : x \in 1..Len(q) \/ x = Len(q) + 1
      BY <3>3
    <3>5. \A x \in DOMAIN Append(q, ev) : AvisoBien(Conocidos', n, P, Append(q, ev)[x])
      BY <2>2, <3>2, <3>3, <3>4
    <3> QED
      BY <1>5, <3>1, <3>5 DEF Avisado, P
  <2> QED
    BY <1>1, <2>3, <2>4 DEF Postea
<1> QED
  BY <1>1, <1>2, <1>3, <1>4, <1>5, <1>6, NodoQuieto

LEMMA EscenaContada ==
  ASSUME Cuentas
  PROVE  /\ EsEscena(cuenta.escena) /\ cuenta.escena \in Escenas
         /\ \A n \in Node : cuenta.pedidos[n] < cuenta.escena.pedidos[n] => n \in Compradores
         /\ SinVueltas => /\ ~(cuenta.reconexiones < cuenta.escena.reconexiones)
                          /\ \A n \in Node : ~(cuenta.arranques[n] < cuenta.escena.arranques[n])
<1>1. cuenta.escena \in Escenas /\ EsEscena(cuenta.escena)
  BY ConexionesAssumption DEF Cuentas
<1>2. ASSUME NEW n \in Node, cuenta.pedidos[n] < cuenta.escena.pedidos[n]
      PROVE  n \in Compradores
  <2>1. cuenta.pedidos[n] \in Nat
    BY DEF Cuentas
  <2>2. cuenta.escena.pedidos[n] # 0
    BY <1>2, <2>1
  <2> QED
    BY <1>1, <2>2 DEF Compradores
<1>3. ASSUME SinVueltas
      PROVE  /\ ~(cuenta.reconexiones < cuenta.escena.reconexiones)
             /\ \A n \in Node : ~(cuenta.arranques[n] < cuenta.escena.arranques[n])
  <2>1. /\ cuenta.escena.reconexiones = 0
        /\ \A n \in Node : cuenta.escena.arranques[n] = 0
    BY <1>1, <1>3 DEF SinVueltas
  <2>2. cuenta.reconexiones \in Nat /\ \A n \in Node : cuenta.arranques[n] \in Nat
    BY DEF Cuentas
  <2> QED
    BY <2>1, <2>2
<1> QED
  BY <1>1, <1>2, <1>3

LEMMA LanzaBien ==
  ASSUME Tipos, Apagados, Negocios, NEW n \in Node, procesar_lanzar(n)
  PROVE  Negocios'
<1>1. /\ cuenta' = [cuenta EXCEPT !.pedidos[n] = @ + 1, !.ordenes = @ + 1]
      /\ UNCHANGED <<routerEvents, logicPropio, router, listener, en_operacion, tcp, vivo>>
      /\ cuenta.pedidos[n] < cuenta.escena.pedidos[n]
  BY DEF procesar_lanzar
<1>2. PICK c \in Pedible :
        logicEvents' = [logicEvents EXCEPT ![n] = Append(@, [id |-> "DO_LOOKUP", cantidad |-> c])]
  BY DEF procesar_lanzar
<1>3. Cuentas /\ n \in Compradores /\ c \in Int
  BY <1>1, EscenaContada, ConexionesAssumption DEF Negocios
<1>4. Toca(n)
  BY TocaOtros
<1>5. /\ DOMAIN cuenta' = DOMAIN cuenta /\ cuenta'.escena = cuenta.escena
      /\ cuenta'.pedidos = [cuenta.pedidos EXCEPT ![n] = @ + 1]
      /\ cuenta'.arranques = cuenta.arranques /\ cuenta'.reconexiones = cuenta.reconexiones
  BY <1>1, <1>3 DEF Cuentas
<1>6. cuenta'.pedidos \in [Node -> Nat]
  BY <1>3, <1>5 DEF Cuentas
<1>7. Cuentas'
  BY <1>1, <1>3, <1>5, <1>6 DEF Cuentas, logicPropio
<1>8. UNCHANGED Ele /\ Conocidos' = Conocidos /\ UNCHANGED <<compro, vendo>>
  BY <1>1, <1>5 DEF Ele, Conocidos, logicPropio
<1>9. Logico(n)'
  <2> DEFINE q == logicEvents[n]
             ev == [id |-> "DO_LOOKUP", cantidad |-> c]
  <2>1. logicEvents'[n] = Append(q, ev)
    BY <1>2 DEF Apagados
  <2>2. ev.id = "DO_LOOKUP" /\ ev.cantidad = c
    OBVIOUS
  <2> HIDE DEF ev
  <2>3. LogicaBien(Conocidos, n, ev)
    BY <1>3, <2>2 DEF LogicaBien, MensajeId
  <2>4. /\ EsSeq(q) /\ \A x \in DOMAIN q : LogicaBien(Conocidos, n, q[x])
        /\ compro[n] = Config[n].compra /\ vendo[n] = Config[n].venta
    BY DEF Negocios, Nodo, Logico
  <2> HIDE DEF q
  <2>5. /\ EsSeq(Append(q, ev)) /\ Len(q) \in Nat /\ DOMAIN q = 1..Len(q)
        /\ DOMAIN Append(q, ev) = 1..(Len(q) + 1)
        /\ \A x \in DOMAIN q : Append(q, ev)[x] = q[x]
        /\ Append(q, ev)[Len(q) + 1] = ev
    BY <2>4, SeqAppend
  <2>6. \A x \in 1..(Len(q) + 1) : x \in 1..Len(q) \/ x = Len(q) + 1
    BY <2>5
  <2>7. \A x \in DOMAIN Append(q, ev) : LogicaBien(Conocidos, n, Append(q, ev)[x])
    BY <2>3, <2>4, <2>5, <2>6
  <2> QED
    BY <1>8, <2>1, <2>4, <2>5, <2>7 DEF Logico
<1>10. Avisado(n)'
  <2>1. Directos(tcp, Ele, n)' = Directos(tcp, Ele, n)
    BY <1>1, <1>8
  <2> QED
    BY <1>1, <1>8, <2>1 DEF Negocios, Nodo, Avisado
<1> QED
  BY <1>1, <1>4, <1>7, <1>8, <1>9, <1>10, NodoQuieto

LEMMA SinVuelta ==
  ASSUME SinVueltas, Negocios, NEW n \in Node
  PROVE  ~try_reconnect(n) /\ ~Arranca(n)
  BY EscenaContada DEF Negocios, try_reconnect, Arranca

LEMMA SaleBien ==
  ASSUME Tipos, Apagados, Negocios, NEW n \in Node, Sale(n)
  PROVE  Negocios'
<1>1. PICK k \in {tcp} \cup AMedias(n) : Muere(n, k)
  BY DEF Sale
<1>2. MismaCuenta
  BY DEF Sale, MismaCuenta, Negocios, Cuentas
<1>3. Hasta(n, k)
  <2>1. CASE k = tcp
    BY <2>1, HastaYa
  <2>2. ASSUME NEW fd, k = LeeSiHay(n, fd)
        PROVE  Hasta(n, k)
    BY <2>2, LeeSiHayBien
  <2>3. ASSUME NEW m, EnServicio(tcp, m), AtiendeRouter(n, "RT_START_P2P_CONNECT"),
               m = Evento(n).tag.vendedor, k = Conecta(tcp, n, m)
        PROVE  Hasta(n, k)
    BY <2>3, ConectaHasta
  <2>4. ~PasoVecino(n)
    BY SinArranques
  <2> QED
    BY <2>1, <2>2, <2>3, <2>4 DEF AMedias
<1> QED
  BY <1>1, <1>2, <1>3, MuereCompone DEF Hasta

LEMMA NegociosNext ==
  ASSUME SinMezcla, SinVueltas, Tipos, Apagados, Negocios, [Next]_vars
  PROVE  Negocios'
<1>1. CASE UNCHANGED vars
  BY <1>1 DEF vars, logicVars, Negocios, Cuentas, Red, Nodo, Logico, Avisado, Conocidos, Ele
<1>2. CASE Next
  BY <1>2, LogicaSigue, RouterBienPasa, ListenerBienPasa, LanzaBien, SinVuelta, SaleBien
     DEF Next
<1> QED
  BY <1>1, <1>2

-----------------------------------------------------------------------------
(* Where a behaviour begins: nothing has been sent, and every connection   *)
(* is one of the scene's.                                                  *)
LEMMA EnlaceBien ==
  ASSUME NEW e \in Escenas, NEW S, NEW V, \A n \in Node : V[n] = (n \notin e.frios),
         NEW j \in DOMAIN e.enlaces, NEW r, ConexionOK(r), EnlaceHecho(r, e.enlaces[j])
  PROVE  ConexionBien(S, V, Len(e.enlaces), j, r)
<1> DEFINE a == e.enlaces[j][1]
           b == Vecinos(e.enlaces[j])
<1>1. a \in Node /\ b \in Node /\ V[a] /\ V[b]
  BY EscenaEs
<1>2. /\ r.nodo = <<a, b>> /\ r.buf = <<<<>>, <<>>>> /\ r.ve = <<"vivo", "vivo">>
      /\ r.nueva = FALSE
  BY DEF EnlaceHecho
<1> HIDE DEF a, b
<1>3. /\ r.nodo[1] = a /\ r.nodo[2] = b /\ r.nodo \in [1..2 -> Node]
      /\ r.buf[1] = <<>> /\ r.buf[2] = <<>> /\ r.buf = [l \in 1..2 |-> r.buf[l]]
      /\ r.ve[1] = "vivo" /\ r.ve[2] = "vivo"
  BY <1>1, <1>2
<1>4. EsSeq(<<>>) /\ DOMAIN <<>> = {}
  BY SeqCortas
<1>5. LadoBien(S, V, r, 1) /\ LadoBien(S, V, r, 2)
  BY <1>1, <1>3, <1>4 DEF LadoBien
<1>6. ~(j > Len(e.enlaces))
  BY EscenaEs
<1> QED
  BY <1>2, <1>3, <1>5, <1>6 DEF ConexionBien

LEMMA EnlazadosBien ==
  ASSUME NEW e \in Escenas, NEW S, NEW V, \A n \in Node : V[n] = (n \notin e.frios)
  PROVE  RedBien(S, V, Len(e.enlaces), Enlazados(e))
<1> DEFINE k == Enlazados(e)
           N == Len(e.enlaces)
           s == e.enlaces
<1>1. N \in Nat /\ DOMAIN s = 1..N /\ Enlazada(k, e, N)
  BY EscenaEs, EnlazadosOK
<1> HIDE DEF k
<1>2. /\ SocketsOK(k) /\ Len(k.con) = N /\ EsSeq(k.con)
      /\ \A j \in DOMAIN k.con : ConexionOK(k.con[j])
      /\ \A j \in 1..N : EnlaceHecho(k.con[j], s[j])
  BY <1>1 DEF Enlazada, SocketsOK
<1>3. DOMAIN k.con = 1..N
  BY <1>2 DEF EsSeq
<1>4. \A j \in DOMAIN k.con : ConexionBien(S, V, N, j, k.con[j])
  BY <1>1, <1>2, <1>3, EnlaceBien
<1>5. ASSUME NEW n \in Node, NEW fd \in Abiertos(k, n)
      PROVE  PuntaBien(k, n, Punta(k, n, fd))
  <2> DEFINE p == Punta(k, n, fd)
  <2>1. EsDeEnlace(s, N, n, p)
    BY <1>1 DEF Enlazada
  <2> HIDE DEF p, s
  <2>2. CASE p = PUERTO
    BY <2>2 DEF PuntaBien, p
  <2>3. ASSUME NEW j \in 1..N, p = [con |-> j, lado |-> 1] /\ n = s[j][1]
        PROVE  PuntaBien(k, n, p)
    <3>1. k.con[j].nodo[1] = n
      BY <1>2, <2>3 DEF EnlaceHecho
    <3>2. p.con = j /\ p.lado = 1
      BY <2>3
    <3> QED
      BY <1>3, <3>1, <3>2 DEF PuntaBien
  <2>4. ASSUME NEW j \in 1..N, p = [con |-> j, lado |-> 2] /\ n = Vecinos(s[j])
        PROVE  PuntaBien(k, n, p)
    <3>1. k.con[j].nodo[2] = n /\ k.con[j].nueva = FALSE
      BY <1>2, <2>4 DEF EnlaceHecho
    <3>2. p.con = j /\ p.lado = 2
      BY <2>4
    <3> QED
      BY <1>3, <3>1, <3>2 DEF PuntaBien
  <2> QED
    BY <2>1, <2>2, <2>3, <2>4 DEF EsDeEnlace, p
<1> QED
  BY <1>1, <1>2, <1>4, <1>5 DEF RedBien, k

LEMMA RouterEnlazadoEs ==
  ASSUME NEW e, NEW n
  PROVE  RouterEnlazado(e, n).p2p = SOCK_ERRONEO /\ RouterEnlazado(e, n).paso = "libre"
  BY DEF RouterEnlazado, RouterNuevo

LEMMA ListenerEnlazadoEs ==
  ASSUME NEW e, NEW n
  PROVE  LET l == ListenerEnlazado(e, n)
         IN  /\ l.paso = "libre" /\ l.servSock = 3
             /\ \A i \in DOMAIN l.events : l.events[i].id = "LOOP"
<1> DEFINE l == ListenerEnlazado(e, n)
           ev == [id |-> "LOOP"]
<1>1. l.paso = "libre" /\ l.servSock = 3 /\ l.events = <<ev>>
  BY DEF ListenerEnlazado, ListenerNuevo
<1>2. ev.id = "LOOP"
  OBVIOUS
<1> HIDE DEF l, ev
<1>3. DOMAIN l.events = {1} /\ l.events[1] = ev
  BY <1>1, SeqCortas
<1> QED
  BY <1>1, <1>2, <1>3 DEF l

LEMMA NegociosInit == Init => Negocios
<1> SUFFICES ASSUME Init
             PROVE  Negocios
  OBVIOUS
<1>1. /\ logicEvents = [n \in Node |-> <<>>] /\ routerEvents = [n \in Node |-> <<>>]
      /\ mapa_stock = [n \in Node |-> [p \in Producto |-> StockInicial]]
      /\ compro = [n \in Node |-> Config[n].compra]
      /\ vendo = [n \in Node |-> Config[n].venta]
      /\ mapaPedidos = [n \in Node |-> <<>>] /\ reloj = 0
  BY DEF Init, LogicInit
<1>2. PICK e \in Escenas :
       /\ tcp = Enlazados(e)
       /\ router = [n \in Node |->
                      IF n \in e.frios THEN RouterNuevo ELSE RouterEnlazado(e, n)]
       /\ listener = [n \in Node |->
                        IF n \in e.frios THEN ListenerNuevo ELSE ListenerEnlazado(e, n)]
       /\ vivo = [n \in Node |-> n \notin e.frios]
       /\ cuenta = [escena |-> e, pedidos |-> [n \in Node |-> 0], ordenes |-> 0,
                    reconexiones |-> 0, salidas |-> 0,
                    arranques |-> [n \in Node |-> 0]]
  BY DEF Init
<1>3. /\ cuenta.escena = e /\ Ele = Len(e.enlaces)
      /\ {"escena", "pedidos", "ordenes", "reconexiones", "arranques"} \subseteq DOMAIN cuenta
      /\ cuenta.pedidos \in [Node -> Nat] /\ cuenta.arranques \in [Node -> Nat]
      /\ cuenta.reconexiones \in Nat
  BY <1>2 DEF Ele
<1>4. \A n \in Node : vivo[n] = (n \notin e.frios)
  BY <1>2, Zenon
<1>5. Cuentas
  BY <1>1, <1>3 DEF Cuentas
<1>6. Red
  BY <1>2, <1>3, <1>4, EnlazadosBien DEF Red
<1>7. SocketsOK(tcp) /\ Escuchan(tcp, e)
  BY <1>2, EnlazadosOK DEF Enlazada
<1>8. ASSUME NEW n \in Node
      PROVE  Nodo(n)
  <2>1. EsSeq(<<>>) /\ DOMAIN <<>> = {}
    BY SeqCortas
  <2>2. Logico(n)
    BY <1>1, <2>1 DEF Logico
  <2>3. Avisado(n)
    BY <1>1, <2>1 DEF Avisado
  <2>4. router[n].paso = "libre" /\ router[n].p2p = SOCK_ERRONEO
    BY <1>2, RouterEnlazadoEs DEF RouterNuevo
  <2>5. RouterBien(n, Directos(tcp, Ele, n), router[n])
    BY <1>7, <2>4, SinSocket DEF RouterBien, Entrando
  <2>6. CASE n \in e.frios
    <3>1. Abiertos(tcp, n) = {}
      BY <1>7, <2>6 DEF Escuchan
    <3>2. /\ listener[n].events = <<>> /\ listener[n].paso = "libre"
          /\ listener[n].servSock = SOCK_ERRONEO
      BY <1>2, <2>6 DEF ListenerNuevo
    <3>3. ListenerBien(tcp, n, Directos(tcp, Ele, n), listener[n])
      BY <2>1, <3>2 DEF ListenerBien, Saludando, Recorriendo
    <3> QED
      BY <2>2, <2>3, <2>5, <3>1, <3>3 DEF Nodo
  <2>7. CASE n \notin e.frios
    <3>1. 3 \in Abiertos(tcp, n) /\ Punta(tcp, n, 3) = PUERTO /\ vivo[n]
      BY <1>4, <1>7, <2>7 DEF Escuchan
    <3>2. /\ listener[n].paso = "libre" /\ listener[n].servSock = 3
          /\ \A i \in DOMAIN listener[n].events : listener[n].events[i].id = "LOOP"
      BY <1>2, <2>7, ListenerEnlazadoEs
    <3>3. ListenerBien(tcp, n, Directos(tcp, Ele, n), listener[n])
      BY <3>1, <3>2 DEF ListenerBien, Saludando, Recorriendo
    <3> QED
      BY <2>2, <2>3, <2>5, <3>1, <3>3 DEF Nodo
  <2> QED
    BY <2>6, <2>7
<1> QED
  BY <1>5, <1>6, <1>8 DEF Negocios

-----------------------------------------------------------------------------
(* The direct connection of a node in operation.  Its Listener is told of  *)
(* it after the flag is set, and of its end before the flag is cleared; so *)
(* while the flag is set, and the Router is not between the two, every     *)
(* order to forget a direct connection that waits for the Listener has the *)
(* news of a later one behind it.  A node that accepts direct connections  *)
(* is never told to forget one.                                            *)
Bajas(q) == {i \in DOMAIN q : q[i].id = "LS_RM_SOCKET_P2P"}
Altas(q) == {i \in DOMAIN q : q[i].id = "LS_ADD_SOCKET_P2P"}
EnOrden(q) == \A i \in Bajas(q) : \E j \in Altas(q) : i < j

EscuchaBien(n, opera, paso, l) ==
  /\ l.paso \in Saludando => l.newfd \in l.master
  /\ n \notin Compradores => Bajas(l.events) = {}
  /\ opera /\ paso \notin {"p2p_opera", "p2p_cierra", "p2p_fin"} =>
       /\ EnOrden(l.events)
       /\ \/ l.p2p \in l.master
          \/ Altas(l.events) # {}
          \/ l.paso \in {"p2p_opera", "cierre_p2p", "cierre_fin"}

Escucha(n) == EscuchaBien(n, en_operacion[n], router[n].paso, listener[n])

Atentos == \A n \in Node : Escucha(n)

LEMMA OrdenTail ==
  ASSUME NEW q, EsSeq(q), q # <<>>
  PROVE  /\ Bajas(q) = {} => Bajas(Tail(q)) = {}
         /\ EnOrden(q) => EnOrden(Tail(q))
         /\ Altas(q) # {} => Altas(Tail(q)) # {} \/ Head(q).id = "LS_ADD_SOCKET_P2P"
         /\ EnOrden(q) /\ Head(q).id = "LS_RM_SOCKET_P2P" => Altas(Tail(q)) # {}
<1> DEFINE t == Tail(q)
<1>1. /\ EsSeq(t) /\ Head(q) = q[1] /\ 1 \in DOMAIN q
      /\ DOMAIN q \subseteq Nat /\ DOMAIN t \subseteq Nat
      /\ \A i \in DOMAIN t : i + 1 \in DOMAIN q /\ t[i] = q[i + 1]
      /\ \A i \in DOMAIN q : i # 1 => i - 1 \in DOMAIN t /\ t[i - 1] = q[i]
  BY SeqTail, SeqAppend
<1> HIDE DEF t
<1>2. Bajas(q) = {} => Bajas(t) = {}
  BY <1>1 DEF Bajas
<1>3. Altas(q) # {} => Altas(t) # {} \/ Head(q).id = "LS_ADD_SOCKET_P2P"
  BY <1>1 DEF Altas
<1>4. ASSUME EnOrden(q)
      PROVE  EnOrden(t)
  <2>1. ASSUME NEW i \in Bajas(t)
        PROVE  \E j \in Altas(t) : i < j
    <3>1. i \in Nat /\ i + 1 \in Bajas(q)
      BY <1>1 DEF Bajas
    <3>2. PICK j \in Altas(q) : i + 1 < j
      BY <1>4, <3>1 DEF EnOrden
    <3>3. j \in Nat /\ j - 1 \in Altas(t) /\ i < j - 1
      BY <1>1, <3>1, <3>2 DEF Altas
    <3> QED
      BY <3>3
  <2> QED
    BY <2>1 DEF EnOrden
<1>5. ASSUME EnOrden(q), Head(q).id = "LS_RM_SOCKET_P2P"
      PROVE  Altas(t) # {}
  <2>1. 1 \in Bajas(q)
    BY <1>1, <1>5 DEF Bajas
  <2>2. PICK j \in Altas(q) : 1 < j
    BY <1>5, <2>1 DEF EnOrden
  <2>3. j - 1 \in Altas(t)
    BY <1>1, <2>2 DEF Altas
  <2> QED
    BY <2>3
<1> QED
  BY <1>2, <1>3, <1>4, <1>5 DEF t

LEMMA OrdenAppend ==
  ASSUME NEW q, EsSeq(q), NEW ev
  PROVE  LET t == Append(q, ev)
         IN  /\ Altas(q) # {} => Altas(t) # {}
             /\ ev.id # "LS_RM_SOCKET_P2P" =>
                  /\ Bajas(q) = {} => Bajas(t) = {}
                  /\ EnOrden(q) => EnOrden(t)
             /\ ev.id = "LS_ADD_SOCKET_P2P" => EnOrden(t) /\ Altas(t) # {}
<1> DEFINE t == Append(q, ev)
           m == Len(q) + 1
<1>1. /\ Len(q) \in Nat /\ m \in Nat /\ DOMAIN q = 1..Len(q) /\ m \in DOMAIN t
      /\ t[m] = ev
      /\ \A i \in DOMAIN q : i \in DOMAIN t /\ t[i] = q[i] /\ i < m
      /\ \A i \in DOMAIN t : i = m \/ (i \in DOMAIN q /\ t[i] = q[i] /\ i < m)
  BY SeqAppend
<1> HIDE DEF t, m
<1>2. Altas(q) \subseteq Altas(t)
  BY <1>1 DEF Altas
<1>3. ev.id # "LS_RM_SOCKET_P2P" => Bajas(t) = Bajas(q)
  BY <1>1 DEF Bajas
<1>4. ev.id = "LS_ADD_SOCKET_P2P" =>
        m \in Altas(t) /\ \A i \in Bajas(t) : i < m
  BY <1>1 DEF Altas, Bajas
<1> QED
  BY <1>2, <1>3, <1>4 DEF EnOrden, t

LEMMA EscuchaBasta == Atentos => OperaConAlguien
  BY DEF Atentos, Escucha, EscuchaBien, Altas, OperaConAlguien, EntraOSale

LEMMA AtentosInit == Init => Atentos
<1> SUFFICES ASSUME Init, NEW n \in Node
             PROVE  Escucha(n)
  BY DEF Atentos
<1>1. PICK e \in Escenas :
        /\ listener = [m \in Node |->
                        IF m \in e.frios THEN ListenerNuevo ELSE ListenerEnlazado(e, m)]
        /\ en_operacion = [m \in Node |-> FALSE]
  BY DEF Init
<1>2. EsSeq(<<>>) /\ DOMAIN <<>> = {}
  BY SeqCortas
<1>3. /\ listener[n].paso = "libre"
      /\ \A i \in DOMAIN listener[n].events : listener[n].events[i].id = "LOOP"
  <2>1. CASE n \in e.frios
    BY <1>1, <1>2, <2>1 DEF ListenerNuevo
  <2>2. CASE n \notin e.frios
    BY <1>1, <2>2, ListenerEnlazadoEs
  <2> QED
    BY <2>1, <2>2
<1>4. Bajas(listener[n].events) = {}
  BY <1>3 DEF Bajas
<1> QED
  BY <1>1, <1>3, <1>4 DEF Escucha, EscuchaBien, Saludando

(* A step of node n leaves the others as they are.                         *)
LEMMA AtentosSiguen ==
  ASSUME Tipos, Atentos, NEW n \in Node, Toca(n), Escucha(n)'
  PROVE  Atentos'
<1>1. ASSUME NEW m \in Node, m # n
      PROVE  Escucha(m)'
  <2>1. /\ router'[m] = router[m] /\ listener'[m] = listener[m]
        /\ en_operacion'[m] = en_operacion[m]
    <3>1. CASE Solo(n)
      BY <1>1, <3>1 DEF Solo
    <3>2. CASE \E k : Muere(n, k)
      BY <1>1, <3>2 DEF Muere
    <3> QED
      BY <3>1, <3>2 DEF Toca
  <2> QED
    BY <2>1 DEF Atentos, Escucha
<1> QED
  BY <1>1 DEF Atentos

LEMMA EscuchaMuere ==
  ASSUME Tipos, Apagados, NEW n \in Node, \E k : Muere(n, k)
  PROVE  Escucha(n)'
<1>1. Funciones
  BY SonFunciones
<1>2. listener'[n] = ListenerNuevo /\ en_operacion'[n] = FALSE
  BY <1>1 DEF Muere, Funciones
<1>3. EsSeq(<<>>) /\ DOMAIN <<>> = {}
  BY SeqCortas
<1>4. ListenerNuevo.paso = "libre" /\ Bajas(ListenerNuevo.events) = {}
  BY <1>3 DEF ListenerNuevo, Bajas
<1> QED
  BY <1>2, <1>4 DEF Escucha, EscuchaBien, Saludando

LEMMA EscuchaIgual ==
  ASSUME NEW n \in Node, Escucha(n), listener'[n] = listener[n],
         en_operacion'[n] = en_operacion[n],
         \/ router'[n].paso = router[n].paso
         \/ router[n].paso \notin {"p2p_opera", "p2p_cierra", "p2p_fin"}
         \/ router'[n].paso \in {"p2p_opera", "p2p_cierra", "p2p_fin"}
  PROVE  Escucha(n)'
  BY DEF Escucha, EscuchaBien

LEMMA RouterEscucha ==
  ASSUME Tipos, Apagados, Negocios, Atentos, NEW n \in Node, RouterStep(n)
  PROVE  Escucha(n)'
<1> DEFINE l == listener[n]
           q == l.events
<1>1. /\ Funciones /\ RouterOK(router[n]) /\ ListenerOK(l) /\ EsSeq(q) /\ Escucha(n)
  BY SonFunciones DEF Tipos, Routers, Listeners, ListenerOK, Atentos
<1>2. ASSUME NEW nuevo, Recuerda(n, nuevo), router[n].paso = "libre"
      PROVE  Escucha(n)'
  <2>1. listener'[n] = listener[n] /\ en_operacion'[n] = en_operacion[n]
    BY <1>2 DEF Recuerda
  <2> QED
    BY <1>1, <1>2, <2>1, EscuchaIgual
<1>3. ASSUME NEW r, NEW nuevo, EnviaYListo(n, r, nuevo), router[n].paso \in {"libre", "p2p_buy"}
      PROVE  Escucha(n)'
  <2>1. CASE \E k : Muere(n, k)
    BY <2>1, EscuchaMuere
  <2>2. CASE UNCHANGED <<listener, en_operacion>>
    BY <1>1, <1>3, <2>2, EscuchaIgual
  <2> QED
    BY <1>3, <2>1, <2>2 DEF EnviaYListo
<1>4. CASE \/ send_first_broadcast_message(n) \/ send_broadcast_message(n)
           \/ send_to_next_node_message(n) \/ send_to_p2p_socket_message(n)
           \/ start_p2p_connect_buy(n)
  <2>1. router[n].paso \in {"libre", "p2p_buy"} /\ \E r, nuevo : EnviaYListo(n, r, nuevo)
    BY <1>4 DEF send_first_broadcast_message, send_broadcast_message,
       send_to_next_node_message, send_to_p2p_socket_message, start_p2p_connect_buy,
       Difunde, AtiendeRouter
  <2> QED
    BY <1>3, <2>1
<1>5. CASE set_socket_p2p(n) \/ unset_socket_p2p(n)
  BY <1>2, <1>5 DEF set_socket_p2p, unset_socket_p2p, AtiendeRouter
<1>6. CASE add_nodo_servidor(n) \/ rm_nodo_servidor(n)
  <2>1. router[n].paso = "libre" /\ ((\E nuevo : Recuerda(n, nuevo)) \/ \E k : Muere(n, k))
    BY <1>6 DEF add_nodo_servidor, rm_nodo_servidor, AtiendeRouter
  <2> QED
    BY <1>2, <2>1, EscuchaMuere
<1>7. CASE start_p2p_connect(n) \/ start_p2p_connect_nombre(n)
  <2>1. /\ UNCHANGED <<listener, en_operacion>> /\ router[n].paso \in {"libre", "p2p"}
    BY <1>7 DEF start_p2p_connect, start_p2p_connect_nombre, AtiendeRouter
  <2> QED
    BY <1>1, <2>1, EscuchaIgual
<1>8. CASE start_p2p_connect_opera(n)
  <2>1. CASE \E k : Muere(n, k)
    BY <2>1, EscuchaMuere
  <2>2. CASE /\ router' = [router EXCEPT ![n].p2p = router[n].fd, ![n].paso = "p2p_opera"]
             /\ UNCHANGED listener
    <3>1. router'[n].paso = "p2p_opera" /\ listener'[n] = l
      BY <1>1, <2>2 DEF RouterOK, Funciones
    <3> QED
      BY <1>1, <3>1 DEF Escucha, EscuchaBien
  <2> QED
    BY <1>8, <2>1, <2>2 DEF start_p2p_connect_opera, RecvMata
<1>9. ASSUME NEW id, NEW fd, PosteaListener(n, id, fd), NEW paso,
             router' = [router EXCEPT ![n].paso = paso], UNCHANGED en_operacion,
             \/ id = "LS_ADD_SOCKET_P2P"
             \/ /\ id = "LS_RM_SOCKET_P2P" /\ paso = "p2p_cierra" /\ n \in Compradores
      PROVE  Escucha(n)'
  <2> DEFINE ev == [id |-> id, fd |-> fd]
             t == Append(q, ev)
  <2>1. listener'[n] = [l EXCEPT !.events = t] /\ router'[n].paso = paso
    BY <1>1, <1>9 DEF PosteaListener, Funciones, RouterOK
  <2>2. ev.id = id
    OBVIOUS
  <2> HIDE DEF ev
  <2>3. /\ id = "LS_ADD_SOCKET_P2P" =>
             /\ Bajas(q) = {} => Bajas(t) = {}
             /\ EnOrden(t) /\ Altas(t) # {}
    BY <1>1, <2>2, OrdenAppend
  <2> HIDE DEF t
  <2>4. /\ listener'[n].events = t /\ listener'[n].paso = l.paso
        /\ listener'[n].newfd = l.newfd /\ listener'[n].master = l.master
    BY <1>1, <2>1 DEF ListenerOK
  <2>5. /\ l.paso \in Saludando => l.newfd \in l.master
        /\ n \notin Compradores => Bajas(q) = {}
    BY <1>1 DEF Escucha, EscuchaBien
  <2> HIDE DEF l, q
  <2> QED
    BY <1>9, <2>1, <2>3, <2>4, <2>5 DEF Escucha, EscuchaBien
<1>10. CASE start_p2p_connect_avisa(n)
  BY <1>9, <1>10 DEF start_p2p_connect_avisa
<1>11. CASE close_p2p_connect_avisa(n)
  <2>1. n \in Compradores
    <3>1. routerEvents[n] # <<>> /\ Evento(n).id = "RT_CLOSE_P2P_CONNECT"
      BY <1>11 DEF close_p2p_connect_avisa, AtiendeRouter, EventoRouter, Evento
    <3> QED
      BY <3>1, AvisoEs DEF AvisoBien
  <2> QED
    BY <1>9, <1>11, <2>1 DEF close_p2p_connect_avisa
<1>12. CASE close_p2p_connect(n)
  <2>1. /\ listener'[n] = l /\ en_operacion'[n] = en_operacion[n]
        /\ router'[n].paso = "p2p_fin"
    BY <1>1, <1>12 DEF close_p2p_connect, Funciones, RouterOK
  <2> QED
    BY <1>1, <2>1, EscuchaIgual
<1>13. CASE close_p2p_connect_fin(n)
  <2>1. listener'[n] = l /\ en_operacion'[n] = FALSE
    BY <1>1, <1>13 DEF close_p2p_connect_fin, Funciones
  <2> QED
    BY <1>1, <2>1 DEF Escucha, EscuchaBien
<1> QED
  BY <1>4, <1>5, <1>6, <1>7, <1>8, <1>10, <1>11, <1>12, <1>13, SinArranques DEF RouterStep

(* The Listener is done with an event, or is at one.                       *)
LEMMA VueltaEscucha ==
  ASSUME Tipos, NEW n \in Node, Escucha(n), NEW m, listener'[n] = m,
         UNCHANGED <<router, en_operacion>>, listener[n].events # <<>>,
         Head(listener[n].events).id \notin {"LS_ADD_SOCKET_P2P", "LS_RM_SOCKET_P2P"},
         \/ m.events = Tail(listener[n].events)
         \/ m.events = Append(Tail(listener[n].events), [id |-> "LOOP"]),
         m.paso = "libre", m.p2p = listener[n].p2p, listener[n].master \subseteq m.master,
         listener[n].paso \in {"libre", "mirando"}
  PROVE  Escucha(n)'
<1> DEFINE q == listener[n].events
           t == Tail(q)
           ev == [id |-> "LOOP"]
<1>1. EsSeq(q) /\ q # <<>> /\ EsSeq(t) /\ ev.id = "LOOP"
  BY SeqTail DEF Tipos, Listeners, ListenerOK
<1>2. /\ Bajas(q) = {} => Bajas(t) = {}
      /\ EnOrden(q) => EnOrden(t)
      /\ Altas(q) # {} => Altas(t) # {}
  BY <1>1, OrdenTail
<1> HIDE DEF t, ev
<1>3. /\ Bajas(t) = {} => Bajas(Append(t, ev)) = {}
      /\ EnOrden(t) => EnOrden(Append(t, ev))
      /\ Altas(t) # {} => Altas(Append(t, ev)) # {}
  BY <1>1, OrdenAppend
<1>4. m.events \in {t, Append(t, ev)}
  BY DEF t, ev
<1> HIDE DEF q
<1> QED
  BY <1>2, <1>3, <1>4 DEF Escucha, EscuchaBien, Saludando, q

LEMMA MiraEscucha ==
  ASSUME NEW n \in Node, Escucha(n), NEW m, listener'[n] = m,
         UNCHANGED <<router, en_operacion>>, m.events = listener[n].events,
         m.p2p = listener[n].p2p, listener[n].p2p \in listener[n].master => m.p2p \in m.master,
         m.paso \in Saludando => m.newfd \in m.master,
         \/ listener[n].paso \notin {"p2p_opera", "cierre_p2p", "cierre_fin"}
         \/ m.paso \in {"p2p_opera", "cierre_p2p", "cierre_fin"}
  PROVE  Escucha(n)'
  BY DEF Escucha, EscuchaBien

LEMMA SaludadoEscucha ==
  ASSUME Tipos, Apagados, NEW n \in Node, Escucha(n), NEW ev, Saludado(n, ev),
         listener[n].paso \in {"nombre", "p2p_nombre"}
  PROVE  Escucha(n)'
<1> DEFINE l == listener[n]
<1>1. Funciones /\ ListenerOK(l)
  BY SonFunciones DEF Tipos, Listeners
<1>2. CASE \E k : Muere(n, k)
  BY <1>2, EscuchaMuere
<1>3. CASE /\ listener' = [listener EXCEPT
                ![n].paso = "mirando", ![n].newfd = SOCK_ERRONEO,
                ![n].listos = @ \ {listener[n].servSock}]
           /\ UNCHANGED <<router, en_operacion>>
  <2> DEFINE m == listener'[n]
  <2>1. /\ m.paso = "mirando" /\ m.events = l.events /\ m.p2p = l.p2p
        /\ m.master = l.master
    BY <1>1, <1>3 DEF Funciones, ListenerOK
  <2> QED
    BY <1>3, <2>1, MiraEscucha DEF Saludando
<1> QED
  BY <1>2, <1>3 DEF Saludado, RecvMata, listenerAparte

LEMMA AcceptEscucha ==
  ASSUME Tipos, Apagados, Negocios, Atentos, NEW n \in Node,
         accept(n) \/ accept_nombre(n) \/ accept_p2p(n) \/ accept_p2p_nombre(n)
  PROVE  Escucha(n)'
<1> DEFINE l == listener[n]
           m == listener'[n]
<1>1. /\ Funciones /\ ListenerOK(l) /\ EsSeq(l.events) /\ Escucha(n)
      /\ ListenerBien(tcp, n, Directos(tcp, Ele, n), l)
  BY SonFunciones DEF Tipos, Listeners, ListenerOK, Atentos, Negocios, Nodo
<1>2. CASE accept(n)
  <2>1. l.paso = "mirando" /\ UNCHANGED <<router, en_operacion>>
    BY <1>2 DEF accept, Mirando, listenerAparte
  <2>2. CASE /\ listener' = [listener EXCEPT
                 ![n].master = @ \cup {Libre(tcp, n)}, ![n].ip = @ \cup {Libre(tcp, n)},
                 ![n].cant = @ + 1, ![n].newfd = Libre(tcp, n), ![n].paso = "nombre"]
    <3>1. /\ m.events = l.events /\ m.p2p = l.p2p /\ m.newfd \in m.master
          /\ m.master = l.master \cup {Libre(tcp, n)}
      BY <1>1, <2>2 DEF Funciones, ListenerOK
    <3> QED
      BY <1>1, <2>1, <3>1, MiraEscucha
  <2>3. CASE listener' = [listener EXCEPT ![n].listos = @ \ {Mirado(n)}]
    <3>1. /\ m.events = l.events /\ m.p2p = l.p2p /\ m.master = l.master
          /\ m.paso = "mirando"
      BY <1>1, <2>1, <2>3 DEF Funciones, ListenerOK
    <3> QED
      BY <1>1, <2>1, <3>1, MiraEscucha DEF Saludando
  <2> QED
    BY <1>2, <2>2, <2>3 DEF accept
<1>3. CASE accept_nombre(n) /\ EsP2P(n)
  <2>1. /\ l.paso = "nombre" /\ UNCHANGED router
        /\ listener' = [listener EXCEPT ![n].paso = "p2p_opera"]
    BY <1>3 DEF accept_nombre, listenerAparte
  <2>2. /\ m.events = l.events /\ m.newfd = l.newfd /\ m.master = l.master
        /\ m.paso = "p2p_opera"
    BY <1>1, <2>1 DEF Funciones, ListenerOK
  <2>3. n \notin Compradores /\ l.paso \in Saludando
    BY <1>1, <2>1 DEF ListenerBien, Saludando
  <2>4. Bajas(l.events) = {} /\ l.newfd \in l.master
    BY <1>1, <2>3 DEF Escucha, EscuchaBien
  <2> QED
    BY <2>2, <2>3, <2>4 DEF Escucha, EscuchaBien, EnOrden
<1>4. CASE accept_nombre(n) /\ ~EsP2P(n)
  BY <1>1, <1>4, SaludadoEscucha DEF accept_nombre
<1>5. CASE accept_p2p(n)
  <2>1. /\ l.paso = "p2p_opera" /\ UNCHANGED <<router, en_operacion>>
        /\ listener' = [listener EXCEPT ![n].p2p = listener[n].newfd, ![n].paso = "p2p_nombre"]
    BY <1>5 DEF accept_p2p, listenerAparte
  <2>2. /\ m.events = l.events /\ m.newfd = l.newfd /\ m.master = l.master
        /\ m.paso = "p2p_nombre" /\ m.p2p = l.newfd
    BY <1>1, <2>1 DEF Funciones, ListenerOK
  <2>3. l.newfd \in l.master
    BY <1>1, <2>1 DEF Escucha, EscuchaBien, Saludando
  <2> QED
    BY <1>1, <2>1, <2>2, <2>3 DEF Escucha, EscuchaBien
<1>6. CASE accept_p2p_nombre(n)
  BY <1>1, <1>6, SaludadoEscucha DEF accept_p2p_nombre
<1> QED
  BY <1>2, <1>3, <1>4, <1>5, <1>6

LEMMA CierreEscucha ==
  ASSUME Tipos, Apagados, Atentos, NEW n \in Node,
         cierre(n) \/ cierre_p2p(n) \/ cierre_fin(n) \/ mensaje(n)
  PROVE  Escucha(n)'
<1> DEFINE l == listener[n]
           m == listener'[n]
<1>1. Funciones /\ ListenerOK(l) /\ Escucha(n)
  BY SonFunciones DEF Tipos, Listeners, Atentos
<1>2. CASE cierre(n)
  <2> DEFINE i == Mirado(n)
  <2>1. /\ l.paso = "mirando" /\ UNCHANGED <<router, en_operacion>>
        /\ listener' = [listener EXCEPT
             ![n].listos = @ \ {i}, ![n].master = @ \ {i}, ![n].ip = @ \ {i},
             ![n].cant = IF RecvFin(tcp, n, i) THEN @ - 1 ELSE @,
             ![n].paso = IF i = l.p2p THEN "cierre_p2p" ELSE @]
    BY <1>2 DEF cierre, Mirando, listenerAparte
  <2> HIDE DEF i
  <2>2. /\ m.events = l.events /\ m.p2p = l.p2p /\ m.master = l.master \ {i}
        /\ m.paso = IF i = l.p2p THEN "cierre_p2p" ELSE "mirando"
    BY <1>1, <2>1 DEF Funciones, ListenerOK
  <2>3. m.paso \notin Saludando
    BY <2>2 DEF Saludando
  <2>4. CASE i # l.p2p
    BY <1>1, <2>1, <2>2, <2>3, <2>4, MiraEscucha
  <2>5. CASE i = l.p2p
    <3>1. m.paso = "cierre_p2p"
      BY <2>2, <2>5
    <3>2. EscuchaBien(n, en_operacion[n], router[n].paso, l)
      BY <1>1 DEF Escucha
    <3> HIDE DEF l, m
    <3>3. EscuchaBien(n, en_operacion[n], router[n].paso, m)
      BY <2>2, <2>3, <3>1, <3>2 DEF EscuchaBien
    <3> QED
      BY <2>1, <3>3 DEF Escucha, m
  <2> QED
    BY <2>4, <2>5
<1>3. CASE cierre_p2p(n)
  <2>1. /\ l.paso = "cierre_p2p" /\ UNCHANGED <<router, en_operacion>>
        /\ listener' = [listener EXCEPT ![n].p2p = SOCK_ERRONEO, ![n].paso = "cierre_fin"]
    BY <1>3 DEF cierre_p2p, listenerAparte
  <2>2. m.events = l.events /\ m.paso = "cierre_fin"
    BY <1>1, <2>1 DEF Funciones, ListenerOK
  <2> QED
    BY <1>1, <2>1, <2>2 DEF Escucha, EscuchaBien, Saludando
<1>4. CASE cierre_fin(n)
  <2>1. /\ en_operacion' = [en_operacion EXCEPT ![n] = FALSE]
        /\ listener' = [listener EXCEPT ![n].paso = "mirando"]
    BY <1>4 DEF cierre_fin
  <2>2. m.events = l.events /\ m.paso = "mirando" /\ en_operacion'[n] = FALSE
    BY <1>1, <2>1 DEF Funciones, ListenerOK
  <2> QED
    BY <1>1, <2>2 DEF Escucha, EscuchaBien, Saludando
<1>5. CASE mensaje(n)
  <2>1. /\ l.paso = "mirando" /\ UNCHANGED <<router, en_operacion>>
        /\ listener' = [listener EXCEPT ![n].listos = @ \ {Mirado(n)}]
    BY <1>5 DEF mensaje, Mirando, listenerAparte
  <2>2. /\ m.events = l.events /\ m.p2p = l.p2p /\ m.master = l.master
        /\ m.paso = "mirando"
    BY <1>1, <2>1 DEF Funciones, ListenerOK
  <2> QED
    BY <1>1, <2>1, <2>2, MiraEscucha DEF Saludando
<1> QED
  BY <1>2, <1>3, <1>4, <1>5

LEMMA VigilaEscucha ==
  ASSUME Tipos, Apagados, Atentos, NEW n \in Node,
         add_socket(n) \/ add_socket_p2p(n) \/ rm_socket_p2p(n)
  PROVE  Escucha(n)'
<1> DEFINE l == listener[n]
           m == listener'[n]
           q == l.events
           fd == EvListener(n).fd
<1>1. Funciones /\ ListenerOK(l) /\ Escucha(n) /\ EsSeq(q)
  BY SonFunciones DEF Tipos, Listeners, ListenerOK, Atentos
<1>2. q # <<>> /\ l.paso = "libre"
  BY DEF add_socket, add_socket_p2p, rm_socket_p2p, EventoListener
<1>3. /\ Bajas(q) = {} => Bajas(Tail(q)) = {}
      /\ EnOrden(q) => EnOrden(Tail(q))
      /\ EnOrden(q) /\ Head(q).id = "LS_RM_SOCKET_P2P" => Altas(Tail(q)) # {}
  BY <1>1, <1>2, OrdenTail
<1>4. CASE add_socket(n)
  <2>1. /\ Head(q).id = "LS_ADD_SOCKET" /\ UNCHANGED <<router, en_operacion>>
        /\ m = FinListener([l EXCEPT !.master = @ \cup {fd}])
    BY <1>1, <1>4 DEF add_socket, Vigila, EventoListener, listenerAparte, Funciones
  <2>2. /\ m.events = Tail(q) /\ m.paso = "libre" /\ m.p2p = l.p2p
        /\ l.master \subseteq m.master
    BY <1>1, <1>2, <2>1 DEF FinListener, ListenerOK
  <2> QED
    BY <1>1, <1>2, <2>1, <2>2, VueltaEscucha
<1>5. CASE add_socket_p2p(n)
  <2>1. /\ UNCHANGED <<router, en_operacion>>
        /\ m = FinListener([l EXCEPT !.master = @ \cup {fd}, !.p2p = fd])
    BY <1>1, <1>5 DEF add_socket_p2p, Vigila, listenerAparte, Funciones
  <2>2. m.events = Tail(q) /\ m.paso = "libre" /\ m.p2p \in m.master
    BY <1>1, <1>2, <2>1 DEF FinListener, ListenerOK
  <2> QED
    BY <1>1, <1>3, <2>1, <2>2 DEF Escucha, EscuchaBien, Saludando
<1>6. CASE rm_socket_p2p(n)
  <2>1. /\ Head(q).id = "LS_RM_SOCKET_P2P" /\ UNCHANGED <<router, en_operacion>>
        /\ m = FinListener([l EXCEPT !.master = @ \ {fd}, !.ip = @ \ {fd}])
    BY <1>1, <1>6 DEF rm_socket_p2p, Vigila, EventoListener, listenerAparte, Funciones
  <2>2. m.events = Tail(q) /\ m.paso = "libre"
    BY <1>1, <1>2, <2>1 DEF FinListener, ListenerOK
  <2> QED
    BY <1>1, <1>3, <2>1, <2>2 DEF Escucha, EscuchaBien, Saludando
<1> QED
  BY <1>4, <1>5, <1>6

LEMMA SelectEscucha ==
  ASSUME Tipos, Apagados, Atentos, NEW n \in Node,
         select(n) \/ client_connections_admin_fin(n)
  PROVE  Escucha(n)'
<1> DEFINE l == listener[n]
           m == listener'[n]
<1>1. /\ Funciones /\ ListenerOK(l) /\ Escucha(n)
      /\ UNCHANGED <<router, en_operacion>>
  BY SonFunciones DEF Tipos, Listeners, Atentos, select, client_connections_admin_fin,
                      listenerAparte
<1>2. /\ l.events # <<>> /\ Head(l.events).id = "LOOP"
      /\ l.paso \in {"libre", "mirando"}
  BY <1>1 DEF select, client_connections_admin_fin, EventoListener, ListenerOK
<1>3. CASE /\ m = FinListener(l) \/ m = OtraVuelta(l) \/ m = [OtraVuelta(l) EXCEPT !.paso = "libre"]
           /\ m.paso = "libre"
  <2>1. /\ m.p2p = l.p2p /\ m.master = l.master
        /\ \/ m.events = Tail(l.events)
           \/ m.events = Append(Tail(l.events), [id |-> "LOOP"])
    BY <1>1, <1>3 DEF FinListener, OtraVuelta, ListenerOK
  <2> QED
    BY <1>1, <1>2, <1>3, <2>1, VueltaEscucha
<1>4. CASE \E s : listener' = [listener EXCEPT ![n].paso = "mirando", ![n].listos = s]
  <2>1. /\ m.events = l.events /\ m.p2p = l.p2p /\ m.master = l.master
        /\ m.paso = "mirando"
    BY <1>1, <1>4 DEF Funciones, ListenerOK
  <2> QED
    BY <1>1, <1>2, <2>1, MiraEscucha DEF Saludando
<1>5. CASE select(n)
  <2>1. l.paso = "libre"
    BY <1>5 DEF select, EventoListener
  <2>2. FinListener(l).paso = "libre" /\ OtraVuelta(l).paso = "libre"
    BY <1>1, <2>1 DEF FinListener, OtraVuelta, ListenerOK
  <2>3. \/ m = FinListener(l) \/ m = OtraVuelta(l)
        \/ \E s : listener' = [listener EXCEPT ![n].paso = "mirando", ![n].listos = s]
    BY <1>1, <1>5 DEF select, Funciones
  <2> QED
    BY <1>3, <1>4, <2>2, <2>3
<1>6. CASE client_connections_admin_fin(n)
  <2>1. m = [OtraVuelta(l) EXCEPT !.paso = "libre"]
    BY <1>1, <1>6 DEF client_connections_admin_fin, Funciones
  <2>2. m.paso = "libre"
    BY <1>1, <2>1 DEF OtraVuelta, ListenerOK
  <2> QED
    BY <1>3, <2>1, <2>2
<1> QED
  BY <1>5, <1>6

LEMMA AtentosNext ==
  ASSUME SinVueltas, Tipos, Apagados, Negocios, Atentos, [Next]_vars
  PROVE  Atentos'
<1>1. CASE UNCHANGED vars
  BY <1>1 DEF vars, Atentos, Escucha
<1>2. ASSUME NEW n \in Node, RouterStep(n)
      PROVE  Atentos'
  BY <1>2, TocaRouter, RouterEscucha, AtentosSiguen
<1>3. ASSUME NEW n \in Node, ListenerStep(n)
      PROVE  Atentos'
  <2>1. Escucha(n)'
    BY <1>3, SinArranques, SelectEscucha, AcceptEscucha, CierreEscucha, VigilaEscucha
       DEF ListenerStep
  <2> QED
    BY <1>3, <2>1, TocaListener, AtentosSiguen
<1>4. ASSUME NEW n \in Node, Logica(n) \/ procesar_lanzar(n)
      PROVE  Atentos'
  BY <1>4 DEF Logica, procesar_lanzar, Atentos, Escucha
<1>5. ASSUME NEW n \in Node, Sale(n)
      PROVE  Atentos'
  <2>1. Toca(n) /\ \E k : Muere(n, k)
    BY <1>5, TocaOtros DEF Sale
  <2> QED
    BY <2>1, EscuchaMuere, AtentosSiguen
<1> QED
  BY <1>1, <1>2, <1>3, <1>4, <1>5, SinVuelta DEF Next

(* A node in operation hears its direct connection (client_connections_-   *)
(* admin in listener.cpp): but for the steps in which Router or Listener   *)
(* enter or leave that state, the Listener watches the connection or has   *)
(* its event; however many nodes buy and sell, whatever nodes end, where   *)
(* no buyer sells what one looks for and no node is started again.         *)
THEOREM SiempreOperaConAlguien ==
  ASSUME SinMezcla, SinVueltas
  PROVE  Spec => []OperaConAlguien
<1>1. Init => Tipos /\ Apagados /\ Negocios /\ Atentos
  BY TiposInit, NegociosInit, AtentosInit
<1>2. Tipos /\ Apagados /\ Negocios /\ Atentos /\ [Next]_vars
        => (Tipos /\ Apagados /\ Negocios /\ Atentos)'
  BY TiposNext, ApagadosNext, NegociosNext, AtentosNext
<1>3. Atentos => OperaConAlguien
  BY EscuchaBasta
<1> QED
  BY <1>1, <1>2, <1>3, PTL DEF Spec

-----------------------------------------------------------------------------
(* An answer to a BUY goes to a buyer; where there is no other, that is    *)
(* who began the purchase, and it has it in its map as long as it runs.    *)
LEMMA RespuestaBien ==
  ASSUME Negocios, UnComprador
  PROVE  RespuestaAlComprador
<1> SUFFICES ASSUME NEW c \in DOMAIN tcp.con, NEW l \in 1..2,
                    NEW i \in DOMAIN tcp.con[c].buf[l],
                    tcp.con[c].buf[l][i].que = "mensaje",
                    tcp.con[c].buf[l][i].tag.code \in {"BUY_OK", "BUY_ERR"}
             PROVE  tcp.con[c].buf[l][i].tag.ts \in DOMAIN mapaPedidos[tcp.con[c].nodo[l]]
  BY DEF RespuestaAlComprador
<1> DEFINE r == tcp.con[c]
           n == r.nodo[l]
           d == r.buf[l][i]
<1>1. ConexionBien(Conocidos, vivo, Ele, c, r)
  BY DEF Negocios, Red, RedBien
<1>2. LadoBien(Conocidos, vivo, r, l) /\ n \in Node
  <2>1. l = 1 \/ l = 2
    OBVIOUS
  <2> HIDE DEF r
  <2> QED
    BY <1>1, <2>1 DEF ConexionBien
<1>3. DatoBien(Conocidos, n, d) /\ vivo[n]
  <2>1. i \in DOMAIN r.buf[l]
    OBVIOUS
  <2>2. DOMAIN <<>> = {}
    BY SeqCortas
  <2> HIDE DEF r
  <2> QED
    BY <1>2, <2>1, <2>2 DEF LadoBien
<1> HIDE DEF n
<1>4. \A x : P2P_CONNECT.que # "mensaje" /\ SuNombre(x).que # "mensaje"
  BY DEF P2P_CONNECT, SuNombre
<1>5. d.que = "mensaje" /\ d.tag.code \in {"BUY_OK", "BUY_ERR"}
  OBVIOUS
<1> HIDE DEF d
<1>6. PICK m : d = Carta(m) /\ MensajeEn(Conocidos, n, m)
  BY <1>3, <1>4, <1>5 DEF DatoBien
<1>7. d.tag = m
  BY <1>6 DEF Carta
<1>8. m.ts \in Conocidos /\ n \in Compradores
  BY <1>5, <1>6, <1>7 DEF MensajeEn, MensajeBien
<1>9. m.ts \in DOMAIN mapaPedidos[n]
  BY <1>3, <1>8 DEF Conocidos
<1> QED
  BY <1>7, <1>9 DEF n, d, r

-----------------------------------------------------------------------------
(* RespuestaAlComprador holds in every reachable state, however the one    *)
(* user that buys orders again before it has an answer, whatever nodes end *)
(* meanwhile and whoever takes a descriptor of theirs: an answer to a BUY  *)
(* goes to the node that began that purchase (send_to_p2p_socket_message   *)
(* in router.cpp, procesar_mensaje in logic.cpp), where no buyer sells     *)
(* what one looks for and no node is started again.                        *)
THEOREM RespuestaSiempreAlComprador ==
  ASSUME SinMezcla, SinVueltas, UnComprador
  PROVE  Spec => []RespuestaAlComprador
<1>1. Init => Tipos /\ Apagados /\ Negocios
  BY TiposInit, NegociosInit
<1>2. Tipos /\ Apagados /\ Negocios /\ [Next]_vars => (Tipos /\ Apagados /\ Negocios)'
  BY TiposNext, ApagadosNext, NegociosNext
<1>3. Negocios => RespuestaAlComprador
  BY RespuestaBien
<1> QED
  BY <1>1, <1>2, <1>3, PTL DEF Spec
=============================================================================
