------------------------------ MODULE Sockets ------------------------------
(***************************************************************************)
(* The sockets of the nodes as the process sees them: the functions of     *)
(* common/socket_util.cpp and the calls of the system below them (accept,  *)
(* recv, close, select's test), which are external.                        *)
(*                                                                         *)
(* They are operators on the state k of all the sockets together:          *)
(*   k.fds[n]    the open descriptors of node n, each with the end of a    *)
(*               connection it stands for (or PUERTO: it listens);         *)
(*   k.con       the connections: the node at each of the two ends, what   *)
(*               each end has been sent and has not read, what each end    *)
(*               knows of the other, and whether accept has yet to be      *)
(*               called for it, and whether it has been reset;             *)
(*   k.perdidos  the messages that nobody will read any more.              *)
(* End 1 is the node that called connect, end 2 the one that listened.     *)
(***************************************************************************)
EXTENDS Mensajes, FiniteSets, FiniteSetsExt, Functions, Bags, BagsExt

SOCK_ERRONEO == -1

PUERTO == [con |-> 0, lado |-> 0]

(* What a node sends: the word that announces a direct connection, its     *)
(* name, or a message of the protocol.                                     *)
P2P_CONNECT == [que |-> "p2p_connect"]
SuNombre(n) == [que |-> "nombre", nodo |-> n]
Carta(m) == [que |-> "mensaje", tag |-> m]

(* What an end knows of the other: it is open ("vivo"); it has closed      *)
(* ("fin"); it has closed with something unread, or without accepting,     *)
(* which resets the connection ("rst"); it has been sent something after   *)
(* it closed ("roto").  An end that is closed itself is "cerrado".         *)
Estado == {"vivo", "fin", "rst", "roto", "cerrado"}

-----------------------------------------------------------------------------
Abiertos(k, n) == DOMAIN k.fds[n]

(* A new descriptor is the lowest that is free.                            *)
Libre(k, n) == Min(3..(3 + Cardinality(Abiertos(k, n))) \ Abiertos(k, n))

(* Among the descriptors f, fd comes to stand for the end e.               *)
Abre(f, fd, e) == [x \in DOMAIN f \cup {fd} |-> IF x = fd THEN e ELSE f[x]]

Punta(k, n, fd) == k.fds[n][fd]
Conectado(k, n, fd) == fd \in Abiertos(k, n) /\ Punta(k, n, fd) # PUERTO
Ve(k, n, fd) == k.con[Punta(k, n, fd).con].ve[Punta(k, n, fd).lado]
Recibido(k, n, fd) == k.con[Punta(k, n, fd).con].buf[Punta(k, n, fd).lado]

(* The connections that wait for node n to accept them.                    *)
Cola(k, n) == {c \in DOMAIN k.con : k.con[c].nueva /\ k.con[c].nodo[2] = n}

(* The messages among the data s, as the bag of what was meant for node n. *)
Cartas(s, n) ==
  LET letras == {i \in DOMAIN s : s[i].que = "mensaje"}
      paq(i) == [dst |-> n, tag |-> s[i].tag]
  IN  [p \in {paq(i) : i \in letras} |-> Cardinality({i \in letras : paq(i) = p})]

-----------------------------------------------------------------------------
(* servidor_abrir_conexion_tcp: from here on the others can connect.       *)
Servidor(k, n) == [k EXCEPT !.fds[n] = Abre(@, Libre(k, n), PUERTO)]

EnServicio(k, n) ==
  n # Nadie /\ \E fd \in Abiertos(k, n) : Punta(k, n, fd) = PUERTO

(* cliente_abrir_conexion_tcp, where m listens: n's new descriptor is      *)
(* Libre(k, n).  Where m does not, it yields SOCK_ERRONEO.                 *)
Conecta(k, n, m) ==
  [k EXCEPT
     !.fds[n] = Abre(@, Libre(k, n), [con |-> Len(k.con) + 1, lado |-> 1]),
     !.con = Append(@, [nodo |-> <<n, m>>, buf |-> <<<<>>, <<>>>>,
                        ve |-> <<"vivo", "vivo">>, nueva |-> TRUE,
                        rst |-> FALSE])]

(* accept: the connection that has waited longest.                         *)
Acepta(k, n) ==
  LET c == Min(Cola(k, n))
  IN  [k EXCEPT !.fds[n] = Abre(@, Libre(k, n), [con |-> c, lado |-> 2]),
                !.con[c].nueva = FALSE]

(* What select finds readable; it fails if a descriptor is not open.       *)
Listo(k, n, fd) ==
  IF Punta(k, n, fd) = PUERTO THEN Cola(k, n) # {}
  ELSE Recibido(k, n, fd) # <<>> \/ Ve(k, n, fd) # "vivo"

(* How a recv on fd ends: it takes all there is, of which the callers, who *)
(* treat it as a C string, keep the first datum; it returns 0 at the end   *)
(* of the data, and an error; else it blocks.                              *)
RecvDato(k, n, fd) == Conectado(k, n, fd) /\ Recibido(k, n, fd) # <<>>

RecvFin(k, n, fd) ==
  /\ Conectado(k, n, fd)
  /\ Recibido(k, n, fd) = <<>>
  /\ Ve(k, n, fd) \in {"fin", "roto"}

RecvError(k, n, fd) ==
  Conectado(k, n, fd) => Recibido(k, n, fd) = <<>> /\ Ve(k, n, fd) = "rst"

Lee(k, n, fd) ==
  LET e == Punta(k, n, fd)
  IN  [k EXCEPT !.con[e.con].buf[e.lado] = <<>>,
                !.perdidos = @ (+) Cartas(Tail(Recibido(k, n, fd)), n)]

(* A recv whose data are of no use to the caller.                          *)
Descarta(k, n, fd) ==
  LET e == Punta(k, n, fd)
  IN  [k EXCEPT !.con[e.con].buf[e.lado] = <<>>,
                !.perdidos = @ (+) Cartas(Recibido(k, n, fd), n)]

(* enviar_mensaje of d: it yields SOCK_ERRONEO where EnvioFalla, and a     *)
(* node that sends again to an end that is gone gets SIGPIPE, which it     *)
(* does not handle (EnvioMata).                                            *)
EnvioFalla(k, n, fd) == ~Conectado(k, n, fd) \/ Ve(k, n, fd) = "rst"

EnvioMata(k, n, fd) == Conectado(k, n, fd) /\ Ve(k, n, fd) = "roto"

Envia(k, n, fd, d) ==
  IF ~Conectado(k, n, fd) THEN k
  ELSE LET e == Punta(k, n, fd)
           otro == 3 - e.lado
       IN  IF Ve(k, n, fd) = "vivo"
           THEN [k EXCEPT !.con[e.con].buf[otro] = Append(@, d)]
           ELSE [k EXCEPT !.con[e.con].ve[e.lado] = "roto",
                          !.perdidos = @ (+) Cartas(<<d>>, k.con[e.con].nodo[otro])]

(* End l of connection r closes.                                           *)
CierraLado(r, l) ==
  LET deja == IF r.buf[l] # <<>> \/ (r.nueva /\ l = 2) THEN "rst" ELSE "fin"
  IN
  [r EXCEPT !.ve = [x \in 1..2 |-> IF x = l THEN "cerrado"
                                  ELSE IF @[x] = "vivo" THEN deja ELSE @[x]],
            !.rst = @ \/ (r.ve[3 - l] = "vivo" /\ deja = "rst"),
            !.buf[l] = <<>>,
            !.nueva = @ /\ l # 2]

Cierra(k, n, fd) ==
  IF ~Conectado(k, n, fd) THEN k
  ELSE LET e == Punta(k, n, fd)
       IN  [k EXCEPT !.fds[n] = Restrict(@, DOMAIN @ \ {fd}),
                     !.con[e.con] = CierraLado(@, e.lado),
                     !.perdidos = @ (+) Cartas(Recibido(k, n, fd), n)]

(* The process ends and the system closes all it had.                      *)
CierraTodo(k, n) ==
  [k EXCEPT
     !.fds[n] = <<>>,
     !.con = [c \in DOMAIN @ |->
                LET cae(r, l) == IF r.nodo[l] = n /\ r.ve[l] # "cerrado"
                                 THEN CierraLado(r, l) ELSE r
                IN  cae(cae(@[c], 1), 2)]]
=============================================================================
