------------------------------- MODULE Senal -------------------------------
(***************************************************************************)
(* How a node ends: sig_handler (src/main.cpp), which SIGINT and SIGTERM   *)
(* call in whatever thread the system picks, in the middle of whatever     *)
(* that thread is doing, and which takes the mutexes of the event queues   *)
(* (common/runner.cpp) to post QUIT before it calls exit.                  *)
(*                                                                         *)
(* A thread that posts an event takes the mutex of the queue twice: to     *)
(* push, and to signal.  Every activity of a thread is a frame of its      *)
(* stack: a handler suspends the frames below it, and what they hold stays *)
(* held.  The mutexes are not recursive.                                   *)
(***************************************************************************)
EXTENDS Integers, Sequences, FiniteSets

CONSTANTS
  Cola,        \* the queues: of Router, Listener, Logic and Keyboard, each
               \* named as the thread that runs it
  Orden,       \* the order in which sig_handler posts to them
  Main,        \* the first thread of the process
  Postea,      \* Postea[t]: the queues whose mutex thread t takes
  Lanza,       \* Lanza[t]: the signals that thread t raises by itself
  MaxSenales,  \* bound: signals that come from outside
  MaxLanzadas  \* bound: signals that threads raise

Sig == {"SIGINT", "SIGTERM"}
Hilo == Cola \cup {Main}
LIBRE == "libre"

ASSUME SenalAssumption ==
  /\ Main \notin Cola /\ LIBRE \notin Hilo
  /\ Orden \in Seq(Cola) /\ Orden # <<>>
  /\ Postea \in [Hilo -> SUBSET Cola]
  /\ Lanza \in [Hilo -> SUBSET Sig]
  /\ MaxSenales \in Nat /\ MaxLanzadas \in Nat

VARIABLES
  pila,        \* pila[t]: the frames of thread t, the one that runs first
  mutex,       \* mutex[q]: the thread that holds ds.mutex of queue q
  pendientes,  \* the signals that no thread has been picked for yet
  emitidas,    \* the signals that came from outside so far
  lanzadas,    \* the signals raised so far
  terminado    \* exit has been called

vars == <<pila, mutex, pendientes, emitidas, lanzadas, terminado>>

(* A frame: the loop of a thread or a handler; the queues it has yet to    *)
(* post to; and, of the first of those, which section it is in.            *)
Seccion == {"lock", "push", "lock2", "signal"}
Marco == [de : Sig \cup {"run"}, colas : Seq(Cola), en : Seccion]

Corre(t) == Head(pila[t])
Activo(t) == Corre(t).colas # <<>>

(* Fault: no signal is blocked while its handler runs.                     *)
Bloquea_nunca(t, s) == FALSE

(* While a handler runs, its own signal is blocked in that thread.         *)
Bloquea(t, s) == \E i \in DOMAIN pila[t] : pila[t][i].de = s

-----------------------------------------------------------------------------
(* Thread t begins an event: it posts it, or waits for one of its own.     *)
post_event(t, q) ==
  /\ ~terminado
  /\ Corre(t).de = "run" /\ ~Activo(t)
  /\ q \in Postea[t]
  /\ pila' = [pila EXCEPT ![t] =
       <<[Corre(t) EXCEPT !.colas = <<q>>, !.en = "lock"]>> \o Tail(@)]
  /\ UNCHANGED <<mutex, pendientes, emitidas, lanzadas, terminado>>

Siguiente(en) == CASE en = "lock" -> "push" [] en = "lock2" -> "signal"

(* Fault: the mutex is recursive.                                          *)
lock_recursivo(t) ==
  /\ ~terminado
  /\ Activo(t) /\ Corre(t).en \in {"lock", "lock2"}
  /\ mutex[Head(Corre(t).colas)] \in {LIBRE, t}
  /\ mutex' = [mutex EXCEPT ![Head(Corre(t).colas)] = t]
  /\ pila' = [pila EXCEPT ![t] =
       <<[Corre(t) EXCEPT !.en = Siguiente(Corre(t).en)]>> \o Tail(@)]
  /\ UNCHANGED <<pendientes, emitidas, lanzadas, terminado>>

lock(t) ==
  /\ ~terminado
  /\ Activo(t) /\ Corre(t).en \in {"lock", "lock2"}
  /\ mutex[Head(Corre(t).colas)] = LIBRE
  /\ mutex' = [mutex EXCEPT ![Head(Corre(t).colas)] = t]
  /\ pila' = [pila EXCEPT ![t] =
       <<[Corre(t) EXCEPT !.en = Siguiente(Corre(t).en)]>> \o Tail(@)]
  /\ UNCHANGED <<pendientes, emitidas, lanzadas, terminado>>

(* Fault: the mutex stays locked after the push.                           *)
unlock_olvidado(t) ==
  /\ ~terminado
  /\ Activo(t) /\ Corre(t).en = "push"
  /\ pila' = [pila EXCEPT ![t] = <<[Corre(t) EXCEPT !.en = "lock2"]>> \o Tail(@)]
  /\ UNCHANGED <<mutex, pendientes, emitidas, lanzadas, terminado>>

(* The end of the section; after the second, the next queue.               *)
unlock(t) ==
  /\ ~terminado
  /\ Activo(t) /\ Corre(t).en \in {"push", "signal"}
  /\ mutex' = [mutex EXCEPT ![Head(Corre(t).colas)] = LIBRE]
  /\ pila' = [pila EXCEPT ![t] =
       <<IF Corre(t).en = "push" THEN [Corre(t) EXCEPT !.en = "lock2"]
         ELSE [Corre(t) EXCEPT !.en = "lock", !.colas = Tail(@)]>> \o Tail(@)]
  /\ UNCHANGED <<pendientes, emitidas, lanzadas, terminado>>

(* exit: a handler has posted to the last queue.                           *)
exit(t) ==
  /\ ~terminado
  /\ Corre(t).de \in Sig /\ ~Activo(t)
  /\ terminado' = TRUE
  /\ UNCHANGED <<pila, mutex, pendientes, emitidas, lanzadas>>

-----------------------------------------------------------------------------
(* sig_handler is called in thread t, for signal s.                        *)
sig_handler(t, s) ==
  pila' = [pila EXCEPT ![t] = <<[de |-> s, colas |-> Orden, en |-> "lock"]>> \o @]

(* A signal from outside; one that is pending is not pending twice.        *)
kill(s) ==
  /\ ~terminado
  /\ emitidas < MaxSenales
  /\ emitidas' = emitidas + 1
  /\ pendientes' = pendientes \cup {s}
  /\ UNCHANGED <<pila, mutex, lanzadas, terminado>>

(* The system picks the first thread, unless that one blocks the signal.   *)
entrega(t, s) ==
  /\ ~terminado
  /\ s \in pendientes
  /\ ~Bloquea(t, s) /\ (t # Main => Bloquea(Main, s))
  /\ pendientes' = pendientes \ {s}
  /\ sig_handler(t, s)
  /\ UNCHANGED <<mutex, emitidas, lanzadas, terminado>>

(* A thread raises a signal, between two events: option 8 of the menu, or  *)
(* a recv that fails.                                                      *)
raise(t, s) ==
  /\ ~terminado
  /\ lanzadas < MaxLanzadas
  /\ s \in Lanza[t]
  /\ Corre(t).de = "run" /\ ~Activo(t)
  /\ lanzadas' = lanzadas + 1
  /\ sig_handler(t, s)
  /\ UNCHANGED <<mutex, pendientes, emitidas, terminado>>

-----------------------------------------------------------------------------
Init ==
  /\ pila = [t \in Hilo |-> <<[de |-> "run", colas |-> <<>>, en |-> "lock"]>>]
  /\ mutex = [q \in Cola |-> LIBRE]
  /\ pendientes = {} /\ emitidas = 0 /\ lanzadas = 0
  /\ terminado = FALSE

(* What thread t does when it is given the processor.                      *)
Paso(t) == lock(t) \/ unlock(t) \/ exit(t)

Next ==
  \/ \E t \in Hilo : Paso(t) \/ \E q \in Cola : post_event(t, q)
  \/ \E t \in Hilo, s \in Sig : raise(t, s) \/ entrega(t, s)
  \/ \E s \in Sig : kill(s)

Spec == Init /\ [][Next]_vars

(* Every thread gets the processor, and a mutex that is freed over and     *)
(* over; the system delivers the signals.                                  *)
FairSpec ==
  /\ Spec
  /\ \A t \in Hilo : SF_vars(Paso(t))
  /\ WF_vars(\E t \in Hilo, s \in Sig : entrega(t, s))

-----------------------------------------------------------------------------
(* Type invariant; no signal is handled twice at once in one thread.       *)
SenalTypeOK ==
  /\ pila \in [Hilo -> Seq(Marco) \ {<<>>}]
  /\ \A t \in Hilo : \A i, j \in DOMAIN pila[t] :
       pila[t][i].de = pila[t][j].de => i = j
  /\ mutex \in [Cola -> Hilo \cup {LIBRE}]
  /\ pendientes \subseteq Sig
  /\ emitidas \in Nat /\ lanzadas \in Nat
  /\ terminado \in BOOLEAN

(* The frames that are in a section of the queue q, as <<thread, depth>>.  *)
Dentro(q) ==
  {x \in UNION {{t} \X DOMAIN pila[t] : t \in Hilo} :
     LET m == pila[x[1]][x[2]]
     IN  m.colas # <<>> /\ m.en \in {"push", "signal"} /\ Head(m.colas) = q}

(* ColaProtegida: no two frames are in the sections of one queue, not even *)
(* two of one thread: a handler never touches a queue that the code it     *)
(* suspended was half-way through.                                         *)
ColaProtegida ==
  \A q \in Cola : \A x, y \in Dentro(q) : x = y

(* SalidaTermina: once sig_handler has begun, "la rutina de salida"        *)
(* (router.cpp) comes to its end and the process is gone, whatever the     *)
(* other threads and handlers are doing, unless a handler has suspended    *)
(* code of its own thread that is in a section: that one keeps its mutex.  *)
Atrapado == \E q \in Cola : \E x \in Dentro(q) : x[2] > 1

SalidaTermina == (\E t \in Hilo : Corre(t).de \in Sig) ~> (terminado \/ Atrapado)
=============================================================================
