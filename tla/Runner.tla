------------------------------- MODULE Runner -------------------------------
(***************************************************************************)
(* The event queue every thread of a node is built on (common/runner.cpp), *)
(* at the grain at which threads interleave.  One thread runs the loop     *)
(* Runner::run; any other thread, the emitters, calls post_event on it.    *)
(*                                                                         *)
(* A step is a stretch of code that no other thread can see the middle of: *)
(* one section under the mutex, or one unlocked access to shared data.     *)
(* The loop touches the queue without the mutex, so it can meet a push at  *)
(* any point, and it does not look again when wait returns, so it can take *)
(* the front of a queue that is empty.  std::queue is a deque with a       *)
(* position for the next pop and one for the next push: taking the front   *)
(* of an empty one reads a cell that no push has filled (BASURA here), and *)
(* popping it moves the first position beyond the second, over the cell    *)
(* that the next push will fill.                                           *)
(***************************************************************************)
EXTENDS Integers, Sequences, FiniteSets, Functions

CONSTANTS
  Emisor,      \* the threads that post events to this one
  MaxEventos,  \* bound: MaxEventos[t] events that thread t posts
  MaxAdelanto, \* bound: cells the loop may pop beyond those pushed
  Iniciado,    \* whether run has initialised before anybody posts
  Espurio,     \* whether pthread_cond_wait may return unsignalled
  ConQuit      \* whether the last event of an emitter may be QUIT

Run == "run"     \* the thread that runs the loop

Hilo == Emisor \cup {Run}

ASSUME RunnerAssumption ==
  /\ Run \notin Emisor
  /\ MaxEventos \in [Hilo -> Nat]
  /\ MaxAdelanto \in Nat
  /\ Iniciado \in BOOLEAN /\ Espurio \in BOOLEAN /\ ConQuit \in BOOLEAN

VARIABLES
  initialized, \* the flag of Runner
  running,     \* the flag of Runner::run
  events,      \* every event pushed so far: a deque never moves its cells
  frente,      \* the cells before this one have been popped
  esperando,   \* whether the loop is among the waiters of ds.cond
  pc,          \* pc[t]: what thread t does next
  emitidos,    \* emitidos[t]: events that thread t has begun to post
  atendidos    \* the events on_event was called with, in order

vars == <<initialized, running, events, frente, esperando, pc, emitidos,
          atendidos>>

INIT == [id |-> "INIT"]
BASURA == [id |-> "BASURA"]
Evento(e, k) == [id |-> "EVENTO", de |-> e, k |-> k]
QUIT(e, k) == [id |-> "QUIT", de |-> e, k |-> k]

Posteado == [id : {"EVENTO", "QUIT"}, de : Hilo, k : Nat]

Lugar == {"fuera", "initialize", "cond_init", "post_init", "push", "signal",
          "empty", "wait", "espera", "front", "pop", "release", "fin"}

empty == frente = Len(events)

Va(t, de, a) == pc[t] = de /\ pc' = [pc EXCEPT ![t] = a]

push(ev) == events' = Append(events, ev)

-----------------------------------------------------------------------------
(* initialize, called by run and by post_event.  Each thread goes through  *)
(* it by itself: nothing keeps two of them from finding the flag false.    *)

(* What follows initialize in thread t.                                    *)
Sigue(t) == IF t = Run THEN "empty" ELSE "push"

initialize_test(t) ==
  /\ \/ /\ ~initialized
        /\ Va(t, "initialize", "cond_init")
     \/ /\ initialized
        /\ Va(t, "initialize", Sigue(t))
  /\ UNCHANGED <<initialized, running, events, frente, esperando, emitidos,
                 atendidos>>

(* pthread_cond_init forgets the thread that waits: no broadcast finds it.  *)
initialize_cond(t) ==
  /\ Va(t, "cond_init", "post_init")
  /\ initialized' = TRUE
  /\ esperando' = FALSE
  /\ UNCHANGED <<running, events, frente, emitidos, atendidos>>

(* post_event(ev_init) finds the flag set, pushes and does not signal.     *)
initialize_post(t) ==
  /\ Va(t, "post_init", Sigue(t))
  /\ push(INIT)
  /\ UNCHANGED <<initialized, running, frente, esperando, emitidos, atendidos>>

-----------------------------------------------------------------------------
(* post_event(ev, true), called by emitter e.                              *)

post_event(e) ==
  /\ emitidos[e] < MaxEventos[e]
  /\ emitidos' = [emitidos EXCEPT ![e] = @ + 1]
  /\ Va(e, "fuera", IF initialized THEN "push" ELSE "initialize")
  /\ UNCHANGED <<initialized, running, events, frente, esperando, atendidos>>

post_event_push(e) ==
  /\ Va(e, "push", "signal")
  /\ \/ push(Evento(e, emitidos[e]))
     \/ ConQuit /\ emitidos[e] = MaxEventos[e] /\ push(QUIT(e, emitidos[e]))
  /\ UNCHANGED <<initialized, running, frente, esperando, emitidos, atendidos>>

(* Fault: the condition is not broadcast.                                  *)
signal_mudo(e) ==
  /\ Va(e, "signal", "fuera")
  /\ UNCHANGED <<initialized, running, events, frente, esperando, emitidos,
                 atendidos>>

(* The broadcast wakes the loop, if ds.cond knows that it waits.           *)
signal(e) ==
  /\ pc[e] = "signal"
  /\ pc' = [t \in Hilo |-> IF t = e THEN "fuera"
                           ELSE IF t = Run /\ esperando THEN "front"
                           ELSE pc[t]]
  /\ esperando' = FALSE
  /\ UNCHANGED <<initialized, running, events, frente, emitidos, atendidos>>

-----------------------------------------------------------------------------
(* The loop of run.                                                        *)

run_empty ==
  /\ Va(Run, "empty", IF empty THEN "wait" ELSE "front")
  /\ UNCHANGED <<initialized, running, events, frente, esperando, emitidos,
                 atendidos>>

(* Fault: the loop waits with a timeout, which posts RUN_TIMEOUT.          *)
wait_con_timeout ==
  /\ Va(Run, "wait", "front")
  /\ push([id |-> "RUN_TIMEOUT"])
  /\ UNCHANGED <<initialized, running, frente, esperando, emitidos, atendidos>>

(* lock, and pthread_cond_wait gives the mutex back as it begins to wait.  *)
wait ==
  /\ Va(Run, "wait", "espera")
  /\ esperando' = TRUE
  /\ UNCHANGED <<initialized, running, events, frente, emitidos, atendidos>>

(* pthread_cond_wait returns with no broadcast.                            *)
wait_espurio ==
  /\ Espurio
  /\ Va(Run, "espera", "front")
  /\ esperando' = FALSE
  /\ UNCHANGED <<initialized, running, events, frente, emitidos, atendidos>>

(* The front is copied and on_event is called with it.                     *)
run_front ==
  /\ frente < Len(events) + MaxAdelanto
  /\ Va(Run, "front", "pop")
  /\ LET ev == IF frente < Len(events) THEN events[frente + 1] ELSE BASURA
     IN  /\ atendidos' = Append(atendidos, ev)
         /\ running' = (running /\ ev.id # "QUIT")
  /\ UNCHANGED <<initialized, events, frente, esperando, emitidos>>

(* on_event posts to its own thread; nobody waits for the broadcast.       *)
on_event_post ==
  /\ Va(Run, "pop", "pop")
  /\ emitidos[Run] < MaxEventos[Run]
  /\ emitidos' = [emitidos EXCEPT ![Run] = @ + 1]
  /\ push(Evento(Run, emitidos[Run] + 1))
  /\ UNCHANGED <<initialized, running, frente, esperando, atendidos>>

(* Fault: an event is popped before it is copied and again after.          *)
run_pop_doble ==
  /\ Va(Run, "pop", IF running THEN "empty" ELSE "release")
  /\ frente' = frente + 2
  /\ UNCHANGED <<initialized, running, events, esperando, emitidos, atendidos>>

(* Fault: the event stays in the queue.                                    *)
run_sin_pop ==
  /\ Va(Run, "pop", IF running THEN "empty" ELSE "release")
  /\ UNCHANGED <<initialized, running, events, frente, esperando, emitidos,
                 atendidos>>

run_pop ==
  /\ Va(Run, "pop", IF running THEN "empty" ELSE "release")
  /\ frente' = frente + 1
  /\ UNCHANGED <<initialized, running, events, esperando, emitidos, atendidos>>

release ==
  /\ Va(Run, "release", "fin")
  /\ initialized' = FALSE
  /\ UNCHANGED <<running, events, frente, esperando, emitidos, atendidos>>

-----------------------------------------------------------------------------
Init ==
  /\ initialized = Iniciado
  /\ running = TRUE
  /\ events = IF Iniciado THEN <<INIT>> ELSE <<>>
  /\ frente = 0
  /\ esperando = FALSE
  /\ pc = [t \in Hilo |-> IF t # Run THEN "fuera"
                          ELSE IF Iniciado THEN "empty" ELSE "initialize"]
  /\ emitidos = [t \in Hilo |-> 0]
  /\ atendidos = <<>>

Inicia(t) == initialize_test(t) \/ initialize_cond(t) \/ initialize_post(t)

Emite(e) == post_event_push(e) \/ signal(e) \/ Inicia(e)

Bucle == run_empty \/ wait \/ run_front \/ run_pop \/ release \/ Inicia(Run)

Next ==
  \/ Bucle
  \/ wait_espurio
  \/ on_event_post
  \/ \E e \in Emisor : post_event(e) \/ Emite(e)

Spec == Init /\ [][Next]_vars

(* A thread that can go on does; nobody need post again, and a wake-up     *)
(* without a broadcast is not to be relied on.                             *)
FairSpec == Spec /\ WF_vars(Bucle) /\ \A e \in Emisor : WF_vars(Emite(e))

-----------------------------------------------------------------------------
(* Type invariant.                                                         *)
RunnerTypeOK ==
  /\ initialized \in BOOLEAN /\ running \in BOOLEAN /\ esperando \in BOOLEAN
  /\ events \in Seq(Posteado \cup {INIT})
  /\ atendidos \in Seq(Posteado \cup {INIT, BASURA})
  /\ frente \in Nat
  /\ pc \in [Hilo -> Lugar]
  /\ emitidos \in [Hilo -> Nat]

(* EnOrden: whatever the loop and the emitters do to the queue at once,    *)
(* the events a thread posts reach on_event in the order it posted them    *)
(* and none of them twice.                                                 *)
EnOrden ==
  \A i, j \in 1..Len(atendidos) :
    (i < j /\ atendidos[i] \in Posteado /\ atendidos[j] \in Posteado
       /\ atendidos[i].de = atendidos[j].de)
      => atendidos[i].k < atendidos[j].k

(* NadaSeSalta: an event that has left the queue was handled, except for   *)
(* those whose cell was popped before they were pushed into it: one event  *)
(* is skipped for each time the front of an empty queue was taken.         *)
Saltados ==
  {i \in 1..Len(events) : /\ i <= frente
                         /\ events[i] \in Posteado
                         /\ \A j \in 1..Len(atendidos) : atendidos[j] # events[i]}

NadaSeSalta ==
  Cardinality(Saltados)
    <= Cardinality({j \in 1..Len(atendidos) : atendidos[j] = BASURA})

(* DespiertaConOtro: if the loop sleeps over an event, which it may for    *)
(* ever (SinSuenoConTrabajo), the next event that is posted rescues it:    *)
(* the loop wakes, and goes on until the event has left the queue.         *)
Rescate(i) ==
  /\ i \in (frente + 1)..Len(events)
  /\ pc[Run] = "espera"
  /\ \E e \in Emisor : pc[e] = "push"

(* The cells of the queue: each thread may also push one INIT.             *)
MaxCeldas == Cardinality(Hilo) + SumFunction(MaxEventos)

DespiertaConOtro ==
  \A i \in 1..MaxCeldas : Rescate(i) ~> (frente >= i \/ ~running)

-----------------------------------------------------------------------------
(* What the comments of the source say, and the code does not keep.        *)

(* SinSuenoConTrabajo: "Este va sincronizado" (runner.h, post_event): the  *)
(* loop does not sleep over an event whose post_event has returned.        *)
SinSuenoConTrabajo ==
  ~(/\ pc[Run] = "espera"
    /\ frente < Len(events)
    /\ \A e \in Emisor : pc[e] = "fuera")
=============================================================================
