---------------------------- MODULE RunnerProofs ----------------------------
(***************************************************************************)
(* The queue keeps the order of each emitter, for any number of emitters   *)
(* and of events and however far the loop runs ahead of the pushes.        *)
(*                                                                         *)
(* The argument: the loop pops exactly once for each event it handles, so  *)
(* the j-th call of on_event was given what cell j held at that moment,    *)
(* which is the event of cell j or BASURA (Copia); and the cells hold the  *)
(* events of each thread in the order of their k, because a thread pushes  *)
(* an event before it begins to post the next (Ordenados, Contados).       *)
(***************************************************************************)
EXTENDS Runner, TLAPS, FiniteSetTheorems

(* The broadcast finds the loop only where it waits.                       *)
Espera == esperando => pc[Run] = "espera"

Parejo == Len(atendidos) = frente + (IF pc[Run] = "pop" THEN 1 ELSE 0)

Copia ==
  \A j \in 1..Len(atendidos) :
    atendidos[j] # BASURA => j \in 1..Len(events) /\ atendidos[j] = events[j]

Ordenados ==
  \A i, j \in 1..Len(events) :
    (i < j /\ events[i] \in Posteado /\ events[j] \in Posteado
       /\ events[i].de = events[j].de)
      => events[i].k < events[j].k

(* Emitter e has begun to post an event that it has not pushed.            *)
PorEmpujar(e) ==
  e \in Emisor /\ pc[e] \in {"initialize", "cond_init", "post_init", "push"}

Contados ==
  \A i \in 1..Len(events) :
    events[i] \in Posteado =>
      /\ events[i].k <= emitidos[events[i].de]
      /\ PorEmpujar(events[i].de) => events[i].k < emitidos[events[i].de]

Inv == RunnerTypeOK /\ Espera /\ Parejo /\ Copia /\ Ordenados /\ Contados

-----------------------------------------------------------------------------
(* BASURA and INIT are not events that somebody posts.                     *)
LEMMA BasuraAparte == /\ BASURA \notin Posteado /\ INIT \notin Posteado
                      /\ BASURA # INIT
  BY DEF BASURA, INIT, Posteado

(* A cell, once filled, does not change: a step that leaves the cells that *)
(* are filled as they are keeps Copia of the events handled before.        *)
LEMMA PushCopia ==
  ASSUME Inv, NEW ev, push(ev), UNCHANGED atendidos
  PROVE  Copia'
  <1>1. /\ Len(events') = Len(events) + 1
        /\ \A i \in 1..Len(events) : events'[i] = events[i]
        /\ Len(events) \in Nat
    BY DEF push, Inv, RunnerTypeOK
  <1> QED  BY <1>1 DEF Inv, Copia

(* The push of INIT keeps the order of what is posted.                     *)
LEMMA PushInit ==
  ASSUME Inv, push(INIT)
  PROVE  /\ events' \in Seq(Posteado \cup {INIT})
         /\ Ordenados'
         /\ \A i \in 1..Len(events') : events'[i] \in Posteado =>
              i \in 1..Len(events) /\ events'[i] = events[i]
  <1>1. /\ Len(events') = Len(events) + 1
        /\ \A i \in 1..Len(events) : events'[i] = events[i]
        /\ events'[Len(events) + 1] = INIT
        /\ Len(events) \in Nat
        /\ events' \in Seq(Posteado \cup {INIT})
    BY DEF push, Inv, RunnerTypeOK
  <1>2. \A i \in 1..Len(events') : events'[i] \in Posteado =>
          i \in 1..Len(events) /\ events'[i] = events[i]
    BY <1>1, BasuraAparte
  <1>3. Ordenados'
    BY <1>1, <1>2 DEF Inv, Ordenados
  <1> QED  BY <1>1, <1>2, <1>3

(* The push of the next event of thread t, later than all those it has     *)
(* pushed, keeps the order.                                                *)
LEMMA PushPosteado ==
  ASSUME Inv, NEW t \in Hilo, NEW ev \in Posteado, ev.de = t, push(ev),
         \A i \in 1..Len(events) :
           (events[i] \in Posteado /\ events[i].de = t) => events[i].k < ev.k
  PROVE  /\ events' \in Seq(Posteado \cup {INIT})
         /\ Ordenados'
         /\ Len(events') = Len(events) + 1
         /\ \A i \in 1..Len(events) : events'[i] = events[i]
         /\ events'[Len(events) + 1] = ev
         /\ Len(events) \in Nat
  <1>1. /\ Len(events') = Len(events) + 1
        /\ \A i \in 1..Len(events) : events'[i] = events[i]
        /\ events'[Len(events) + 1] = ev
        /\ Len(events) \in Nat
        /\ events' \in Seq(Posteado \cup {INIT})
    BY DEF push, Inv, RunnerTypeOK
  <1>2. Ordenados'
    <2> SUFFICES ASSUME NEW i \in 1..Len(events'), NEW j \in 1..Len(events'),
                        i < j, events'[i] \in Posteado, events'[j] \in Posteado,
                        events'[i].de = events'[j].de
                 PROVE  events'[i].k < events'[j].k
      BY DEF Ordenados
    <2>1. CASE j \in 1..Len(events)
      BY <1>1, <2>1 DEF Inv, Ordenados
    <2>2. CASE j = Len(events) + 1
      BY <1>1, <2>2
    <2> QED  BY <1>1, <2>1, <2>2
  <1> QED  BY <1>1, <1>2

-----------------------------------------------------------------------------
(* The program begins with the invariant.                                  *)
LEMMA InitInv == Init => Inv
  <1> SUFFICES ASSUME Init PROVE Inv
    OBVIOUS
  <1>1. RunnerTypeOK
    <2>1. pc \in [Hilo -> Lugar] /\ emitidos \in [Hilo -> Nat]
      BY DEF Init, Lugar
    <2>2. events \in Seq(Posteado \cup {INIT})
      <3>1. CASE Iniciado
        BY <3>1 DEF Init
      <3>2. CASE ~Iniciado
        BY <3>2 DEF Init
      <3> QED  BY <3>1, <3>2
    <2>3. atendidos \in Seq(Posteado \cup {INIT, BASURA})
      BY DEF Init
    <2> QED  BY <2>1, <2>2, <2>3, RunnerAssumption DEF Init, RunnerTypeOK
  <1>2. Espera /\ Parejo /\ Copia
    BY DEF Init, Espera, Parejo, Copia, Hilo
  <1>3. Ordenados /\ Contados
    BY BasuraAparte DEF Init, Ordenados, Contados
  <1> QED  BY <1>1, <1>2, <1>3 DEF Inv

(* The steps that only move a thread on, or set a flag.                    *)
LEMMA QuietoInv ==
  ASSUME Inv, NEW t \in Hilo,
         UNCHANGED <<events, frente, emitidos, atendidos>>,
         initialized' \in BOOLEAN, running' \in BOOLEAN, esperando' \in BOOLEAN,
         pc' \in [Hilo -> Lugar], Espera',
         pc[Run] = "pop" <=> pc'[Run] = "pop",
         \A e \in Emisor : PorEmpujar(e)' => PorEmpujar(e)
  PROVE  Inv'
  <1>1. RunnerTypeOK' /\ Parejo' /\ Copia' /\ Ordenados'
    BY DEF Inv, RunnerTypeOK, Parejo, Copia, Ordenados
  <1>2. Contados'
    BY DEF Inv, Contados, PorEmpujar
  <1> QED  BY <1>1, <1>2 DEF Inv

(* The initialisation keeps the invariant.                                 *)
LEMMA IniciaInv ==
  ASSUME Inv, NEW t \in Hilo, Inicia(t)
  PROVE  Inv'
  <1>1. CASE initialize_test(t)
    <2>1. /\ pc' \in [Hilo -> Lugar]
          /\ pc[Run] = "pop" <=> pc'[Run] = "pop"
          /\ \A e \in Emisor : PorEmpujar(e)' => PorEmpujar(e)
          /\ Espera'
      BY <1>1, RunnerAssumption
      DEF initialize_test, Va, Sigue, Inv, RunnerTypeOK, Espera, PorEmpujar,
          Lugar, Hilo
    <2> QED  BY <1>1, <2>1, QuietoInv DEF initialize_test, Inv, RunnerTypeOK
  <1>2. CASE initialize_cond(t)
    <2>1. /\ pc' \in [Hilo -> Lugar]
          /\ pc[Run] = "pop" <=> pc'[Run] = "pop"
          /\ \A e \in Emisor : PorEmpujar(e)' => PorEmpujar(e)
          /\ Espera'
      BY <1>2 DEF initialize_cond, Va, Inv, RunnerTypeOK, Espera, PorEmpujar,
                  Lugar, Hilo
    <2> QED  BY <1>2, <2>1, QuietoInv DEF initialize_cond, Inv, RunnerTypeOK
  <1>3. CASE initialize_post(t)
    <2>1. /\ pc' \in [Hilo -> Lugar]
          /\ pc[Run] = "pop" <=> pc'[Run] = "pop"
          /\ \A e \in Emisor : PorEmpujar(e)' => PorEmpujar(e)
          /\ Espera'
      BY <1>3, RunnerAssumption
      DEF initialize_post, Va, Sigue, Inv, RunnerTypeOK, Espera, PorEmpujar,
          Lugar, Hilo
    <2>2. Copia'
      BY <1>3, PushCopia DEF initialize_post
    <2>3. /\ events' \in Seq(Posteado \cup {INIT})
          /\ Ordenados'
          /\ \A i \in 1..Len(events') : events'[i] \in Posteado =>
               i \in 1..Len(events) /\ events'[i] = events[i]
      BY <1>3, PushInit DEF initialize_post
    <2>4. RunnerTypeOK' /\ Parejo'
      BY <1>3, <2>1, <2>3 DEF initialize_post, Inv, RunnerTypeOK, Parejo
    <2>5. Contados'
      BY <1>3, <2>1, <2>3 DEF initialize_post, Inv, Contados, PorEmpujar
    <2> QED  BY <2>1, <2>2, <2>3, <2>4, <2>5 DEF Inv
  <1> QED  BY <1>1, <1>2, <1>3 DEF Inicia

(* An emitter that begins to post has pushed all it had begun before.      *)
LEMMA PostEventInv ==
  ASSUME Inv, NEW e \in Emisor, post_event(e)
  PROVE  Inv'
  <1>1. /\ pc' \in [Hilo -> Lugar]
        /\ pc[Run] = "pop" <=> pc'[Run] = "pop"
        /\ Espera'
        /\ emitidos' \in [Hilo -> Nat]
    BY RunnerAssumption
    DEF post_event, Va, Inv, RunnerTypeOK, Espera, Lugar, Hilo
  <1>2. RunnerTypeOK' /\ Parejo' /\ Copia' /\ Ordenados'
    BY <1>1 DEF post_event, Inv, RunnerTypeOK, Parejo, Copia, Ordenados
  <1>3. Contados'
    <2> SUFFICES ASSUME NEW i \in 1..Len(events), events[i] \in Posteado
                 PROVE  /\ events[i].k <= emitidos'[events[i].de]
                        /\ PorEmpujar(events[i].de)' =>
                             events[i].k < emitidos'[events[i].de]
      BY DEF post_event, Contados
    <2>1. /\ events[i].de \in Hilo /\ events[i].k \in Nat
          /\ events[i].k <= emitidos[events[i].de]
          /\ PorEmpujar(events[i].de) => events[i].k < emitidos[events[i].de]
          /\ emitidos \in [Hilo -> Nat] /\ pc \in [Hilo -> Lugar]
      BY DEF Inv, Contados, Posteado, RunnerTypeOK
    <2>2. CASE events[i].de = e
      BY <2>1, <2>2 DEF post_event, Hilo
    <2>3. CASE events[i].de # e
      BY <2>1, <2>3 DEF post_event, Va, PorEmpujar, Hilo
    <2> QED  BY <2>2, <2>3
  <1> QED  BY <1>1, <1>2, <1>3 DEF Inv

(* The event an emitter pushes is later than those it pushed before.       *)
LEMMA PushInv ==
  ASSUME Inv, NEW e \in Emisor, post_event_push(e)
  PROVE  Inv'
  <1>1. PICK ev \in {Evento(e, emitidos[e]), QUIT(e, emitidos[e])} : push(ev)
    BY DEF post_event_push
  <1>2. /\ e \in Hilo /\ pc[e] = "push" /\ PorEmpujar(e)
        /\ emitidos \in [Hilo -> Nat]
    BY DEF post_event_push, Va, PorEmpujar, Hilo, Inv, RunnerTypeOK
  <1>3. ev \in Posteado /\ ev.de = e /\ ev.k = emitidos[e]
    BY <1>1, <1>2 DEF Evento, QUIT, Posteado
  <1>4. \A i \in 1..Len(events) :
          (events[i] \in Posteado /\ events[i].de = e) => events[i].k < ev.k
    BY <1>2, <1>3 DEF Inv, Contados
  <1>5. /\ events' \in Seq(Posteado \cup {INIT})
        /\ Ordenados'
        /\ Len(events') = Len(events) + 1
        /\ \A i \in 1..Len(events) : events'[i] = events[i]
        /\ events'[Len(events) + 1] = ev
        /\ Len(events) \in Nat
    BY <1>1, <1>2, <1>3, <1>4, PushPosteado
  <1>6. Copia'
    BY <1>1, PushCopia DEF post_event_push
  <1>7. /\ pc' \in [Hilo -> Lugar]
        /\ pc[Run] = "pop" <=> pc'[Run] = "pop"
        /\ pc'[e] = "signal"
        /\ \A x \in Hilo : x # e => pc'[x] = pc[x]
        /\ Espera'
    BY RunnerAssumption
    DEF post_event_push, Va, Inv, RunnerTypeOK, Espera, Lugar, Hilo
  <1>8. RunnerTypeOK' /\ Parejo'
    BY <1>5, <1>7 DEF post_event_push, Inv, RunnerTypeOK, Parejo
  <1>9. Contados'
    <2> SUFFICES ASSUME NEW i \in 1..Len(events'), events'[i] \in Posteado
                 PROVE  /\ events'[i].k <= emitidos[events'[i].de]
                        /\ PorEmpujar(events[i].de)' =>
                             events'[i].k < emitidos[events'[i].de]
      BY DEF post_event_push, Contados
    <2>1. CASE i \in 1..Len(events)
      <3>1. events'[i] = events[i] /\ events[i].de \in Hilo
        BY <1>5, <2>1 DEF Posteado
      <3>2. \A d \in Hilo : PorEmpujar(d)' => PorEmpujar(d)
        BY <1>2, <1>7 DEF PorEmpujar
      <3>3. /\ events[i].k <= emitidos[events[i].de]
            /\ PorEmpujar(events[i].de) => events[i].k < emitidos[events[i].de]
        BY <2>1, <3>1 DEF Inv, Contados
      <3> QED  BY <3>1, <3>2, <3>3
    <2>2. CASE i = Len(events) + 1
      BY <1>2, <1>3, <1>5, <1>7, <2>2 DEF PorEmpujar
    <2> QED  BY <1>5, <2>1, <2>2
  <1> QED  BY <1>5, <1>6, <1>7, <1>8, <1>9 DEF Inv

(* The broadcast keeps the invariant: the loop it wakes is not in "pop".   *)
LEMMA SignalInv ==
  ASSUME Inv, NEW e \in Emisor, signal(e)
  PROVE  Inv'
  <1>1. /\ pc' \in [Hilo -> Lugar]
        /\ pc[Run] = "pop" <=> pc'[Run] = "pop"
        /\ \A x \in Emisor : PorEmpujar(x)' => PorEmpujar(x)
        /\ Espera'
    BY RunnerAssumption
    DEF signal, Inv, RunnerTypeOK, Espera, PorEmpujar, Lugar, Hilo
  <1> QED  BY <1>1, QuietoInv DEF signal, Inv, RunnerTypeOK, Hilo

(* Every step of the loop but its initialisation keeps the invariant.      *)
LEMMA BucleInv ==
  ASSUME Inv,
         \/ run_empty \/ wait \/ wait_espurio \/ run_front \/ run_pop
         \/ release \/ on_event_post
  PROVE  Inv'
  <1> USE RunnerAssumption DEF Hilo
  <1>1. CASE run_empty \/ wait \/ wait_espurio \/ release
    <2>1. /\ pc' \in [Hilo -> Lugar]
          /\ pc[Run] = "pop" <=> pc'[Run] = "pop"
          /\ \A x \in Emisor : PorEmpujar(x)' => PorEmpujar(x)
          /\ Espera'
      BY <1>1 DEF run_empty, wait, wait_espurio, release, Va, Inv, RunnerTypeOK,
                  Espera, PorEmpujar, Lugar
    <2> QED  BY <1>1, <2>1, QuietoInv
             DEF run_empty, wait, wait_espurio, release, Inv, RunnerTypeOK
  <1>2. CASE run_front
    <2> DEFINE ev == IF frente < Len(events) THEN events[frente + 1] ELSE BASURA
    <2>1. /\ pc' = [pc EXCEPT ![Run] = "pop"] /\ pc[Run] = "front"
          /\ atendidos' = Append(atendidos, ev)
          /\ running' \in BOOLEAN
      BY <1>2 DEF run_front, Va, Inv, RunnerTypeOK
    <2>2. /\ Len(atendidos) = frente
          /\ ev \in Posteado \cup {INIT, BASURA}
          /\ frente \in Nat /\ Len(events) \in Nat
      BY <2>1 DEF Inv, Parejo, RunnerTypeOK
    <2>3. /\ Len(atendidos') = frente + 1
          /\ atendidos'[frente + 1] = ev
          /\ \A j \in 1..Len(atendidos) : atendidos'[j] = atendidos[j]
          /\ atendidos' \in Seq(Posteado \cup {INIT, BASURA})
      BY <2>1, <2>2 DEF Inv, RunnerTypeOK
    <2>4. Copia'
      BY <1>2, <2>2, <2>3 DEF run_front, Inv, Copia
    <2>5. RunnerTypeOK' /\ Espera' /\ Parejo'
      BY <1>2, <2>1, <2>2, <2>3
      DEF run_front, Inv, RunnerTypeOK, Espera, Parejo, Lugar
    <2>6. Ordenados' /\ Contados'
      BY <1>2, <2>1 DEF run_front, Inv, Ordenados, Contados, PorEmpujar, RunnerTypeOK
    <2> QED  BY <2>4, <2>5, <2>6 DEF Inv
  <1>3. CASE run_pop
    <2>1. RunnerTypeOK' /\ Espera' /\ Parejo'
      BY <1>3 DEF run_pop, Va, Inv, RunnerTypeOK, Espera, Parejo, Lugar
    <2>2. Copia' /\ Ordenados' /\ Contados'
      BY <1>3 DEF run_pop, Va, Inv, RunnerTypeOK, Copia, Ordenados, Contados,
                  PorEmpujar
    <2> QED  BY <2>1, <2>2 DEF Inv
  <1>4. CASE on_event_post
    <2> DEFINE ev == Evento(Run, emitidos[Run] + 1)
    <2>1. /\ push(ev) /\ pc' = pc
          /\ emitidos \in [Hilo -> Nat]
          /\ emitidos' = [emitidos EXCEPT ![Run] = @ + 1]
      BY <1>4 DEF on_event_post, Va, Inv, RunnerTypeOK
    <2>2. ev \in Posteado /\ ev.de = Run /\ ev.k = emitidos[Run] + 1
      BY <2>1 DEF Evento, Posteado
    <2>3. \A i \in 1..Len(events) :
            (events[i] \in Posteado /\ events[i].de = Run) => events[i].k < ev.k
      BY <2>1, <2>2 DEF Inv, Contados, Posteado
    <2>4. /\ events' \in Seq(Posteado \cup {INIT})
          /\ Ordenados'
          /\ Len(events') = Len(events) + 1
          /\ \A i \in 1..Len(events) : events'[i] = events[i]
          /\ events'[Len(events) + 1] = ev
          /\ Len(events) \in Nat
      BY <2>1, <2>2, <2>3, PushPosteado
    <2>5. Copia'
      BY <1>4, <2>1, PushCopia DEF on_event_post
    <2>6. RunnerTypeOK' /\ Espera' /\ Parejo'
      BY <1>4, <2>1, <2>4 DEF on_event_post, Inv, RunnerTypeOK, Espera, Parejo
    <2>7. Contados'
      <3> SUFFICES ASSUME NEW i \in 1..Len(events'), events'[i] \in Posteado
                   PROVE  /\ events'[i].k <= emitidos'[events'[i].de]
                          /\ PorEmpujar(events[i].de)' =>
                               events'[i].k < emitidos'[events'[i].de]
        BY DEF Contados
      <3>1. CASE i \in 1..Len(events)
        <4>1. /\ events'[i] = events[i] /\ events[i].de \in Hilo
              /\ events[i].k \in Nat
          BY <2>4, <3>1 DEF Posteado
        <4>2. \A d \in Hilo : PorEmpujar(d)' => PorEmpujar(d)
          BY <2>1 DEF PorEmpujar
        <4>3. /\ events[i].k <= emitidos[events[i].de]
              /\ PorEmpujar(events[i].de) => events[i].k < emitidos[events[i].de]
          BY <3>1, <4>1 DEF Inv, Contados
        <4>4. /\ emitidos[events[i].de] \in Nat /\ emitidos'[events[i].de] \in Nat
              /\ emitidos'[events[i].de] >= emitidos[events[i].de]
          BY <2>1, <4>1
        <4> QED  BY <4>1, <4>2, <4>3, <4>4
      <3>2. CASE i = Len(events) + 1
        BY <2>1, <2>2, <2>4, <3>2 DEF PorEmpujar
      <3> QED  BY <2>4, <3>1, <3>2
    <2> QED  BY <2>4, <2>5, <2>6, <2>7 DEF Inv
  <1> QED  BY <1>1, <1>2, <1>3, <1>4

(* Every step keeps the invariant.                                         *)
LEMMA PasoInv == Inv /\ [Next]_vars => Inv'
  <1> SUFFICES ASSUME Inv, [Next]_vars PROVE Inv'
    OBVIOUS
  <1>1. CASE \/ run_empty \/ wait \/ wait_espurio \/ run_front \/ run_pop
             \/ release \/ on_event_post
    BY <1>1, BucleInv
  <1>2. CASE Inicia(Run)
    BY <1>2, IniciaInv DEF Hilo
  <1>3. CASE \E e \in Emisor : post_event(e) \/ Emite(e)
    BY <1>3, PostEventInv, PushInv, SignalInv, IniciaInv DEF Emite, Hilo
  <1>4. CASE UNCHANGED vars
    BY <1>4 DEF vars, Inv, RunnerTypeOK, Espera, Parejo, Copia, Ordenados,
                Contados, PorEmpujar
  <1> QED  BY <1>1, <1>2, <1>3, <1>4 DEF Next, Bucle

(* What the loop handles of one thread keeps the order of the queue.       *)
LEMMA InvEnOrden == Inv => EnOrden
  <1> SUFFICES ASSUME Inv,
                      NEW i \in 1..Len(atendidos), NEW j \in 1..Len(atendidos),
                      i < j, atendidos[i] \in Posteado, atendidos[j] \in Posteado,
                      atendidos[i].de = atendidos[j].de
               PROVE  atendidos[i].k < atendidos[j].k
    BY DEF EnOrden
  <1>1. /\ i \in 1..Len(events) /\ atendidos[i] = events[i]
        /\ j \in 1..Len(events) /\ atendidos[j] = events[j]
    BY BasuraAparte DEF Inv, Copia
  <1> QED  BY <1>1 DEF Inv, Ordenados

(* The cell of an event that is skipped is one that BASURA was read from.  *)
LEMMA InvNadaSeSalta == Inv => NadaSeSalta
  <1> SUFFICES ASSUME Inv PROVE NadaSeSalta
    OBVIOUS
  <1> DEFINE Vacios == {j \in 1..Len(atendidos) : atendidos[j] = BASURA}
  <1>1. Saltados \subseteq Vacios
    <2> SUFFICES ASSUME NEW i \in Saltados PROVE i \in Vacios
      OBVIOUS
    <2>1. /\ i \in 1..Len(events) /\ i <= frente
          /\ \A j \in 1..Len(atendidos) : atendidos[j] # events[i]
      BY DEF Saltados
    <2>2. i \in 1..Len(atendidos)
      BY <2>1 DEF Inv, Parejo, RunnerTypeOK
    <2> QED  BY <2>1, <2>2 DEF Inv, Copia
  <1>2. IsFiniteSet(Vacios)
    <2>1. Len(atendidos) \in Nat /\ Vacios \subseteq 1..Len(atendidos)
      BY DEF Inv, RunnerTypeOK
    <2>2. IsFiniteSet(1..Len(atendidos))
      BY <2>1, FS_Interval
    <2> QED  BY <2>1, <2>2, FS_Subset
  <1>3. Cardinality(Saltados) <= Cardinality(Vacios)
    BY <1>1, <1>2, FS_Subset
  <1> QED  BY <1>3 DEF NadaSeSalta

-----------------------------------------------------------------------------
(* RunnerTypeOK holds in every state of the queue of a thread.             *)
THEOREM RunnerTypeCorrect == Spec => []RunnerTypeOK
  <1>1. Inv => RunnerTypeOK
    BY DEF Inv
  <1> QED  BY <1>1, InitInv, PasoInv, PTL DEF Spec

(* EnOrden: the events of a thread reach on_event in the order it posted   *)
(* them, and none twice, for any emitters and however they interleave with *)
(* the loop, which takes the queue without its mutex.                      *)
THEOREM SiempreEnOrden == Spec => []EnOrden
  <1> QED  BY InitInv, PasoInv, InvEnOrden, PTL DEF Spec

(* NadaSeSalta: an event is skipped only where the front of an empty queue *)
(* was taken, one for each time, for any emitters and any number of them.  *)
THEOREM SiempreNadaSeSalta == Spec => []NadaSeSalta
  <1> QED  BY InitInv, PasoInv, InvNadaSeSalta, PTL DEF Spec
=============================================================================
