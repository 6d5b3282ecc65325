---------------------------- MODULE SenalProofs ----------------------------
(***************************************************************************)
(* Theorems about Senal, for any queues, threads, order of the posts and   *)
(* number of signals: however the handlers nest, the mutexes of the queues *)
(* keep two activities out of one queue, also two of the same thread.      *)
(***************************************************************************)
EXTENDS Senal, TLAPS

-----------------------------------------------------------------------------
(* A frame at depth i of thread t is in a section of queue q.              *)
EnSeccion(m, q) ==
  m.colas # <<>> /\ m.en \in {"push", "signal"} /\ Head(m.colas) = q

LEMMA DentroLemma ==
  ASSUME NEW q
  PROVE  \A x : x \in Dentro(q) <=>
           \E t \in Hilo : \E i \in DOMAIN pila[t] :
             x = <<t, i>> /\ EnSeccion(pila[t][i], q)
  BY DEF Dentro, EnSeccion

(* The stacks.                                                             *)
PilasOK ==
  /\ pila \in [Hilo -> Seq(Marco)]
  /\ \A t \in Hilo : pila[t] # <<>>

(* In one thread no signal is handled twice at once: its frames are of     *)
(* different origin.                                                       *)
MarcosDistintos ==
  \A t \in Hilo : \A i, j \in DOMAIN pila[t] :
    pila[t][i].de = pila[t][j].de => i = j

(* The loop of a thread is at the bottom of its stack.                     *)
Fondo ==
  \A t \in Hilo : \A i \in DOMAIN pila[t] :
    pila[t][i].de = "run" => i = Len(pila[t])

(* A frame in a section belongs to the thread that holds the mutex.        *)
Dueno ==
  \A q \in Cola, t \in Hilo : \A i \in DOMAIN pila[t] :
    EnSeccion(pila[t][i], q) => mutex[q] = t

(* Of one thread, one frame.                                               *)
UnoPorHilo ==
  \A q \in Cola, t \in Hilo : \A i, j \in DOMAIN pila[t] :
    EnSeccion(pila[t][i], q) /\ EnSeccion(pila[t][j], q) => i = j

Resto ==
  /\ mutex \in [Cola -> Hilo \cup {LIBRE}]
  /\ pendientes \subseteq Sig
  /\ emitidas \in Nat /\ lanzadas \in Nat
  /\ terminado \in BOOLEAN

Inv ==
  PilasOK /\ MarcosDistintos /\ Fondo /\ Resto /\ Dueno /\ UnoPorHilo

-----------------------------------------------------------------------------
(* The running frame of a thread is replaced by another one of the same    *)
(* origin, and nothing else of the stacks changes.                         *)
LEMMA CambiaMarco ==
  ASSUME PilasOK, NEW t \in Hilo, NEW m \in Marco,
         pila' = [pila EXCEPT ![t] = <<m>> \o Tail(@)]
  PROVE  /\ PilasOK'
         /\ \A u \in Hilo : DOMAIN pila'[u] = DOMAIN pila[u]
         /\ \A u \in Hilo : \A i \in DOMAIN pila[u] :
              pila'[u][i] = IF u = t /\ i = 1 THEN m ELSE pila[u][i]
<1>1. pila[t] \in Seq(Marco) /\ pila[t] # <<>>
  BY DEF PilasOK
<1> DEFINE s == <<m>> \o Tail(pila[t])
<1>2. /\ s \in Seq(Marco) /\ s # <<>> /\ DOMAIN s = DOMAIN pila[t]
      /\ \A i \in DOMAIN s : s[i] = IF i = 1 THEN m ELSE pila[t][i]
  BY <1>1
<1>3. pila' = [pila EXCEPT ![t] = s]
  OBVIOUS
<1> HIDE DEF s
<1> QED
  BY <1>2, <1>3 DEF PilasOK

(* A handler that is called suspends the frames of the thread.             *)
LEMMA LlamaMarco ==
  ASSUME PilasOK, NEW t \in Hilo, NEW m \in Marco,
         pila' = [pila EXCEPT ![t] = <<m>> \o @]
  PROVE  /\ PilasOK'
         /\ \A u \in Hilo : u # t => pila'[u] = pila[u]
         /\ Len(pila'[t]) = Len(pila[t]) + 1
         /\ \A u \in Hilo : \A i \in DOMAIN pila'[u] :
              \/ u # t /\ i \in DOMAIN pila[u] /\ pila'[u][i] = pila[u][i]
              \/ u = t /\ i = 1 /\ pila'[u][i] = m
              \/ /\ u = t /\ i \in Nat /\ i > 1
                 /\ i - 1 \in DOMAIN pila[u] /\ pila'[u][i] = pila[u][i - 1]
<1>1. pila[t] \in Seq(Marco) /\ pila[t] # <<>>
  BY DEF PilasOK
<1> DEFINE s == <<m>> \o pila[t]
<1>2. /\ s \in Seq(Marco) /\ s # <<>>
      /\ \A i \in DOMAIN s :
           \/ i = 1 /\ s[i] = m
           \/ i \in Nat /\ i > 1 /\ i - 1 \in DOMAIN pila[t] /\ s[i] = pila[t][i - 1]
      /\ Len(s) = Len(pila[t]) + 1
  BY <1>1
<1>3. pila' = [pila EXCEPT ![t] = s]
  OBVIOUS
<1> HIDE DEF s
<1> QED
  BY <1>2, <1>3 DEF PilasOK

LEMMA CorreLemma ==
  ASSUME PilasOK, NEW t \in Hilo
  PROVE  /\ Corre(t) \in Marco /\ Corre(t) = pila[t][1] /\ 1 \in DOMAIN pila[t]
         /\ Activo(t) => /\ Head(Corre(t).colas) \in Cola
                         /\ Tail(Corre(t).colas) \in Seq(Cola)
<1>1. pila[t] \in Seq(Marco) /\ pila[t] # <<>>
  BY DEF PilasOK
<1>2. Corre(t) \in Marco /\ Corre(t) = pila[t][1] /\ 1 \in DOMAIN pila[t]
  BY <1>1 DEF Corre
<1>3. Corre(t).colas \in Seq(Cola)
  BY <1>2 DEF Marco
<1> QED
  BY <1>2, <1>3 DEF Activo

(* The running frame changes to one of the same origin.  If the new frame  *)
(* is in a section only with its mutex and alone, and the other frames     *)
(* keep theirs, the invariant is kept.                                     *)
LEMMA CorreCambia ==
  ASSUME Inv, Resto', NEW t \in Hilo, NEW m \in Marco, m.de = Corre(t).de,
         pila' = [pila EXCEPT ![t] = <<m>> \o Tail(@)],
         \A q \in Cola : EnSeccion(m, q) =>
           /\ mutex'[q] = t
           /\ \A i \in DOMAIN pila[t] : i # 1 => ~EnSeccion(pila[t][i], q),
         \A q \in Cola, u \in Hilo : \A i \in DOMAIN pila[u] :
           EnSeccion(pila[u][i], q) /\ (u # t \/ i # 1) => mutex'[q] = u
  PROVE  Inv'
<1>1. /\ PilasOK'
      /\ \A u \in Hilo : DOMAIN pila'[u] = DOMAIN pila[u]
      /\ \A u \in Hilo : \A i \in DOMAIN pila[u] :
           pila'[u][i] = IF u = t /\ i = 1 THEN m ELSE pila[u][i]
  BY CambiaMarco DEF Inv
<1>2. \A u \in Hilo : \A i \in DOMAIN pila[u] : pila'[u][i].de = pila[u][i].de
  BY <1>1, CorreLemma DEF Inv
<1>3. MarcosDistintos'
  <2> SUFFICES ASSUME NEW u \in Hilo,
                      NEW i \in DOMAIN pila[u], NEW j \in DOMAIN pila[u],
                      pila'[u][i].de = pila'[u][j].de
               PROVE  i = j
    BY <1>1 DEF MarcosDistintos
  <2>1. pila[u][i].de = pila[u][j].de
    BY <1>2
  <2> QED
    BY <2>1 DEF Inv, MarcosDistintos
<1>4. \A u \in Hilo : Len(pila'[u]) = Len(pila[u])
  <2> TAKE u \in Hilo
  <2>1. pila[u] \in Seq(Marco) /\ pila'[u] \in Seq(Marco)
    BY <1>1 DEF Inv, PilasOK
  <2> QED
    BY <1>1, <2>1
<1>5. Fondo'
  BY <1>1, <1>2, <1>4 DEF Inv, Fondo
<1>6. Dueno'
  <2> SUFFICES ASSUME NEW q \in Cola, NEW u \in Hilo, NEW i \in DOMAIN pila[u],
                      EnSeccion(pila'[u][i], q)
               PROVE  mutex'[q] = u
    BY <1>1 DEF Dueno, EnSeccion
  <2>1. CASE u = t /\ i = 1
    <3>1. EnSeccion(m, q)
      BY <1>1, <2>1
    <3> QED
      BY <2>1, <3>1
  <2>2. CASE ~(u = t /\ i = 1)
    <3>1. EnSeccion(pila[u][i], q)
      BY <1>1, <2>2
    <3> QED
      BY <2>2, <3>1
  <2> QED
    BY <2>1, <2>2
<1>7. UnoPorHilo'
  <2> SUFFICES ASSUME NEW q \in Cola, NEW u \in Hilo,
                      NEW i \in DOMAIN pila[u], NEW j \in DOMAIN pila[u],
                      EnSeccion(pila'[u][i], q), EnSeccion(pila'[u][j], q)
               PROVE  i = j
    BY <1>1 DEF UnoPorHilo, EnSeccion
  <2>1. CASE u = t /\ i = 1
    BY <1>1, <2>1
  <2>2. CASE u = t /\ j = 1
    BY <1>1, <2>2
  <2>3. CASE ~(u = t /\ i = 1) /\ ~(u = t /\ j = 1)
    BY <1>1, <2>3 DEF Inv, UnoPorHilo
  <2> QED
    BY <2>1, <2>2, <2>3
<1> QED
  BY <1>1, <1>3, <1>5, <1>6, <1>7 DEF Inv

(* A handler is called in a thread that is not handling its signal.        *)
LEMMA HandlerPreserva ==
  ASSUME Inv, Resto', NEW t \in Hilo, NEW s \in Sig,
         ~Bloquea(t, s), sig_handler(t, s), UNCHANGED mutex
  PROVE  Inv'
<1> DEFINE m == [de |-> s, colas |-> Orden, en |-> "lock"]
<1>1. m \in Marco /\ m.de = s /\ m.en = "lock"
  BY SenalAssumption DEF Marco, Seccion
<1>2. pila' = [pila EXCEPT ![t] = <<m>> \o @]
  BY DEF sig_handler
<1> HIDE DEF m
<1>3. /\ PilasOK'
      /\ \A u \in Hilo : u # t => pila'[u] = pila[u]
      /\ Len(pila'[t]) = Len(pila[t]) + 1
      /\ \A u \in Hilo : \A i \in DOMAIN pila'[u] :
              \/ u # t /\ i \in DOMAIN pila[u] /\ pila'[u][i] = pila[u][i]
              \/ u = t /\ i = 1 /\ pila'[u][i] = m
              \/ /\ u = t /\ i \in Nat /\ i > 1
                 /\ i - 1 \in DOMAIN pila[u] /\ pila'[u][i] = pila[u][i - 1]
  <2>1. PilasOK
    BY DEF Inv
  <2>2. m \in Marco
    BY <1>1
  <2>3. PilasOK'
    BY <1>2, <2>1, <2>2, LlamaMarco
  <2>4. \A u \in Hilo : u # t => pila'[u] = pila[u]
    BY <1>2, <2>1, <2>2, LlamaMarco
  <2>5. Len(pila'[t]) = Len(pila[t]) + 1
    BY <1>2, <2>1, <2>2, LlamaMarco
  <2> QED
    BY <1>2, <2>1, <2>2, <2>3, <2>4, <2>5, LlamaMarco
<1>4. \A i \in DOMAIN pila[t] : pila[t][i].de # s
  BY DEF Bloquea
<1>5. MarcosDistintos'
  <2> SUFFICES ASSUME NEW u \in Hilo,
                      NEW i \in DOMAIN pila'[u], NEW j \in DOMAIN pila'[u],
                      pila'[u][i].de = pila'[u][j].de
               PROVE  i = j
    BY DEF MarcosDistintos
  <2>1. CASE u # t
    BY <1>3, <2>1 DEF Inv, MarcosDistintos
  <2>2. CASE u = t /\ (i = 1 \/ j = 1)
    BY <1>1, <1>3, <1>4, <2>2
  <2>3. CASE u = t /\ i # 1 /\ j # 1
    <3>1. /\ i \in Nat /\ i - 1 \in DOMAIN pila[t] /\ pila'[u][i] = pila[t][i - 1]
          /\ j \in Nat /\ j - 1 \in DOMAIN pila[t] /\ pila'[u][j] = pila[t][j - 1]
      BY <1>3, <2>3
    <3>2. i - 1 = j - 1
      BY <3>1 DEF Inv, MarcosDistintos
    <3> QED
      BY <3>1, <3>2
  <2> QED
    BY <2>1, <2>2, <2>3
<1>6. Fondo'
  <2> SUFFICES ASSUME NEW u \in Hilo, NEW i \in DOMAIN pila'[u],
                      pila'[u][i].de = "run"
               PROVE  i = Len(pila'[u])
    BY DEF Fondo
  <2>1. CASE u # t
    BY <1>3, <2>1 DEF Inv, Fondo
  <2>2. CASE u = t /\ i = 1
    BY <1>1, <1>3, <2>2 DEF Sig
  <2>3. CASE u = t /\ i # 1
    <3>1. /\ i \in Nat /\ i - 1 \in DOMAIN pila[t] /\ pila'[u][i] = pila[t][i - 1]
      BY <1>3, <2>3
    <3>2. i - 1 = Len(pila[t])
      BY <3>1 DEF Inv, Fondo
    <3> QED
      BY <1>3, <2>3, <3>1, <3>2
  <2> QED
    BY <2>1, <2>2, <2>3
<1>7. \A q : ~EnSeccion(m, q)
  BY <1>1 DEF EnSeccion
<1>8. Dueno'
  <2> SUFFICES ASSUME NEW q \in Cola, NEW u \in Hilo, NEW i \in DOMAIN pila'[u],
                      EnSeccion(pila'[u][i], q)
               PROVE  mutex[q] = u
    BY DEF Dueno, EnSeccion
  <2> QED
    BY <1>3, <1>7 DEF Inv, Dueno
<1>9. UnoPorHilo'
  <2> SUFFICES ASSUME NEW q \in Cola, NEW u \in Hilo,
                      NEW i \in DOMAIN pila'[u], NEW j \in DOMAIN pila'[u],
                      EnSeccion(pila'[u][i], q), EnSeccion(pila'[u][j], q)
               PROVE  i = j
    BY DEF UnoPorHilo, EnSeccion
  <2>1. CASE u # t
    BY <1>3, <2>1 DEF Inv, UnoPorHilo
  <2>2. CASE u = t
    <3>1. /\ i \in Nat /\ i - 1 \in DOMAIN pila[t] /\ pila'[u][i] = pila[t][i - 1]
          /\ j \in Nat /\ j - 1 \in DOMAIN pila[t] /\ pila'[u][j] = pila[t][j - 1]
      BY <1>3, <1>7, <2>2
    <3>2. i - 1 = j - 1
      BY <2>2, <3>1 DEF Inv, UnoPorHilo
    <3> QED
      BY <3>1, <3>2
  <2> QED
    BY <2>1, <2>2
<1> QED
  BY <1>3, <1>5, <1>6, <1>8, <1>9 DEF Inv

-----------------------------------------------------------------------------
LEMMA InvInit == Init => Inv
<1> SUFFICES ASSUME Init PROVE Inv
  OBVIOUS
<1> DEFINE m == [de |-> "run", colas |-> <<>>, en |-> "lock"]
<1>1. m \in Marco /\ m.colas = <<>>
  BY DEF Marco, Seccion
<1>2. \A t \in Hilo : pila[t] = <<m>>
  BY DEF Init
<1> HIDE DEF m
<1>3. PilasOK
  <2>1. pila = [t \in Hilo |-> <<m>>]
    BY DEF Init, m
  <2> QED
    BY <1>1, <1>2, <2>1 DEF PilasOK
<1>4. \A t \in Hilo : \A i \in DOMAIN pila[t] :
        i = 1 /\ Len(pila[t]) = 1 /\ pila[t][i] = m
  BY <1>2
<1>5. \A t \in Hilo : \A i \in DOMAIN pila[t] : \A q : ~EnSeccion(pila[t][i], q)
  BY <1>1, <1>4 DEF EnSeccion
<1>6. MarcosDistintos /\ Fondo
  BY <1>4 DEF MarcosDistintos, Fondo
<1>7. Dueno /\ UnoPorHilo
  BY <1>5 DEF Dueno, UnoPorHilo
<1> QED
  BY <1>3, <1>6, <1>7 DEF Init, Inv, Resto

LEMMA PosteaPreserva ==
  ASSUME Inv, NEW t \in Hilo, NEW q \in Cola, post_event(t, q)
  PROVE  Inv'
<1> DEFINE m == [Corre(t) EXCEPT !.colas = <<q>>, !.en = "lock"]
<1>1. m \in Marco /\ m.de = Corre(t).de /\ m.en = "lock"
  <2>1. Corre(t) \in Marco
    BY CorreLemma DEF Inv
  <2>2. <<q>> \in Seq(Cola)
    OBVIOUS
  <2> QED
    BY <2>1, <2>2 DEF Marco, Seccion
<1>2. pila' = [pila EXCEPT ![t] = <<m>> \o Tail(@)]
  BY DEF post_event
<1>3. mutex' = mutex /\ Resto'
  BY DEF post_event, Inv, Resto
<1> HIDE DEF m
<1>4. \A r : ~EnSeccion(m, r)
  BY <1>1 DEF EnSeccion
<1>5. \A r \in Cola, u \in Hilo : \A i \in DOMAIN pila[u] :
        EnSeccion(pila[u][i], r) => mutex'[r] = u
  BY <1>3 DEF Inv, Dueno
<1> QED
  BY <1>1, <1>2, <1>3, <1>4, <1>5, CorreCambia

(* A mutex that is free is not held by any frame.                          *)
LEMMA LockPreserva ==
  ASSUME Inv, NEW t \in Hilo, lock(t)
  PROVE  Inv'
<1> DEFINE m == [Corre(t) EXCEPT !.en = Siguiente(Corre(t).en)]
           r == Head(Corre(t).colas)
<1>1. m \in Marco /\ m.de = Corre(t).de /\ m.colas = Corre(t).colas /\ r \in Cola
  BY CorreLemma DEF Inv, lock, Marco, Seccion, Siguiente
<1>2. /\ pila' = [pila EXCEPT ![t] = <<m>> \o Tail(@)]
      /\ mutex[r] = LIBRE /\ mutex' = [mutex EXCEPT ![r] = t]
      /\ UNCHANGED <<pendientes, emitidas, lanzadas, terminado>>
  BY DEF lock
<1>3. \A q \in Cola : EnSeccion(m, q) => q = r
  BY <1>1 DEF EnSeccion
<1> HIDE DEF m, r
<1>4. Resto' /\ mutex'[r] = t /\ \A q \in Cola : q # r => mutex'[q] = mutex[q]
  BY <1>1, <1>2 DEF Inv, Resto
<1>5. \A u \in Hilo : \A i \in DOMAIN pila[u] : ~EnSeccion(pila[u][i], r)
  BY <1>1, <1>2, SenalAssumption DEF Inv, Dueno
<1>6. \A q \in Cola, u \in Hilo : \A i \in DOMAIN pila[u] :
        EnSeccion(pila[u][i], q) => mutex'[q] = u
  BY <1>4, <1>5 DEF Inv, Dueno
<1>7. \A q \in Cola : EnSeccion(m, q) =>
        /\ mutex'[q] = t
        /\ \A i \in DOMAIN pila[t] : i # 1 => ~EnSeccion(pila[t][i], q)
  BY <1>3, <1>4, <1>5
<1>8. \A q \in Cola, u \in Hilo : \A i \in DOMAIN pila[u] :
        EnSeccion(pila[u][i], q) /\ (u # t \/ i # 1) => mutex'[q] = u
  BY <1>6
<1>9. m \in Marco /\ m.de = Corre(t).de /\ Resto'
  BY <1>1, <1>4
<1>10. pila' = [pila EXCEPT ![t] = <<m>> \o Tail(@)]
  BY <1>2
<1> QED
  BY <1>7, <1>8, <1>9, <1>10, CorreCambia

(* The frame that frees a mutex was alone in the sections of its queue.    *)
LEMMA UnlockPreserva ==
  ASSUME Inv, NEW t \in Hilo, unlock(t)
  PROVE  Inv'
<1> DEFINE m == IF Corre(t).en = "push" THEN [Corre(t) EXCEPT !.en = "lock2"]
                ELSE [Corre(t) EXCEPT !.en = "lock", !.colas = Tail(@)]
           r == Head(Corre(t).colas)
<1>1. /\ Corre(t) \in Marco /\ Corre(t) = pila[t][1] /\ 1 \in DOMAIN pila[t]
      /\ r \in Cola /\ Tail(Corre(t).colas) \in Seq(Cola)
      /\ EnSeccion(pila[t][1], r)
  BY CorreLemma DEF Inv, unlock, EnSeccion, Activo
<1>2. m \in Marco /\ m.de = Corre(t).de /\ m.en \in {"lock", "lock2"}
  BY <1>1 DEF Marco, Seccion
<1>3. /\ pila' = [pila EXCEPT ![t] = <<m>> \o Tail(@)]
      /\ mutex' = [mutex EXCEPT ![r] = LIBRE]
      /\ UNCHANGED <<pendientes, emitidas, lanzadas, terminado>>
  BY DEF unlock
<1> HIDE DEF m, r
<1>4. Resto' /\ \A q \in Cola : q # r => mutex'[q] = mutex[q]
  BY <1>1, <1>3 DEF Inv, Resto
<1>5. \A q : ~EnSeccion(m, q)
  BY <1>2 DEF EnSeccion
<1>6. \A u \in Hilo : \A i \in DOMAIN pila[u] :
        EnSeccion(pila[u][i], r) => u = t /\ i = 1
  BY <1>1 DEF Inv, Dueno, UnoPorHilo
<1>7. \A q \in Cola, u \in Hilo : \A i \in DOMAIN pila[u] :
        EnSeccion(pila[u][i], q) /\ (u # t \/ i # 1) => mutex'[q] = u
  BY <1>4, <1>6 DEF Inv, Dueno
<1> QED
  BY <1>2, <1>3, <1>4, <1>5, <1>7, CorreCambia

LEMMA RaisePreserva ==
  ASSUME Inv, NEW t \in Hilo, NEW s \in Sig, raise(t, s)
  PROVE  Inv'
<1>1. Len(pila[t]) = 1
  BY CorreLemma DEF Inv, Fondo, raise
<1>2. \A i \in DOMAIN pila[t] : i = 1
  <2>1. pila[t] \in Seq(Marco)
    BY DEF Inv, PilasOK
  <2> QED
    BY <1>1, <2>1
<1>3. ~Bloquea(t, s)
  BY <1>2, CorreLemma DEF Inv, Bloquea, raise, Sig
<1>4. Resto' /\ UNCHANGED mutex /\ sig_handler(t, s)
  BY DEF Inv, Resto, raise
<1> QED
  BY <1>3, <1>4, HandlerPreserva

LEMMA EntregaPreserva ==
  ASSUME Inv, NEW t \in Hilo, NEW s \in Sig, entrega(t, s)
  PROVE  Inv'
<1>1. Resto' /\ UNCHANGED mutex /\ sig_handler(t, s) /\ ~Bloquea(t, s)
  BY DEF Inv, Resto, entrega
<1> QED
  BY <1>1, HandlerPreserva

(* The steps that touch neither the stacks nor the mutexes.                *)
LEMMA QuietaPreserva ==
  ASSUME Inv, Resto', UNCHANGED <<pila, mutex>>
  PROVE  Inv'
BY DEF Inv, PilasOK, MarcosDistintos, Fondo, Dueno, UnoPorHilo, EnSeccion

LEMMA InvNext == Inv /\ [Next]_vars => Inv'
<1> SUFFICES ASSUME Inv, [Next]_vars PROVE Inv'
  OBVIOUS
<1>1. ASSUME NEW t \in Hilo, lock(t) PROVE Inv'
  BY <1>1, LockPreserva
<1>2. ASSUME NEW t \in Hilo, unlock(t) PROVE Inv'
  BY <1>2, UnlockPreserva
<1>3. ASSUME NEW t \in Hilo, exit(t) PROVE Inv'
  BY <1>3, QuietaPreserva DEF exit, Inv, Resto
<1>4. ASSUME NEW t \in Hilo, NEW q \in Cola, post_event(t, q) PROVE Inv'
  BY <1>4, PosteaPreserva
<1>5. ASSUME NEW t \in Hilo, NEW s \in Sig, raise(t, s) PROVE Inv'
  BY <1>5, RaisePreserva
<1>6. ASSUME NEW t \in Hilo, NEW s \in Sig, entrega(t, s) PROVE Inv'
  BY <1>6, EntregaPreserva
<1>7. ASSUME NEW s \in Sig, kill(s) PROVE Inv'
  BY <1>7, QuietaPreserva DEF kill, Inv, Resto
<1>8. CASE UNCHANGED vars
  BY <1>8, QuietaPreserva DEF vars, Inv, Resto
<1> QED
  BY <1>1, <1>2, <1>3, <1>4, <1>5, <1>6, <1>7, <1>8 DEF Next, Paso

LEMMA InvSiempre == Spec => []Inv
BY InvInit, InvNext, PTL DEF Spec

-----------------------------------------------------------------------------
(* Every reachable state is of its type, and in one thread no signal is    *)
(* handled twice at once, whatever is interrupted by what.                 *)
THEOREM SenalTypeCorrect == Spec => []SenalTypeOK
<1>1. Inv => SenalTypeOK
  BY DEF Inv, PilasOK, MarcosDistintos, Resto, SenalTypeOK
<1> QED
  BY <1>1, InvSiempre, PTL

(* The mutex of a queue keeps out not only the other threads but also the  *)
(* handlers that interrupt the one that holds it: post_event is never      *)
(* entered half-way through.                                               *)
THEOREM SiempreColaProtegida == Spec => []ColaProtegida
<1>1. Inv => ColaProtegida
  <2> SUFFICES ASSUME Inv, NEW q \in Cola,
                      NEW x \in Dentro(q), NEW y \in Dentro(q)
               PROVE  x = y
    BY DEF ColaProtegida
  <2>1. PICK t \in Hilo : \E i \in DOMAIN pila[t] :
          x = <<t, i>> /\ EnSeccion(pila[t][i], q)
    BY DentroLemma
  <2>2. PICK u \in Hilo : \E j \in DOMAIN pila[u] :
          y = <<u, j>> /\ EnSeccion(pila[u][j], q)
    BY DentroLemma
  <2>3. t = u
    BY <2>1, <2>2 DEF Inv, Dueno
  <2> QED
    BY <2>1, <2>2, <2>3 DEF Inv, UnoPorHilo
<1> QED
  BY <1>1, InvSiempre, PTL
=============================================================================
