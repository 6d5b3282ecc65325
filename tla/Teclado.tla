------------------------------ MODULE Teclado ------------------------------
(***************************************************************************)
(* The Keyboard of a node (src/keyboard.cpp): the menu its thread shows,   *)
(* against the flag en_operacion, which Router and Listener set and clear  *)
(* when they please, and against a user who types what they please.        *)
(*                                                                         *)
(* A step ends where the thread reads from the terminal, and where it      *)
(* reads the flag: the flag may change between any two of them.  What the  *)
(* user has typed waits in the terminal.  A text that is not a number      *)
(* leaves std::cin failed for good; from then on obtener_tecla returns at  *)
(* once, with a variable nobody has set.                                   *)
(***************************************************************************)
EXTENDS Integers, TLAPS

CONSTANTS
  Texto,       \* the texts that are not numbers and the user may type
  NADA         \* no line waits in the terminal, or no event was posted

Opcion == 1..8
Producto == 1..3
SALIR == 8

ASSUME TecladoAssumption ==
  /\ Texto \cap Int = {} /\ NADA \notin Int \cup Texto

VARIABLES
  en_operacion, \* the global flag of main.cpp
  paso,         \* where the thread is
  accion,       \* the option of the menu that is being processed
  tecla,        \* what obtener_tecla, and then elegir_producto, returned
  cin_fail,     \* whether std::cin has failed
  terminal,     \* the last line the user has typed and nobody has read
  orden         \* the last event posted, as [a |-> thread, id |-> event]

vars == <<en_operacion, paso, accion, tecla, cin_fail, terminal, orden>>

Paso == {"INIT", "menu", "elegir_accion", "producto", "elegir_producto",
         "elegido", "cantidad", "leida", "post_event", "fin"}

(* The event of each option, the product chosen being p.                   *)
Orden(a, p) ==
  CASE a = 1 -> [a |-> "Logic", id |-> "SET_STOCK", producto |-> p]
    [] a = 2 -> [a |-> "Logic", id |-> "SET_CUR_PROD_COMPRA", producto |-> p]
    [] a = 3 -> [a |-> "Logic", id |-> "SET_CUR_PROD_VENTA", producto |-> p]
    [] a = 4 -> [a |-> "Logic", id |-> "DO_LOOKUP"]
    [] a = 5 -> [a |-> "Logic", id |-> "KB_SHOW_STOCK"]
    [] a = 6 -> [a |-> "Router", id |-> "INIT"]

(* What elegir_producto returns in operation leaves ev.id unset.           *)
BASURA == [a |-> "Logic", id |-> "BASURA"]

Va(p) == paso' = p
Sin(v) == UNCHANGED v

-----------------------------------------------------------------------------
(* The others.                                                             *)

(* Router and Listener enter the state "en operacion" and leave it.        *)
Opera ==
  /\ paso # "fin"
  /\ en_operacion' = ~en_operacion
  /\ Sin(<<paso, accion, tecla, cin_fail, terminal, orden>>)

(* The user types a line at a prompt that reads a number.                  *)
Teclea(x) ==
  /\ paso \in {"menu", "producto"}
  /\ terminal = NADA \/ cin_fail
  /\ terminal' = x
  /\ Sin(<<en_operacion, paso, accion, tecla, cin_fail, orden>>)

-----------------------------------------------------------------------------
(* obtener_tecla, on the way from the prompt to the step p.                *)
obtener_tecla(p) ==
  /\ \/ /\ ~cin_fail /\ terminal \in Int
        /\ tecla' = terminal /\ terminal' = NADA
        /\ Sin(cin_fail)
     \/ /\ ~cin_fail /\ terminal \in Texto
        /\ cin_fail' = TRUE
        /\ tecla' \in Opcion \cup {0}
        /\ Sin(terminal)
     \/ /\ cin_fail
        /\ tecla' \in Opcion \cup {0}
        /\ Sin(<<cin_fail, terminal>>)
  /\ Va(p)
  /\ Sin(<<en_operacion, accion, orden>>)

on_event ==
  /\ paso = "INIT"
  /\ Va("menu")
  /\ Sin(<<en_operacion, accion, tecla, cin_fail, terminal, orden>>)

elegir_accion_tecla == paso = "menu" /\ obtener_tecla("elegir_accion")

(* Fault: in operation no key is admitted.                                 *)
elegir_accion_sin_salida ==
  /\ paso = "elegir_accion"
  /\ accion' = IF en_operacion THEN 0 ELSE tecla
  /\ Va(CASE en_operacion \/ tecla \in {0, 7} -> "menu"
          [] ~en_operacion /\ tecla = SALIR -> "fin"
          [] ~en_operacion /\ tecla \in {1, 2, 3} -> "producto"
          [] ~en_operacion /\ tecla = 4 -> "cantidad"
          [] ~en_operacion /\ tecla \in {5, 6} -> "post_event")
  /\ Sin(<<en_operacion, tecla, cin_fail, terminal, orden>>)

(* The flag is tested, then the key; 8 leaves the loop and raises SIGINT.  *)
elegir_accion ==
  /\ paso = "elegir_accion"
  /\ accion' = IF en_operacion THEN 0 ELSE tecla
  /\ Va(CASE tecla = SALIR -> "fin"
          [] tecla # SALIR /\ (en_operacion \/ tecla \in {0, 7}) -> "menu"
          [] ~en_operacion /\ tecla \in {1, 2, 3} -> "producto"
          [] ~en_operacion /\ tecla = 4 -> "cantidad"
          [] ~en_operacion /\ tecla \in {5, 6} -> "post_event")
  /\ Sin(<<en_operacion, tecla, cin_fail, terminal, orden>>)

-----------------------------------------------------------------------------
elegir_producto_tecla == paso = "producto" /\ obtener_tecla("elegir_producto")

(* Fault: in operation it asks again.                                      *)
elegir_producto_insiste ==
  /\ paso = "elegir_producto"
  /\ Va(IF ~en_operacion /\ tecla \in Producto THEN "elegido" ELSE "producto")
  /\ Sin(<<en_operacion, accion, tecla, cin_fail, terminal, orden>>)

(* Fault: any key is taken for a product.                                  *)
elegir_producto_cualquiera ==
  /\ paso = "elegir_producto"
  /\ tecla' = IF en_operacion THEN -1 ELSE tecla
  /\ Va("elegido")
  /\ Sin(<<en_operacion, accion, cin_fail, terminal, orden>>)

(* In operation it returns -1; else it asks until a product is chosen.     *)
elegir_producto ==
  /\ paso = "elegir_producto"
  /\ tecla' = IF en_operacion THEN -1 ELSE tecla
  /\ Va(IF en_operacion \/ tecla \in Producto THEN "elegido" ELSE "producto")
  /\ Sin(<<en_operacion, accion, cin_fail, terminal, orden>>)

(* procesar_add_stock, procesar_set_producto_*: the flag is tested again.  *)
procesar_producto ==
  /\ paso = "elegido"
  /\ Va(CASE en_operacion -> "menu"
          [] ~en_operacion /\ accion = 1 -> "cantidad"
          [] ~en_operacion /\ accion # 1 -> "post_event")
  /\ Sin(<<en_operacion, accion, tecla, cin_fail, terminal, orden>>)

(* What is left of the line before is discarded, and a line read.  The     *)
(* function ends without a return: the caller copies what fgets returned,  *)
(* or the process is gone.                                                 *)
obtener_cadena ==
  /\ paso = "cantidad"
  /\ terminal' = NADA
  /\ Va(IF accion = 1 THEN "leida" ELSE "post_event") \/ Va("fin")
  /\ Sin(<<en_operacion, accion, tecla, cin_fail, orden>>)

(* procesar_add_stock tests the flag once more; procesar_lanzar does not.  *)
procesar_add_stock ==
  /\ paso = "leida"
  /\ Va(IF en_operacion THEN "menu" ELSE "post_event")
  /\ Sin(<<en_operacion, accion, tecla, cin_fail, terminal, orden>>)

post_event ==
  /\ paso = "post_event"
  /\ orden' = IF accion \in {1, 2, 3} /\ tecla = -1 THEN BASURA
              ELSE Orden(accion, tecla)
  /\ Va("menu")
  /\ Sin(<<en_operacion, accion, tecla, cin_fail, terminal>>)

-----------------------------------------------------------------------------
Init ==
  /\ en_operacion = FALSE /\ cin_fail = FALSE 
  /\ paso = "INIT" /\ accion = 0 /\ tecla = 0
  /\ terminal = NADA /\ orden = NADA

Keyboard ==
  \/ on_event
  \/ elegir_accion_tecla
  \/ elegir_accion
  \/ elegir_producto_tecla
  \/ elegir_producto
  \/ procesar_producto
  \/ obtener_cadena
  \/ procesar_add_stock
  \/ post_event

Next == Keyboard \/ Opera \/ \E x \in Opcion \cup {0} \cup Texto : Teclea(x)

Spec == Init /\ [][Next]_vars

(* The thread goes on as long as it can, and a user who is asked for a     *)
(* product, over and over, chooses one in the end.                         *)
FairSpec ==
  /\ Spec
  /\ WF_vars(Keyboard)
  /\ \A p \in Producto : SF_vars(paso = "producto" /\ Teclea(p))

-----------------------------------------------------------------------------
(* Type invariant: no order leaves the menu with a product that is not on  *)
(* it.                                                                     *)
TecladoTypeOK ==
  /\ paso \in Paso /\ accion \in 0..8 /\ tecla \in -1..8
  /\ terminal \in Opcion \cup {0, NADA} \cup Texto
  /\ en_operacion \in BOOLEAN /\ cin_fail \in BOOLEAN
  /\ orden \in {NADA, BASURA} \cup {Orden(a, p) : a \in 1..6, p \in Producto}

(* MenuVuelve: whatever is chosen, and however the flag changes meanwhile, *)
(* the menu comes back, or the process ends, as long as std::cin works.    *)
MenuVuelve ==
  paso \notin {"menu", "fin"} ~> (paso \in {"menu", "fin"} \/ cin_fail)

(* SalirTermina: the option 8 ends the process, in operation too, as long  *)
(* as std::cin works.                                                      *)
SalirTermina == (paso = "menu" /\ terminal = SALIR /\ ~cin_fail) ~> paso = "fin"

-----------------------------------------------------------------------------
(* The type invariant, for any texts and whatever the user types.          *)

(* What the steps between the menu and an order rely on: an option that    *)
(* asks for a product, or posts an order, is one of the menu; a chosen     *)
(* product is on the list, or -1 where the flag cut the choice short.      *)
Elegido ==
  /\ paso \in {"producto", "elegir_producto", "elegido"} => accion \in 1..3
  /\ paso \in {"elegido", "leida"} => tecla \in Producto \cup {-1}
  /\ paso = "leida" => accion = 1
  /\ paso = "cantidad" => accion \in {1, 4}
  /\ paso \in {"cantidad", "post_event"} =>
       /\ accion \in 1..6
       /\ accion \in 1..3 => tecla \in Producto \cup {-1}
  /\ paso = "elegir_accion" => tecla \in 0..8

Teclas == TecladoTypeOK /\ Elegido

USE DEF Opcion, Producto, SALIR

LEMMA TeclasInit == Init => Teclas
<1> SUFFICES ASSUME Init
             PROVE  Teclas
  OBVIOUS
<1>1. paso \in Paso /\ accion \in 0..8 /\ tecla \in -1..8
  BY DEF Init, Paso
<1>2. en_operacion \in BOOLEAN /\ cin_fail \in BOOLEAN
  BY DEF Init
<1>3. /\ terminal \in Opcion \cup {0, NADA} \cup Texto
      /\ orden \in {NADA, BASURA} \cup {Orden(a, p) : a \in 1..6, p \in Producto}
  BY DEF Init
<1>4. Elegido
  BY DEF Init, Elegido
<1> QED
  BY <1>1, <1>2, <1>3, <1>4 DEF Teclas, TecladoTypeOK

LEMMA OrdenTipo ==
  ASSUME NEW a \in 1..6, NEW p \in Int, a \in 1..3 => p \in Producto
  PROVE  Orden(a, p) \in {Orden(b, x) : b \in 1..6, x \in Producto}
<1>1. CASE a \in 1..3
  BY <1>1
<1>2. CASE a \notin 1..3
  <2>1. a \in {4, 5, 6}
    BY <1>2
  <2>2. Orden(a, p) = Orden(a, 1)
    BY <2>1 DEF Orden
  <2> QED
    BY <2>2
<1> QED
  BY <1>1, <1>2

LEMMA TeclaLeida ==
  ASSUME TecladoTypeOK, NEW p, obtener_tecla(p)
  PROVE  /\ paso' = p /\ UNCHANGED <<en_operacion, accion, orden>>
         /\ tecla' \in 0..8 /\ cin_fail' \in BOOLEAN
         /\ terminal' \in Opcion \cup {0, NADA} \cup Texto
  BY TecladoAssumption DEF TecladoTypeOK, obtener_tecla, Va, Sin

LEMMA TeclasKeyboard ==
  ASSUME Teclas, Keyboard
  PROVE  Teclas'
<1> USE DEF Teclas, TecladoTypeOK, Elegido, Paso, Va, Sin
<1>1. CASE on_event
  BY <1>1 DEF on_event
<1>2. CASE elegir_accion_tecla
  BY <1>2, TeclaLeida DEF elegir_accion_tecla
<1>3. CASE elegir_accion
  BY <1>3 DEF elegir_accion
<1>4. CASE elegir_producto_tecla
  BY <1>4, TeclaLeida DEF elegir_producto_tecla
<1>5. CASE elegir_producto
  BY <1>5 DEF elegir_producto
<1>6. CASE procesar_producto
  BY <1>6 DEF procesar_producto
<1>7. CASE obtener_cadena
  BY <1>7 DEF obtener_cadena
<1>8. CASE procesar_add_stock
  BY <1>8 DEF procesar_add_stock
<1>9. CASE post_event
  BY <1>9, OrdenTipo DEF post_event
<1> QED
  BY <1>1, <1>2, <1>3, <1>4, <1>5, <1>6, <1>7, <1>8, <1>9 DEF Keyboard

LEMMA TeclasNext == Teclas /\ [Next]_vars => Teclas'
<1> SUFFICES ASSUME Teclas, [Next]_vars
             PROVE  Teclas'
  OBVIOUS
<1>1. CASE Keyboard
  BY <1>1, TeclasKeyboard
<1>2. CASE Opera
  BY <1>2 DEF Opera, Teclas, TecladoTypeOK, Elegido, Sin
<1>3. ASSUME NEW x \in Opcion \cup {0} \cup Texto, Teclea(x)
      PROVE  Teclas'
  BY <1>3 DEF Teclea, Teclas, TecladoTypeOK, Elegido, Sin
<1>4. CASE UNCHANGED vars
  BY <1>4 DEF vars, Teclas, TecladoTypeOK, Elegido
<1> QED
  BY <1>1, <1>2, <1>3, <1>4 DEF Next

(* TecladoTypeOK holds in every reachable state: whatever is typed, and    *)
(* however the flag changes between the tests of it (keyboard.cpp), no     *)
(* order is posted with a product that is not on the list, but the event   *)
(* that elegir_producto leaves unset.                                      *)
THEOREM TecladoTypeCorrect == Spec => []TecladoTypeOK
<1>1. Teclas => TecladoTypeOK
  BY DEF Teclas
<1> QED
  BY TeclasInit, TeclasNext, <1>1, PTL DEF Spec
=============================================================================
