SPECIFICATION Spec
CONSTANTS
  e1 = e1
  e2 = e2
  Emisor = {e1, e2}
  MaxEventos <- UnoUno
  MaxAdelanto = 1
  Iniciado = TRUE
  Espurio = FALSE
  ConQuit = FALSE
INVARIANTS
  SinSuenoConTrabajo
\* The emitters stop after MaxEventos events, and then so does the loop.
CHECK_DEADLOCK FALSE
