SPECIFICATION FairSpec
CONSTANTS
  e1 = e1
  e2 = e2
  Emisor = {e1, e2}
  MaxEventos <- DosUno
  MaxAdelanto = 1
  Iniciado = TRUE
  Espurio = TRUE
  ConQuit = FALSE
PROPERTIES
  DespiertaConOtro
\* The emitters stop after MaxEventos events, and then so does the loop.
CHECK_DEADLOCK FALSE
