SPECIFICATION FairSpec
CONSTANTS
  letra = letra
  Texto = {letra}
  NADA = nada
INVARIANTS
  TecladoTypeOK
PROPERTIES
  MenuVuelve
  SalirTermina
CHECK_DEADLOCK FALSE
