SPECIFICATION FairSpec
CONSTANTS
  main = main
  router = router
  listener = listener
  Main = main
  Cola = {router, listener}
  Orden <- OrdenDos
  Postea <- PosteaDos
  Lanza <- LanzaDos
  MaxSenales = 2
  MaxLanzadas = 1
INVARIANTS
  SenalTypeOK
  ColaProtegida
PROPERTIES
  SalidaTermina
CHECK_DEADLOCK FALSE
