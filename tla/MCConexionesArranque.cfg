SPECIFICATION FairSpec
CONSTANTS
  ana = ana
  beto = beto
  caro = caro
  sal = sal
  verdura = verdura
  Nadie = nadie
  Node = {ana, beto}
  Producto = {sal, verdura}
  Nombre = {sal, verdura}
  Basura = {0}
  Hopcount = 1
  MaxInt = 100
  StockInicial = 1
  Config <- ConfigPar
  Vecino <- VecinoPar
  Intentos = 1
  MAX_CONNECTED = 1
  Espera = TRUE
  Pedible = {1}
  MaxPedidos = 2
  Escenas <- EscenasArranque
INVARIANTS
  ConexionesTypeOK
  MapasFieles
  MenuUnaVez
PROPERTIES
  ArranqueTermina
CHECK_DEADLOCK FALSE
