SPECIFICATION Spec
CONSTANTS
  ana = ana
  beto = beto
  caro = caro
  sal = sal
  verdura = verdura
  Nadie = nadie
  Node = {ana, beto, caro}
  Producto = {sal, verdura}
  Nombre = {sal, verdura}
  Basura = {0}
  Hopcount = 0
  MaxInt = 100
  StockInicial = 1
  Config <- ConfigBeto
  Vecino <- VecinoCadena
  Intentos = 0
  MAX_CONNECTED = 10
  Espera = TRUE
  Pedible = {1}
  MaxPedidos = 2
  Escenas <- EscenasDos
INVARIANTS
  RespuestaAlComprador
CHECK_DEADLOCK FALSE
