SPECIFICATION FairSpec
CONSTANTS
  ana = ana
  beto = beto
  caro = caro
  sal = sal
  verdura = verdura
  Nadie = nadie
  Node = {ana, beto, caro}
  Producto = {sal, verdura}
  Nombre = {sal, verdura}
  Basura = {0}
  Hopcount = 1
  MaxInt = 100
  StockInicial = 1
  Config <- ConfigCaro
  Vecino <- VecinoCadena
  Intentos = 1
  MAX_CONNECTED = 2
  Espera = TRUE
  Pedible = {1}
  MaxPedidos = 2
  Escenas <- EscenasCompra
INVARIANTS
  RespuestaAlComprador
  OperaConAlguien
  MapasFieles
PROPERTIES
  CompraTermina
CHECK_DEADLOCK FALSE
