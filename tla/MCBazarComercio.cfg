SPECIFICATION Spec
CONSTANTS
  ana = ana
  beto = beto
  caro = caro
  sal = sal
  verdura = verdura
  oro = oro
  Nadie = nadie
  Node = {ana, beto, caro}
  Producto = {sal, verdura}
  Nombre = {sal, verdura, oro}
  Basura = {0}
  Hopcount = 1
  MaxInt = 6
  StockInicial = 2
  Config <- ConfigCadena
  Vecino <- VecinoCadena
  Perdida = TRUE
  Pedible = {2}
  Reponible = {1}
  Elegible = {sal}
  MaxOrdenes = 2
INVARIANTS
  NadieRegala
  CreditoCabe
PROPERTIES
  CumpleTrueque
\* The users stop after MaxOrdenes orders, and then so does the bazaar.
CHECK_DEADLOCK FALSE
