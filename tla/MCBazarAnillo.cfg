SPECIFICATION FairSpec
CONSTANTS
  ana = ana
  beto = beto
  caro = caro
  sal = sal
  verdura = verdura
  oro = oro
  Nadie = nadie
  Node = {ana, beto, caro}
  Producto = {sal, verdura}
  Nombre = {sal, verdura, oro}
  Basura <- BasuraNegativa
  Hopcount = 2
  MaxInt = 100
  StockInicial = 2
  Config <- ConfigAnillo
  Vecino <- VecinoAnillo
  Perdida = FALSE
  Pedible <- PedibleNegativo
  Reponible = {}
  Elegible = {sal}
  MaxOrdenes = 1
INVARIANTS
  TypeOK
  RutasCorrectas
  PedidoConocido
  NegociaUnaVez
  SinEco
PROPERTIES
  InundacionTermina
  PedidoRespondido
  CumpleTrueque
\* The users stop after MaxOrdenes orders, and then so does the bazaar.
CHECK_DEADLOCK FALSE
