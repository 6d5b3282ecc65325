# The bazaar in TLA+

`asterix_bazar` is a peer-to-peer market. Every node sells one product and looks
for another; a purchase floods a LOOKUP over the neighbours with a hop count, the
sellers' REPLYs come back along the way the LOOKUP went, and the buyer opens a
direct connection to the first seller that answers (BUY, BUY_OK, BUY_ERR). This
directory holds the specifications of that program, the TLC runs and the proofs.

## 1. The system

Each node is a process of four threads. A thread is a `Runner`: a queue of events
and a loop that hands them to `on_event`. Threads talk only by `post_event`, but
for the global flag `en_operacion` and two copies of `sock_p2p`.

| Component | State | Operations | Talks to | Modelled by |
|---|---|---|---|---|
| `Mensaje`, `Nodo` (common/) | code, product, seller, quantity, hop count, time, list of nodes | `to_string`, `load`, first and last node | Logic, Router | `Mensajes` |
| `Logic` | `mapaPedidos` | a handler per order of the user, per message received, per message to send | posts to itself and to Router | `Logic`, `Bazar` |
| `Stock` | stock map, product looked for, product offered | get, set, decrement, increment | called by Logic | `Logic` |
| `Router` | sockets to two neighbours, `sock_p2p`, two maps name/socket, attempts left, `show_menu` | connect, reconnect, flood, reply, p2p connect, send, close | sends bytes; posts to Listener, Keyboard, itself | `Conexiones`; `Bazar` (the sends) |
| `Listener` | fd set, `sock_p2p`, count of clients | select, accept, handshake, recv, close | posts to Logic, Router | `Conexiones`; `Bazar` (delivery and loss) |
| `SocketUtil` (common/) | sockets | connect, listen, send, receive, close | the other nodes | `Sockets` |
| `Keyboard` | two menus | seven options, prompts for product and quantity | posts to Logic, Router | `Teclado`; `Bazar`, `Conexiones` (its orders) |
| `Runner` (common/) | queue, two flags, mutex and condition | `post_event`, `initialize`, `run`, `signal`, `wait`, `release` | every thread | `Runner` |
| `main`, `sig_handler` | | starts four threads; QUIT to each; exit | every thread | `Senal`; `Conexiones` (a node ends and starts); `Runner` (QUIT) |
| `Tools`, configuration | a table read at start | | | constants |

What makes it hard: four threads per node share queues whose loop does not take
the mutex; the Router and the Listener of a node share descriptors, each with
its own idea of which are open, and block in `recv` in the middle of a handshake;
a purchase passes through several nodes that each act on stock and sockets that
may have changed since; several sellers answer one LOOKUP; a node in a purchase
discards what is not on its direct connection; one `recv` may swallow two
messages; nodes leave and come back, and their descriptors are given to others;
a signal handler takes mutexes that the code it interrupted may hold.

What makes it correct: messages go only where there is a connection, and floods
end; a purchase is negotiated once, and answered to the one who made it; goods are
neither made nor sold twice; a queue keeps the order of its events; a handshake
sees nothing but its own words; the maps of names match the connections; a node
comes to its menu, leaves the state *en operacion*, and ends when told to.
`PROJECT.json` lists the hazards by line.

## 2. The modules

| Module | About | Stands on |
|---|---|---|
| `Mensajes` | the message as a record, the builders of `logic.cpp`, and `Load`, the set of messages a receiver may read from one that was written: a negative number is not written, and the receiver keeps what its memory held (`Basura`) | |
| `Logic` | Logic and Stock of all nodes, one action per handler, over two queues per node (`logicEvents`, `routerEvents`) | `Mensajes` |
| `Bazar` | closes Logic with the Router's sends, a transport that is a bag, delivery, and the orders of the users: what the bazaar is when its connections do not change | `Logic` |
| `Trueque` | abstract: what the bazaar promises about goods, with no messages: purchases agreed on, units debited and on their way, stocks | |
| `Sockets` | abstract data: descriptors, connections, streams, closes and resets, as operators on one state | `Mensajes` |
| `Conexiones` | the Router and the Listener of every node on those sockets, with Logic behind them; nodes end and start again | `Logic`, `Sockets` |
| `Runner` | the queue of one thread at the grain at which threads interleave | |
| `Teclado` | the menu thread of one node against the flag `en_operacion` and the user | |
| `Senal` | the threads of one process, their stacks of signal handlers and the mutexes of the queues | |
| `MC*` | the instances for TLC | |
| `BazarProofs`, `ConexionesProofs`, `ConexionesBazar`, `ConexionesFirme`, `ConexionesCumple`, `RunnerProofs`, `SenalProofs` | the proofs: the four about `Conexiones` extend one another in this order; the few about `Teclado` close that module | |

Two refinements tie them. `Bazar` implements `Trueque` (`CumpleTrueque`) under
`stock <- mapa_stock`, `acordadas <-` the times of the purchases for which a REPLY
was taken, `tratos <-` the purchases agreed on that are in a DO_BUY or in a BUY on its way
to the seller, and `enCamino <-` those in a BUY_OK; a purchase is the record of
its time, product and quantity. `Conexiones`, where no node ends, implements `Bazar` under
`red <-` all the messages in the sockets' buffers and in `perdidos`
(`CumpleBazar`): so what is shown of `Bazar` with losses is shown of the sockets.

An operator whose comment begins with *Fault:* is a plausible slip in the
definition that follows it; the specification does not use it. It is there to
show that a property notices the slip.

### How the models stand to the code

*One handler, one action* in `Logic` and `Bazar`. Only Logic's thread touches
Stock and `mapaPedidos`, and what a handler posts goes to the tail of a queue, so
its middle cannot be seen. `Runner` shows how far the queues deserve this: they
keep each thread's order (`EnOrden`). The losses that `Runner` finds in a queue (a
skipped event, a lost wake-up) are **not** carried over to the other modules;
their queues deliver every event.

*The clock.* `reloj` gives each LOOKUP a time no other has. Two nodes that read the
same microsecond are not represented.

*The transport of `Bazar`.* `red` is a bag: at most once, any order, and lost at any
time when `Perdida` is true. `Vecino` fixes who is connected to whom (`Nadie` for
none). `find_in_client_sockets_nodo_nombre` keeps the quirk that two connections
with one peer share one entry of a map keyed by name. Which connection `sock_p2p`
is when an answer is sent is not represented: the answer may reach any node, so
what is shown of goods holds whoever is credited.

*The user.* An order may come at any time; the tests of `en_operacion` in the menus
only take away behaviours. `MaxOrdenes`, and `pedidos` in a scene, bound them.

*Sockets.* A connection has two ends. For each it keeps what that end has been sent
and has not read (`buf`), and what the end knows of the other (`ve`): open, closed
with everything read (`fin`), closed with something unread (`rst`, which `recv` and
`send` see as an error), written to after it closed (`roto`: one more `send` raises
SIGPIPE, `EnvioMata`). A new descriptor is the lowest that is free, so a number
that one thread still keeps may already be another connection. `recv` takes all
there is; the callers read it as one C string and keep its first datum
(`Lee`), and the rest goes to `perdidos`; a message that is taken for a name, or
that a node in operation does not want, goes there too (`Descarta`). `perdidos`, and the ghost counter `menus`,
are history: no action looks at them, except that the Keyboard starts with its menu.

*Conexiones.* A step of a thread runs from one point where it may block, or let the
others in, to the next. The Router's field `paso` says where it is:
`libre` (between events), `vecino` (in `start_connections`, before the next
neighbour), `nombre` (in `recv` of `try_connection`), `p2p` (asleep between
P2P_CONNECT and its name), `p2p_nombre` (in `recv`, with the seller),
`p2p_opera` (the flag set, LS_ADD_SOCKET_P2P not yet posted), `p2p_buy` (before
the BUY is sent), and in `close_p2p_connect` `p2p_cierra` (LS_RM_SOCKET_P2P
posted) and `p2p_fin` (the socket closed, the flag not yet cleared). The
Listener's: `libre`, `mirando` (in the loop over `read_fds`, one descriptor a
step, lowest first), `nombre` (in `recv`, with the new connection), `p2p_opera`
(the flag set, `sock_p2p` not yet), `p2p_nombre` (in `recv`, for the name),
and when the direct connection has closed `cierre_p2p` (closed, RT_UNSET_SOCKET_P2P
not yet posted) and `cierre_fin` (`sock_p2p` cleared, the flag not yet). So no
step of a purchase both writes the shared flag and posts an event to the other
thread, or has the Listener write its `sock_p2p`; `recv` and the flag it leads to
are one step, since nothing of the node can be told apart between them. The event a thread is at stays
at the front of its queue, as in `Runner::run`. `Muere` is every way a process ends: the user, a signal, SIGTERM
raised by `recibir_mensaje`, SIGPIPE, `atoi(NULL)` for an empty name. That the
handler closes the sockets before it posts QUIT (`main.cpp:106`), while the other
threads go on for a moment, is merged into it. `Sale` ends a
node between any two system calls: `AMedias` lists the states of the sockets that
lie inside a step. `Espera` says whether the `sleep` of `try_connection` is long
enough for the other side to read P2P_CONNECT by itself.

*Scenes.* A behaviour of `Conexiones` begins in a scene: the connections made so
far between neighbours that run, and in which order, the nodes not running yet,
and the bounds on the purchases of each node, reconnections, ends and starts
(`MaxPedidos` bounds all the purchases together). The state of a scene
is computed with the operators of `Sockets`, the same that the actions use.

*Teclado.* A step ends where the thread reads the terminal or the flag. What
`obtener_tecla` returns after `std::cin` has failed is any key, since the variable
is not set; what `elegir_producto` returns as -1 may be posted as an event whose
`id` nobody set (`BASURA`).

*Senal.* A thread is a stack of frames: its loop at the bottom, and the handlers
that interrupted it, and one another. Every frame goes through the two sections
of `post_event` for each queue it posts to. The mutexes are not recursive, and a
handler blocks its own signal in its thread only.

*Runner.* A step is a section under the mutex or one unlocked access to shared
data. `events` keeps every event ever pushed and `frente` counts pops, which is
how a `std::deque` works: an empty queue can be popped, and then the next event
is pushed behind the front. `BASURA` stands for what a cell holds that nobody has
filled. `MaxAdelanto` bounds how far the loop runs into such cells; past that the
real loop goes on until it faults or a push catches up. Each access to the deque
is taken to be atomic: the loop moves its front and the emitters its back, and two
emitters exclude each other. That is not so when two threads initialise the mutex
at once with one of them inside; such a corrupted deque is not represented.
`pthread_cond_init` under a waiter makes the waiter unreachable.

## 3. What TLC checks

| Run | States | Asks |
|---|---|---|
| `anillo` (`MCBazarAnillo.cfg`, `FairSpec`) | 6 052 | A ring of three, two hops, no loss, one purchase of a positive or negative quantity, two sellers. `TypeOK`. `RutasCorrectas`: a LOOKUP has spent the hops it should over connections that exist, and a REPLY always has a socket to go on with. `PedidoConocido`: every LOOKUP and REPLY carries a time its creator has on record. `NegociaUnaVez`: however many REPLYs, one negotiation, and only once a REPLY was taken. `SinEco`: no LOOKUP is on its way to its creator. `InundacionTermina`: a purchase's messages are all handled in the end. `PedidoRespondido`: with a neighbour that sells, the buyer takes a REPLY. `CumpleTrueque`: implements `Trueque`, with a quantity that is garbage to each reader too. |
| `comercio` (`MCBazarComercio.cfg`) | 53 635 | A chain of three, loss, misdirected answers, two orders of any kind. `NadieRegala`: no stock below zero. `CreditoCabe`: no credit goes beyond the greatest int. `CumpleTrueque`: implements `Trueque`. |
| `compra` (`MCConexionesCompra.cfg`, `FairSpec`) | 15 965 | Scenes `CompraConCaida` (a chain; any node ends at any moment of a purchase through the middle) and `DosLookups` (two orders, and one of two nodes ends). `RespuestaAlComprador`: an answer to a BUY is sent to the node that made it. `OperaConAlguien`: a node in the state *en operacion* has a direct connection that its Listener watches or has been told of, but for the steps in which Router or Listener have only begun to enter or leave that state (`EntraOSale`). `MapasFieles`: when nobody is at work, the maps of names match the connections. `CompraTermina`: a node leaves the state *en operacion*. |
| `arranque` (`MCConexionesArranque.cfg`, `FairSpec`) | 73 015 | Scenes `Arranque` (two nodes start together and one may end, inside a handshake too) and `Vuelta` (one ends and comes back to a node that is at its limit of clients; option 6). `ConexionesTypeOK`, `MapasFieles`. `MenuUnaVez`: one KB_SHOW_MENU in a node's life. `ArranqueTermina`: every node that runs comes to its menu. |
| `dos` (`MCConexionesDos.cfg`) | 159 706 | Two buyers, one seller, the sleep long enough or not. `SaludoLimpio`: a thread in a handshake receives only the handshake, and the loop over descriptors only messages. `CumpleBazar`: implements `Bazar`. |
| `menu` (`MCTecladoMenu.cfg`, `FairSpec`) | 61 038 | `TecladoTypeOK`: no order with a product that is not on the list. `MenuVuelve`: the menu comes back whatever is chosen. `SalirTermina`: option 8 ends the process, in operation too. The last two as long as `std::cin` works. |
| `salida` (`MCSenalSalida.cfg`, `FairSpec`) | 80 260 | Two signals from outside and a raised one, three threads, two queues. `SenalTypeOK`. `ColaProtegida`: no two activities are inside one queue. `SalidaTermina`: once a handler runs the process ends, unless a handler suspended code of its own thread that holds a mutex (`Atrapado`). |
| `cola` (`MCRunnerOrden.cfg`) | 1 393 281 | Two emitters, a handler that posts to itself, racing initialisation, spurious wake-ups, QUIT and release. `RunnerTypeOK`; `EnOrden`; `NadaSeSalta`: an event leaves the queue unhandled only in exchange for a garbage one. |
| `despierta` (`MCRunnerDespierta.cfg`, `FairSpec`) | 16 722 | `DespiertaConOtro`: an event slept over is rescued by the next post. |
| `sueno` (violation) | | `SinSuenoConTrabajo`: the lost wake-up of `run`. |
| `sordo` (violation) | | `OyeSiempre`: after `select` fails the Listener handles nothing more. |
| `ajena` (violation) | | `RespuestaAlComprador` with two buyers at once. |

*Bounds.* Three nodes are the least where a LOOKUP is passed on, comes to two
sellers, and a REPLY is passed back; two hops let it go all the way round the
ring. One purchase is enough for the properties of `anillo`, which speak of one
`ts`; two orders let a second buyer, or the user, take the stock the first was
offered. The quantity 2 with an initial stock of 2 empties a stock at once.
`MaxInt` is 6 in `comercio`, exactly what the stock and the two orders come to
(2 + 2*2): one more credit than there should be does not fit.
`NadieRegala` and `CreditoCabe` are asked for orders and
stocks that are not negative: a user who writes a negative stock has one, and a
negative order is read back as garbage by each node in turn, which may be debited
and credited as different amounts. That is what `Leido` stands for in `Trueque`,
which `anillo` checks with such orders.

In `Conexiones` three nodes in a chain make a purchase go through a node that is
neither its buyer nor its seller, and two are enough for handshakes that cross;
one end and one restart are enough for a descriptor to be given again, a reset, a
SIGPIPE and a late REPLY. `Intentos` 1 gives one INIT that is posted again, and
`MAX_CONNECTED` 1 a node at its limit. Quantities are 1: the data are `Bazar`'s
matter. In `Senal` two queues and three threads let a handler hold one queue, wait
for another and be interrupted in turn; signals beyond one of each kind per thread
are blocked. For the queue of `Runner`, one emitter that posts twice shows order,
a second one and the handler's own post show the mixing, and one cell beyond the
end shows the skip.

*Deadlock* is not checked: when users and emitters stop, or a process has ended,
everything stops; and two nodes that wait for each other's handshake are a
behaviour of the code (section 5).

*Fairness.* `Bazar` and `Conexiones`: weak fairness of each node's Logic, Router and
Listener, each a thread that goes on while its queue or its sockets let it, and
in `Conexiones` of starting a node again. Users, ends and losses owe nothing; the
liveness run of `Bazar` has no loss, since the code never sends again. As said
above it assumes queues that do not sleep over an event. The liveness runs of
`Conexiones` take the sleep of `try_connection` to be long enough (`Espera`); the
safety run `dos` does not. `Runner`: weak fairness of the loop and of each emitter
inside `post_event`; an emitter need not post again, and a spurious wake-up is not
relied on. `Teclado`: weak fairness of the thread, and a user who is asked for a
product over and over chooses each in the end (strong, because the prompt comes
and goes with the flag). `Senal`: strong fairness of each thread, since a mutex that
others take and free over and over must be had in the end, and weak fairness of
the delivery of signals.

## 4. What is proved

Nineteen theorems, for every value of the constants, from the named assumptions on
them (`MensajesAssumption`, `LogicAssumption`, `BazarAssumption`,
`ConexionesAssumption`, `RunnerAssumption`, `TecladoAssumption`,
`SenalAssumption`) and nothing else, but for six that say what more they need.

*`Bazar`: any nodes, topology, products, hop count, losses and orders.*

- `TypeCorrect` and `RutasSiempreCorrectas` (`BazarProofs`). `RutasCorrectas` is
  inductive with `TypeOK`: it states, for each place where a message can be, what
  it has used of its way and what is left. The lemmas say what the helpers do to
  that way: `add_nodo` after `less_hopcount` makes a LOOKUP that arrives into one
  that leaves, `build_reply_msg` turns round, `less_nodo` retraces one connection,
  and `Load` may change quantity and, except in a LOOKUP, the hop count, but never
  the list.
- `SiemprePedidoConocido` (`BazarProofs`). The invariant `Saben` says of every
  message in a queue or in the bag what the property says, with its first node;
  what makes it inductive is that no entry of `mapaPedidos` is ever taken away, and
  that a REPLY that is passed on still has its creator in front, which is the
  invariant of `BazarProofs`.
- `SiempreNegociaUnaVez` (`BazarProofs`). The invariant `Negocios`: of each
  purchase there is at most one message of a negotiation in all the queues and
  the bag together (`AMasUno`), and none as long as its buyer has not taken a REPLY
  (`Bien`); a purchase is in the map of one node only, and before the clock
  (`UnDueno`); what is answered is a BUY (`Respuestas`). A handler takes the one
  message there is before it makes the next, and the first BUY is made by the
  step that marks the purchase.
- `SinEcoSiDistintos` (`BazarProofs`), from an assumption of its own,
  `VecinosDistintos`: no node is its own neighbour or twice another's. Without it
  the property is false (section 5). A LOOKUP sent without a test is one its own
  node has just created (`Primero`); any other is tested against its creator.
- `BazarCumpleTrueque` (`BazarProofs`): `Bazar` implements `Trueque`, the initial
  state and every step. Since a purchase is in one message at most (`Negocios`), the
  sets `Tratos` and `EnCamino`, which are defined over all the queues and the bag,
  change by one record when a handler takes a message and makes another: `Firme`
  says that a purchase's message is nowhere else (`Presencia`), and the lemmas
  `Quita` and `Cambia` what follows when it is taken and when it is replaced.
  Every handler is then a step of `Trueque` or a stutter: BUY is `Vende` or
  `SeDeshace`, BUY_OK the credit, a loss of the bag a loss of the purchase.
- `SiempreNadieRegala` and `SiempreCreditoCabe` (`BazarProofs`), from `Holgura(s, q)`:
  the users write stocks of 0 to `s` units and order 0 to `q`, and
  `s + q * MaxOrdenes <= MaxInt`. They stand on the refinement: the steps of
  `Trueque` are the only ones that touch a stock. The invariant adds that every
  quantity in a queue or in the bag is from 0 to `q` (`Cantidades`); that the clock
  and the orders not yet taken are no more than the users have given (`Contados`),
  so the purchases agreed on are a finite set of at most `MaxOrdenes`; that there
  is one record of a purchase in `tratos` and `enCamino` together (`Unicos`); and
  that no stock is above `s + q * |Acabadas|`, where `Acabadas` are the purchases
  that were agreed on and are in neither (`Medido`): a credit ends a purchase, so
  the bound grows by `q` when a stock grows by at most `q`. Without `Holgura` both
  are false, as the code adds two ints and looks at neither.

*`Conexiones`: any nodes, scenes, attempts and limits, whatever the sockets do.*

- `SiempreMenuUnaVez` (`ConexionesProofs`). The invariant is that a Router that has
  asked for the menu once remembers it (`Una`); every other step leaves both
  fields alone, or ends the process and with it the Router.
- `SiempreConexionesTypeOK` (`ConexionesProofs`). The type invariant is far from
  inductive: a descriptor comes to a map or to the Listener in an event another
  thread posted, and a thread in the middle of an event goes on with whatever is at
  the front of its queue. The invariant `Tipos` says that a node's descriptors are
  finitely many naturals, so that a free one exists (`SocketsOK`, `LibreEs`); that
  what a thread is in the middle of is the front of its queue (`EnCurso`,
  `ListenerOK`); and that what an event carries is of its kind (`EvRouterOK`,
  `EvListenerOK`). `Apagados` says that nothing is left of a node that does not run,
  so one that starts finds what `main` finds; a step changes one running node's
  threads (`Toca`). The initial state is a recursive function over the links of the
  scene: that it exists, and that both ends of each link are open in it
  (`Enlazada`), is shown by there being no first prefix where it fails (`Minimo`,
  `TrasEs`, `EnlazadosOK`).
- `RespuestaSiempreAlComprador` (`ConexionesBazar`), from three hypotheses on the
  scenes: no buyer sells what a buyer looks for (`SinMezcla`), nobody starts again
  or tries its connections again (`SinVueltas`), and one user at most buys
  (`UnComprador`); any number of nodes sell, the buyer orders as often as it likes,
  before it has an answer too, and nodes end at any step. With two buyers the
  property is false (section 5, `ajena`). An answer is sent to whatever `sock_p2p`
  is at the time, a number that may have been closed and given to another
  connection since it was posted, so the invariant has to say what every number
  that a thread or an event holds can be. `Negocios` says that every connection
  made since the scene is from a buyer to a node that does not buy (`ConexionBien`);
  that a number in `sock_p2p`, in RT_SET_SOCKET_P2P, or in a handshake is, if it is
  open, one of those (`Directos`: a connection of the scene is closed, but never
  opened again); that a BUY is only ever with a node that does not buy, and an answer
  only with a buyer, in queues and in sockets alike (`MensajeEn`, `LogicaBien`,
  `AvisoBien`); and that what is on its way to an end that is not closed comes to a
  node that runs, so its `mapaPedidos` still has the purchase (`LadoBien`,
  `Conocidos`). What a step of a node does to the sockets is said once (`Sigue`), so
  the other nodes need no proof of their own (`OtrosSiguen`).
- `SiempreOperaConAlguien` (`ConexionesBazar`), from `SinMezcla` and `SinVueltas`:
  any number of users buy, and nodes end at any step. The Router's flag, the
  Listener's `sock_p2p` and the events between them are written one at a time, so
  the invariant `Atentos` speaks of the Listener's queue: while the flag is set and
  the Router is not in the steps between flag and event, every LS_RM_SOCKET_P2P
  that waits has an LS_ADD_SOCKET_P2P behind it, so what the Listener is about to
  forget is not what it will end up with; a node that sells never has an
  LS_RM_SOCKET_P2P, since only a buyer's Router closes a purchase; and the socket of
  a handshake is in `master`.
- `ConexionesCumpleBazar` (`ConexionesCumple`): `Conexiones` implements `Bazar`, the
  initial state and every step, for any number of nodes, buyers, orders and attempts,
  with `Espera` or without, while no node ends (`[]TodosViven`) and from `SinMezcla`,
  `SinVueltas` and `Completas`: a scene has a connection for each neighbour, the
  first made before the second. `Bazar` has a network that does not change, so it is
  there to say what the sockets do to messages once the network is up; a node that
  ends takes its routes with it, which `Bazar` cannot do, and without `SinMezcla` a
  socket that is closed and given again may carry a message to a node that `Bazar`
  would not send it to. `MCConexiones` asserts the hypotheses of the scene of `dos`,
  where no node ends, and that run checks the same property.
  The invariant is that of `RespuestaSiempreAlComprador` with `Firme`
  (`ConexionesFirme`): a connection of the scene is open at both ends, and the maps of
  the Router name exactly those (`MapasFirmes`), so `nodo_vecino_*` and
  `nodo_socket_servidor_map` lead where `Bazar` says; a connection that the Router is
  making for a purchase leads to its seller (`CursoFirme`); a new connection announces
  itself before anything else, so the Listener never takes it for a neighbour's
  (`Anunciada`); no event closes or adds a neighbour (`AvisoFirme`).
  The map of states makes `red` the bag of all messages that are written and not read,
  or that were lost, and keeps of the Router's queue only what Logic posted
  (`DeLogic`). Both are sums over sequences, so they are handled by what they *count*:
  `Total(k, p)` is how many copies of package p there are in the sockets k, and one
  lemma for each call (`Conecta`, `Acepta`, `Envia`, `Lee`, `Descarta`, `Cierra`) says
  what the call does to it. A `recv` that swallows two messages, a discarded BUY and a
  write to a closed end leave the bag as it is: for `Bazar` these messages are late
  for ever. Each action is then a send, a delivery or a stutter of `Bazar`;
  `start_p2p_connect` takes five steps and the BUY is sent in the last,
  `close_p2p_connect` takes three, and their event stays at the head of both queues
  until then.

*`Runner`: any emitters, any number of events, any `MaxAdelanto`.*

- `RunnerTypeCorrect`, `SiempreEnOrden`, `SiempreNadaSeSalta` (`RunnerProofs`). The
  invariant says that the loop pops once for each event it handles (`Parejo`), so
  the j-th call was given cell j or garbage (`Copia`); that the cells hold each
  thread's events in order (`Ordenados`); that an emitter pushes an event before it
  begins the next (`Contados`); and that the broadcast finds the loop only where it
  waits (`Espera`). A skipped cell is then one that garbage was read from, which
  maps the skipped events into the garbage calls.

*`Teclado`: any texts.* `TecladoTypeCorrect` (`Teclado`): the invariant
`Elegido` says, for each place between the menu and an order, which options and
products may have come so far.

*`Senal`: any threads, queues, order of posts and number of signals.*
`SenalTypeCorrect` and `SiempreColaProtegida` (`SenalProofs`): a frame in a section
belongs to the thread that holds the mutex (`Dueno`), and no thread has two
(`UnoPorHilo`): a handler that comes to the queue its own thread is in cannot have
the mutex. That it then waits for ever is `Atrapado`.

*Only model-checked:* the liveness properties, beyond the prover, which has no
ENABLED; and `SaludoLimpio` and `MapasFieles` of `Conexiones`, which are
shown for the scenes of their runs and no others: a node with two purchases at once
breaks the first, and for the second a descriptor of a neighbour that has gone may be
given to another connection (section 5, `router.cpp:463` and `router.cpp:180`).

## 5. What the models found

Three disagreements between the code and what it says of itself have a run, and
`PROJECT.json` quotes the lines: the lost wake-up (`runner.cpp:103`), the Listener
that goes deaf after `select` fails (`listener.cpp:126`), and the answer that goes to
another buyer (`router.cpp:499`).

TLC showed more while the models were written. No run is kept for these; the
models contain each of them, and the properties above are stated around them:

- `runner.cpp:109`: a late or spurious signal makes the loop handle an event nobody
  posted; `runner.cpp:31`: two threads initialise one queue.
- `router.cpp:360`: when both neighbours are one node, as for `ElTano` in the shipped
  `lista_participante.conf`, a LOOKUP comes back to its creator.
- `listener.cpp:319`: the BUY of a buyer whose connection is no longer `sock_p2p` is
  discarded; `router.cpp:414`: two nodes that buy from each other at once both stay
  in operation.
- `router.cpp:288`: P2P_CONNECT and the name that come in one `recv` leave both sides
  waiting; the sleep only makes it unlikely. A seller at `MAX_CONNECTED` does not
  accept, and its buyer's Router waits for ever.
- `router.cpp:463`: `close_p2p_connect` closes a `sock_p2p` that may already be
  another connection; in a triangle where a node ends, a REPLY may be written into
  the handshake of a direct connection.
- `listener.cpp:391`: `close_p2p_connect` closes `sock_p2p` at once, and the Listener
  takes it out of its set when it comes to LS_RM_SOCKET_P2P. With two purchases at once
  the next `start_p2p_connect` may be given the same number in between: the Listener
  then reads the seller's name, and the Router waits for it for ever. `SaludoLimpio` is
  false there.
- `router.cpp:180`: the socket of a neighbour that has gone is still taken for a live
  one, and option 6 does not reconnect.
- `router.cpp:483`: a REPLY that is late for a node that has left gives its name the
  socket 0.
- `listener.cpp:275`: `cant_clientes` drifts below the connections accepted;
  `listener.cpp:277`: after a reset the Router's map keeps the descriptor, which is
  why `MapasFieles` leaves out the nodes that have had one.
- `socket_util.cpp:74`: SIGPIPE ends a node whose peer has gone.
- `router.cpp:414`, `listener.cpp:191`, `listener.cpp:300`: for a moment the flag is
  set and the Listener knows of no direct connection; what it reads then it discards.
- `keyboard.cpp:262`: DO_LOOKUP is posted in operation; `keyboard.cpp:281`: an event
  without an id is posted; `keyboard.cpp:314`: after a text that is no number the
  menu goes round by itself.
- `main.cpp:111`: a handler waits for the mutex of the code it has interrupted.

## 6. Not modelled

- `Tools` and the configuration: a table read once; its values are constants. Its
  parser and the logger are in a library that is not in the repository.
- In `SocketUtil`, the UDP functions and the table helpers, which nobody calls; a
  `send` that sends a part, and a message that `recv` cuts in two (the buffers are
  far longer than the messages); the `exit(1)` of a failing `bind` or `listen`.
- The timed wait of `Runner`, RT_RM_NODO_CLIENTE and LS_RM_SOCKET, which nobody
  calls or posts.
- INIT and KB_SHOW_STOCK in Logic, which write to the log only, all logging, and the
  text of the XML.
- Build files and documents.

What could be added next: the losses of `Runner` carried into the queues of
`Conexiones`; a `Bazar` whose network changes, for `Conexiones` with nodes that end
to implement; and the hypotheses on a scene under which `SaludoLimpio` and
`MapasFieles` are invariants, and their proofs.
