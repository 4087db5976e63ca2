# TLA+ models of the central computer of the ANT conveyor plant

The program (`src/CentralComputerComs/CentralComputerComs`, about 3,300 lines
of C++) sits between clients on a web socket and a plant of conveyors that it
reaches over the ANT radio. Clients send the layout of the plant, put
destination boxes on conveyors, send packages, ask for, remove and clear them;
the program keeps the books, computes routes and drives the conveyors. The rest
of the repository is vendored: the ANT SDK, Boost, websocketpp and nlohmann
json. There are no tests.

All paths below are relative to that directory.

## Inventory

| Component | State | Operations | Hard behaviour |
|---|---|---|---|
| `DestinationBox` | id, colour, packages stored, packages in transit | `initialize_box`, `can_accept_package`, `add_package`, `package_received`, `clear_box`, `remove_package` | capacity checked twice, colour that outlives the contents, duplicate arrivals, repeated ids |
| `ConveyorSystem`, `Conveyor` | map of conveyors with four links and a box each | `set_state`, `add_destination_box`, `get_destination_box_state`, `send_package`, `package_received`, `remove_package`, `clear_box`, `clear_box_completed` | master or slave by the order of JSON keys, replacing a configuration, answers that come after it was replaced, routes of several boxes, exceptions nobody catches |
| `calculate_routing_plan` | visited set, queue of paths | breadth-first search | early return, cycles, conveyors queued twice, unknown neighbours |
| `ANTServer`, `ANTQueueHandler`, `ANTServerTimer` | pending message, package held back, awaited reply, timestamp, flow control, timer | `send_ANT_message`, `receive_ANT_message`, `pending_message_timed_out`, the loops of the two threads | lost and late frames, retransmission, three threads on shared fields without a lock |
| `BackendANTDriver` | timeout flag, frame buffer, channel state | driver loop, two callbacks, channel bring-up | callbacks on the library's thread, buffer shared by three threads |
| `ProcessingThread` and its two message handlers | none of their own | dispatch of a message to `ConveyorSystem`, building of messages | never drains the ANT queue |
| `MessageQueue`, `SendReceiveQueue` | queue under a mutex | `push`, `pop`, `is_empty` | check and pop are two locked steps (one consumer each) |
| `WebSocketServer`, `WebSocketQueueHandler`, `WebSocketThread` | set of connections | open, close, message, send, terminate | the set is iterated and changed by two threads |
| `MainThread`, `ANTThread`, `CentralComputerThread` | threads, termination flags | start, request termination, join | a timer deleted while used, loops that do not look at the flag |

How they interact: a client's message goes from the asio thread into
`WebRxQueue`; the processing thread takes it, runs one operation of
`ConveyorSystem`, and that enqueues commands in `ANTTxQueue` and responses in
`WebTxQueue`. The ANT queue handler takes a command when flow control allows
it, and `ANTServer` sends it and waits: the radio callback receives the answer,
the timer thread raises a flag, the driver loop sends again. Answers to clears
and arrivals of packages go into `ANTRxQueue`, which the processing thread is
meant to read. So one thread owns `ConveyorSystem`, and the state of
`ANTServer` is shared by the queue handler, the callback, the driver loop and
the timer.

What makes each part correct:

- boxes: never over capacity, one colour, a package in one place, no package
  forgotten, no needless refusal;
- the conveyor system: linked conveyors agree on who is the master, the plant
  knows what the system believes, routes lead to the boxes, no operation ends
  the process;
- the search: returns a shortest route, gives up only when there is none, ends;
- the link: commands reach the plant one at a time, in order, each before the
  next one is begun; repeats are recognisable; the link never stays stopped,
  and the threads that share its fields do not get in each other's way. All of
  this holds until a timeout comes early, and the code does not prevent that;
- the composition: answers come in the order of the requests, what a client was
  promised happens, and the plant ends up as the books say;
- the threads: each ends when it is asked to, and none outlives what it uses.

## Modules

| Module | What it is |
|---|---|
| `DestinationBox` | a box as a value, its operations as operators |
| `ConveyorGraph` | reference definitions: paths and shortest paths over conveyors |
| `ConveyorSystem` | the state machine of the conveyor system, one action per operation and outcome |
| `PackageTracking` | abstract: what the system promises about packages |
| `RoutingPlan` | the search of `calculate_routing_plan`, step by step |
| `ANTServer` | the link, one step per handler: queue handler, server, timer, driver loop; radio and conveyors external |
| `ANTServerSteps` | the link, one step per access to a shared field, four threads |
| `StopAndWait` | abstract: what the link promises the processing thread |
| `CentralComputer` | the composition: web queues, processing thread, books, link and plant |
| `Lifecycle` | start and termination of the nine threads |
| `MCConveyorSystem`, `MCRoutingPlan`, `MCANTServer`, `MCANTServerSteps`, `MCCentralComputer`, `MCLifecycle` | instances for TLC |
| `ConveyorSystemProofs` | theorems about boxes and packages, and that the conveyor system implements `PackageTracking` |
| `ConveyorLinksProofs` | theorems about what the conveyors are told: links, masters and slaves, routes |
| `RoutingPlanProofs` | theorems about the search |
| `ANTServerProofs`, `StopAndWaitProofs` | theorems about the link, and that it implements `StopAndWait` |
| `ANTServerStepsProofs` | theorems about the link's threads, and that they implement `ANTServer` |
| `CentralComputerProofs` | theorems about the composition |
| `LifecycleProofs` | theorems about the threads |

Which uses which: `CentralComputer` extends `ConveyorSystem`, whose state and
operations are the books and their handlers, and takes its link from
`StopAndWait`. `ANTServerSteps` implements `ANTServer` (`ImplementsHandlers`),
which implements `StopAndWait` (`ImplementsStopAndWait`): so what is assumed of
the link in the composition is what the threads of the link are shown to do
until a timeout comes early, and no longer: what a client is promised
(`PackageFindsBox`, `PromisedPackageEnters` and the rest) rests on that.
`ConveyorSystem` implements `PackageTracking` (`TracksPackages`) and takes a
shortest route as given, which `RoutingPlan` shows the search to return.
`Lifecycle` stands alone.

### ConveyorSystem

`conveyors` is the map of the code; a conveyor is its `connections`, by
location, and its `box`. `crashed` says that an exception or an invalid access
ended the process. `ant_out` and `web_out` are the messages the last operation
enqueued, in order. Two variables are not in the code: `told`, what the
conveyors know if they believe every message sent so far (the firmware is not
in the repository, `Learned` states what is assumed of it), and `clearing`, the
boxes a `CLEAR_BOX` was sent for. An operation with several outcomes has an
action for each: `send_package` and `send_package_refused`,
`add_destination_box`, `..._refused`, `..._crashes` and `..._out_of_range`, and
so on. The last one is what a client's `box_location` outside 0 to 3 leads to:
`connections.at` throws and nothing catches it. `BoxLocations` may be any set
of numbers; two runs have a location that does not exist. A colour, too, is a
number that nobody checks: `ColourOf` may give a package `NONE`, which leaves
its box without a colour, or `INVALID`, which makes its box one that
`has_destination_box` denies. Numbers beyond the enumeration act like one more
colour and are not modelled. Only two theorems assume real colours
(`RealColours`). An operation that only writes a log line (a status request for
an unknown box, an arrival at one) is a stuttering step and has no action.

`arrival_received` and `clear_box_completed` are the two operations of the
class that the plant causes. The class is modelled with them, for any package,
any set of packages, and at any time after the clear was sent, also after the
configuration has changed. In the present code the processing thread never
reads the queue they come from (`PlantReports`), so the runs of this module say
what the class does once it does.

Abstractions: ids and packages are model values (they are ints in the code and
single bytes on the air), the box's `location` is left out (nothing reads it),
`empty_box` is left out (nothing calls it), the JSON of a request is well
formed and its numbers fit an `int`, the neighbours of a configured conveyor
are configured (`ConfigurationAssumption`; what else happens is in
`RoutingPlan`), the route is any shortest path (which one depends on the order
of the locations; `RoutingPlan` shows that the search returns one of them),
error texts are left out.

`PackageTracking` sees only where each package is: `PlaceOf` maps a package to
the conveyor whose box holds or expects it.

### RoutingPlan

A step takes one path from the queue (`skip_visited`, `return_current`,
`visit_unknown`, `visit_current`, `return_empty`) or looks at one connection of
the current conveyor (`skip_connection`, `return_connected`,
`enqueue_connection`). The code's pair of a conveyor and a path is the path:
its last element is the conveyor. Here a connection may lead to a conveyor that
is not configured; in `ConveyorSystem` configurations name configured
neighbours only (`ConfigurationAssumption`).

### ANTServer

`antTx`, `antRx`, `flow_control`, `pending_msg`, `pending_input`
(`pending_input_conveyor_msg`), `checking` (`checking_input_conveyor_ready`),
`waiting` (the three `waiting_` fields, `NotWaiting` when `waiting_for_receive`
is false), `timestamp`, `timer_running` and `timed_out` (the driver's flag) are
the code's. `air` holds the frame that is on its way (the radio refuses a
second one, and the code does not look at the result); `uplink`, `last_seen`
and `executed` belong to the plant. `early` is history: a timeout came while a
frame or a reply was on its way.

Actions: `enqueue_message` (the processing thread), `handle_queue` (the queue
handler with `send_ANT_message`), six `receive_...` actions, one for each case
of `receive_ANT_message` and its outcome, `timer_expires` (the timer thread
with `Set_timeout`), `pending_message_timed_out` (the driver loop), and the
external `deliver`, `air_loses`, `uplink_loses`, `package_arrives`.

Each handler is one step, and `ANTServerSteps` shows how long that is sound:
until a timeout comes early. From then on the driver loop runs beside the
callback and the queue handler, and what they do together is not what they do
one after the other: the driver loop may copy a message, see it answered and
replaced, and put it back (`ANTServer.cpp:134`, `172-177`), so that one message
is pending while the answer to another is awaited, or it may send an old
message with a new timestamp (`:135`). So this module says nothing of it: no
step follows an early timeout, and each property ends there.

### ANTServerSteps

The code runs these handlers on the queue handler's thread, on the radio
library's callback and on the driver loop, and the timer on a fourth thread,
without a lock. Here every access to a shared field is a step. `pc` says where
a thread is; `job` is what it has in its locals; `buffer` is the one
`current_msg_buffer` into which all three write, its header and its data
separately; `dangling` says that `pending_msg` points to a deleted message, and
`fault` that it, or null, was used, after which nothing is defined and the
model stops. The timer thread has its own two places, inside and outside of the
loop in which it sleeps, its local `timeout_occured`, and `fresh`: whether it
measures from the last start of the timer or from an earlier one. It is the
timer of the code (`ANTServerTimer.cpp:40-67`): it does not see a stop and a
start while it sleeps, and keeps an expiry when the timer is stopped before it
looks. `ShortTrips` says whether 0.5 s from the last start are longer than an
exchange that is not lost; with either value a timeout may come early. `early`
records that the timer ran out with a frame or a reply on its way or a thread
in its handler. `send_message_to_driver` is the part that all three threads
run: await, stamp, delete what is pending, keep the new message, start the
timer, fill the buffer, transmit.

`ImplementsHandlers` is the refinement. A handler seems to happen when it has
its effect, the frame or the flow that goes on; until then `ANTServer` sees the
fields as they were when the handler began (`before`), and a command that was
taken still waits. The step of two threads at the same time has no such image,
and neither has a frame with the bytes of two messages, so the refinement says
that they do not happen.

What keeps the threads apart is only the order of the writes: the flow is
stopped before the wait begins and goes on last, nothing matches before
`waiting_msg_id` is written, and the timer starts before the frame is sent and
is stopped first. Until a timeout comes early this is enough. After one it is
not, and two runs show what becomes of it, with `ShortTrips`: the driver loop
copies a message that the callback deletes (`UseAfterFree`), and a command is
released by the acknowledgement of the one before and lost
(`StaleAcknowledgement`). Nothing else is claimed of that time.

### CentralComputer

`webRx`, `webTx`, `antTx` and `antRx` are the four queues; `asked`, `owed` and
`answered` are the clients' side; `sending` and `arrived` are `StopAndWait`'s.
Each message carries the number of the request it belongs to. Actions:
`on_message` (asio thread), one `handle_...` for each kind of request (the
processing thread, with the operation of `ConveyorSystem` it starts), `send`
(web queue handler), `begin_command` and `finish_command` (the link),
`command_arrives` and `package_arrives` (the plant). The plant is external:
conveyors believe what they are told (`Learned`), packages enter, are stored in
their box and reported, a clear takes out what was stored and is reported.

No action takes from `antRx`: the processing thread has a handler for these
messages and never calls it. It follows that no arrival is ever stored in the
books, that `REMOVE_PACKAGE` is always refused, and that `package_leaves`,
which models what the plant would do for one, is never taken. It stays for the
day the handler is called.

An operation is one step although it enqueues several messages: the other
threads only see the queues, and each thread takes from one of them, so
splitting it would only let a thread take a message a little earlier.

### Lifecycle

`at` is the place of each thread in its function: which request or join comes
next, or its loop. `terminate_requested` is each thread's flag. The queues are
the number of their messages, for a loop may end only when its queue is empty
(the inner loop of `WebSocketQueueHandler`) or look at the flag before each
message (the others). `exited` is the end of the process by `exit`, `abort` or
an exception that nothing catches: a radio stick that is missing, a port in
use, a server terminated before it listens or with a client that is already
leaving. The clients are external, and so is websocketpp, which is not in the
repository: its `run` returns when it neither listens nor has a connection.

The driver looks at its own flag only, so the timer may be deleted while a
command that was begun earlier is still on its way to `start_timer`. What
happens then is undefined: `queue_handler` goes on or ends the process.
`NoCommandBegunAfterTimer` says what the order of the two requests does ensure.

## Runs

| Run | Shows | Expect |
|---|---|---|
| `Configurations` | `MasterSlavePaired`, `ToldMatchesConveyors`, `BoxesAreRoutable` | pass |
| `Packages` | `TypeOK`, `BoxWithinCapacity`, `BoxSortsByColour`, `OneBoxPerPackage`, `RefusesOnlyWhenFull`, `NoPackageForgotten`, and that the system implements `PackageTracking` (`TracksPackages`) | pass |
| `RoutingPlan` | `TypeOK`, `ReturnsRoute`, `ReturnsShortest`, `GivesUpOnlyWhenUnreachable`, `ThrowsOnlyAtUnknown`, `SearchEnds` | pass |
| `Link` | `TypeOK`, `RetransmissionArmed`, and until a timeout comes early `OneExchange`, `RepeatsShareTimestamp`, `ReleasedWasReceived`, `ClearAnswersItsBox`, `ImplementsStopAndWait`, `EveryCommandExecuted` | pass |
| `ANTServerSteps` | `NoEarlierFault`, `ImplementsHandlers`, `EveryCommandExecuted`: access by access and with the timer of the code, until a timeout comes early | pass |
| `CentralComputer` | `AnswersInOrder`, `PlantWithinCapacity`, `DrainedPlantMatchesBooks`, `PackageFindsBox`, `EveryRequestAnswered`, `PromisedPackageEnters` | pass |
| `Lifecycle` | `MainEndsLast`, `NoCommandBegunAfterTimer`, `EveryThreadEnds` | pass |
| `UnreachableConveyor` | `NoCrash` fails: a box on a conveyor no route leads to | violation |
| `InvalidBox` | `ClearTouchesOnlyItsBox` fails: a late clear empties the box of conveyor 1 | violation |
| `StaleAcknowledgement` | `ReleasedWasReceived` fails with the timer as it is: two quick starts, one early timeout, a second acknowledgement that releases the next command | violation |
| `UseAfterFree` | `NoFault` fails: after an early timeout the callback deletes the message that the driver loop copies | violation |
| `PlantReports` | `PlantReportsHandled` fails: the report of an arrival stays in `ANTRxQueue` | violation |

### Bounds, and why they are enough

- Conveyor system: three conveyors for layouts, two for packages. Links, master
  and slave, and hops are about pairs, and a route of three conveyors has a
  first, a middle and a last hop. `MCKeyRank` puts conveyor 3 before conveyor
  2, as `"10"` comes before `"2"`, so the order of the keys and of the ids
  differ. `Triangle` has a list that is longer than four and replaces an
  earlier entry. Two locations let a box meet a link or not, a third one does
  not exist.
- Packages: two packages fill a box of size 2, a third of another colour makes
  the colours matter; two boxes let a package go to the wrong one. The client
  does not send an id that is in use (`ClientReusesIds = FALSE`):
  `OneBoxPerPackage` and routability need that. With reuse, capacity and
  `NoPackageForgotten` are proved.
- Link: the input conveyor and another one, three commands of the four kinds
  that the server treats differently (`PlainId` stands for the kinds that are
  sent as they come), one reply of each conveyor on its way (`MaxUplink`), one
  time that the input conveyor is not ready (`MaxBusy`), one package that
  arrives (`MaxArrivals`). Timestamps do not wrap within the bounds. The number
  of retransmissions is not bounded.
- Steps of the link: two commands, so that a handler of the second can overlap
  with the end of the first; otherwise as above. `StaleAcknowledgement` needs
  three: one whose start the timer measures from, one that is repeated, one
  that is released. `UseAfterFree` needs one package, whose state request
  starts the timer first. The run `ANTServerSteps` cuts off the states after an
  early timeout (`CONSTRAINT NotEarly`). That hides nothing its properties
  could say: `early` stays, makes `NoEarlierFault` and `EveryCommandExecuted`
  true, and every step behind it is allowed by `ImplementsHandlers`.
  `ShortTrips` is `FALSE` there, which allows more.
- Composition: two conveyors, a box of size 1 for which two packages compete,
  four requests: configuration, box, package and one more. `Apart` replaces
  `Pair` while commands for it wait, and is the layout on which a box ends the
  process.
- Lifecycle: one client, who may come, leave, and come again, and one message;
  that makes one answer and one command for the loops to be in the middle of.
  Two clients or messages would do the same things once more.
- Search: all graphs of four conveyors, with four, three or two configured (one
  of these without the input conveyor), the connections in ascending or
  descending order around an empty location and a box. Four conveyors are the
  fewest with two shortest routes to one target and a conveyor queued twice.

`CHECK_DEADLOCK FALSE` stands where the model stops: `Configurations` (a
crashed process), `RoutingPlan` (the search ended), the link and the
composition (the bounds on commands and requests are reached), `Lifecycle`
(every thread has ended).

### Fairness

- `RoutingPlan`: weak fairness of `Next`. One thread runs the search and waits
  for nothing.
- `ANTServer`: weak fairness of the queue handler, of the timer and of the
  driver loop, which are loops that always run; strong fairness of `deliver`
  and of the receptions, that is, the radio does not lose every frame or every
  reply of a conveyor. Nothing is assumed of the losses, the clients, the
  arrivals and the availability beyond `MaxBusy`.
- `ANTServerSteps`: the same, for each thread's steps. Nothing is assumed of
  the timer beyond its code. How likely an early timeout is the model does not
  say; that a long series of commands meets none is not assumed, the properties
  just end there.
- `CentralComputer`: the processing thread and the web queue handler are loops
  that run, and the link is live, which is what `EveryCommandExecuted` says of
  it until a timeout comes early. Nothing is assumed of the clients and of
  packages that arrive.
- `Lifecycle`: the threads run, handshakes end, and clients leave in the end
  once the server does not listen any more: `run` waits for them. Nobody has to
  enter a command, and clients need not come or send. An end of the process, by
  an exception or by a use of the deleted timer, counts as an end.

## Proofs

The theorems hold for every value of the constants that the `ASSUME`s allow:
any finite set of conveyors, any packages and boxes, any size, any
configurations, any colours and locations that a client sends, any bounds of
the link, any layout, any clients.

- `ConveyorSystemProofs`: `BoxWithinCapacity` and `BoxSortsByColour` are not
  inductive. `SystemInv` adds that both sets of a box are finite (or sizes mean
  nothing) and that a box without a colour is empty: this is why
  `can_accept_package` may skip the size, and why giving a box its first colour
  recolours nothing; both hold for real colours, and only `BoxSortsByColour`
  and `TracksPackages` assume them (`RealColours`). The lemmas say of every
  operation on a box that it preserves `BoxInv` (`AddPackageInv`,
  `PackageReceivedInv`, ...), one step per action lifts them to the system.
  `NoPackageForgottenHolds` is about steps: it shows of each operation on a box
  what it leaves in it. `OneBoxPerPackageHolds` assumes `~ClientReusesIds`; its
  step relates two boxes. `RefusesOnlyWhenFull` needs `SystemInv`: a box that
  is refused for its size or its colour is refused by both checks for the same
  reason. `TracksPackages` is a step simulation: `PlacesRight` says what the
  mapping `PlaceOf` makes of the boxes, and there is one lemma for each
  operation that moves packages; the others leave all places as they are. It
  assumes `~ClientReusesIds`, because a package that is in two boxes has no
  place.
- `ConveyorLinksProofs`: `LinksInv` says that what was told of the links is
  what the system believes. A new configuration first disconnects the old
  conveyors, in the order of their ids, then speaks of each entry in the order
  of the keys; so the last word on a location is the last entry that ends up
  there, or else the disconnection, or else nothing (`ConfigurationIsTold`).
  That the entries are listed once each and in order is `InOrderLists`, for any
  strict order of a finite set. `MasterSlavePaired` needs in addition
  `PairedInv`: links go both ways, and their types are what the order of the
  keys says. It assumes `SymmetricConfigurations`, that conveyors that are
  linked name each other, as all layouts of the runs do: the code does not
  check it, and without it one side is told nothing. `BoxesAreRoutable` follows
  from `RoutesInv`: for each box there is a path over links along which every
  conveyor was told the next one, and the last one itself. A configuration
  removes all boxes; a box that is added is told its whole path and, as ids are
  not reused (`~ClientReusesIds`), disturbs no other; a box takes a location
  without a link, so no path loses one.
- `ANTServerProofs`: `LinkInv` is `TypeOK`, `OneExchange` and
  `RetransmissionArmed` together. They need each other: that no acknowledgement
  ends a state request follows from the kinds of replies (types), and the types
  need that only an awaited state leads to a request (one exchange).
  `NewExchange` and `EndOfExchange` are the two lemmas that every handler uses.
  The exchange is described until a timeout comes early (`early`), the
  retransmission is armed in any case; losses and repetitions are arbitrary.
  `StampInv` is about the timestamps: no frame on its way or seen last is newer
  than the server's, one of now is the pending message (`Stamped`), two with
  one timestamp are the same frame, and later commands have later ones
  (`ToldApart`). That needs the order in which commands are taken (`InTurn`).
  `Budget` counts: a command takes two messages at most, and one more each time
  the input conveyor is not ready, so with `FewMessages` no timestamp comes
  twice and `RepeatsShareTimestamp` follows. Without it a conveyor that sees no
  frame for 256 messages takes the next for a repetition.
- `RoutingPlanProofs`: the invariant is the frontier: a connection of a visited
  conveyor leads to a visited conveyor, to one in the queue, or is still ahead
  of `location`. When the queue is empty and nothing is ahead the visited set
  is closed, which is what giving up needs. `QueuedConnected` says the same in
  the other direction, for the throw. `ReturnsShortest` is what a search by
  breadth is for, and this one is unusual: it marks a conveyor as visited only
  when its path is taken from the queue, so conveyors are queued twice, and it
  returns early at a connection to the target. `ShortestInv` says that the
  queued paths are in the order of their lengths, which differ by one at most
  (`Levels`); that no route over visited conveyors beats the paths that are
  queued (`FrontierByLevel`): whatever it leads to in one more step is visited,
  queued with no longer path, or still to be looked at; and that queued paths
  do not meet themselves (`SimplePaths`).
- `LifecycleProofs`: `ThreadInv` has three parts. `StartInv`: no thread runs
  before the one that starts it, without which a start could revive an ended
  one. `JoinInv`: whoever is past a join joined an ended thread, from which
  `MainEndsLast` follows along the tree of joins. `TimerInv`: the driver's flag
  is set only after the queue handler's, so whoever deletes the timer leaves a
  queue handler that begins no more commands: `NoCommandBegunAfterTimer`, by
  `BeginsBeforeRequest`.
- `StopAndWaitProofs`: `OnTimeInv` says what is on its way as long as every
  timeout was on time: nothing between two exchanges, and during one either the
  frame of the pending message or the one reply to it, which tells the truth
  about what was executed. Every acknowledgement that is received is therefore
  of this exchange. `ReleasedWasReceived`, `ClearAnswersItsBox` and the step
  simulation of `ImplementsStopAndWait` follow from it. After an early timeout
  the conclusion is false, see `StaleAcknowledgement`.
- `ANTServerStepsProofs`: no lock keeps the threads apart, so `StepsInv` says
  what does. Each handler has a reason to begin: the flow that goes on, a frame
  or a reply on its way, a timer that expired. There is one reason at a time,
  and none while a thread is in its handler, until its last access creates the
  next one. `NoEarlierFault` follows: nobody else touches `pending_msg` between
  the deletion and the new message. All of it is proved of the timer of the
  code and ends with `early`, the timeout that makes a second reason while a
  handler runs or a frame or reply is on its way. `ImplementsHandlers` needs
  more: `HandlerInv` says, for each place in each handler, what the thread has
  done with the fields since it began (`before`). `Sent` is the shared part,
  with the buffer that is filled in two accesses, `Asking` adds the new
  timestamp and the reply that is awaited, and `QueueSim`, `CallbackSim` and
  `DriverSim` say which message it is. Until the frame is sent or the flow goes
  on, the mapping shows the fields of `before`, so every other access of a
  handler stutters (`BeginStutters`, `InsideStutters`, `SendStutters`), and the
  last one is the handler (`TransmitQueue`, `TransmitCallback`,
  `TransmitDriver`, `ContinueMaps`). A reply that the callback took is back in
  front of its queue in the mapping (`Reassembled`), and what the plant or the
  timer do meanwhile maps to the same step. `StepsAssumption` says of the
  constants what the source fixes: the input conveyor is one of the conveyors,
  and the other commands are of their kinds.
- `CentralComputerProofs`: `LineInv` puts the answers given, the answers that
  wait and the requests that wait in one line, from which `AnswersInOrder`
  follows. For the rest, the plant lags behind the books by the commands in the
  queue and on the link (`Waiting`), and the invariants look at every prefix of
  them.
  - What the conveyors know: `KnownAfter(n)` is what they know once `n` of the
    waiting commands have arrived. After all of them it is `told`, what they
    were told (`KnownOK`). The operations of the conveyor system run in the
    composition unchanged, so the invariants of `ConveyorLinksProofs` hold of
    `told` there, and when nothing waits they hold of `known`:
    `DrainedPlantMatchesBooks`, with no assumption.
  - Boxes: `LoadOK` says that after each prefix no box holds more than its size
    (`InBoxAfter`), and after all of them it holds only what the books say is
    in transit. A box that is connected starts empty in the plant, so only
    commands behind its last connection count. `PlantWithinCapacity` follows.
  - Packages: `PathsOK` says that each package that waits has a route in what
    the conveyors know when its turn comes. It had one in `told` when it was
    enqueued (`BoxesAreRoutable`), and commands that change the routes after
    that stand behind it. When it is first in line this is `PackageFindsBox`.

  The last two assume `OneConveyorPerBox`: the client does not reuse ids, or
  asks for a box at one conveyor only, as in the run. A box id that moves to
  another conveyor would have two sets of books, and routes to two places, for
  what the plant counts as one box.

Some things in the models have the form they have because proofs use them.
`PathsOfLength` (`ConveyorGraph`), `InOrder` and `Entries` (`ConveyorSystem`:
the order in which conveyors and connections are visited) and `Learned` (what
the last message says) say what the result is and do not recurse. `Hop` and
`ReachedAfter` take what the conveyors know as a parameter, so that one lemma
serves `told` and `known`. That clients send well formed requests is the
assumption `RequestAssumption` of `CentralComputer`.

Only model-checked:

- liveness, which the prover cannot do: `SearchEnds`, `EveryCommandExecuted`,
  `EveryRequestAnswered`, `PromisedPackageEnters`, `EveryThreadEnds`;
- what the runs that expect a violation show: each is a counterexample of the
  small instance, and needs no more.

## Not modelled

- The vendored libraries, logging, JSON text and the byte layout of frames: ids
  that do not fit into a byte, and messages that do not parse, are listed as
  hazards only.
- The channel bring-up of `ANT_DLL_Serial_Callback` and the broadcasts: each
  answer of the radio leads to the next request, an unexpected one is printed,
  nothing is retried. Commands sent before the channel is open are lost frames
  to `ANTServer`.
- The iteration of `m_connections` by one thread while another changes it:
  nothing in the code orders them and what happens is the library's; a property
  would either restate that or fail at once.
- How long threads sleep, and the input stream that fails.
- The behaviour of the link after a timeout that comes early, beyond the two
  runs that show it go wrong: a deleted message may be used from then on, and
  what follows that is undefined.
- That the answer to a clear is passed on short: `ForwardedLength` is the
  code's (`ANTServer.cpp:105` reads the count without
  `ANT_RESPONSE_HEADER_LENGTH`, that is, the box id), which is a defect of one
  line and listed as a hazard.
- The conveyors' firmware: only what the messages suggest, marked external.

## Plan

What is left, in this order:

1. Proofs: every safety property of a passing run has its theorem. What can
   still be done is to need less: `RepeatsShareTimestamp` with fewer than 256
   messages to other conveyors between two to the same one, instead of in all.
2. `AntChannel`: the bring-up of the radio channel, if the driver gets a retry.
3. `CentralComputer` with the handler of the plant's messages, once it is
   called.
