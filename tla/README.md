# microAkka in TLA+

microAkka is an actor framework in C++ for microcontrollers and Linux, with a
program that runs a benchmark and connects the local actors to other actor
systems through MQTT. This directory holds TLA+ modules of its parts, the TLC
configurations that check them on small instances, and proofs about them that
TLAPS checks. Every definition is a translation of code under `src/src/`;
`PROJECT.json` names the lines.

Run a check with `tlc -config X.cfg M`, a proof with `tlapm M.tla`. The table
under [Runs](#runs) says which configuration belongs to which module.

## The system

```
 main()                     timer thread            MQTT client thread
   | actorOf                  | tell                  | eb.publish, _connected
   v                          v                       v
 ActorSystem          +--> ActorRef::tell <--------- event bus
   creates            |       |
   actors             |       v   MessageDispatcher::dispatch
                      |    Mailbox (NativeQueue) + _currentStatus
                      |       |
                      |       v   work queue of mailboxes (NativeQueue)
                      |    dispatcher threads: handleMailbox, processMailbox
                      |       |
                      +-- handlers of the actors: Sender, Echo, Mqtt, Bridge, ...
```

| component | state | operations | module | status |
| --- | --- | --- | --- | --- |
| native queue (`Native.h`) | queue, mutex, condition variable | `send`, `recv`, `messageCount` | `NativeQueue`, `FifoQueue` | modelled, proved |
| dispatcher, mailbox, threads (`Akka.cpp` 354-549, 925-995) | mailboxes, `_currentStatus`, work queue, `_currentThread`, the message a thread handles | `tell`, `dispatch`, `registerForExecution`, `handleMailbox`, `processMailbox` | `Dispatcher`, `Actors` | modelled, proved |
| timers (`Native.cpp` 140-275, `Akka.cpp` 610-750) | vector of started timers, due times, sort and stop flags | start, `addTimer`, `run`, the destructor at exit | `TimerThread`, `TimerService`; `Node` | Linux: modelled, proved; the timers of FreeRTOS are not modelled |
| mqtt actor (`Mqtt.cpp`) | the client, `_connected`, `_conn_opts` | `preStart`, `onConnect`, `onConnectionLost`, `onMessageArrived`, publish | `Gateway`, `Node` | modelled, proved |
| actor system, references (`Akka.cpp` 290-350, 390-410, 555-596) | `ActorRef::_actorRefs`, `ActorSystem::_actorRefs`, the Receive of a cell | `create`, `become`, `lookup`, `tell` to a local, a remote reference and `NoSender` | `Gateway`, `Node` | modelled, proved |
| event bus (`Akka.h` 605-680) | subscriptions | `subscribe`, `publish`, the classifier | `Messages`, `Gateway`, `Node` | modelled |
| messages (`Akka.h` 125-180, `Akka.cpp` 125-240) | tagged fields | `Msg`, `msgBuilder`, `replyBuilder`, `get`, matching | `Messages` | modelled, proved, above the external `Xdr` and `Uid` |
| bridge actor (`Bridge.cpp`) | `_mqttConnected`, `_currentActorRef` | every receiver; `nextRef`; `msgToJsonEvents`, `msgToJsonCmd`, `messageToMsg`, `topicToMsg` and what they call | `Conversion`, `JsonValues`, `Node`; start in `Gateway` | modelled, proved for all but what recurses into values |
| ping benchmark (`Sender.cpp`, `Echo.cpp`) | `_testing`, `_counter` | `StartTest`, `EndTest`, ping, pong, `Properties` | `Node` | modelled, proved |
| `System`, `ConfigActor` | none, and the external `Config` | every receiver; `exit` in `TimerThread` | `Node`, `TimerThread` | without what `Config` stores |
| `main()` | | creates the actors while earlier ones already run | `Gateway`, `Dispatcher`, `Node` | without reading the configuration |
| `WiringPi`, `NeuralPid`, `Machinelearning`, `Hash`, `Metric` | own fields | arithmetic, input and output | - | not modelled |
| interrupts (`signalFromIsr`) | one shared message | `dispatchFromIsr` | - | not modelled: FreeRTOS only, without a caller |
| `Xdr`, `Uid`, `Config`, `Log` | | | - | in another repository |

What is hard in this code, and what therefore the properties are about:

* The scheduling word of a mailbox is the only coordination between threads
  that tell and threads that handle. A tell that sees the mailbox scheduled
  relies on a thread that is about to hand it back; `messageCount` is read
  without the mutex of the queue; a compare-and-swap may fail spuriously.
* The queue waits once for its condition variable and notifies after the
  unlock; the timer thread naps for an entry that may no longer be the last
  one; the destructor sets its flag without the mutex.
* Mailboxes and the work queue have limits on FreeRTOS, and what `send`
  returns is ignored when it matters.
* Between `msg.get` of an actor and the JSON of a peer there are four loops over a
  message with a cursor that several functions share, recursion into nested
  objects, and a table of references that grows with what arrives.
* The bridge walks the table of actors with an iterator it keeps from one timer to
  the next, and its own creation inserts into that table in between.
* Every receiver that matches a message runs, in order: the bridge forwards a
  message for somebody else and may handle it as well.
* The callbacks of the MQTT client run on their own thread and share flags and
  connect options with the handlers, without a lock; events that are published
  before somebody subscribes are lost; an attempt to connect or a subscription that
  fails is not repeated.

The properties that make each part correct:

* **queue**: an item is received once, in the order of the sends; no sleeping
  consumer is left with an item; the queue is an atomic FIFO queue to callers.
* **dispatcher**: an actor never runs on two threads; it handles the messages
  of its mailbox one at a time, in order; every message that entered a mailbox
  is handled; `sender()` answers for the message being handled.
* **timers**: never early, a one-shot timer fires once per start, a periodic
  one is never lost, a due timer fires, the process can exit; to whoever starts one, a
  timer is what `TimerService` says.
* **connection**: a client that says it is connected has asked for its topics on the
  connection it has; the bridge comes to know of each connection and loss once it is
  ready; a client that is down tries again.
* **messages and references**: whatever a peer sends, `sender()` has a reference;
  a message lies where it is addressed, although messages are readdressed and
  copied on the way and a remote reference delivers to somebody else's mailbox.
* **conversion**: an event that goes out, and a command that comes in, is the
  same message for whoever reads it on the other side.
* **bridge**: a request of a peer is answered to where it asked; every actor is
  polled again and again, and what it replies is published.
* **benchmark**: one ball is in play during a test.

## Modules

### NativeQueue and FifoQueue

`NativeQueue` is the class of the Linux build with one action per stretch of
code between two effects others can see: `SendLock`, `SendPush`, `SendUnlock`,
`SendNotify`; `RecvLock`, `RecvWait` (unlock and sleep), `RecvWaitExpires`,
`RecvRelock`, `RecvGiveUp`, `RecvFront`, `RecvPop`. Wakeups may be spurious and
time limits may expire at any time; `recv` waits at most once and then looks
at the queue whatever woke it, as `wait_until` in an `if` does. A consumer
calls `recv` in a loop. `FifoQueue` is the promise to callers: `Send` appends,
`Recv` removes the first item, a `recv` may return empty-handed.
`NativeQueue` implements it with `items` the queue itself: a send takes effect
at the push, a receive at the pop (`FifoSpec`, and `FifoLiveSpec` with its
fairness).

### Actors and Dispatcher

`Actors` is what an actor is promised: messages are delivered into its inbox,
it begins to handle the first one when it is not busy, and it ends. With
fairness every delivered message is handled.

`Dispatcher` is the code. A tell (`Tell`, `Enqueue` or `EnqueueTimeout`) goes
on into `registerForExecution`: `CheckScheduled`, `CheckOpen`, `Count` are the
three reads of `canBeScheduledForExecution`, `Load` and `CasScheduled` /
`CasScheduledFails` are `setAsScheduled`, `Post` / `PostTimeout` is the send to
the work queue. A dispatcher thread takes a mailbox (`WorkReceive`), takes a
message (`Dequeue`, `DequeueEmpty`), runs the handler - which may tell, with
the thread inside `dispatch` - and returns from it (`HandlerReturns`); then
`IdleLoad`, `IdleCas` / `IdleCasFails`, and `registerForExecution` once more.

* `Bounded` selects the platform: queues that grow (Linux) or whose `send` gives
  up (FreeRTOS).
* Operations of the queues are single steps; that this is allowed is what
  `NativeQueue => FifoQueue` shows.
* `messageCount` on Linux reads the size of a `std::deque` while another thread
  may be pushing or popping, which is a data race: `Count` lets the answer be
  anything while some thread is in `Enqueue` or `Dequeue` of that mailbox. On
  FreeRTOS the count is exact.
* Of the status values only Open and Scheduled occur: nothing in the repository
  suspends or closes a mailbox.
* `resetReceiveTimeout` and the receive timeout are left out: what they write
  is never read by this code.

### TimerService and TimerThread

`TimerService` is what a `NativeTimer` is to `TimerScheduler`: starts that are yet to
call back (`running`), the time that is left, and the one callback that runs. A timer
calls back when it runs and is due; afterwards a one-shot timer has done with one start
and a periodic one begins its interval anew; another start moves the due time of all
its starts. `TimerThread` implements it (`ServiceSpec`): a start counts from the append
under the mutex, the callback from `Invoke` to `Pop`, and whatever else the thread does
is not seen.

`TimerThread` is the code: the vector of `NativeTimerThread` with its mutex, `run()` from `Lock` to `Pop`,
the handlers that start timers (`Start`, `AddTimer`, `Notify`) and the exit from
a handler, whose static destructor sets `m_Stop`, notifies and joins. Starting a
key again appends the same timer a second time, as the code does. Time is
relative: `left[k]` is how far the due time is away, so that no bound on the
clock is needed. `std::sort` leaves the order of equal entries open and so does
`Sorted`.

### Gateway

`main()` creates the mqtt actor (reference, `preStart` with the first connect,
`become`) and then the bridge (timers, two subscriptions, `become`); meanwhile
the client's thread runs `onConnect` or `onConnectionLost`, one action per
effect on shared state, and the handlers run on dispatcher threads. A handler
of the bridge is one step: it touches nothing but its own flag and mailboxes,
and `Dispatcher` shows that handlers of one actor do not overlap. The handler
of the mqtt actor takes one step per call of the client library, because the
client, `_connected` and `_conn_opts` are shared with the callbacks.
A message to an actor that has not become a Receive is dropped.

The client library is external and modelled from its use here: a connect ends
in success or failure; connects of a client that is not down, and disconnects
of one that is not up, have no effect; a disconnect that was asked for calls
nobody; a clean session forgets its subscriptions; callbacks run one at a time
and the connection comes and goes between them. The callbacks of a connection
are those that `_conn_opts` held when it was started (`announces`). The
assignments of `_conn_opts` in lines 123-130 are one step.

`subscription` is what became of asking for a topic on the connection that is up:
nothing yet, asked, granted or failed. `Subscribe` is `MQTTAsync_subscribe`, which does
not start if the client is not up and may not start if it is; the broker answers later
(`Granted` is `onSubscribe`, `Refused` is `onSubscribeFailure`), in a callback of its own
or never. The code logs each of these failures and goes on, and so does the model.
A `Publish` message without a topic changes nothing and is left out (`Pairs`).

### Messages, Conversion and JsonValues

Operators only. `Messages` has what actors do with a message: `Msg`, `Add`, `Get`
and `Has` (the first field with a tag), `Reply` (`replyBuilder`, with the class of
`ReplyClass`), `Told` (`tell` writes `$SRC` and `$DST` into the message), and `Publish`,
which tells an event to each subscription it fits, in order; 0 fits everything
(`Covers`). A message is a record of its three fixed fields and a sequence of the others.
A `Uid` is its label: equal labels, equal numbers.

`Conversion` is `Bridge.cpp` from 197 on, one operator per function and with its
name. `fieldCount` leaves the cursor where its loop left it, and `msgToJsonCmd` reads
on from there; `messageToMsg` converts the whole object once for each of its keys
(`ReadKey`). `Incoming` is `topicToMsg` followed by `messageToMsg`, with the references
both create. A topic is the sequence of its parts; a payload is a kind and a value. What
tells the operators apart is kept (signed from unsigned, integers from fractions,
strings, nested objects, unknown values, text that is no JSON), the characters are not.
`get` and `getNext` belong to `Xdr`, which is not here. From its use, `getNext` reads on
from the cursor and `get` looks for the tag from the start, whatever was read before, and
leaves the cursor behind what it found. `xdrTagToJson` reads every type with
`getNext` but a boolean, which it reads with `get`: a field whose tag occurred before sends
the loop back to the first one, and it does not end. `GoesBack` says of which fields
this holds; `Node` keeps that the handler does not return. In a nested object no
command of a peer and no actor has a field twice, so that only the fields of the message
itself are looked at.
`Data` is a message without the fields of its address, `Named` are the senders a payload
names, `IsPayload` says that its keys and the fields it becomes are lists.

The four loops over a message, its tags or a payload are recursive functions
(`Filter` of `Messages`, `fieldCount`, the object of `msgToJsonCmd`, the keys of
`messageToMsg`), so that they can be proved about. Only the conversion of one value
recurses into nested objects; it is a parameter of `Conversion`, `ToJson` and
`FromJson`, which `JsonValues` defines with RECURSIVE operators: `xdrTagToJson` replaces
the variant by the fields of a nested message when it meets one; `jsonToXdr` stops
half-way at a value it does not know, and the fields before it are appended all the
same. `MCNode` extends both and gives the parameters these values; what is
proved holds for any.

### Node

All six actors of `main()` with their mailboxes: `Receive` takes the first message
of a mailbox, appends what the bridge's receiver for any class forwards and then
what the receivers of the class tell, `Deliver` puts each message into the mailbox
its reference stands for - that of the actor, none for `NoSender`, the bridge's for
a remote actor. One action per receiver, with the name of the class. Besides:

* `onConnect`, `onConnectionLost`, `onMessageArrived`: what the client's thread
  publishes on the event bus. The connection itself is `Gateway`'s; here it comes
  and goes. A change of the connection may be under way together with anything
  else, one at a time.
* `BridgeTimer`, `StartTimer`, `EndTimer`: the timer thread. `START_TEST` fires four
  seconds after `END_TEST`; the model takes it that the last pong has been handled
  by then, which is a matter of four seconds and no code (`StartTimer`).
* `EmplaceBridge`: `create()` enters the bridge into the map of actors after its
  `preStart` has set `_currentActorRef`. The map is unordered: a new node may come
  anywhere in front of another one, no iterator is lost as six entries do not make
  it grow.
* `looping`: the bridge's handler converts fields for ever (`Loops`); its mailbox fills
  and nothing of it is handled again.
* `nextRef` and `Successor` are the walk, with `"end"` for `end()`.

Messages that leave `main()`'s program end at the handler of `mqttPublish`; what is
published is compared with what a peer that runs the same bridge makes of it
(`Incoming`). The peer sends any of `Commands` at any time.

Handlers are single steps: a handler touches the fields of its own actor, mailboxes
and the table of references, and `Dispatcher` shows that handlers of one actor do
not overlap and take messages in order. Left out: `propTimer`, which nobody
handles, the mqtt actor's own `pubTimer` (in `Gateway`), what `Config` stores. `exit` of
`System` ends the process and is in `TimerThread`; no command here asks for it. A `$SRC`
that is no string is a null `char*` at `Bridge.cpp:499`: undefined behaviour, which the
commands leave out. `README.md:26` of the repository spells the fields of an address `$src`
and `$id`; the code, and the model, know `$SRC` and `$ID`.
The receiver for any class also tests for destination 0; no message with that
destination reaches a mailbox, so that the branch is not there. The assertions of
`Sender` and `Echo` are taken to be compiled in: without them `counter` would not
be read.

`NodeAssumption` is what the proofs and the model take of the constants: commands
are topics and payloads, of any number and nesting, and the map holds each of the other
five actors once when the bridge starts. One class is kept from peers: a topic that ends in
`mqttPublishRcvd` becomes a message of that class for any actor it names, or an event
of it; in the bridge's mailbox the handler would read `topic` and `message` out of fields a peer
chose, which the model's typed fields do not cover. `PeersLeaveBenchmark` is the
hypothesis of the benchmark's properties and no others: a peer does not tell `sender` that
a test starts, does not answer its ping, and does not write to one of the two players in
the name of the other. Peers that do may have as many balls in play as they send. It
holds of the commands in `MCNode`, where TLC checks it.

## Runs

| run | configuration | shows | size |
| --- | --- | --- | --- |
| NativeQueue | `NativeQueue.cfg` | types, mutual exclusion of front and pop, no lost wakeup, refinement of `FifoQueue` with liveness | 2 producers, 2 consumers, 2 values; 60 000 states |
| DispatcherLinux | `MCDispatcherLinux.cfg` | one token per mailbox, one thread per actor, the context of a handler, no stranded mailbox, refinement of `Actors`; every message that entered a mailbox is handled | 2 threads, 1 other sender, 2 actors, 3 tells; 43 000 states |
| DispatcherFreeRtos | `MCDispatcherFreeRtos.cfg` | the same questions when a mailbox overflows; the work queue never does when it has a place per actor | 2 threads, 2 other senders, 4 tells, mailbox of 1, work queue of 2; 310 000 states |
| DispatcherOverload | `MCDispatcherOverload.cfg` | what remains when the work queue overflows as well: one token, one thread per actor, refinement of `Actors` | the same with a work queue of 1 |
| DispatcherSmallQueue | `MCDispatcherSmallQueue.cfg` | **violated**: a mailbox marked as scheduled is queued | work queue of 1, 2 actors |
| TimerThread | `MCTimerThread.cfg` | the timer properties above, refinement of `TimerService` | 2 actors, 3 timers, 3 entries; 160 000 states |
| Gateway | `Gateway.cfg` | the connection properties above | 2 messages, 2 events, 2 topics at once; 220 000 states |
| GatewayListens | `GatewayListens.cfg` | **violated**: a client that is up has asked for its topics | as above |
| GatewayReconnects | `GatewayReconnects.cfg` | **violated**: the gateway is up again and again | as above |
| Node | `MCNode.cfg` | every sender has a reference, messages lie where they belong, one ball, conversions keep the message, requests are answered, what a peer gives to publish is published, every actor is polled | 6 actors, 8 commands, one message besides the ball and a change of the connection; 130 000 states |
| NodeCommands | `MCNodeCommands.cfg` | **violated**: a command goes out with its sender and its values | as above |
| NodeEvents | `MCNodeEvents.cfg` | **violated**: a message to publish with several fields becomes one event | as above |

### The properties

* `FrontIsHead`: between front and pop no other consumer has popped.
* `NoLostWakeup`: while items wait and consumers sleep, as many as are needed
  are awake or about to be notified.
* `OneToken`: a mailbox is on the work queue once, or held by one thread, or
  Open; `SingleThreaded` follows; `HandlerContext`: `_currentThread` and the
  message of the thread are those of the running handler.
* `NoStrandedMailbox`: a mailbox with a message has somebody who will come: it
  is on the queue, held, or some thread is on its way to registering it.
* `ScheduledIsQueued`, `WorkQueueHasRoom`: the token is not dropped by a work
  queue that is full.
* `NeverEarly`, `OneShotFiresOnce`, `SleepsForEarliest`, `DueFires`, `ExitCompletes`: see
  the comments in `TimerThread`. `ServiceSpec` adds to the first two, and to
  `PeriodicStaysArmed`, which it implies and which is proved, what due times become: a reload begins the
  interval anew, and nothing else than a start or a reload moves one.
* `ConnectedAsks`: a client that is up while `_connected` says so, and has no callback
  running, has asked for both `dst/` topics on the connection it has, although a publish
  may disconnect and connect it between any two steps of the callbacks; it is the most
  the code can promise, since it does not look at the answer. `KeepsTrying`: while `_connected` is set, a client
  that is down is told to connect. `BridgeHears`: what is announced to a ready
  bridge becomes what it believes.

* `SenderKnown`: the sender of any message in a mailbox is in the table of references
  (`sender()` would otherwise be a null pointer in the handler), names out of payloads
  and topics included. `Addressed`: only the bridge has messages for others, and only
  for remote actors. `OneBall`: during a test one ping or pong is in play, and none is
  left in play by one that a peer's ping disturbs.
* `EventsArrive`: each field of a message to publish becomes one event, from which a
  peer reads its sender, name and value; of a nested message, the values behind the last
  message within it. `OneEvent` asks for one event with all fields, as the comments of
  `Bridge.cpp` have it, and fails. `CommandsGo`:
  a message for a remote actor is given to mqtt in the same handler, connected or not,
  under a topic that says for whom and what it is. `CommandsArrive`: the first field
  of each name in the message an actor gets is what the peer wrote under that key, nested
  values included, and nobody is told of a command with a value that is not known.
  `CommandsComplete`: the same for commands on their way out, which fails.
* `RequestsAnswered`: a request with `$SRC` leads to a publish under that address and
  the class with `Reply`. `ExplicitlyPublished`: while the bridge stays connected, each value a
  peer tells it to publish is published under the peer's name, unless the conversion has no
  end. `EveryRefPolled`, `PropertiesPublished`: while the bridge is
  connected, every actor is asked again and again, and its reply is published.

### Bounds

Throughput is 2 instead of 10, so that a batch ends with messages left; the
mailbox has 1 or 15 places and the work queue 1, 2 or 20, so that each is full
in some run and never in another. `MaxTells` bounds the messages: two actors
with three messages (four where the queues have limits) meet every combination of a tell
during each step of handing a mailbox back. `MaxItems` lets two items wait. `MaxEntries` lets each timer be
in the vector once or one of them several times. `MaxLate` is how late the timer
thread may be when it is not napping; without it the clock could run while the
thread stands still. In `Gateway`, `MaxInbox` and `MaxEvents` hold back only the
sources of messages (timers, commands and the network), never a handler or a
callback. In `Node`, `MaxInFlight` is 1: one timer message or command at a time, next
to the ball and a change of the connection, each of which leads to a chain of
messages through up to four mailboxes; one keeps the run with its liveness properties
short. The messages a handler tells are never held back. `MaxCount` stops the counter of the
benchmark, which nothing depends on. `Places` is the one place in which the bridge
comes in front of the cursor, so that the walk under way misses it; at any other place
the walk would find it at once. `Commands` has a request whose
reply the bridge forwards and publishes, a negative number, strings, an unknown value under
the last key of an object, an object in an object between other values, text that is
no JSON, an unknown value by itself, an actor nobody knows and a topic that is too short.
No command sends the bridge into an endless loop: it would handle nothing from then on.
A message without a sender has no topic three parts long and no peer can
read its events; `EventsArrive` says so in its premise.

Deadlock is not checked for `Dispatcher` (when all messages are told the
system is idle) and `TimerThread` (it exits). Everywhere else it is.

### Fairness

Threads keep running, handlers return and the queue's mutex is not withheld for
ever (strong fairness of the lock in `NativeQueue`). A compare-and-swap that is
tried again and again succeeds some time (strong fairness of `IdleCas` and
`CasScheduled`): `compare_exchange_weak` may fail spuriously but the loop
retries. No fairness is assumed of tells, timeouts, starts of timers, commands
or losses. In `TimerThread` the clock ticks. In `Gateway` an attempt to connect
ends, though a subscription may stay without an answer; only `GatewayReconnects` assumes
that a broker asked again and again for a connection answers, to make the point that it
is not asked again. In `Node` every actor gets its
turn (`Turns` is weak fairness of `ActorStep`, written out because TLC would otherwise
compute every handler once more to see whether it is enabled; a bridge whose handler does
not return has no turn, `Rests`), `main()` goes on, and
`END_TEST` fires. The polling timer is strongly fair, because `Room`, which it waits
for, is a bound of the model and comes and goes; the timer of the code waits for
nothing.

## Findings

* **DispatcherSmallQueue** (`Akka.cpp:970`): `registerForExecution` marks the
  mailbox as scheduled before it sends it to the work queue, and ignores that the
  send may fail. With more actors than places (20) on FreeRTOS, a mailbox can be
  marked for ever.
* **GatewayListens** (`Mqtt.cpp:120`): `onConnectionLost` resets `_conn_opts` while
  the mqtt actor may be connecting with it. The connection then comes up without
  callbacks, and nobody subscribes or is told.
* **GatewayReconnects** (`Mqtt.cpp:140`): a failed attempt is not repeated.
* **NodeCommands** (`Bridge.cpp:331`): `fieldCount` tests the tag it is to return, not the
  cursor. It answers one field for every message and leaves the message read to its
  end, so that `msgToJsonCmd` finds nothing: every request and every reply to a remote
  actor is published as `{}`. The run shows one; `CommandIsEmpty` proves it of every
  message, whatever its fields.
* **NodeEvents** (`Bridge.cpp:314`): the comments announce one event with an object for a
  message with several fields; the code publishes each field under a topic of its own.
  The trace shows another thing: `variant.to<JsonObject>()` (250) empties the parent, so that
  an object within an object wipes its elder siblings and takes their place.

The model shows three more, for which there is no run of their own:

* A subscription that cannot start or is refused (`Mqtt.cpp:266`, `158`) is logged, with
  `_connected` already set: the client publishes and receives nothing. This is why
  `ConnectedAsks` claims no more than it does.
* `Connected` is published once per connection (`Mqtt.cpp:104`). If the broker is faster than
  `main()`, the bridge has not subscribed yet and takes itself to be disconnected as long as
  the connection holds. This is why `BridgeHears` begins with a bridge that is ready.
* A boolean is read with `get`, not `getNext` (`Bridge.cpp:241`). `messageToMsg` doubles every
  field of an object with two keys, so that a boolean a peer asks the bridge to publish next to
  another value sends the loop back to the first one for ever, wherever `get` leaves the
  cursor, as long as it searches from the start. This is why `Node` has `looping`, and
  why `Publications` leaves out the commands with which `GoesBack`.

## Proofs

The theorems hold for any number of threads, actors, messages, timers and values,
under the assumptions the modules name (`QueueAssumption`, `DispatcherAssumption`,
`TimerAssumption`, `GatewayAssumption`, `NodeAssumption`), and those about the
benchmark under `PeersLeaveBenchmark`.

* **Queue.** The inductive invariant is the types, that the mutex has one owner
  and which places own it, and `FrontIsHead`; it is needed because the pop removes
  whatever is first. `QueueImplementsFifo` maps every step to a step of `FifoQueue`
  or a stutter. `QueueNoLostWakeup` has an invariant of its own that counts the
  consumers that are awake: it uses that producers and consumers are finite sets.
* **Dispatcher.** Three layers. `Locals`: what the local variables of a thread
  hold at each place. `OneToken`: the Scheduled bit is a token with one owner; a
  thread between `Load` and `CasScheduled` holds a value that the swap checks.
  `HandlerContext` on top of it. `DispatchInvariant` proves these;
  `DispatchSingleThreaded` follows, and `DispatcherImplementsActors`.
* **No stranded mailbox** needs that the work queue has room:
  `HasRoom == ~Bounded \/ Cardinality(Actors) <= WorkQueueSize`, the Linux build or
  at most 20 actors. The argument: on the work queue a mailbox occurs once
  (`OneToken`), so that the queue is no longer than there are actors
  (`DispatchWorkQueueHasRoom`); hence a token is never dropped
  (`DispatchScheduledIsQueued`); hence whoever hands a mailbox back looks at it
  again and either sees the message or another thread is on its way to it
  (`DispatchNoStrandedMailbox`).
* **Timers.** `TimerInv` says who owns the mutex at which place of `run()`, at which
  places the vector cannot be empty, that it is in order unless `m_Sort` is set, and
  that the thread begins a nap for the earliest entry. `NeverEarly` and
  `SleepsForEarliest` follow the due times through `addTimer`, which may move that of an
  entry that is already there. `OneShotFiresOnce` counts entries: the lemmas say that
  `Append` adds one, `Front` takes one and a sorted vector has the entries of the one it
  was made of (a permutation is a bijection of positions). An entry that fires was
  started, so that `pending` never falls below zero. `TimerPeriodicStaysArmed` is the
  action property. `TimerThreadImplementsService` maps the steps to those of `TimerService`:
  `Tick` passes the time, `AddTimer` is the start, `Invoke` the call, `Pop` the return, and
  the others are stutters, `Look` because a sort keeps the number of entries. `NeverEarly`
  and the entry that fires give the call its guard.
* **Connection.** `GatewayTypeCorrect`: which messages are in the two mailboxes, and that a
  handler in the middle of a `Publish` has topics left. `GatewayConnectedAsks` for any
  bounds on messages and topics. Its invariant (`AskInv`) says at which places of the
  callbacks `_conn_opts` is complete, that a connection without callbacks coexists only
  with a cleared `_connected`, that a client that is up has no callback of a loss in
  progress, and which topics have been asked for at each place of `onConnect`. It
  claims nothing of the answers, since nothing in the code depends on them.

* **Loops and conversions** (`ConversionProofs`). A loop is a recursive function on the
  number of steps, and what it returns is proved by the least step that goes wrong
  (`LoopInduction`): the induction theorems of the library take an operator, but that a
  set of natural numbers has a least element takes a set. `FilterRange`, `FilterFirst`,
  `PublishRange`, `PayloadRead`, `TopicRead` say what the loops return; `IncomingSound`, for
  any topic and payload, that what comes in is a message with a reference for its sender
  and its receiver, and that names only become known. `ClassIsCounted` follows
  `fieldCount` through any message, and `CommandIsEmpty` is its consequence.
* **Messages** (`NodeProofs`). `Mail` is the invariant: a message in a mailbox has been
  told, its sender is in the table, its receiver in the table or `NoSender`, it lies where
  `Mailbox` puts it, and a message `mqttPublishRcvd` has the topic and the payload of a
  command. The last part is needed because the bridge converts what it finds in that
  message, and it holds because only the client's thread tells one. `Ring`: the map has every
  actor once and the cursor is on one of them or at the end, so that the actor polled has a
  reference. Every handler is shown to tell only what may be told (`Handles`, one lemma
  per receiver), and `HandlesMail` does the rest once. `NodeSenderKnown` and `NodeAddressed`
  follow, for any conversion of values. `NodeCommandsGo` is the action property: what the
  bridge's receiver for any class tells comes first into mqtt's mailbox, whatever
  the receivers of the class add, and its pair is the command (`CommandFirst`,
  `CommandPair`).
* **Benchmark** (`BenchmarkProofs`). `Game` strengthens `OneBall`: a ball is a pong for
  `sender` or a ping for `echo` with a counter that `get` finds, there is no second one in
  either mailbox, and a test that waits to be started is the only one and finds no ball
  in play. Two kinds of steps keep it. `Rally`: a player takes the only ball, or the start,
  and puts one into the other's mailbox. All others move no ball and tell what is
  `Quiet`; `ShiftedGame` says that the game does not depend on where other messages are. That
  commands are quiet is `PeersLeaveBenchmark`, through what `Incoming` makes of a name.
  `NodeTypeCorrect` needs the game as well: the sender takes the counter from the pong.

Model-checked only:

* everything under fairness (`FifoLiveSpec`, `ActorsLiveSpec`, `DueFires`, `ExitCompletes`,
  `KeepsTrying`, `BridgeHears`, `RequestsAnswered`, `ExplicitlyPublished`, `EveryRefPolled`,
  `PropertiesPublished`), which is out of this prover's reach;
* `EventsArrive` and `CommandsArrive`: what a nested object becomes is a recursion over
  data, which would need an induction that the provers cannot instantiate, and the
  RECURSIVE operators of `JsonValues` rule out the SMT backend.

## Not modelled

* Formatting, logging, the bytes of messages (`Xdr`, `Uid` and `Config` are in another
  repository; their use is modelled).
* Data races inside containers (`_actorRefs`, the list of the event bus, the message a
  timer copies), whose outcomes cannot be enumerated.
* `cancel` of timers and `unsubscribe`, which do nothing; the receive timeout, which
  nothing reads; suspension and closing of mailboxes, which nothing calls.
* The timers of FreeRTOS, whose service is the system's, and the interrupt path,
  which is FreeRTOS only and has no caller.
* `NeuralPid`, `Machinelearning`, `Metric`, `Hash`: floating point and pure functions,
  without a state the actor system shares. `WiringPi`: input and output of a Raspberry
  Pi, compiled on request.

## Plan

The modules of the first plan are there; what is left, in this order:

1. The round trip of payloads without objects, for which `xdrTagToJson` and `jsonToXdr`
   do not recurse: `EventsArrive` for such fields, as a theorem with the two conversions of
   a plain value as its hypothesis.
2. A larger `Node`: two messages at once, for a request that overtakes a poll; the eight
   commands are too many for that.
3. The timers of FreeRTOS: software timers behind `TimerService`, as far as this
   repository's use of them goes.
