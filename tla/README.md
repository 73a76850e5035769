# Verification of ak_v3_driver

TLA+ models of the `ak_v3_driver` ROS 2 node (one process per AK-V3 motor on a
SocketCAN bus), TLC configurations that check them on small instances, and
TLAPS proofs that hold for every instance. Paths below are relative to the
repository.

## The system

One process owns one motor. Two threads share the object `MotorDriverNode`:
the executor (`rclcpp::spin()`, single-threaded: callbacks never overlap) and
the RX thread.

```
 ~/cmd ----> history (5) --+
 ~/set_origin              |  executor thread
 ~/set_feedback_config  ---+--> callback --> send() --> kernel TX queue --> bus --> motor
 ~/disable                 |        \ resets
                           |   last_extended_position_deg_
 ~/state, ~/diagnostics <--+-- drain timer, 200 Hz  <== status_queue_, ext_position_queue_
                                                    (rx_queue_mutex_)    ^
                              RX thread: receive() --> filter, decode ---+ <-- socket <-- bus <-- motor
```

| component | source | state | operations |
|---|---|---|---|
| RX thread | `motor_driver_node.cpp` `rxThreadMain` | `rx_thread_running_`, the two shared queues | poll/receive, decode, push under the lock |
| drain and publication | `drainRxQueueAndPublish` | locals swapped out of the queues, `last_extended_position_deg_` | swap under the lock, cache, publish state and diagnostics |
| receive filter | `can_socket.cpp` `receive`, `protocol.cpp` decoders | none | refuse error, base-format, remote and short frames, other identifiers |
| commands | `onCommand`, `protocol.cpp` packers, unit conversions | parameters `invert_direction_`, `motor_spec_`, `mit_limits_` | convert, pack, send, drop on failure |
| services | `onSetOrigin`, `onSetFeedbackConfig`, `onDisable` | the cached extended position | pack, send, respond, reset the cache |
| transmission | `CanSocket::send` | the kernel's queue | all-or-nothing write |
| motor models | `motor_limits.cpp` | constant table | lookup |
| life cycle | `motor_driver_node_main.cpp`, constructors, destructors | descriptor, thread, timer, ROS context | start step by step, spin, stop, join, unwind |
| fault codes | `protocol.cpp` `faultCodeToString` | constant table | lookup |
| launch file | `launch/`, `config/` | one process per motor on one interface | start the nodes |
| message, build and test files | `msg/`, `srv/`, `CMakeLists.txt`, `test/` | none | not behaviour of their own |

What is hard here, and what makes each part correct:

* **Two threads, two queues, one lock.** Status frames must come out once, in
  order, whatever the interleaving; both queues must be cut at one moment,
  because a status frame is published with the extended position of the same
  drain.
* **A cache with two writers.** The drain sets the extended position, the
  service resets it; readings in flight between the two are the trap.
* **Numbers.** Fixed-point scaling, widths, sign and endianness decide what the
  motor does; errors appear only for some models, one direction or the ends of
  a range.
* **Queues that overtake each other.** A disable request does not go through
  the queue of commands; writes fail when the transmit queue is full.
* **The motor answers late.** What a service changes in the motor (its zero, the
  0x2A frames, coasting) comes back through frames that were measured before;
  what is queued, cached or lost in between decides what is published. The node
  may also be stopped and started while the motor keeps all of it.
* **Neighbours.** Several processes share an interface: each reads everything
  and its writes compete with the others' for one queue.
* **Start and stop.** Every constructor step may throw, a SIGINT may come at any
  point, and a running thread must never outlive what it uses.

`PROJECT.json` lists each such hazard at its line with the properties that
cover it.

## Modules

| module | models | correspondence |
|---|---|---|
| `CanFrames` | identifiers, receive filter, acceptance tests | a raw frame is a record of flags, identifier, length and fault byte; `Surfaced` is `receive()` returning true |
| `RxPipeline` | RX thread, queues, drain, cache, destructor | `rx` and `exec` are the control points of the two threads; one action per lock, swap, push, loop iteration; a reading is the rank (stamp) of its frame on the bus |
| `FeedbackStream` | what the feedback path promises | two sequences: accepted and delivered |
| `WireFormat` | `protocol.cpp`: octets, signed decoding, `floatToUint`, `packMit`, service frames | byte sequences; `>>` is `\div`, a cast is `%` |
| `MotorModels` | `motor_limits.cpp` | limits in tenths; pole pairs times gear ratio |
| `CommandLoop` | `onCommand()` to motor to `~/state` | integers in fixed units; one turn at a time; the motor is ideal |
| `CommandPath` | `~/cmd` history, services, `send()`, transmit queue, motor, restarts of the node | a callback is one action, because the thread is the only writer of what it touches; which ready callback is next is open; `NodeRestarts` empties what the process held and leaves the kernel's queue and the motor alone |
| `Actuator` | what `CommandPath` promises its clients | no queues and no frames: the motor hears newer commands, and each call answered with success once; `spare` is how many stale commands it may yet obey |
| `DriverSystem` | one node and one motor as a closed loop: `CommandPath` by `INSTANCE`, feedback, cache, `~/state`, `~/diagnostics` | the RX thread and both queues are one sequence `incoming` (that a drain is a clean cut of it is what `RxPipeline` shows); `MakeState` is the body of the publishing loop with the table of fault texts |
| `SharedBus` | several nodes, one interface, every socket | a node is its `can_id`; a frame carries who sent it and as which of its frames, for the properties only |
| `Lifecycle` | `main()`, constructors, unwinding, destructor, RX loop | `pc` walks the statements of the constructor; `fd`, `timer`, `rx`, `running` are what it has made |
| `MC*` | instances for TLC | traffic, commands, requests, parameters |
| `RxPipelineProofs`, `RxOrderProofs`, `WireFormatProofs`, `CommandLoopProofs`, `CommandPathProofs`, `DriverSystemProofs`, `SharedBusProofs`, `LifecycleProofs` | proofs | see below |

`RxPipeline`, `CommandPath`, `CommandLoop` and `SharedBus` take identifiers,
packers and acceptance tests from `CanFrames` and `WireFormat`. `DriverSystem`
implements `CommandPath`: `ImplementsPath` checks `Path!Spec` with `reading`
("a 0x2A frame is under way") and `cached` read off the feedback path, so the
properties of the actuation path carry over to the closed loop.

Comments that begin with *Mutant* mark altered copies of a definition. They are
never part of a specification: they show, one by one, that a property of a run
fails when the code is changed in that way.

External parts are modelled from how the code uses them: the bus, the kernel's
buffers (a receive buffer that drops when full, a transmit queue that refuses
when full), the motor, clients, rclcpp's signal handler.

## Runs

| run | bounds | shows |
|---|---|---|
| `rx_feedback` | 3 frames of 11 kinds, failed reads among them, buffer of 2, 1 service call | `OnlyOwnFeedback` (short, remote, error, base-format and foreign frames stay out), `LocalsFresh`, `StreamConserved`, `CleanCut`, `NoClobber`, `ClearedNotReused`, `UntouchedAfterJoin`, `ReceivedIsPublished`, `ShutdownCompletes`, and that the pipeline implements `FeedbackStream` |
| `rx_fallback` | 3 frames, 1 call | *violated*: see Disagreements 1 |
| `loop_values` | six models, both directions, all modes, either outcome of a cast | `OwnMotorOnly`, `FollowsCommand`, `ProfileAsRequested`, `ExtendedScaled`, `MitFieldsExact` |
| `loop_ext_unit` | one turn, a motor that counts in 0.0001 degree | *violated*: Disagreements 5 |
| `loop_mit_extremes` | both ends of every MIT field | *violated*: Disagreements 2 |
| `path_commands` | 2 commands, history 1, transmit queue 1, 2 requests, 1 restart | `StaleBounded`, `FlashAccounted`, `CommandsInOrder`, `SuccessIsHeard`, `NewestHandled`, `EnableTakesEffect`, `ImplementsActuator` |
| `sys_positions` | 2 requests of 3 kinds, writes that may fail, 1 restart, 2 frames under way | `ZeroNeverReturns`, `OriginShows`, `SourceFollowsMotor`, `ImplementsPath` |
| `sys_faults` | 1 command (may be lost), 1 request, faults that come and go, 2 frames under way | `FaultFollowed` |
| `sys_disable_echo` | no fault at all, a call to `~/disable` | *violated*: Disagreements 4 |
| `bus_shared` | nodes 1 and 4, 2 modes, 2 frames each way, queue and buffers of 2 | `LastSentWins`, `OwnMotorHeard` |
| `life_cycle` | 40 parameter sets, 4 faults each | `NoHalfInitialized`, `RxWithinSocketLife`, `OrderlyExit`, `BadConfigurationExits`, `InterruptEnds` |
| `life_failed_start` | the valid identifier, all types, all faults | *violated*: Disagreements 3 |

Each module has one type invariant, `TypeOK`; in `RxPipeline` it includes the
lock discipline.

Why the bounds are enough. Every safety property but the filter's is also
proved for every size (below), so the runs serve to show that these properties
can be broken and that nothing was proved about the wrong thing; liveness and
the disagreements rest on the runs alone. In `RxPipeline` three frames let a status frame
and an extended position meet in a batch with a third on its way; one call lies
before, between or after any two steps; each kind of frame the socket may
deliver occurs at every place. Stamps stand for payloads because no step of the
path looks at one, except at the fault code for the diagnostic level.
`CommandLoop` tries both signs, zero, the smallest step, byte boundaries and
values beyond the limits of every quantity. In
`CommandPath` one more command than the history holds makes it drop, and a
transmit queue of one refuses a second frame; two requests give every
overtaking (that two requests of one service keep their order in a longer queue
is left to the proof of `PathImplementsActuator`). In `DriverSystem` two zeroings, or a zeroing between an enable and a
disable, meet a buffer that is already full; one restart separates two lives of
the node. The two identifiers of `bus_shared` are themselves mode numbers, the
case in which exchanged bytes of an identifier would pass unnoticed elsewhere.
What neighbours send, commands included, is `bus_shared`'s part. `RcvBuf`, `MaxFrames`, `MaxRequests`, `MaxCommands`, `MaxRestarts`, `CmdDepth`
and `TxDepth` are the only bounds. The systems of `CommandPath` and `SharedBus`
stop when commands, requests or frames are used up, so deadlock is not checked
there; everywhere else it is, with an explicit step for the ended process.

No message is ever in transit in `CommandPath`: `PublishCommand` is the moment a
command reaches the subscription's history or is lost on the way, and a request
and its call are one moment too. ROS orders nothing between a topic and a
service, so a command published before a request may still reach the node after
it. `StaleBounded` counts the commands that had *reached the node* when the
request was made; one that was still in the middleware is handled as a new
command, with no bound, and the promise of `Actuator` is to be read the same way.

Arithmetic. `floatToUint` was compared with the compiled code for velocity,
torque, kp and kd of every model on grids of 0.1, 0.1, 1 and 0.01: the integer
formula agrees at every point. For the position (0.01 rad) it agrees but for six
interior points that differ by one code, within the tolerance of
`MitFieldsExact`; the flag `down` of a field records that its float product
falls below an exact integer.

Duty and current are multiplied by the counts of their field and cast to
`int32_t`. The product may come out just below the count, and the cast then
drops it: braking current 4.002 A is sent as 4001 mA. `ToInt32` leaves open
which of the two it is (`low`), for every value. Compiled, the packing of every
count below 2^23 (`Exact`) was found to be the count or the one nearer zero; of
the 16.7 million currents 188760 lose one, of the duty cycles 1.37 million.
`FollowsCommand` asks for duty and braking current to one count, no more; from
2^23 counts on (8.4 kA, and a duty of 84) floats no longer tell counts apart and
it asks for nothing.

Degrees and ERPM are results of float conversions. Compared with the compiled
code, a position differs from the model's by 5 counts of 0.0001 degree at most up
to 40 rad and by 385 (0.04 degree) at the end of int32, a velocity by one ERPM, an
acceleration by one count of the wire. All of it is less than the tolerance of one
unit of the model (0.57 degree; 0.1 rad/s) and one count of the wire.

### Fairness

`rx_feedback` assumes that both threads keep running, and that a thread waiting
for `rx_queue_mutex_` gets it if it is free again and again (strong fairness of
the two lock steps): the executor holds it for two swaps every 5 ms and the RX
thread for one `push_back` per frame, so neither can starve the other in
practice, while weak fairness would not say so. The drain has weak fairness
because rclcpp collects ready entities into a wait set and works it off, timers
first, before it collects the next. The bus, clients, SIGINT and exceptions out
of `spin()` owe nothing. `path_commands` adds assumptions on the hardware: the
bus carries what is queued and a motor configured to send 0x2A frames sends
them. The first of them is strong: `write()` succeeds when the kernel takes a
frame, and a controller that goes bus-off after that loses it without the node
noticing. `SuccessIsHeard` and the service's promise assume this away; no property
here covers it, and `PROJECT.json` lists the hazard as uncovered. `DriverSystem` has the same assumptions; its motor sends status and
extended frames with strong fairness, since a periodic frame may find the
receive buffer full now and then but not for ever. Faults, clients, failed
writes and restarts owe nothing. `life_cycle` needs only that both threads run.

## Proofs

Each theorem holds for every value of the constants that satisfies the named
assumptions of its module.

`RxPipelineProofs` proves `TypeOK` inductive by itself (`TypeCorrect`): the lock
discipline needs no strengthening, since each critical section is entered with
the mutex free and left with it released. Used are `BusFramesAssumption`,
`BoundsAssumption` and `CanIdAssumption`. `JoinedBeforeDestroyed` follows from
one more invariant, `Joined`: past the join the RX thread has returned.

It also proves, for every traffic, buffer size and number of frames:

* `LocalsAreFresh`: `TypeOK /\ LocalsFresh` is inductive. It is what makes a
  swap a move: the deque handed back to the RX thread is empty.
* `StreamIsConserved`: `accepted = Delivered \o statuses \o status_queue \o
  InHand`. The inductive invariant `StreamInv` adds `TypeOK` and `LocalsFresh`;
  without the latter the swap step would put published frames back in front of
  queued ones. Each step moves one frame across one border of that
  concatenation or a whole queue into an empty place.
* `Implementation`: `Spec => Stream!Spec`. Under `StreamInv` an accepting read
  is `Accept`, a round of the publishing loop is `Deliver` (the next undelivered
  frame is the head of `statuses`), every other step stutters.

`RxOrderProofs` proves `CleanCut`, `NoClobber` and `ClearedNotReused` from
`OrderInv`, on top of `StreamInv`. A frame is at one of three places: gone
through (`Done`), in the hands of a thread (`Hand`), waiting in a queue
(`Waiting`). `FlowInv` says that every stamp of a later place is greater than
every stamp of an earlier one; it makes the two swaps one cut, because between
them the status queue is empty and the lock is held. `CacheInv` says of the
extended positions that have yet to reach the cache that they ascend and lie
above whatever has been cached or reset; without it the cache could go back
when the service has reset it.

`WireFormatProofs` has the facts on encodings: `Int16RoundTrip`,
`Int32RoundTrip`, `MitRoundTrip` (five codes that fit their fields come out of
an MIT frame as they went in) and `Quantised` (`floatToUint` for every range,
width and value). `CommandLoopProofs` rests on them. `LoopInv` keeps, beside
`TypeOK`, the identifier of the frame sent, and in MIT mode that the motor reads
what was packed: padding leaves the eight octets alone. From it follow
`LoopTyped`, `CommandsStayHome` and `FieldsExact`, for every set of
`MotorCommand` messages (`CommandsAssumption`), every driver id, motor type and
direction, and every unit of the 0x2A frame (`UnitAssumption`). `LoopTyped` is
not by shape: a code of 4096 spills out of its field (Disagreements 2), and the
lemma `JoinedByte` is why it never spills out of its octet.

How near a published value comes to the commanded one needs a second
invariant, `TurnInv`: the payload sent is the one packed for the message, what
the motor executes is read from it, what it reports and what is published are
functions of that, and a value is cached only if the motor sends 0x2A frames
(`AbsentAssumption`: a missing value is neither a number nor a payload). With it
`CommandIsFollowed`, `ProfileRuns` and `ExtendedIsScaled` are arithmetic:

* a quantity that fits its field comes out of it as it went in (`WordSays`,
  `CountFits`, `CountSays`, for sums of them `StatusSays` and `ProfileSays`);
* scaled, truncated, counted and scaled back, it loses one unit at most provided
  a count is finer than a unit (`Echo`, by the floor laws `DivLaw`): 0.1 and 0.01
  degree are finer than 0.01 rad, and ten ERPM are finer than 0.1 rad/s for every
  motor of the table (`ErpmFine`);
* a count that a cast has lowered by one is still the command's to one count
  (`CastUpTo`), or to the ten of the status frame (`CastTens`), and still fits
  its word (`ExactIsWord`);
* truncation is odd, so that the direction may be applied before or after
  (`SignFlips`, `SignNear`);
* scaled by one unit and back by another, a position is that many times as large
  (`QuotientLaw`, `QuotientBetween`, `ScaledNat`).

None of the three assumes anything of the unit in which the motor counts a 0x2A
position: `ExtUnit` is any positive number. What "fits" means is part of the
properties (`Fits`, `Reaches`, `Counted`, `Exact`, `Word`), not of the theorems,
and is as wide as the fields: velocity and current up to 32767 counts, an
extended position to the end of int32. That a commanded position comes back is
claimed of a position from a 0x2A frame only where motor and decoder agree on
the count (`Reaches`), since it is false where they do not (Disagreements 5);
positions from the status frame need no such premise. `ExtendedIsScaled` says
what happens for every unit: a position published from a 0x2A frame is 100 over
`ExtUnit` times the motor's own, also after a command that wraps in its field.
The claim that it is the motor's position is `ExtendedPositionTrue`, and the run
`loop_ext_unit` refutes it for the documented unit.

`CommandPathProofs` is about the actuation path with any depths, requests and
commands (`DepthAssumption`, `RequestsAssumption`; `RanksFitAssumption` lets a
command's rank travel in the payload):

* `PathTyped` and `HeardInOrder` from `PathInv`: ranks ascend from what the
  motor has heard through the transmit queue and what has been handled to the
  history, and a restart only removes from the chain.
* `FlashIsAccounted` from `FlashInv`: writes made plus writes queued equal the
  calls that succeeded and asked for one; each step moves an element of one
  finite set to another.
* `StaleIsBounded` from `StaleInv`. The bound speaks of what happens after the
  motor coasts, so the invariant looks ahead: for every disabling frame in the
  transmit queue, the commands older than its request that are behind it or
  still in the history are at most `CmdDepth`. The write of the frame
  establishes it, since nothing is behind it yet and the history is bounded;
  a command that is written moves from one part of the set to the other.
* `PathImplementsActuator`: `Spec => Service!Spec`. The write of a frame is
  `Answer`, a frame read by the motor is `Drive` or `Hear`, a restart is `Lose`;
  taking a command from the history and everything about feedback stutters. The
  mapping reads `heard`, `since` and `spare` off `history`, which records what
  the motor was told. `PromiseInv` ties the transmit queue to the calls: a
  request in it belongs to a call that was answered with success and has not
  been heard, its frame says what that call asked for, and calls of one service
  are answered and queued in order; conversely each such call is in the queue.
  That the frame says it is a fact on octets (`OriginSays`, `ConfigAdds`), and
  that `Drive` has a stale command to spare is `StaleIsBounded`.

`DriverSystemProofs` is about the closed loop, for every buffer, set of faults
and number of calls (`FaultsAssumption`, `PathAssumption`, which restates what
`CommandPath` assumes):

* `SystemTyped` and `ZeroStays` from `OrderInv`: zero counts ascend from the
  published state through whichever source comes next, the cache if it holds a
  value and the batch if it does not, and through the arriving frames to the
  motor's own. The two sources make the case distinction necessary: a cached
  position may be newer than the batch, so that falling back to the batch would
  be a step back, and it is only sound because the cache is emptied between
  drains, when no batch is left. The batch splits by kind through a recursive
  function; that its result keeps the order (`OfKindSifts`) is proved by
  induction, with a least counterexample in place of the library's rule, which
  takes an operator.
* `SystemImplementsPath`: `Spec => Path!Spec`. A step of services, commands, bus
  or restarts is that step of `CommandPath`; a drain or the arrival of a frame
  is its `DrainCaches` or `MotorSendsExt` when a flag changes, and
  a stutter otherwise.
* `SystemStaleBounded`, `SystemFlashAccounted`, `SystemCommandsInOrder` and
  `SystemImplementsActuator`: what is proved of `CommandPath` carries over, by an
  instance of `CommandPathProofs`.

`SharedBusProofs` proves `BusTyped`, `NodesKeepTheirMotors` (`TxInv`: the queued
frames of a node carry the counts after the one its motor obeyed, without a
gap) and `NodesHearTheirMotors` (`SockInv`: what waits in a socket and would be
accepted comes from the node's own motor and ascends), for every set of driver
ids, every depth and every use of the modes. They rest on identifiers of
different functions being different, whatever the ids.

`LifecycleProofs` proves `LifecycleTyped`, `SpinsComplete`, `ThreadWithinSocket`
and `ExitsOrderly` from one invariant: what the constructor has made at each
`pc` (`Constructed`), where the thread may be (`ThreadLife`), and what is left
(`Remains`). It holds for any sets of parameter values with `Unset` different
from the exit codes (`UnsetAssumption`).

Only model-checked: the receive filter (`OnlyOwnFeedback`), because a theorem
would have to assume of the traffic what the filter tests, that nobody else
sends whole data frames with the motor's identifiers (what follows when several
nodes do share a bus is `NodesHearTheirMotors`); and every liveness property
(fairness and `ENABLED` are out of the prover's reach).

## Disagreements between code and documents

1. *Stale extended position* (`rx_fallback`). `README.md:267` promises that
   disabling the 0x2A frame falls back to the status position. A reading that is
   still in `ext_position_queue_` or in the socket when
   `onSetFeedbackConfig()` resets the cache is cached again by the next drain,
   and no later frame replaces it. Every state published from then on carries
   that position with `extended_position_valid = true`.
2. *MIT fields at the top of a range* (`loop_mit_extremes`).
   `test_protocol.cpp:167` asks for codes 0 and maximum at the extremes, and the
   README for saturation; `floatToUint` yields 4096 for a 12-bit field, which
   wraps to 0 on the wire. The test only looks at the position, whose scale
   happens to be rounded down.
3. *A failed start that aborts* (`life_failed_start`). `README.md:167` promises
   a FATAL log and status 1. If the constructor throws after it has started the
   RX thread, `~thread()` of the joinable member terminates the process. The
   throw needs a SIGINT between two statements (lines 131 and 136).
4. *A false alarm after `~/disable`* (`sys_disable_echo`). `README.md:356` says
   that the status frame only ever reports codes 0 to 7 and `MotorState.msg:16`
   that 0 is no fault. By `protocol.cpp:211` the motor confirms `~/disable` by
   0x77 in that byte, which the node takes for a fault code: a motor without a
   fault is published with `error_code` 119, text "unknown" and an ERROR on
   `~/diagnostics`.
5. *The unit of the 0x2A position* (`loop_ext_unit`). `README.md:353` and
   `protocol.hpp:81` have the motor count it in 0.0001 degree; the decoder
   multiplies by 0.01 (`protocol.cpp:319`, as `test_protocol.cpp:215` expects). A
   motor that counts as documented is published a hundred times as far from its
   zero as it is. `protocol.hpp:81` also names a range that is that of 0.01, so
   which side is wrong cannot be told from the repository.

Seen, without a run: `config/motor.yaml:16` offers five AKE and AKH motor types that the table
lacks, and the node refuses to start with them; the README (line 346) and a
comment in `protocol.cpp:250` have values beyond an MIT range noticed in the
ROS log, but nothing on that path logs; `test_protocol.cpp:268` expects
placeholder pole pairs and gear ratios of 1.0 which the table no longer has;
comments in `motor_limits.hpp` and `motor.yaml` say the same.

## Not modelled

NaN, infinities and commands beyond int32 (the casts in the packers are then
undefined, and the units of the model stop well before), and duty and current
from 2^23 counts on; messages in transit between clients and node; frames lost
after the kernel has taken them; joint names, headers,
temperature and torque estimates, which are passed through; `isStartupFrame` and
`uintToFloat`, which only tests call; `kv` and the torque coefficient of the
motor table, which no modelled property reads; real time (queue growth while the
executor is blocked, the 50 ms poll, the 5 ms timer); a motor that disobeys;
logging and its throttling.

## Plan

Done: feedback path, filter, wire format and command loop, actuation path with
restarts and what it promises its clients, closed loop with its motor, several
nodes on one bus, life cycle; their safety properties proved, the filter
excepted, and the two refinements composed (`DriverSystem` implements
`CommandPath`, which implements `Actuator`). Left: the nodes of `SharedBus` as
one private link each, which is what `CommandPath` takes for granted when it
gives a node a transmit queue of its own.
