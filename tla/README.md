# Formal models of the LiDAR middleware

This directory holds TLA+ models of the C++ middleware in `src/`, the TLC runs
that check them on small instances, and TLAPS proofs of the most important
results for every value of the constants. `PROJECT.json` lists the runs, the
mutants that show that each property can fail, the theorems, and for every
definition the lines of code it models.

## 1. The system

A vehicle has one or two SICK LiDARs. A **source** talks to one of them through
the vendor library and queues its scans. The **service** process polls the
source, **records** each scan (an append-only log and an SQLite index) and
**publishes** it over ZeroMQ. A second process, the **query server**, reads the
same recording while it grows and answers requests over REQ/REP, so that a
client which missed the live stream can ask. A shell script supervises both
processes. Beside this stand the **executor**, which runs a set of nodes in one
thread, and the **loopback bearer**, a simulated acoustic channel.

| Component | State | Operations | What makes it hard | Modules |
|---|---|---|---|---|
| Recording (`recorder.cpp`) | log bytes, index rows, stream state, `scan_count` | open, `record()`, `count()`, close | a write and an INSERT that can each fail, or the process die between them | `ScanStore`, `ScanRecorder` |
| Reading (`reader.cpp`) | three prepared statements, the WAL snapshot they keep, `ifstream` state | `count`, `get`, `find_by_time_range` | a recorder that commits between any two steps; state that outlives a call | `ScanReader` |
| Executor (`executor.cpp`, `node.hpp`) | phase, nodes, schedule, reports | `add`, `configure_all`, `start_all`, `step`, `stop_all`, destructor | nodes that throw anywhere, retries, clocks that jump | `NodeContract`, `Executor` |
| Queries (`query_client.cpp`, `query_server.cpp`, REQ/REP of `transport.cpp`) | sockets and what they are owed, `ok()`, `served()` | `latest`, `range`, `recent`, `serve_one` | timeouts racing answers, lost messages, restarts | `QueryService` |
| Sensor sources (`sick_scan_source.cpp`, `sick_cloud_source.cpp`) | registry, queue, last stamp | construct, destroy, poll, driver callback | driver threads racing destruction, reused handles | `SensorSource` |
| Acoustic bearer (`acoustic_loopback.cpp`) | fake clock, channel, frames in flight | `offer`, `advance`, `drain` | rounding and boundary times | `LoopbackBearer` |
| Service (`scan_publisher_recorder_main.cpp`) | connection, attempt, SIGINT handler, timeout count | connect, poll, record, reconnect, stop | hanging attempts, a handler that is taken away | `Watchdog` |
| Start script (`start_lidar_service.sh`, `_2.sh`) | supervisors, their children, traps, what is ignored | start, supervise, restart, clean up | Ctrl+C between any two commands, children that die at any moment | `Service` |
| Publish/subscribe (PUB/SUB of `transport.cpp`, `publisher.cpp`, `subscriber.cpp`, the cloud ones, `message.cpp`, `mw_sub.cpp`) | queues, half-sent messages, sequence numbers, `dropped()` | publish, receive, poll | failures between two frames, full queues, late subscribers, restarts | `LossyStream`, `PubSub` |
| Messages (`scan_codec.cpp`, `cloud_codec.cpp`, `message.cpp`, the generated protobuf classes) | one message object per direction and process | encode, decode, stamp, peek, serialise, parse, clear | reused objects, messages that end half way, other schema versions | `Protobuf`, `Messages`, `MessageCodec` |
| Reply framing (`query_wire.cpp`) | position in the reply | encode, `decode_next` | replies cut at any place | `MessageCodec` |
| Programs around it (`apps/`: publishers, recorders, watchers, query and dump tools) | a hand, a message object, counters | take, record, publish, watch, ask | one of two outputs failing; foreign messages on the topic | `DataPath` |
| Live monitor, clock and version helpers, schemas, build files, vendored code | see section 8 | | | partly or not modelled |

Interactions: the service owns a source, a recorder and a publisher; the query
server and the monitor own readers of the files the recorder writes; clients
and server share only messages; a source and the driver's threads share the
registry and the queue, each under its mutex; the executor calls into nodes;
the start script forks the supervisors, which fork the service and the query
server, and all of them get the terminal's Ctrl+C at once.

## 2. Modules and their correspondence to the code

**`ScanStore`** is the abstract specification of a recording: a sequence of
stored scans that only grows, of which a power failure may make some unreadable.

**`ScanRecorder`** models the log as a sequence of cells (a length prefix or a
payload unit per cell), so that a torn record, an orphan and an overwritten tail
are visible, and the index as a sequence of rows. `record()` is the actions
`BeginRecord` (serialise, take the offset), `WriteCell`/`WriteFails`, `InsertRow`
/`InsertFails`, `ReturnFromRecord`. `Crash` kills the process anywhere; `PowerLoss`
additionally takes log bytes the file system had not written yet. `Open` takes the
count from the index, or goes on from 0 when its COUNT does not return a row, which
the constructor ignores; the history variable `uncounted` remembers what that left
out. `Read` is
`read_record()`. `ImplementsStore` states that reading every row of the index
back out of the log implements `ScanStore`.

**`ScanReader`** extends it with a reader: `View` is what `sqlite3_reset` and
`sqlite3_step` see given the statements of the connection that are still on a
row, `CountAny`, `CountNewest`, `GetBound`, `GetFetch`, `RangeSelect`, `Load` and
`LoadAnchor` are the steps of `count`, `get`, `find_by_time_range` and
`read_record` in the orders in which the server's handler, the monitor and a
plain caller run them. The recorder takes steps between any two of them. Two history
variables say what there was when a request was taken up: `began`, the rows committed,
and `seen`, those of them the connection's snapshot lets it see. Readers never see the
recorder's count, so beside one only the opening whose COUNT works is taken.

**`NodeContract`** is what `node.hpp:59-68` promises a node. It counts every callback,
so that one made twice is a step and not a stutter: while nothing has thrown,
`configure()`, `start()` and `stop()` come once each, as the header says; each
`configure_all()` or `start_all()` that failed because some node threw allows one
more. **`Executor`** has one action that begins each call, one for each callback into a
node (which returns or throws), and one that returns; it keeps the counts the contract
asks about as history variables. `KeepsNodeContract` is the refinement, for each node.

**`QueryService`** has the clients (`Call`, `TimesOut`, `Answered`), the network
(`Transmit`, `Lose`) and the server (`Start`, `Receive`, `Answer`, `Throws`,
`Killed`). A reply carries the request it answers, which the code's replies do
not: it is what lets a property say whose answer it is. RECENT leaves the reader
as LATEST does and stands under that name; what a reply looks like on the wire
is in `MessageCodec`.

**`SensorSource`** models both source classes, whose control is line for line
the same: constructor and destructor as the sequence of driver calls, the
callback as lookup, conversion and enqueue in separate steps because no lock is
held across them. That `SickScanApiDeregisterPolarPointCloudMsg` returns only
when no callback for the handle runs is the vendor's contract, assumed by the
comment at `sick_scan_source.cpp:141-144` and modelled as `Quiesced`. Given it,
the lookup's "already torn down" branch is never taken.

**`LoopbackBearer`** follows `offer()` in its order of checks; time is an
integer that `advance()` moves.

**`Watchdog`** has the main thread's steps, the thread in which a connection is
attempted, the link, and the user's Ctrl+C. Who owns SIGINT is a variable.
**`Service`** extends it to everything the start script runs: the script command
by command (`ForkSupervisor`, `NoteSupervisor`, `SleepTwo`, `WaitForBoth`,
`RunTrap`, `FinalWait`), each supervisor's loop (fork, note the pid, wait,
sleep, its own trap), a child between fork and exec, in which it still ignores
SIGINT, the query server as a process that is there or not, and the publisher as
`Watchdog`'s `MainStep`. `PressCtrlC` reaches all of them in one step, and each
reacts to it in its own time. A program dies whenever it likes (`Die`).

**`LossyStream`** is the abstract specification of the live path: a subscriber
sees part of what was published, in order. **`PubSub`** models both sockets frame
by frame: `publish()` is `Publish`, `PublishHalf` (the topic's frame is sent, the
body's is not, and the next sample is glued to it) or `PublishFails`; `receive()`
with the poll on top of it is `PollAccept`, `PollReject`, `PollLeftover` or
`PollThrows`. `Connect`, `Disconnect`, `Transmit` and the discarding of `Recipients`
are ZeroMQ's. What a subscriber does with an accepted sample is the gap detection
of `mw_sub`. `ImplementsStream` is the refinement.

**`Protobuf`** says what generated classes do for any message type: bytes are the
sequence of fields they hold, a parse takes known fields of the right wire type,
keeps unknown ones, merges submessages, lets the last of a repeated scalar win
and leaves what it read so far when the bytes end half way. **`Messages`**
instantiates it for the schemas' types, method by method of the generated code
(`Clear`, `MergeFrom`, `ByteSizeLong`, serialise, parse, accessors). The operators of
`Protobuf` that take what to do with a submessage as a parameter (`ReadInto`, `Write`,
`Readable`, `Kept`) appear in the map through the methods that use them.
**`MessageCodec`** has the conversions between these messages and the program's
structures, `stamp`, `peek_header`, and the reply framing. **`DataPath`** runs
all of it: one of seven programs takes samples, records and publishes them with
one reused message object; a typed subscriber, `mw_sub`, or a query watches,
beside messages of other builds and of none.

MC modules give constants their values; a module that needs none is run itself.

## 3. The runs

| Run | Instance | What it shows |
|---|---|---|
| `recorder` | 3 scans of 1, 1 and 2 payload cells, disk of 7 cells, power may fail | rows readable, count off by nothing but what a failed COUNT left out, acknowledged scans indexed, `ScanStore` implemented |
| `reader` | a recorder of 3 scans of a cell each, disk of 6 cells, power may fail, beside a reader; stamps out of recording order, a window that holds two | exact replies from one snapshot, intact recordings always served, `get` never shifted by damaged records, RECENT anchored in what the connection could see |
| `executor` | 3 nodes with periods 2, 0, 3; 3 steps at times that jump; 2 calls of `configure()` or `start()` that throw | node contract, its "once" literal until one throws, lifecycle order, schedule accounting |
| `query` | 2 clients (symmetric), 2 calls each, 1 scan, 2 server starts | own answers only, clean next call, meaning of `ok()` |
| `source` | 2 objects, 2 handles, 2 driver threads, 2 clouds each, capacity 1 | no use after free, routing, newest-wins queue, plausible scan times, teardown ends |
| `bearer` | frames below, at and above the limit, rates that do not divide | exclusive channel, deadlines, delivery order |
| `service` | script, two supervisors, `Watchdog` with thresholds 1 and 2, query server, one Ctrl+C | one connection, one copy of each program, nothing left behind, stops heard, dead links left, what dies comes back |
| `pubsub` | 2 subscribers (symmetric), queues of 2, 3 samples, 2 publisher runs | queues bounded, `LossyStream` implemented, one failure costs one more sample, gaps told |
| `datapath` | 3 scans and 2 clouds (all fields, none, negative zero), 2 taken, 5 foreign messages of which 2 sent, schema versions 0 to 2, queue of 2 | what comes out is what went in, what was sent live is recorded, cut replies are refused, only the own schema's header is believed |

Three runs show that the code does not do what a comment says (`findings`):

- `reader_latest`: `latest()` may return an old scan, and `recent()` a window that ends
  with one, since the statement of the previous `get()` keeps the snapshot in which the
  next `count()` is evaluated, and that of `count()` the snapshot for the next `get()`
  (`query_client.hpp:44`, `:55-56`). From the first LATEST or RECENT that is answered
  with a scan both statements are left on a row, and no request resets the two together:
  the snapshot is frozen until the server ends, for RANGE as well, and no later
  reply has a scan that was recorded after it was taken.
- `pubsub_dropped`: a PUB socket whose queue is full discards and still reports
  success, so `publish()` returns true and `dropped()` counts nothing
  (`transport.hpp:73-74`, `transport.cpp:12-13`).
- `service_stop`: Ctrl+C before both supervisors are started prints "stopped." and
  then starts what is left, deaf to a second Ctrl+C
  (`start_lidar_service.sh:40`, `:121`).

Smaller observations, not runs: after a power failure an indexed row may be
truncated, since the log is flushed and not synced before the INSERT commits
(`reader.cpp:108-111` says it should never happen; `GetReturnsItsRow` is about what
still holds then); after a failed reconnect the vendor's SIGINT handler stays for the whole
backoff, and a Ctrl+C then is lost (`scan_publisher_recorder_main.cpp:291`,
`:134-137`; the script waits on for it, which is why `SettledCtrlCStops` asks that
nothing is just connecting); `LidarScan` and `LidarPointCloud` do not have their
header in field 1 (`message.hpp:42` says every message has), so `peek_header` of them
relies on the parse refusing; something thrown out of `start()` that is not a
`std::exception` leaves nodes running that nothing stops any more
(`executor.hpp:73-75`, `executor.cpp:64`; it is the exception that
`HalfStartedOnlyByForeign` makes); a sample glued to a half-sent one is counted
as malformed although no version differs (`subscriber.hpp:54-56`); the reader's handler lets exceptions out without
a reply although `query_server.cpp:61-64` says it never throws past that point;
`configure()`, `start()` and `stop()` are called again on a node when a failed attempt
is retried, and after a foreign exception `start()` on one that runs, which nothing in
the executor prevents (`node.hpp:61-67` says once and that the executor enforces it;
`NodeContract` states what remains of it); the recorder's constructor ignores a COUNT
that fails, after which `count()` starts from 0 over the rows there are
(`recorder.cpp:105-107` against `recorder.hpp:39-40`; `CountOffByUncounted` says that it is
off by exactly these); two driver threads may enqueue scans in another order than they took their
stamps in (`sick_scan_source.cpp:183`; nothing promises that order, so no
property is about it); `Executor::step` throws when called in
the wrong phase (`executor.hpp:78-79` says never); assigning over a running
executor drops it without `stop_all()`; `Executor::period_ns` is used for no
scheduling (`executor.hpp:49-51`); the bearer ignores priority.

Every property of a passing run has a mutant: a plausible bug in one mapped
definition under which TLC finds the property violated.

## 4. Bounds and why they are enough

The constants commented `bound` cap counters in guards and nothing else. Three
scans make a record that follows a torn or orphan one and precedes an intact
one; payloads of one and two cells let a record fit exactly into the place of
another. The disk is one cell short of all that could be written, so that writes
fail for lack of space too. Two clients let a stale answer meet another client's
call, two calls let it meet a later call of its own client, two server starts
include a restart. Two objects over two handles include a handle given out
again; capacity 1 makes every second cloud a drop. Three nodes make a first, a
middle and a last; periods 2, 0, 3 with times that skip slots and run backwards
include the late caller on and off a slot boundary; of two failing calls
(`MaxFailures`) the second may hit the retry of the first, in the same phase or the next,
and a foreign exception may come before or after an ordinary one. Thresholds of 1 and 2 keep
the order of 15 and 30 and leave a poll that does not give up. One Ctrl+C at any
moment is what the script promises to need; every program may still die as often
as it likes. Two samples through one message object make the second one meet
what the first left, in both directions, and a foreign message can come between
them; a reply of two scans can be cut inside each and between them. Queues of two and three samples hold a message that two
half-sent samples were glued to, a leftover frame with a whole message behind it,
and an overflow; the second run restarts the sequence numbers.

## 5. Fairness

Safety needs no fairness.
`TeardownEnds` assumes that a thread inside the callback and a thread inside the
destructor are scheduled; it assumes nothing of the sensor or of the poller.
`ServiceFairSpec` assumes of each process that the operating system runs it: weak
fairness of the script's next command, of each supervisor's, of a forked child's
exec and of the publisher's main thread, each of whose waits has a timeout.
Nothing is assumed of the sensor: a connection attempt may hang for ever and a
dead link never recovers. No program has to die, and Ctrl+C need not come.

## 6. What is proved

Proofs are in modules of their own and hold for all values of the constants that
the named assumptions allow.

- `RecordingProofs`, the recorder: types; indexed rows stay readable; acknowledged
  scans stay indexed; the count is off by what a failed COUNT left out and by nothing
  else; the recorder implements `ScanStore`. The
  invariant says what the log holds at the offset of every row that lost nothing
  (`Holds`), and where the record in progress lies. Readability alone is not inductive:
  that later writes leave a record alone follows from rows lying wholly below
  the end of the log, in order. The refinement maps each step to a store, a
  loss or a stutter.
- `RecordingProofs`, the reader beside it: types, no read of an undamaged recording
  throws, `get()` returns its row, RECENT is anchored, and a range is one
  snapshot. It builds on the recorder's invariant: beside the reader the recorder
  only appends rows, and the statement `count()` leaves active makes every later one
  see at least the rows it counted (`Pinned`). For `RangeIsOneSnapshot`, `SweepInv` says
  at each row of a select that what was found so far is exactly what the
  snapshot has in range up to the cursor, in order; that order is the scans' own
  comes from the recorder's `Ordered`. `RecentStaysAnchored` adds to it that the anchor is
  the last row of a count no older than `seen` and that the range's snapshot reaches it
  (`WindowInv`).
- `ExecutorProofs`: types, schedule accounting, ticks in their slots, every due
  node ticked, configuration before start, the running nodes a prefix, all or
  nothing, and the node contract. The invariant relates each call's loop index
  to what the nodes before and after it have been asked to do (`Lifecycle`), and, for
  the contract, to how often (`Budget`): in an attempt, a node the loop has not come to
  has been asked at most once per earlier failure.
- `BearerProofs`: the channel carries one frame at a time and accepted frames
  arrive in time, from the lemma that the rounded quotient is at least the exact
  one, and from `channel_free_at` bounding every frame already taken. Frames are
  delivered oldest first: what was drained, delivered and is in flight stands in one
  line (`Line`), ordered by the number it was accepted under. One frame on the channel
  at a time makes arrivals follow that order (`ArrivalsOrdered`), so those that
  `advance()` finds ready are a prefix of those in flight, and partitioning
  them (`InOrder`) moves the end of the line's seen part and nothing else.
- `SourceProofs`: types, no use after free, clouds reach their owner, the queue
  keeps the newest, scan times are plausible, for any number of objects, handles,
  driver threads and any capacity and stamps. The invariant: live objects
  have handles of their own, the registry maps a handle to its live holder, and a
  running callback's handle belongs to an object not yet past `Quiesced`. The
  queue being the end of the arrivals is kept by every append and every removal at the
  front (`TailEnds`, `AppendEnds`); a stamp taken over by the exchange is one that the same
  connection delivered (`TimesInv`).
- `ServiceProofs`: of the publishing program by itself, types and
  `ConnectionIsOwned`, for any thresholds, from what is true of the connection at
  each step of the main thread. Of the whole service, `NoStray`, and
  `ConnectionIsOwned` under its supervisor. `SInv` has the types, that a supervisor
  which is to fork has no child (`OneCopy`), and what each step of the script implies
  of the supervisors (`InOrder`): the final wait cannot be over before they are. That the
  publisher's own invariant survives its process being killed follows from a
  new process starting in `Watchdog`'s initial state.
- `QueryProofs`: own answers, clean next calls, meaning of an empty answer, for any
  number of clients, calls, scans and restarts. The invariant: a client has at
  most one message under way on its present socket (`OneMessage`), every other message
  of it bears an older socket's number, and the snapshot that `get()`'s statement keeps
  is never the empty one (`SnapshotInv`).
- `PubSubProofs`: types and bounded queues, gaps told, the refinement of
  `LossyStream`, and that a failure costs one sample, for any subscribers, high-water
  mark, samples and restarts. Of each subscriber, what it was handed, what waits
  at its end and what waits at the publisher's stand in one line, ordered by sample
  and, within a run, by sequence number with no other distance than the samples' own
  (`Line`, `Flow`); only the body a message ends with counts, which is why
  gluing frames to one another does not disturb it. The types of the queues say that a
  message is topics and one body at its end, and `Gaps` what `mw_sub` has
  remembered. `ImplementsStream` follows: a sample is handed out from the front of
  that line, behind all that were. For `OneFailureCostsOne` the order is not enough:
  `Paid` says that what no subscriber can get any more, together with what a message
  already begun or read in part is bound to cost, is at most the number of
  failures; a half-sent message is a debt from the failure on and is settled by the sample
  that is glued to it.
- `DataPathProofs`: what was sent live is recorded (from the service's steps being
  in that order, and the log never forgetting); what a typed subscriber hands out is
  what was published; answers and dumps are what was recorded, and a cut reply is
  refused; the header that is acted upon is the one that was stamped. That takes two
  parts.

  The codecs: `FieldsRead` says that serialised fields are found in their bytes
  again, `FlatComesBack` that any message without submessages and unknown fields
  comes through `Write` and a parse into a new object as it was, from which follow
  `BackEqualsScan` and `CloudsComeBack` for every scan and cloud (a
  negative zero comes back as zero), `HeaderComesBack` for a stamped header, and
  `ReplyDecodes` for a reply of any number of scans, through the one object that
  encodes them and the one that decodes them, and refused wherever it is cut. A
  message with a header has fields around it and, from a newer build, unknown ones
  behind it: `HeaderPeeked` and `HeaderMissed` say what `peek_header` finds in a
  sequence of fields with one header, or none, among them, `BeatPeeked` what in a beat of any version, and
  `FlatRefused` that a message whose first field is a text, as those of scans
  and clouds, is none.

  The programs: `to_proto` sets every field of an object that holds no unknown
  ones, so that the bytes of a message are those of a new object (`Usable`,
  `ScanObjectReused`, `CloudObjectReused`), and parsing starts by clearing
  (`RowsAreRecorded`, for one row after the other). The invariants: of every
  message on its way it is known what its program put into it (`Sends`), of what a
  watcher made of the last one, and of the last answer, that it is what a new
  object would have made of it (`Typed`, `Watched`, `Looked`). Lost, refused and
  foreign messages, failures and restarts leave them true.

  The assumptions: what a source hands out has the types of `Scan` and
  `PointCloud`, and texts are UTF-8, without which a proto3 string does
  not parse (`SamplesAssumption`; a frame name comes from the source's
  configuration, `sick_scan_source.hpp:67`, which the programs leave at its
  default); no more is recorded than a reply can count and no serialised scan is longer than the `int` that `decode_scans` passes to the parser,
  which protobuf refuses to serialise (`SizesAssumption`); schema versions
  start at one, so that zero, which a missing header reads as, is none
  (`VersionAssumption`). The instance of the run satisfies all of them. A number in
  a model's message is the number, not its varint: what is proved is which fields
  come back in which order, and that lengths delimit them.

The type invariants of all modules but `DataPath`, which has none, are proved; only
`PubSub`'s, whose queues are bounded by it, is a property of a run as well.

## 7. What is only model-checked, and why

Liveness (`TeardownEnds`, `StopIsHonoured`, `DeadLinkIsLeft`, `ComesBack`,
`SettledCtrlCStops`) and nothing about fairness is proved: it is out of the
provers' reach. Every safety property and action property of the passing runs is proved,
the refinements `ImplementsStore`, `KeepsNodeContract` and `ImplementsStream` among them.

Recursive definitions are within reach only where the recursion is over a number. The
codecs concatenate the fields of a message, sum up their sizes and decode one scan of a
reply after the other; each of these is unrolled in `DataPathProofs` by the least
number at which the claim fails (`FlattenSeq` of the community modules, `SumOf`,
`decode_next`), which needs no induction theorem. The library's induction theorems, which
take an operator as a parameter, are not used.

## 8. Not modelled

Left out of the models: wording and logging; the per-point loops of the converters
between the vendor's clouds and scans; measured durations in the executor;
allocation failure outside `PubSub`; checkpointing of the WAL, which a
read transaction that stays open delays; requests of clients that gave up, which
`QueryService` has in the server's queue but not as a delay of the live ones; the 64-bit overflow of the
executor's times and of RECENT's window near the ends of the range, on which neither a test
nor a comment says what should happen (a wrapped time would need a reference to be checked
against); the length of a supervisor's backoff and its pid
files, which nothing reads; priorities of acoustic frames, which the code stores
and never reads; `unsubscribe()` and topics that are prefixes of one another, which
no program uses; the text of a request and the reply to an unknown one; moving
another executor over a running one.

Not modelled at all: the camera demonstration and other programs that only print;
clock and version helpers, which have no state; build files and third-party code.
Of the generated protobuf code, arenas, reflection, descriptors and the internal
tables are left out: they change where a message lives, not what it holds.

What would add most next: a subscriber that is restarted; a proof that the readers'
operations beside the recorder implement reads of `ScanStore`.
