------------------------------ MODULE DataPath ------------------------------
(***************************************************************************)
(* What a measurement is when it comes out at the far end: a program takes  *)
(* scans or clouds from its source, records them, publishes them, or both,  *)
(* and another watches the topic or asks for what was recorded.  Every      *)
(* process keeps one message object per direction and uses it again for     *)
(* each sample.                                                             *)
(*                                                                          *)
(* A run follows one program and one watcher; watchers do not influence one *)
(* another.  The transport drops or delivers a whole message, in order, and *)
(* other programs may publish on the topic: builds with another schema, or  *)
(* something that is no such message at all.                                *)
(***************************************************************************)
EXTENDS MessageCodec

CONSTANTS
  Shapes,        (* the scans a source hands out, up to their stamps        *)
  CloudShapes,   (* the clouds                                              *)
  Foreign,       (* what other programs send: a sequence of messages         *)
  Versions,      (* the schema versions of the builds of mw_pub around      *)
  Limits,        (* the values of dump_scans' max_scans                     *)
  MaxTaken,      (* bound: samples taken from the source                    *)
  MaxForeign,    (* bound: messages of other programs                       *)
  MaxQueue       (* the send queue's high-water mark                        *)

ASSUME DataPathAssumption == MaxTaken \in Nat /\ Limits \subseteq Nat /\ Versions \subseteq Nat

ScanPrograms == {"service", "scan_publisher", "record_live", "record_sample"}
Programs     == ScanPrograms \cup {"cloud_publisher", "mw_pub", "mw_msgdemo"}
Watchers     == {"typed", "mw_sub", "query"}

VARIABLES
  program, watcher,   (* who runs                                           *)
  pc,                 (* the program's next step                            *)
  hand,               (* the sample it holds                                *)
  taken, foreign,     (* how many samples and foreign messages there were   *)
  sequence,           (* the counter of mw_pub, and of record_sample_data   *)
  wire,               (* the message objects of each process                *)
  log,                (* what was recorded: the sample and its bytes        *)
  queue,              (* messages on their way to the watcher               *)
  got,                (* what the watcher made of the last message          *)
  malformed,          (* its count of those it refused                      *)
  answer              (* what the last query or dump returned               *)

vars == <<program, watcher, pc, hand, taken, foreign, sequence, wire, log, queue, got,
          malformed, answer>>

Records   == program \in {"service", "record_live", "record_sample"}
Publishes == program \in {"service", "scan_publisher", "cloud_publisher"}

CloudNew == IF program = "cloud_publisher" THEN LidarPointCloudNew ELSE LidarScanNew

Nothing == [status |-> "none"]

Init ==
  /\ \E p \in Programs, w \in Watchers :
       /\ w = "query" => p \in {"service", "record_live", "record_sample"}
       /\ p \in {"record_live", "record_sample"} => w = "query"
       /\ p \in {"mw_pub", "mw_msgdemo"} => w = "mw_sub"
       /\ program = p /\ watcher = w
  /\ pc = "down"
  /\ hand = DefaultScan
  /\ taken = 0 /\ foreign = 0 /\ sequence = 0
  /\ wire = [rec |-> LidarScanNew, pub |-> LidarScanNew, sub |-> CloudNew, read |-> LidarScanNew]
  /\ log = <<>> /\ queue = <<>>
  /\ got = Nothing
  /\ malformed = 0
  /\ answer = Nothing

-----------------------------------------------------------------------------
(* The programs.                                                           *)

Start ==
  /\ pc = "down"
  /\ pc' = "poll"
  /\ sequence' = 0
  /\ wire' = [wire EXCEPT !.rec = LidarScanNew, !.pub = CloudNew]
  /\ UNCHANGED <<program, watcher, hand, taken, foreign, log, queue, got, malformed, answer>>

(* A crash, a kill, an exception that reaches main.                        *)
Crash ==
  /\ pc # "down"
  /\ pc' = "down"
  /\ UNCHANGED <<program, watcher, hand, taken, foreign, sequence, wire, log, queue, got,
                 malformed, answer>>

(* record_sample_data makes its scans up.                                  *)
make_sample_scan(i) ==
  [DefaultScan EXCEPT !.frame_id = "lidar", !.stamp_ns = i, !.scan_time_ns = 1,
     !.angle_min = -3, !.angle_max = 3, !.angle_increment = 1, !.range_max = 20,
     !.ranges = <<2, 2 + i>>]

(* poll_scan() or poll_cloud() returned true.                              *)
Poll ==
  /\ pc = "poll"
  /\ program \notin {"mw_pub", "mw_msgdemo"}
  /\ taken < MaxTaken
  /\ IF program = "record_sample"
     THEN hand' = make_sample_scan(sequence) /\ sequence' = sequence + 1
     ELSE /\ \E shape \in IF program = "cloud_publisher" THEN CloudShapes ELSE Shapes :
               hand' = [shape EXCEPT !.stamp_ns = taken]
          /\ UNCHANGED sequence
  /\ taken' = taken + 1
  /\ pc' = IF Records THEN "record" ELSE "publish"
  /\ UNCHANGED <<program, watcher, foreign, wire, log, queue, got, malformed, answer>>

Record ==
  /\ pc = "record"
  /\ wire' = [wire EXCEPT !.rec = to_proto(hand, wire.rec)]
  /\ log' = Append(log, [sample |-> hand, fields |-> LidarScanWrite(wire'.rec)])
  /\ pc' = IF Publishes THEN "publish" ELSE "poll"
  /\ UNCHANGED <<program, watcher, hand, taken, foreign, sequence, queue, got, malformed, answer>>

(* Mutant of RecordFails: the program goes on with what it could not record.*)
RecordFails_GoesOn ==
  /\ pc = "record"
  /\ wire' = [wire EXCEPT !.rec = to_proto(hand, wire.rec)]
  /\ pc' = IF Publishes THEN "publish" ELSE "poll"
  /\ UNCHANGED <<program, watcher, hand, taken, foreign, sequence, log, queue, got, malformed,
                 answer>>

(* record() throws once the scan is in its object, and main returns.       *)
RecordFails ==
  /\ pc = "record"
  /\ wire' = [wire EXCEPT !.rec = to_proto(hand, wire.rec)]
  /\ pc' = "down"
  /\ UNCHANGED <<program, watcher, hand, taken, foreign, sequence, log, queue, got, malformed,
                 answer>>

(* A full queue drops the message, and nobody listening does too.           *)
Send(message) ==
  queue' = IF watcher # "query" /\ Len(queue) < MaxQueue THEN Append(queue, message) ELSE queue

Publish ==
  /\ pc = "publish"
  /\ IF program = "cloud_publisher"
     THEN LET msg == cloud_to_proto(hand, wire.pub)
          IN /\ wire' = [wire EXCEPT !.pub = msg]
             /\ Send([by |-> program, value |-> hand, fields |-> LidarPointCloudWrite(msg)])
     ELSE LET msg == to_proto(hand, wire.pub)
          IN /\ wire' = [wire EXCEPT !.pub = msg]
             /\ Send([by |-> program, value |-> hand, fields |-> LidarScanWrite(msg)])
  /\ pc' = "poll"
  /\ UNCHANGED <<program, watcher, hand, taken, foreign, sequence, log, got, malformed, answer>>

(* One round of mw_pub.  A build with a newer schema has a field more, in   *)
(* the header and in the body.                                             *)
Beat ==
  /\ pc = "poll"
  /\ program = "mw_pub"
  /\ taken < MaxTaken
  /\ taken' = taken + 1
  /\ sequence' = sequence + 1
  /\ \E version \in Versions :
       LET later   == IF version > kSchemaVersion THEN <<Field(14, "int", 1)>> ELSE <<>>
           stamped == [set_schema_version(
                         stamp_header(mutable_header(HeartbeatNew.header), "auv", sequence, taken),
                         version) EXCEPT !.unknown = later]
           hb      == [set_counts(set_state(set_node_name(set_header(HeartbeatNew, stamped), "auv"),
                         NODE_STATE_RUNNING), sequence', 0, taken) EXCEPT !.unknown = later]
       IN Send([by |-> program, value |-> hb, fields |-> HeartbeatWrite(hb)])
  /\ UNCHANGED <<program, watcher, pc, hand, foreign, wire, log, got, malformed, answer>>

(* mw_msgdemo stamps one beat and reads its header again, all by itself.    *)
Demonstrate ==
  /\ pc = "poll"
  /\ program = "mw_msgdemo"
  /\ sequence' = sequence + 1
  /\ LET stamped == stamp_header(mutable_header(HeartbeatNew.header), "auv", sequence, taken)
         hb      == set_counts(set_state(set_node_name(set_header(HeartbeatNew, stamped), "auv"),
                      NODE_STATE_RUNNING), 42, 0, 910)
         message == [by |-> program, value |-> hb, fields |-> HeartbeatWrite(hb)]
         peeked  == peek_header(message.fields, HeaderNew)
     IN got' = [status |-> peeked.status, message |-> message, header |-> peeked.out,
                parsed |-> TRUE, state |-> hb.state]
  /\ pc' = "down"
  /\ UNCHANGED <<program, watcher, hand, taken, foreign, wire, log, queue, malformed, answer>>

SomeoneElsePublishes ==
  /\ watcher # "query"
  /\ foreign < MaxForeign
  /\ Len(queue) < MaxQueue
  /\ \E i \in DOMAIN Foreign :
       queue' = Append(queue, [by |-> "another", value |-> Foreign[i], fields |-> Foreign[i]])
  /\ foreign' = foreign + 1
  /\ UNCHANGED <<program, watcher, pc, hand, taken, sequence, wire, log, got, malformed, answer>>

-----------------------------------------------------------------------------
(* The watchers.                                                           *)

(* What a subscriber makes of a message: the sample in it, or a refusal.    *)
Judged(parsed, value) ==
  /\ wire' = [wire EXCEPT !.sub = parsed.msg]
  /\ malformed' = IF parsed.ok THEN malformed ELSE malformed + 1
  /\ got' = IF ~parsed.ok THEN [status |-> "refused", message |-> Head(queue)]
            ELSE [status |-> "handed out", message |-> Head(queue), value |-> value]

(* ScanSubscriber::poll_scan() with a message there.                       *)
Deliver ==
  /\ watcher = "typed" /\ program # "cloud_publisher"
  /\ queue # <<>>
  /\ LET parsed == LidarScanParse(wire.sub, Head(queue).fields)
     IN Judged(parsed, from_proto(parsed.msg))
  /\ queue' = Tail(queue)
  /\ UNCHANGED <<program, watcher, pc, hand, taken, foreign, sequence, log, answer>>

(* CloudSubscriber::poll_cloud() with a message there.                     *)
DeliverCloud ==
  /\ watcher = "typed" /\ program = "cloud_publisher"
  /\ queue # <<>>
  /\ LET parsed == LidarPointCloudParse(wire.sub, Head(queue).fields)
     IN Judged(parsed, cloud_from_proto(parsed.msg))
  /\ queue' = Tail(queue)
  /\ UNCHANGED <<program, watcher, pc, hand, taken, foreign, sequence, log, answer>>

(* mw_sub reads the header, and the body if the header is accepted.         *)
DeliverAny ==
  /\ watcher = "mw_sub"
  /\ queue # <<>>
  /\ LET message == Head(queue)
         peeked  == peek_header(message.fields, HeaderNew)
         parsed  == HeartbeatParse(HeartbeatNew, message.fields)
     IN got' = [status |-> peeked.status, message |-> message, header |-> peeked.out,
                parsed |-> peeked.status = "kOk" /\ parsed.ok, state |-> parsed.msg.state]
  /\ queue' = Tail(queue)
  /\ UNCHANGED <<program, watcher, pc, hand, taken, foreign, sequence, wire, log, malformed, answer>>

(* The reader's message object after each row it reads from first on.       *)
ReaderWires(first, last) ==
  LET read[i \in (first - 1)..last] ==
        IF i < first THEN wire.read ELSE LidarScanParse(read[i - 1], log[i].fields).msg
  IN read

RowsRead(first, last) ==
  [i \in 1..(last - first + 1) |-> from_proto(ReaderWires(first, last)[first + i - 1])]

Recorded(first, last) == [i \in 1..(last - first + 1) |-> log[first + i - 1].sample]

(* A query's scans are read, encoded, sent and decoded.                    *)
Query ==
  /\ watcher = "query"
  /\ \E first \in 1..(Len(log) + 1), last \in 0..Len(log) :
       /\ first <= last + 1
       /\ LET bytes   == encode_scans(RowsRead(first, last))
              decoded == decode_scans(bytes)
          IN answer' = [status |-> "reply", asked |-> Recorded(first, last), bytes |-> bytes,
                        ok |-> decoded.ok, scans |-> decoded.scans]
       /\ wire' = [wire EXCEPT !.read = ReaderWires(first, last)[last]]
  /\ UNCHANGED <<program, watcher, pc, hand, taken, foreign, sequence, log, queue, got, malformed>>

(* dump_scans: a fresh reader, and the first scans up to a limit.           *)
Dump ==
  /\ watcher = "query"
  /\ \E max \in Limits :
       LET limit == IF max # 0 /\ max < Len(log) THEN max ELSE Len(log)
       IN answer' = [status |-> "dump", asked |-> Recorded(1, limit), ok |-> TRUE,
                     scans |-> RowsRead(1, limit)]
  /\ UNCHANGED <<program, watcher, pc, hand, taken, foreign, sequence, wire, log, queue, got,
                 malformed>>

Next ==
  \/ Start \/ Crash
  \/ Poll \/ Record \/ RecordFails \/ Publish \/ Beat \/ Demonstrate
  \/ SomeoneElsePublishes
  \/ Deliver \/ DeliverCloud \/ DeliverAny
  \/ Query \/ Dump

Spec == Init /\ [][Next]_vars

-----------------------------------------------------------------------------
(* Properties.                                                             *)

(* Equal as the program compares floats, for which -0.0 is 0.0.             *)
AsNumbers(sample) ==
  [x \in DOMAIN sample |-> IF sample[x] = NegZero THEN 0 ELSE sample[x]]

(* The samples there are: what a source hands out, stamped, and what        *)
(* record_sample_data makes up.                                            *)
HandedOut(shapes) == {[shape EXCEPT !.stamp_ns = t] : shape \in shapes, t \in 0..MaxTaken}

Recordable == HandedOut(Shapes) \cup {make_sample_scan(n) : n \in 0..MaxTaken}

(* They have the types of their structs; the frame names, which come from   *)
(* the sources' configuration, are UTF-8, as a proto3 string field needs,   *)
(* and so are the programs' own names.                                     *)
ASSUME SamplesAssumption ==
  /\ Shapes \subseteq Scan /\ CloudShapes \subseteq PointCloud
  /\ {"lidar", "auv"} \subseteq Utf8

(* Protocol Buffers serialise nothing of 2 GiB, and decode_scans takes a    *)
(* length as an int.                                                       *)
ASSUME SizesAssumption ==
  /\ MaxTaken <= Widest
  /\ \A scan \in Recordable : LidarScanByteSize(to_proto(scan, LidarScanNew)) <= Widest

(* One scan through the bytes, from a new message object to another.        *)
Reread(scan) == LidarScanParse(LidarScanNew, LidarScanWrite(to_proto(scan, LidarScanNew)))

(* What a subscriber hands out is exactly the sample the publisher was      *)
(* given, or what a foreign message says by itself: nothing of an earlier   *)
(* message, of one that was refused half way, or of an earlier sample in    *)
(* the publisher's object shows through.  It refuses only foreign messages. *)
GotIsItsOrigin ==
  watcher = "typed" /\ got # Nothing =>
    IF got.message.by = program
    THEN got.status = "handed out" /\ AsNumbers(got.value) = AsNumbers(got.message.value)
    ELSE got.status = "handed out" =>
           got.value = IF program = "cloud_publisher"
                       THEN cloud_from_proto(LidarPointCloudParse(LidarPointCloudNew,
                              got.message.fields).msg)
                       ELSE from_proto(LidarScanParse(LidarScanNew, got.message.fields).msg)

(* Whatever the recording service has sent can be looked up again: it is in *)
(* the log, whenever the service dies and comes back.                       *)
LiveIsRecorded ==
  program = "service" =>
    \A sample \in {queue[i].value : i \in {j \in DOMAIN queue : queue[j].by = program}} \cup
                  (IF got # Nothing /\ got.message.by = program THEN {got.message.value} ELSE {}) :
      \E i \in DOMAIN log : log[i].sample = sample

(* A query's answer, and a dump, is the scans that were recorded, in their  *)
(* order; and a reply that lost its end, wherever it was cut, is refused.   *)
AnswerIsExact ==
  answer # Nothing =>
    /\ answer.ok
    /\ Len(answer.scans) = Len(answer.asked)
    /\ \A i \in DOMAIN answer.asked : AsNumbers(answer.scans[i]) = AsNumbers(answer.asked[i])
    /\ answer.status = "reply" =>
         \A cut \in 0..(Len(answer.bytes) - 1) : ~decode_scans(SubSeq(answer.bytes, 1, cut)).ok

(* The header that mw_sub acts upon is the one that was stamped: a beat of  *)
(* its own schema version is accepted with that header and its state, those *)
(* of an older or newer build are refused, and a message without a header,  *)
(* as a scan is, is never accepted.                                         *)
PeekIsHonest ==
  watcher = "mw_sub" /\ got # Nothing =>
    IF got.message.by \in {"mw_pub", "mw_msgdemo"}
    THEN LET stamped == got.message.value.header[1]
         IN IF stamped.schema_version = kSchemaVersion
            THEN got.status = "kOk" /\ got.header = stamped
                 /\ got.parsed /\ got.state = NODE_STATE_RUNNING
            ELSE got.status # "kOk"
    ELSE got.message.by \in Programs => got.status # "kOk"
=============================================================================
