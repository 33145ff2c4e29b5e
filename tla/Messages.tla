------------------------------ MODULE Messages ------------------------------
(***************************************************************************)
(* The messages of the system as their generated classes treat them: each   *)
(* type's fields, and the methods and accessors the code calls, as uses of  *)
(* what every generated class does.  Cached sizes, arenas, reflection and   *)
(* the methods nothing calls are left out.                                  *)
(***************************************************************************)
EXTENDS Protobuf

-----------------------------------------------------------------------------
(* mw.proto.Header                                                         *)

HeaderFields == <<
  <<"schema_version", "int">>, <<"publisher", "text">>,
  <<"sequence", "int">>, <<"publish_time_ns", "int">> >>

HeaderNew   == New(HeaderFields)
HeaderClear(header) == HeaderNew

HeaderRead(header, fs) == ReadInto(HeaderFields, NoSubRead, header, fs)
HeaderReadable(fs)     == Readable(HeaderFields, NoSubReadable, fs)
HeaderWrite(header)    == Write(HeaderFields, NoSubWrite, header)

HeaderMergeFrom(header, from) == MergeInto(HeaderFields, header, from)
HeaderCopyFrom(header, from)  == HeaderMergeFrom(HeaderClear(header), from)

set_schema_version(header, v)  == [header EXCEPT !.schema_version = v]
set_publisher(header, text)    == [header EXCEPT !.publisher = text]
set_sequence(header, n)        == [header EXCEPT !.sequence = n]
set_publish_time_ns(header, t) == [header EXCEPT !.publish_time_ns = t]

-----------------------------------------------------------------------------
(* mw.proto.AnyHeader: any message, of which only the header is known.      *)

AnyHeaderFields == << <<"header", "header">> >>

AnyHeaderNew == New(AnyHeaderFields)

(* mutable_header() makes the submessage if there is none.                 *)
mutable_header(headers) == IF headers = <<>> THEN HeaderNew ELSE headers[1]

SubmessageRead(headers, fs) == HeaderRead(mutable_header(headers), fs)

AnyHeaderClear(any) == AnyHeaderNew

AnyHeaderParse(any, fs) ==
  [ok  |-> Readable(AnyHeaderFields, HeaderReadable, fs),
   msg |-> ReadInto(AnyHeaderFields, SubmessageRead, AnyHeaderClear(any),
                    Kept(AnyHeaderFields, HeaderReadable, fs))]

has_header(any) == any.header # <<>>
header(any)     == mutable_header(any.header)

-----------------------------------------------------------------------------
(* mw.proto.Heartbeat                                                      *)

HeartbeatFields == <<
  <<"header", "header">>, <<"node_name", "text">>, <<"state", "int">>,
  <<"tick_count", "int">>, <<"overruns", "int">>, <<"wcet_us", "int">> >>

NODE_STATE_RUNNING == 2

HeartbeatNew == New(HeartbeatFields)
HeartbeatClear(hb) == HeartbeatNew

HeartbeatParse(hb, fs) ==
  [ok  |-> Readable(HeartbeatFields, HeaderReadable, fs),
   msg |-> ReadInto(HeartbeatFields, SubmessageRead, HeartbeatClear(hb),
                    Kept(HeartbeatFields, HeaderReadable, fs))]

HeartbeatWrite(hb) == Write(HeartbeatFields, HeaderWrite, hb)

set_header(hb, h)          == [hb EXCEPT !.header = <<h>>]
set_node_name(hb, text)    == [hb EXCEPT !.node_name = text]
set_state(hb, s)           == [hb EXCEPT !.state = s]
set_counts(hb, ticks, overruns, wcet) ==
  [hb EXCEPT !.tick_count = ticks, !.overruns = overruns, !.wcet_us = wcet]

-----------------------------------------------------------------------------
(* lidar.proto.LidarScan                                                   *)

LidarScanFields == <<
  <<"frame_id", "text">>,
  <<"stamp_ns", "int">>, <<"scan_time_ns", "int">>, <<"time_increment_ns", "int">>,
  <<"angle_min", "float">>, <<"angle_max", "float">>, <<"angle_increment", "float">>,
  <<"range_min", "float">>, <<"range_max", "float">>,
  <<"echo_index", "int">>, <<"echo_count", "int">>,
  <<"ranges", "floats">>, <<"intensities", "floats">> >>

LidarScanNew == New(LidarScanFields)

(* Mutant of LidarScanClear: what was parsed into the message stays.        *)
LidarScanClearNothing(wire) == wire

LidarScanClear(wire) == LidarScanNew

LidarScanParse(wire, fs) ==
  [ok  |-> Readable(LidarScanFields, NoSubReadable, fs),
   msg |-> ReadInto(LidarScanFields, NoSubRead, LidarScanClear(wire),
                    Kept(LidarScanFields, NoSubReadable, fs))]

LidarScanWrite(wire) == Write(LidarScanFields, NoSubWrite, wire)

LidarScanByteSize(wire) ==
  SumOf([n \in DOMAIN LidarScanFields |->
           LET kind == Kind(LidarScanFields, n)
               v    == wire[Name(LidarScanFields, n)]
           IN IF Unset(kind, v) THEN 0 ELSE Size(Field(n, kind, v))]) + TotalSize(wire.unknown)

set_frame_id(wire, text) == [wire EXCEPT !.frame_id = text]
set_times(wire, stamp, scan_time, increment) ==
  [wire EXCEPT !.stamp_ns = stamp, !.scan_time_ns = scan_time, !.time_increment_ns = increment]
set_geometry(wire, scan) ==
  [wire EXCEPT !.angle_min = scan.angle_min, !.angle_max = scan.angle_max,
     !.angle_increment = scan.angle_increment,
     !.range_min = scan.range_min, !.range_max = scan.range_max]
set_echoes(wire, index, count) == [wire EXCEPT !.echo_index = index, !.echo_count = count]
clear_ranges(wire)            == [wire EXCEPT !.ranges = <<>>]
add_ranges(wire, floats)      == [wire EXCEPT !.ranges = @ \o floats]
clear_intensities(wire)       == [wire EXCEPT !.intensities = <<>>]
add_intensities(wire, floats) == [wire EXCEPT !.intensities = @ \o floats]

-----------------------------------------------------------------------------
(* lidar.proto.LidarPointCloud                                             *)

LidarPointCloudFields == <<
  <<"frame_id", "text">>, <<"stamp_ns", "int">>, <<"scan_time_ns", "int">>,
  <<"range_min", "float">>, <<"range_max", "float">>,
  <<"ranges", "floats">>, <<"azimuths", "floats">>,
  <<"elevations", "floats">>, <<"intensities", "floats">> >>

LidarPointCloudNew == New(LidarPointCloudFields)

LidarPointCloudParse(wire, fs) ==
  [ok  |-> Readable(LidarPointCloudFields, NoSubReadable, fs),
   msg |-> ReadInto(LidarPointCloudFields, NoSubRead, LidarPointCloudNew,
                    Kept(LidarPointCloudFields, NoSubReadable, fs))]

LidarPointCloudWrite(wire) == Write(LidarPointCloudFields, NoSubWrite, wire)
=============================================================================
