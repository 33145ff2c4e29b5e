---------------------------- MODULE MessageCodec ----------------------------
(***************************************************************************)
(* From the program's own values to messages and back: scan_codec.cpp,      *)
(* cloud_codec.cpp, the framing of query replies (query_wire.cpp) and the   *)
(* message header (message.cpp).  A Scan and a PointCloud are records with  *)
(* the fields of their structs.                                             *)
(***************************************************************************)
EXTENDS Messages

-----------------------------------------------------------------------------
(* Scans and clouds.                                                       *)

(* The types of the program's samples.  A text is what std::string holds as *)
(* long as it is UTF-8, which is all that its proto3 field can carry.       *)
Float == {NegZero} \cup Int
Utf8  == DOMAIN TextSize \ {Garbled}

Scan == [frame_id : Utf8, stamp_ns : Int, scan_time_ns : Int, time_increment_ns : Int,
         angle_min : Float, angle_max : Float, angle_increment : Float,
         range_min : Float, range_max : Float, echo_index : 0..255, echo_count : 0..255,
         ranges : Seq(Float), intensities : Seq(Float)]

PointCloud == [frame_id : Utf8, stamp_ns : Int, scan_time_ns : Int,
               range_min : Float, range_max : Float, ranges : Seq(Float),
               azimuths : Seq(Float), elevations : Seq(Float), intensities : Seq(Float)]

(* Scan{}: an echo count of one, all else empty or zero.                    *)
DefaultScan == [x \in DOMAIN LidarScanNew \ {"unknown"} |->
                  IF x = "echo_count" THEN 1 ELSE LidarScanNew[x]]

(* PointCloud{}.                                                           *)
DefaultCloud == [x \in DOMAIN LidarPointCloudNew \ {"unknown"} |-> LidarPointCloudNew[x]]

scalars_to_proto(scan, out) ==
  set_echoes(set_geometry(set_times(set_frame_id(out, scan.frame_id),
    scan.stamp_ns, scan.scan_time_ns, scan.time_increment_ns), scan),
    scan.echo_index, scan.echo_count)

to_proto(scan, out) ==
  LET cleared == clear_intensities(clear_ranges(scalars_to_proto(scan, out)))
  IN add_intensities(add_ranges(cleared, scan.ranges), scan.intensities)

(* uint32 to uint8_t keeps the low 8 bits.                                 *)
from_proto(msg) ==
  [x \in DOMAIN DefaultScan |->
     IF x \in {"echo_index", "echo_count"} THEN msg[x] % 256 ELSE msg[x]]

copy_floats(from, to) == from

cloud_to_proto(cloud, out) ==
  [x \in DOMAIN out |->
     IF x = "unknown" THEN out[x]
     ELSE IF x \in {"ranges", "azimuths", "elevations", "intensities"}
          THEN copy_floats(cloud[x], out[x]) ELSE cloud[x]]

cloud_from_proto(msg) == [x \in DOMAIN msg \ {"unknown"} |-> msg[x]]

-----------------------------------------------------------------------------
(* The framing of a reply: how many scans, and each behind its length.      *)

(* The largest length that ParseFromArray can be given: INT_MAX.            *)
Widest == 2147483647

u32_le(v) == <<[u8 |-> v % 256], [u8 |-> (v \div 256) % 256],
               [u8 |-> (v \div 65536) % 256], [u8 |-> (v \div 16777216) % 256]>>

U8(b) == IF "u8" \in DOMAIN b THEN b.u8 ELSE 0

(* Positions count from 0, as in the code.                                 *)
get_u32_le(in, at) ==
  U8(in[at + 1]) + 256 * U8(in[at + 2]) + 65536 * U8(in[at + 3]) + 16777216 * U8(in[at + 4])

(* The wire objects that the loop of encode_scans goes through.             *)
EncoderWires(scans) ==
  LET wire[i \in 0..Len(scans)] ==
        IF i = 0 THEN LidarScanNew ELSE to_proto(scans[i], wire[i - 1])
  IN wire

encode_scans(scans) ==
  LET wire == EncoderWires(scans)
  IN u32_le(Len(scans)) \o
     FlattenSeq([i \in DOMAIN scans |->
       u32_le(LidarScanByteSize(wire[i])) \o Bytes(LidarScanWrite(wire[i]))])

(* Mutant of decode_next: a scan may end after the reply does.              *)
decode_next_Unchecked(bytes, d) ==
  IF d.pos + 4 > Len(bytes) THEN [d EXCEPT !.ok = FALSE]
  ELSE LET length == get_u32_le(bytes, d.pos)
           parsed == LidarScanParse(d.wire,
                       FieldsIn(SubSeq(bytes, d.pos + 5, Min({d.pos + 4 + length, Len(bytes)}))))
       IN IF ~parsed.ok THEN [d EXCEPT !.ok = FALSE]
          ELSE [ok |-> TRUE, pos |-> d.pos + 4 + length, wire |-> parsed.msg,
                scans |-> Append(d.scans, from_proto(parsed.msg))]

(* One round of the loop of decode_scans, into the same wire object.        *)
decode_next(bytes, d) ==
  IF d.pos + 4 > Len(bytes) THEN [d EXCEPT !.ok = FALSE]
  ELSE LET length == get_u32_le(bytes, d.pos)
           parsed == LidarScanParse(d.wire, FieldsIn(SubSeq(bytes, d.pos + 5, d.pos + 4 + length)))
       IN IF d.pos + 4 + length > Len(bytes) \/ ~parsed.ok THEN [d EXCEPT !.ok = FALSE]
          ELSE [ok |-> TRUE, pos |-> d.pos + 4 + length, wire |-> parsed.msg,
                scans |-> Append(d.scans, from_proto(parsed.msg))]

(* ok is FALSE where decode_scans throws.                                  *)
decode_scans(bytes) ==
  LET count == get_u32_le(bytes, 0)
      decode[i \in 0..count] ==
        IF i = 0 THEN [ok |-> TRUE, pos |-> 4, wire |-> LidarScanNew, scans |-> <<>>]
        ELSE IF decode[i - 1].ok THEN decode_next(bytes, decode[i - 1]) ELSE decode[i - 1]
  IN IF Len(bytes) < 4 THEN [ok |-> FALSE, scans |-> <<>>]
     ELSE [ok |-> decode[count].ok, scans |-> decode[count].scans]

-----------------------------------------------------------------------------
(* The message header.                                                     *)

CONSTANT kSchemaVersion    (* of the build that reads and stamps            *)

(* A header whose version was never set says 0, which is none of them.      *)
ASSUME VersionAssumption == kSchemaVersion \in Nat \ {0}

stamp_header(h, publisher, sequence, now) ==
  set_publish_time_ns(set_sequence(set_publisher(
    set_schema_version(h, kSchemaVersion), publisher), sequence), now)

(* Mutant of peek_header: only messages of an older build are refused.      *)
peek_header_Lenient(fs, out) ==
  LET any == AnyHeaderParse(AnyHeaderNew, fs)
      v   == header(any.msg).schema_version
  IN IF ~any.ok THEN [status |-> "kNotParsable", out |-> out]
     ELSE IF ~has_header(any.msg) THEN [status |-> "kMissingHeader", out |-> out]
     ELSE IF v < kSchemaVersion THEN [status |-> "kSchemaTooOld", out |-> out]
     ELSE [status |-> "kOk", out |-> HeaderCopyFrom(out, header(any.msg))]

peek_header(fs, out) ==
  LET any == AnyHeaderParse(AnyHeaderNew, fs)
      v   == header(any.msg).schema_version
  IN IF ~any.ok THEN [status |-> "kNotParsable", out |-> out]
     ELSE IF ~has_header(any.msg) THEN [status |-> "kMissingHeader", out |-> out]
     ELSE IF v > kSchemaVersion THEN [status |-> "kSchemaTooNew", out |-> out]
     ELSE IF v < kSchemaVersion THEN [status |-> "kSchemaTooOld", out |-> out]
     ELSE [status |-> "kOk", out |-> HeaderCopyFrom(out, header(any.msg))]
=============================================================================
