---------------------------- MODULE ScanRecorder ----------------------------
(***************************************************************************)
(* lidar::ScanRecorder (src/recorder.cpp) on the disk it writes to: a log   *)
(* of length-prefixed records, appended to, and a SQLite index with one row *)
(* (stamp, offset, length) a record.  record() writes the log first and     *)
(* inserts the row second, and the process may die between any two of its   *)
(* steps; it is then started again on the same files.                       *)
(*                                                                          *)
(* The log is an array of cells.  A record of scan s takes 1 + Size[s] of   *)
(* them: cell <<s, 0>> is its length prefix and <<s, 1>> .. <<s, Size[s]>>  *)
(* its serialised payload.  Reading a payload cell where a prefix should be *)
(* is taken as the length mismatch the reader reports.                      *)
(*                                                                          *)
(* The log is flushed to the kernel and never fsynced, the index commits    *)
(* through a WAL that SQLite fsyncs: a process crash loses neither, a power *)
(* failure loses the tail of the log that was not written back and no row.  *)
(***************************************************************************)
EXTENDS Integers, Sequences

CONSTANTS
  MaxScans,     (* bound: calls of record(), over all runs of the recorder *)
  Size,         (* payload cells of each scan                              *)
  Capacity,     (* cells the disk has for the log                          *)
  PowerFails    (* whether the machine may lose power                      *)

Scans   == 1..MaxScans
Cells   == 0..(Capacity - 1)
NoScan  == 0                     \* what a read that threw returned
LostRow == -1                    \* stands for a row that lost its bytes
Hole    == <<0, 0>>              \* a cell of the disk nothing was written to

ASSUME RecorderAssumption ==
  /\ MaxScans \in Nat
  /\ Size \in [Scans -> Nat \ {0}]
  /\ Capacity \in Nat
  /\ PowerFails \in BOOLEAN

VARIABLES
  log,          (* contents of the log file, as any process sees it        *)
  size,         (* its length: where the next write lands (ios::app)       *)
  synced,       (* how much of it a power failure was seen to leave        *)
  rows,         (* the committed rows of the index, by seq                 *)
  pc,           (* where the recorder process is                           *)
  calls,        (* how many times record() was called: scan n is the       *)
                (* argument of call n                                      *)
  scan,         (* the scan whose record is being, or was last, written    *)
  offset,       (* record()'s offset: tellp() at the end of the log        *)
  part,         (* how many cells of the record are written                *)
  log_good,     (* log.good(): a failed write is never cleared             *)
  scan_count,   (* scan_count, what count() returns                        *)
  acked,        (* history: scans whose record() returned                  *)
  lost,         (* history: rows whose bytes a power failure took          *)
  uncounted     (* history: rows that were there when the recorder was     *)
                (* opened and that its COUNT did not return                *)

disk     == <<log, size, synced>>
record   == <<calls, scan, offset, part>>
history  == <<acked, lost, uncounted>>
vars     == <<log, size, synced, rows, pc, calls, scan, offset, part, log_good,
              scan_count, acked, lost, uncounted>>

Row == [scan : Scans, offset : Nat, length : Nat]

TypeOK ==
  /\ log \in [Cells -> {Hole} \union (Scans \X Nat)]
  /\ size \in 0..Capacity
  /\ synced \in 0..size
  /\ rows \in Seq(Row)
  /\ pc \in {"down", "idle", "writing", "written", "indexed", "closing"}
  /\ calls \in 0..MaxScans
  /\ scan \in 0..MaxScans
  /\ offset \in Nat
  /\ part \in Nat
  /\ log_good \in BOOLEAN
  /\ scan_count \in Nat
  /\ acked \subseteq Scans
  /\ lost \subseteq 1..Len(rows)
  /\ uncounted \in Nat

Init ==
  /\ log = [c \in Cells |-> Hole]
  /\ size = 0
  /\ synced = 0
  /\ rows = << >>
  /\ pc = "down"
  /\ calls = 0
  /\ scan = 0
  /\ offset = 0
  /\ part = 0
  /\ log_good = TRUE
  /\ scan_count = 0
  /\ acked = {}
  /\ lost = {}
  /\ uncounted = 0

-----------------------------------------------------------------------------
(* The recorder process.                                                   *)

(* Mutant of Open: the log is opened with ios::out and truncated.           *)
OpenTruncating ==
  /\ pc = "down"
  /\ pc' = "idle"
  /\ log_good' = TRUE
  /\ \/ scan_count' = Len(rows) /\ uncounted' = 0
     \/ scan_count' = 0 /\ uncounted' = Len(rows)
  /\ log' = [c \in Cells |-> Hole] /\ size' = 0 /\ synced' = 0
  /\ UNCHANGED <<rows, record, acked, lost>>

(* The constructor: the log is opened for append at whatever length it has, *)
(* and the count starts from the rows already there.  The step of SELECT    *)
(* COUNT that returns anything but a row (SQLITE_BUSY after 5 s, an I/O     *)
(* error) is passed over and leaves the count at 0; any other failure       *)
(* throws, which leaves everything as it was and is no step.                *)
Open ==
  /\ pc = "down"
  /\ pc' = "idle"
  /\ log_good' = TRUE
  /\ \/ scan_count' = Len(rows) /\ uncounted' = 0
     \/ scan_count' = 0 /\ uncounted' = Len(rows)
  /\ UNCHANGED <<disk, rows, record, acked, lost>>

(* record() up to its first write.  On a stream a former write has broken,  *)
(* seekp, tellp and the writes do nothing and good() is still false: throw. *)
BeginRecord ==
  /\ pc = "idle"
  /\ calls < MaxScans
  /\ calls' = calls + 1
  /\ IF log_good
     THEN pc' = "writing" /\ scan' = calls + 1 /\ offset' = size /\ part' = 0
     ELSE UNCHANGED <<pc, scan, offset, part>>
  /\ UNCHANGED <<disk, rows, log_good, scan_count, history>>

(* One more piece of the record reaches the file; the last one ends flush().*)
(* A stream being closed writes the bytes a failed write left in its buffer.*)
WriteCell ==
  /\ pc \in {"writing", "closing"}
  /\ part <= Size[scan]
  /\ size < Capacity
  /\ log' = [log EXCEPT ![size] = <<scan, part>>]
  /\ size' = size + 1
  /\ part' = part + 1
  /\ pc' = IF pc = "writing" /\ part = Size[scan] THEN "written" ELSE pc
  /\ UNCHANGED <<synced, rows, calls, scan, offset, log_good, scan_count, history>>

(* Mutant of WriteFails: the result of the write and the flush is ignored.  *)
WriteFailsUnnoticed ==
  /\ pc = "writing"
  /\ log_good' = FALSE
  /\ pc' = "written"
  /\ UNCHANGED <<disk, rows, record, scan_count, history>>

(* A write or the flush fails (a full disk, an I/O error): record() throws. *)
WriteFails ==
  /\ pc = "writing"
  /\ log_good' = FALSE
  /\ pc' = "idle"
  /\ UNCHANGED <<disk, rows, record, scan_count, history>>

(* The INSERT commits, in a transaction of its own.                        *)
InsertRow ==
  /\ pc = "written"
  /\ rows' = Append(rows, [scan |-> scan, offset |-> offset, length |-> Size[scan]])
  /\ pc' = "indexed"
  /\ UNCHANGED <<disk, record, log_good, scan_count, history>>

(* Mutant of InsertFails: sqlite3_step's result is not checked, so the scan *)
(* is counted and the caller believes it is recorded.                       *)
InsertFailsUnchecked ==
  /\ pc = "written"
  /\ scan_count' = scan_count + 1
  /\ acked' = acked \union {scan}
  /\ pc' = "idle"
  /\ UNCHANGED <<disk, rows, record, log_good, lost, uncounted>>

(* The INSERT fails (busy for 5 s, a full disk): record() throws.           *)
InsertFails ==
  /\ pc = "written"
  /\ pc' = "idle"
  /\ UNCHANGED <<disk, rows, record, log_good, scan_count, history>>

(* ++scan_count, and record() returns to its caller.                       *)
ReturnFromRecord ==
  /\ pc = "indexed"
  /\ scan_count' = scan_count + 1
  /\ acked' = acked \union {scan}
  /\ pc' = "idle"
  /\ UNCHANGED <<disk, rows, record, log_good, lost, uncounted>>

(* The destructor: the ofstream flushes what it still holds and closes.     *)
Close ==
  /\ pc = "idle"
  /\ pc' = IF log_good THEN "down" ELSE "closing"
  /\ UNCHANGED <<disk, rows, record, log_good, scan_count, history>>

Closed ==
  /\ pc = "closing"
  /\ pc' = "down"
  /\ UNCHANGED <<disk, rows, record, log_good, scan_count, history>>

-----------------------------------------------------------------------------
(* The machine.                                                            *)

(* The process dies.  What it wrote stays: it is in the kernel's cache.     *)
Crash ==
  /\ pc # "down"
  /\ pc' = "down"
  /\ UNCHANGED <<disk, rows, record, log_good, scan_count, history>>

(* Rows whose record does not lie wholly below cell n.                     *)
Beyond(n) == {i \in 1..Len(rows) : rows[i].offset + rows[i].length >= n}

(* Power fails: the log keeps what the kernel had written back, any part of *)
(* it, though at least what an earlier power failure had left.              *)
PowerLoss ==
  /\ PowerFails
  /\ \E n \in synced..size :
       /\ log' = [c \in Cells |-> IF c < n THEN log[c] ELSE Hole]
       /\ size' = n
       /\ synced' = n
       /\ lost' = lost \union Beyond(n)
  /\ pc' = "down"
  /\ UNCHANGED <<rows, record, log_good, scan_count, acked, uncounted>>

Next ==
  \/ Open
  \/ BeginRecord
  \/ WriteCell
  \/ WriteFails
  \/ InsertRow
  \/ InsertFails
  \/ ReturnFromRecord
  \/ Close
  \/ Closed
  \/ Crash
  \/ PowerLoss

Spec == Init /\ [][Next]_vars

-----------------------------------------------------------------------------
(* Reading a record back (ScanReader::Impl::read_record).                   *)

(* The prefix at o declares a payload of len cells.                        *)
Declares(o, len) == \E s \in Scans : Size[s] = len /\ log[o] = <<s, 0>>

(* The log ends before the four bytes of the prefix, or in the payload.    *)
Truncated(o, len) == o >= size \/ (Declares(o, len) /\ o + len >= size)

(* The scan read at o, or NoScan when read_record throws.                  *)
Read(o, len) ==
  IF ~Truncated(o, len) /\ Declares(o, len)
     /\ \A k \in 1..len : log[o + k] = <<log[o][1], k>>
  THEN log[o][1]
  ELSE NoScan

-----------------------------------------------------------------------------
(* What recording promises.                                                *)

(* A row the power supply spared reads back as the very scan it was written *)
(* for: "log write happens, and only then the index insert"                 *)
(* (reader.cpp:109-110), whatever fails or dies in between and whatever     *)
(* half-written records the log holds around it.                            *)
RowsReadable ==
  \A i \in (1..Len(rows)) \ lost : Read(rows[i].offset, rows[i].length) = rows[i].scan

(* count() is never off by anything but the rows the COUNT of this opening  *)
(* did not return: after any failed or interrupted record(), and after a    *)
(* restart whatever the run before had counted.  "Whatever the log already  *)
(* held ... plus everything recorded this run" (recorder.hpp:39-40) is true *)
(* of it exactly when nothing is uncounted: recorder.cpp:105 ignores a      *)
(* COUNT that fails, and the recorder then goes on from 0.                  *)
CountOffByUncounted ==
  pc \in {"idle", "writing", "written"} => scan_count + uncounted = Len(rows)

(* Every scan whose record() returned has a row, a scan has one at most and *)
(* rows are in the order of the calls.                                      *)
AckedIndexed ==
  /\ \A s \in acked : \E i \in 1..Len(rows) : rows[i].scan = s
  /\ \A i, j \in 1..Len(rows) : i < j => rows[i].scan < rows[j].scan

(* What a reader obtains from the whole recording; a row that lost its      *)
(* bytes counts as lost even when other bytes now stand in their place.     *)
ReadAll ==
  [i \in 1..Len(rows) |->
     IF i \in lost THEN LostRow ELSE Read(rows[i].offset, rows[i].length)]

Store == INSTANCE ScanStore WITH stored <- ReadAll, Lost <- LostRow

(* The recorder, its disk and its crashes implement the abstract recording: *)
(* the scans read back from the log only grow, one new scan at a time, and  *)
(* none ever turns into another.                                            *)
ImplementsStore == Store!StoreSpec
=============================================================================
