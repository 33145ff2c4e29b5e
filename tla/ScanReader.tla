----------------------------- MODULE ScanReader -----------------------------
(***************************************************************************)
(* lidar::ScanReader (src/reader.cpp) beside a live recorder, driven by the *)
(* operations of ScanQueryServer's handler (src/query_server.cpp), of the   *)
(* monitor (count() alone) and of a plain caller of get().                  *)
(*                                                                          *)
(* The reader is one SQLite connection with three prepared statements that  *)
(* are reset just before their next use and not after their last row.  A    *)
(* statement that returned a row stays active, and the connection keeps its *)
(* read transaction, and the WAL snapshot it reads, as long as one of its   *)
(* statements is active.  The recorder commits rows between any two steps.  *)
(***************************************************************************)
EXTENDS ScanRecorder, FiniteSets

CONSTANTS
  Stamp,        (* stamp_ns of each scan, as the sensor's clock gave it    *)
  Window        (* the window a RECENT request asks for                    *)

Stamps == {Stamp[s] : s \in Scans}
Stmts  == {"count", "get", "range"}
Ops    == {"LATEST", "RECENT", "RANGE", "COUNT", "GET"}

ASSUME ReaderAssumption ==
  /\ Stamp \in [Scans -> Nat]
  /\ Window \in Nat

VARIABLES
  at,           (* the reader's next step, "closed" when there is no reader *)
  active,       (* statements stepped to a row and not reset since          *)
  snap,         (* rows the connection's read transaction sees              *)
  in_good,      (* log.good() of the reader's ifstream                      *)
  op,           (* the operation in progress, or the last one               *)
  index,        (* the position get() was given                             *)
  lo, hi,       (* the stamps find_by_time_range was given                  *)
  cursor,       (* seq of the row a statement is on, 0 before the first     *)
  total,        (* what the last count() of the operation returned          *)
  found,        (* the scans read so far, the reply when it is done         *)
  outcome,      (* "done", "throw" or "out_of_range" once it is             *)
  began,        (* history: rows committed when an operation that asks for  *)
                (* count() first began, 0 for the others                    *)
  seen          (* history: those of them count() could see then            *)

request == <<op, lo, hi, began, seen>>
reader  == <<at, active, snap, in_good, op, index, lo, hi, cursor, total,
             found, outcome, began, seen>>

ReaderTypeOK ==
  /\ at \in {"closed", "ready", "any", "newest", "bound", "fetch", "anchor", "load",
            "select"}
  /\ active \subseteq Stmts
  /\ snap \in 0..Len(rows)
  /\ in_good \in BOOLEAN
  /\ op \in Ops
  /\ index \in Nat
  /\ lo \in Int /\ hi \in Int
  /\ cursor \in 0..Len(rows)
  /\ total \in Nat
  /\ found \in Seq(Scans)
  /\ outcome \in {"none", "done", "throw", "out_of_range"}
  /\ began \in Nat
  /\ seen \in 0..Len(rows)

NoReader ==
  /\ at = "closed"
  /\ active = {}
  /\ snap = 0
  /\ in_good = TRUE
  /\ op = "COUNT"
  /\ index = 0
  /\ lo = 0 /\ hi = 0
  /\ cursor = 0
  /\ total = 0
  /\ found = << >>
  /\ outcome = "none"
  /\ began = 0
  /\ seen = 0

-----------------------------------------------------------------------------
(* SQLite: sqlite3_reset and sqlite3_step of one statement.                 *)

(* The rows st sees when it is reset and stepped: a new snapshot if it was  *)
(* the last active statement, the connection's old one otherwise.           *)
View(st) == IF active \ {st} = {} THEN Len(rows) ELSE snap

(* The rows seen by a step that follows a row of the same execution.        *)
Stepped(st) == IF cursor = 0 THEN View(st) ELSE snap

(* The step returns SQLITE_ROW, or SQLITE_DONE.                             *)
RowStep(st, view)  == active' = active \union {st} /\ snap' = view
DoneStep(st, view) == active' = active \ {st} /\ snap' = view

-----------------------------------------------------------------------------
(* The operations.                                                         *)

(* The constructor opens both files and prepares the statements; the table  *)
(* was created by the recorder that ran first.                              *)
OpenReader ==
  /\ at = "closed"
  /\ at' = "ready"
  /\ in_good' = TRUE
  /\ UNCHANGED <<active, snap, request, index, cursor, total, found, outcome>>

(* Finalising the statements ends the read transaction.                     *)
Discard ==
  /\ at' = "closed" /\ active' = {} /\ snap' = 0 /\ in_good' = TRUE
  /\ op' = "COUNT" /\ index' = 0 /\ lo' = 0 /\ hi' = 0 /\ cursor' = 0
  /\ total' = 0 /\ found' = << >> /\ outcome' = "none" /\ began' = 0 /\ seen' = 0

CloseReader == at = "ready" /\ Discard

(* A request arrives: handle() dispatches on its command.                   *)
Begin(o, first, i, l, h) ==
  /\ at = "ready"
  /\ op' = o /\ at' = first /\ index' = i /\ lo' = l /\ hi' = h
  /\ cursor' = 0 /\ total' = 0 /\ found' = << >> /\ outcome' = "none"
  /\ began' = IF first = "any" THEN Len(rows) ELSE 0
  /\ seen' = IF first = "any" THEN View("count") ELSE 0
  /\ UNCHANGED <<active, snap, in_good>>

BeginLatest == Begin("LATEST", "any", 0, 0, 0)
BeginRecent == Begin("RECENT", "any", 0, 0, 0)
BeginCount  == Begin("COUNT", "any", 0, 0, 0)
BeginGet    == \E i \in 0..MaxScans : Begin("GET", "bound", i, 0, 0)
BeginRange  == \E l, h \in Stamps : Begin("RANGE", "select", 0, l, h)

Finish(result) == at' = "ready" /\ outcome' = result

(* count() > 0?  The monitor wants no more than the number.                 *)
CountAny ==
  /\ at = "any"
  /\ total' = View("count")
  /\ RowStep("count", View("count"))
  /\ IF View("count") = 0 \/ op = "COUNT"
     THEN Finish("done")
     ELSE at' = "newest" /\ UNCHANGED outcome
  /\ UNCHANGED <<request, in_good, index, cursor, found>>

(* get(count() - 1): the argument.                                         *)
CountNewest ==
  /\ at = "newest"
  /\ total' = View("count")
  /\ index' = View("count") - 1
  /\ RowStep("count", View("count"))
  /\ at' = "bound"
  /\ UNCHANGED <<request, in_good, cursor, found, outcome>>

(* Mutant of GetBound: an off-by-one in the range check.                    *)
GetBoundOffByOne ==
  /\ at = "bound"
  /\ total' = View("count")
  /\ RowStep("count", View("count"))
  /\ IF index > View("count")
     THEN Finish("out_of_range")
     ELSE at' = "fetch" /\ UNCHANGED outcome
  /\ UNCHANGED <<request, in_good, index, cursor, found>>

(* get() itself: index >= count() is out of range.                         *)
GetBound ==
  /\ at = "bound"
  /\ total' = View("count")
  /\ RowStep("count", View("count"))
  /\ IF index >= View("count")
     THEN Finish("out_of_range")
     ELSE at' = "fetch" /\ UNCHANGED outcome
  /\ UNCHANGED <<request, in_good, index, cursor, found>>

(* Mutant of GetFetch: positions taken as starting at 1, seq at 2.          *)
GetFetchOffByOne ==
  /\ at = "fetch"
  /\ IF index + 2 <= View("get")
     THEN /\ RowStep("get", View("get"))
          /\ cursor' = index + 2
          /\ at' = IF op = "RECENT" THEN "anchor" ELSE "load"
          /\ UNCHANGED outcome
     ELSE /\ DoneStep("get", View("get"))
          /\ Finish("throw")
          /\ UNCHANGED cursor
  /\ UNCHANGED <<request, in_good, index, total, found>>

(* ... WHERE seq = index + 1.  A missing row is not looked for: its columns *)
(* read as 0, and read_record(0, 0) finds no such prefix.                   *)
GetFetch ==
  /\ at = "fetch"
  /\ IF index + 1 <= View("get")
     THEN /\ RowStep("get", View("get"))
          /\ cursor' = index + 1
          /\ at' = IF op = "RECENT" THEN "anchor" ELSE "load"
          /\ UNCHANGED outcome
     ELSE /\ DoneStep("get", View("get"))
          /\ Finish("throw")
          /\ UNCHANGED cursor
  /\ UNCHANGED <<request, in_good, index, total, found>>

(* Mutant of InRange: the end stamp is exclusive.                           *)
InRangeExclusive(i) == rows[i].scan \in {s \in Scans : lo <= Stamp[s] /\ Stamp[s] < hi}

(* The next row of the range, in the order of seq.                         *)
InRange(i) == rows[i].scan \in {s \in Scans : lo <= Stamp[s] /\ Stamp[s] <= hi}

RangeSelect ==
  /\ at = "select"
  /\ LET view == Stepped("range")
         next == {i \in (cursor + 1)..view : InRange(i)}
     IN \/ /\ next = {}
           /\ DoneStep("range", view) /\ Finish("done") /\ UNCHANGED cursor
        \/ \E i \in next :
             /\ \A j \in next : i <= j
             /\ RowStep("range", view)
             /\ cursor' = i
             /\ at' = "load"
             /\ UNCHANGED outcome
  /\ UNCHANGED <<request, in_good, index, total, found>>

(* read_record at the row of cursor: a short read leaves failbit set, and    *)
(* seekg on such a stream fails.                                            *)
Loaded == IF in_good THEN Read(rows[cursor].offset, rows[cursor].length) ELSE NoScan

LoadEffect == in_good' = (in_good /\ ~Truncated(rows[cursor].offset, rows[cursor].length))

LoadFails ==
  /\ at \in {"anchor", "load"}
  /\ Loaded = NoScan
  /\ LoadEffect
  /\ Finish("throw")
  /\ UNCHANGED <<active, snap, request, index, cursor, total, found>>

(* Mutant of LoadAnchor: the window starts at the newest scan.              *)
LoadAnchorForward ==
  /\ at = "anchor"
  /\ Loaded # NoScan
  /\ LoadEffect
  /\ lo' = Stamp[Loaded] /\ hi' = Stamp[Loaded] + Window
  /\ cursor' = 0
  /\ at' = "select"
  /\ UNCHANGED <<active, snap, op, began, seen, index, total, found, outcome>>

(* The newest scan's stamp is the end of the range RECENT goes on with.     *)
LoadAnchor ==
  /\ at = "anchor"
  /\ Loaded # NoScan
  /\ LoadEffect
  /\ lo' = Stamp[Loaded] - Window /\ hi' = Stamp[Loaded]
  /\ cursor' = 0
  /\ at' = "select"
  /\ UNCHANGED <<active, snap, op, began, seen, index, total, found, outcome>>

Load ==
  /\ at = "load"
  /\ Loaded # NoScan
  /\ LoadEffect
  /\ found' = Append(found, Loaded)
  /\ IF op \in {"LATEST", "GET"}
     THEN Finish("done")
     ELSE at' = "select" /\ UNCHANGED outcome
  /\ UNCHANGED <<active, snap, request, index, cursor, total>>

ReaderNext ==
  \/ OpenReader
  \/ CloseReader
  \/ BeginLatest
  \/ BeginRecent
  \/ BeginCount
  \/ BeginGet
  \/ BeginRange
  \/ CountAny
  \/ CountNewest
  \/ GetBound
  \/ GetFetch
  \/ RangeSelect
  \/ LoadFails
  \/ LoadAnchor
  \/ Load

-----------------------------------------------------------------------------
(* The machine: both processes on one recording.                           *)

(* What the recorder counts no reader sees, so that one outcome of Open's   *)
(* COUNT stands for both.                                                   *)
RecorderStep == (Open /\ uncounted' = 0) \/ BeginRecord \/ WriteCell \/ WriteFails
                \/ InsertRow \/ InsertFails \/ ReturnFromRecord \/ Close \/ Closed \/ Crash

(* A power failure ends the reader too.                                    *)
MachineDown == PowerLoss /\ Discard

SystemInit == Init /\ NoReader

SystemNext ==
  \/ RecorderStep /\ UNCHANGED reader
  \/ MachineDown
  \/ ReaderNext /\ UNCHANGED vars

SystemSpec == SystemInit /\ [][SystemNext]_<<vars, reader>>

-----------------------------------------------------------------------------
(* What reading a live recording promises.                                  *)

Done(o) == at = "ready" /\ op = o /\ outcome = "done"

(* As long as no power failure took log bytes, no read throws, whatever the *)
(* recorder is in the middle of and however often it died: the reader only  *)
(* reports get() out of range, and only to a caller that chose the index.   *)
IntactIsServed ==
  lost = {} => /\ outcome # "throw"
               /\ outcome = "out_of_range" => op = "GET"

(* get(index) answers with the scan recorded index-th, also when a power    *)
(* failure spared that row and took others: a torn record, an orphan record *)
(* or a row that lost its bytes never shifts or replaces an intact one.     *)
GetReturnsItsRow ==
  (Done("GET") \/ (Done("LATEST") /\ total > 0)) /\ index + 1 \notin lost =>
    found = << rows[index + 1].scan >>

(* A range is answered from one snapshot: exactly the rows of it within the *)
(* stamps asked for, each once and in recording order, which numbers the    *)
(* scans; none missed or added because the recorder committed between two   *)
(* steps (reader.hpp:38-39).                                               *)
RangeIsOneSnapshot ==
  (Done("RANGE") \/ (Done("RECENT") /\ total > 0)) /\ lost = {} =>
    /\ {found[k] : k \in 1..Len(found)}
         = {s \in {rows[i].scan : i \in 1..snap} : lo <= Stamp[s] /\ Stamp[s] <= hi}
    /\ \A j, k \in 1..Len(found) : j < k => found[j] < found[k]

(* RECENT reads its anchor and the window in separate statements, and yet   *)
(* the two belong together: the anchor is a scan at least as new as all     *)
(* that this connection could see when the request came, and the reply has  *)
(* the scans of its window recorded up to it, the anchor among them, and    *)
(* nothing outside Window of it.  What the connection could see may be old, *)
(* which is the matter of NewestIsAnswered.                                 *)
RecentIsAnchored ==
  Done("RECENT") /\ total > 0 /\ lost = {} =>
    LET anchor == index + 1
        stamp  == Stamp[rows[anchor].scan]
        got    == {found[k] : k \in 1..Len(found)}
    IN /\ seen <= anchor
       /\ \A i \in 1..anchor :
            Stamp[rows[i].scan] \in (stamp - Window)..stamp => rows[i].scan \in got
       /\ \A s \in got : Stamp[s] \in (stamp - Window)..stamp

(* LATEST answers with "the most recently recorded scan" and RECENT with a  *)
(* window that ends at the "MOST RECENTLY RECORDED scan"                    *)
(* (query_client.hpp:44, :55-56): one no older than the newest row that was *)
(* committed when the request was taken up.                                 *)
NewestIsAnswered ==
  Done("LATEST") \/ Done("RECENT") =>
    IF total = 0 THEN began = 0 ELSE index + 1 >= began
=============================================================================
