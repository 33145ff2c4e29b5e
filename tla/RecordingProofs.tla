------------------------- MODULE RecordingProofs ----------------------------
(***************************************************************************)
(* Of ScanRecorder, and of ScanReader beside it, for any number of scans,   *)
(* any sizes, stamps and windows, any disk and any other recording: first   *)
(* the recorder by itself, then what its readers make of its files.         *)
(***************************************************************************)
EXTENDS ScanReader, SequenceTheorems, TLAPS

(* The whole record of scan s lies at offset o.                            *)
Holds(o, s) ==
  /\ o + Size[s] < size
  /\ \A k \in 0..Size[s] : log[o + k] = <<s, k>>

(* What is written so far of the record in progress, at the end of the log; *)
(* a record that has reached the index step is whole.                       *)
InProgress ==
  /\ pc = "writing" =>
       /\ scan \in Scans
       /\ offset + part = size
       /\ part <= Size[scan]
       /\ \A k \in 0..(part - 1) : log[offset + k] = <<scan, k>>
  /\ pc = "written" => scan \in Scans /\ Holds(offset, scan)
  /\ pc \in {"indexed", "closing"} => scan \in Scans

(* A broken stream still knows which scan its buffer holds.                *)
Broken == log_good = FALSE => scan \in Scans

(* Every row the power supply spared describes a whole record.             *)
RowsHeld ==
  \A i \in (1..Len(rows)) \ lost :
    rows[i].length = Size[rows[i].scan] /\ Holds(rows[i].offset, rows[i].scan)

IInv == TypeOK /\ InProgress /\ Broken /\ RowsHeld

-----------------------------------------------------------------------------
(* A record that is held reads back as its scan.                           *)
LEMMA HeldReads ==
  ASSUME NEW o \in Nat, NEW s \in Scans, Size[s] \in Nat, Holds(o, s), size \in Nat
  PROVE  Read(o, Size[s]) = s
<1>1. log[o] = <<s, 0>>
  BY DEF Holds
<1>2. ~Truncated(o, Size[s]) /\ Declares(o, Size[s])
  BY <1>1 DEF Holds, Truncated, Declares
<1>3. \A k \in 1..Size[s] : log[o + k] = <<s, k>>
  BY DEF Holds
<1>4. log[o][1] = s
  BY <1>1
<1> QED
  BY <1>2, <1>3, <1>4 DEF Read

(* A held record is not disturbed by what happens behind cell n.           *)
LEMMA HeldBelow ==
  ASSUME NEW o \in Nat, NEW s, Size[s] \in Nat, NEW n \in Nat, size \in Nat,
         Holds(o, s), o + Size[s] < n,
         \A c \in 0..(n - 1) : log'[c] = log[c],
         size' \in Nat, n <= size'
  PROVE  Holds(o, s)'
<1>1. \A k \in 0..Size[s] : log'[o + k] = <<s, k>>
  <2> SUFFICES ASSUME NEW k \in 0..Size[s] PROVE log'[o + k] = <<s, k>>
    OBVIOUS
  <2>1. o + k \in 0..(n - 1)
    OBVIOUS
  <2>2. log[o + k] = <<s, k>>
    BY DEF Holds
  <2> QED BY <2>1, <2>2
<1> QED BY <1>1 DEF Holds

(* Hence every row the power supply spared reads back.                      *)
LEMMA HeldIsReadable == IInv => RowsReadable
<1> SUFFICES ASSUME IInv, NEW i \in (1..Len(rows)) \ lost
             PROVE  Read(rows[i].offset, rows[i].length) = rows[i].scan
  BY DEF RowsReadable
<1>1. rows[i] \in Row /\ size \in Nat
  BY DEF IInv, TypeOK
<1>2. rows[i].length = Size[rows[i].scan] /\ Holds(rows[i].offset, rows[i].scan)
  BY DEF IInv, RowsHeld
<1> QED
  BY <1>1, <1>2, HeldReads, RecorderAssumption DEF Row

LEMMA InitIInv == Init => IInv
BY RecorderAssumption DEF Init, IInv, TypeOK, InProgress, Broken, RowsHeld, Scans, Cells, Hole, Row

(* A step that writes nothing, inserts nothing and leaves the record where  *)
(* it is keeps the invariant, whatever the process does next.               *)
LEMMA QuietStep ==
  ASSUME IInv,
         UNCHANGED <<log, size, synced, rows, calls, scan, offset, part, lost>>,
         pc' \in {"down", "idle", "closing"} \/ pc' = pc,
         pc' = "closing" => scan \in Scans,
         log_good' \in BOOLEAN, log_good' = FALSE => scan \in Scans,
         scan_count' \in Nat, acked' \subseteq Scans, uncounted' \in Nat
  PROVE  IInv'
<1>1. TypeOK'
  BY DEF IInv, TypeOK
<1>2. InProgress'
  BY DEF IInv, InProgress, Holds
<1>3. Broken'
  BY DEF Broken
<1>4. RowsHeld'
  BY DEF IInv, RowsHeld, Holds
<1> QED
  BY <1>1, <1>2, <1>3, <1>4 DEF IInv

LEMMA NextIInv == IInv /\ [Next]_vars => IInv'
<1> SUFFICES ASSUME IInv, [Next]_vars PROVE IInv'
  OBVIOUS
<1> USE RecorderAssumption
<1>0. /\ pc = "writing" => scan \in Scans
      /\ pc \in {"written", "indexed", "closing"} => scan \in Scans
      /\ log_good = FALSE => scan \in Scans
      /\ log_good \in BOOLEAN /\ scan_count \in Nat /\ acked \subseteq Scans
      /\ uncounted \in Nat
      /\ rows \in Seq(Row) /\ Len(rows) \in Nat
  BY DEF IInv, TypeOK, InProgress, Broken
<1>1. CASE Open
  <2>1. /\ UNCHANGED <<log, size, synced, rows, calls, scan, offset, part, lost, acked>>
        /\ pc' = "idle" /\ log_good' = TRUE
        /\ scan_count' \in {0, Len(rows)} /\ uncounted' \in {0, Len(rows)}
    BY <1>1 DEF Open, disk, record
  <2> QED BY <2>1, <1>0, QuietStep
<1>2. CASE BeginRecord
  <2>1. /\ UNCHANGED <<log, size, synced, rows, lost, acked, log_good, scan_count,
                     uncounted>>
        /\ calls' \in 0..MaxScans /\ pc = "idle"
        /\ \/ pc' = "writing" /\ scan' = calls + 1 /\ offset' = size /\ part' = 0
           \/ UNCHANGED <<pc, scan, offset, part>>
    BY <1>2 DEF BeginRecord, disk, history, IInv, TypeOK
  <2>2. scan' \in 0..MaxScans /\ (pc' = "writing" => scan' \in Scans)
    BY <1>2, <2>1 DEF BeginRecord, IInv, TypeOK, Scans
  <2>3. pc' = "writing" => offset' = size /\ part' = 0 /\ size \in Nat
    BY <2>1 DEF IInv, TypeOK
  <2>4. TypeOK'
    <3>1. offset' \in Nat /\ part' \in Nat /\ pc' \in {"idle", "writing"}
      BY <2>1 DEF IInv, TypeOK
    <3> QED BY <2>1, <2>2, <3>1 DEF IInv, TypeOK
  <2>5. InProgress'
    <3>1. CASE pc' = "writing"
      BY <3>1, <2>1, <2>2, <2>3 DEF InProgress, Scans
    <3>2. CASE pc' # "writing"
      BY <3>2, <2>1 DEF InProgress
    <3> QED BY <3>1, <3>2
  <2>6. Broken'
    BY <1>2, <2>1 DEF BeginRecord, IInv, Broken
  <2>7. RowsHeld'
    BY <2>1 DEF IInv, RowsHeld, Holds
  <2> QED BY <2>4, <2>5, <2>6, <2>7 DEF IInv
<1>3. CASE WriteCell
  <2> USE <1>3 DEF WriteCell
  <2>1. TypeOK'
    <3>1. /\ size \in 0..Capacity /\ synced \in 0..size /\ size < Capacity
          /\ scan \in Scans /\ part \in Nat /\ Capacity \in Nat
          /\ log \in [Cells -> {Hole} \union (Scans \X Nat)]
      BY DEF IInv, TypeOK, InProgress
    <3>2. log' \in [Cells -> {Hole} \union (Scans \X Nat)]
      <4>1. log' = [log EXCEPT ![size] = <<scan, part>>] /\ <<scan, part>> \in Scans \X Nat
        BY <3>1
      <4> QED BY <3>1, <4>1
    <3>3. size' \in 0..Capacity /\ synced' \in 0..size' /\ part' \in Nat
      BY <3>1
    <3>4. pc' \in {"writing", "written", "closing"}
      OBVIOUS
    <3>5. UNCHANGED <<rows, calls, scan, offset, log_good, scan_count, acked, lost, uncounted>>
      BY DEF history
    <3> HIDE <1>3 DEF WriteCell
    <3> QED BY <3>2, <3>3, <3>4, <3>5 DEF IInv, TypeOK
  <2>a. /\ size \in Nat /\ part \in Nat /\ offset \in Nat /\ scan \in Scans
        /\ Size[scan] \in Nat
    BY DEF IInv, TypeOK, InProgress, Scans
  <2>b. \A c \in 0..(size - 1) : log'[c] = log[c]
    BY DEF IInv, TypeOK, Cells
  <2>c. log'[size] = <<scan, part>>
    BY DEF IInv, TypeOK, Cells
  <2>2. InProgress'
    <3>1. CASE pc = "writing"
      <4>1. offset + part = size /\ \A k \in 0..(part - 1) : log[offset + k] = <<scan, k>>
        BY <3>1 DEF IInv, InProgress
      <4>2. \A k \in 0..part : log'[offset + k] = <<scan, k>>
        <5> SUFFICES ASSUME NEW k \in 0..part PROVE log'[offset + k] = <<scan, k>>
          OBVIOUS
        <5>1. CASE k = part
          BY <5>1, <4>1, <2>c
        <5>2. CASE k < part
          <6>1. offset + k \in 0..(size - 1) /\ k \in 0..(part - 1)
            BY <5>2, <4>1, <2>a
          <6> QED BY <6>1, <4>1, <2>b
        <5> QED BY <5>1, <5>2, <2>a
      <4>3. CASE part = Size[scan]
        BY <3>1, <4>1, <4>2, <4>3, <2>a DEF InProgress, Holds, Scans
      <4>4. CASE part # Size[scan]
        BY <3>1, <4>1, <4>2, <4>4, <2>a DEF InProgress, Holds, Scans
      <4> QED BY <4>3, <4>4
    <3>2. CASE pc = "closing"
      BY <3>2, <2>a DEF InProgress, Scans
    <3> QED BY <3>1, <3>2
  <2>3. Broken'
    BY DEF IInv, TypeOK, Broken
  <2>4. RowsHeld'
    <3> SUFFICES ASSUME NEW i \in (1..Len(rows)) \ lost
                 PROVE  (rows[i].length = Size[rows[i].scan] /\ Holds(rows[i].offset, rows[i].scan))'
      BY DEF RowsHeld, history
    <3>0. rows[i].offset \in Nat /\ rows[i].scan \in Scans
      <4>1. rows \in Seq(Row) /\ i \in 1..Len(rows)
        BY DEF IInv, TypeOK
      <4>2. rows[i] \in Row
        BY <4>1
      <4> QED BY <4>2 DEF Row
    <3>1. PICK o \in Nat, s \in Scans : o = rows[i].offset /\ s = rows[i].scan
      BY <3>0
    <3>2. rows[i].length = Size[s] /\ Holds(o, s) /\ Size[s] \in Nat
      BY <3>1 DEF IInv, RowsHeld
    <3>3. o + Size[s] < size /\ size' \in Nat /\ size <= size'
      BY <3>2, <2>a DEF Holds
    <3>4. Holds(o, s)'
      BY <3>2, <3>3, <2>a, <2>b, HeldBelow
    <3> QED BY <3>1, <3>2, <3>4 DEF Holds
  <2> QED BY <2>1, <2>2, <2>3, <2>4 DEF IInv
<1>4. CASE WriteFails
  <2>1. /\ UNCHANGED <<log, size, synced, rows, calls, scan, offset, part, lost, acked,
                     scan_count, uncounted>>
        /\ pc = "writing" /\ pc' = "idle" /\ log_good' = FALSE
    BY <1>4 DEF WriteFails, disk, record, history
  <2> QED BY <2>1, <1>0, QuietStep
<1>5. CASE InsertRow
  <2> USE <1>5 DEF InsertRow
  <2>1. TypeOK'
    <3>1. /\ UNCHANGED <<log, size, synced, calls, scan, offset, part, log_good,
                         scan_count, acked, lost, uncounted>>
          /\ pc' = "indexed"
      BY DEF disk, record, history
    <3>2. rows' \in Seq(Row) /\ Len(rows') = Len(rows) + 1
      <4>1. [scan |-> scan, offset |-> offset, length |-> Size[scan]] \in Row
        BY <1>0 DEF IInv, TypeOK, Row
      <4> QED BY <4>1, <1>0
    <3>3. lost' \subseteq 1..Len(rows')
      BY <3>1, <3>2, <1>0 DEF IInv, TypeOK
    <3> QED BY <3>1, <3>2, <3>3 DEF IInv, TypeOK
  <2>2. InProgress' /\ Broken'
    BY <1>0 DEF InProgress, Broken, record
  <2>3. RowsHeld'
    <3> SUFFICES ASSUME NEW i \in (1..Len(rows')) \ lost'
                 PROVE  (rows[i].length = Size[rows[i].scan] /\ Holds(rows[i].offset, rows[i].scan))'
      BY DEF RowsHeld
    <3> DEFINE new == [scan |-> scan, offset |-> offset, length |-> Size[scan]]
    <3>0. rows \in Seq(Row) /\ new \in Row /\ rows' = Append(rows, new)
      BY DEF IInv, TypeOK, InProgress, Row, Scans
    <3> HIDE DEF new
    <3>1. CASE i = Len(rows) + 1
      <4>1. rows'[i] = new
        BY <3>0, <3>1
      <4>2. new.length = Size[new.scan] /\ Holds(new.offset, new.scan)
        BY DEF IInv, InProgress, new
      <4> QED BY <4>1, <4>2 DEF Holds, disk
    <3>2. CASE i # Len(rows) + 1
      <4>1. i \in (1..Len(rows)) \ lost /\ rows'[i] = rows[i]
        BY <3>0, <3>2 DEF history
      <4> QED BY <4>1 DEF IInv, RowsHeld, Holds, disk
    <3> QED BY <3>1, <3>2
  <2> QED BY <2>1, <2>2, <2>3 DEF IInv
<1>6. CASE InsertFails
  <2>1. /\ UNCHANGED <<log, size, synced, rows, calls, scan, offset, part, lost, acked,
                       scan_count, uncounted, log_good>>
        /\ pc' = "idle"
    BY <1>6 DEF InsertFails, disk, record, history
  <2> QED BY <2>1, <1>0, QuietStep
<1>7. CASE ReturnFromRecord
  <2>1. /\ UNCHANGED <<log, size, synced, rows, calls, scan, offset, part, lost, log_good,
                     uncounted>>
        /\ pc = "indexed" /\ pc' = "idle"
        /\ scan_count' = scan_count + 1 /\ acked' = acked \union {scan}
    BY <1>7 DEF ReturnFromRecord, disk, record
  <2>2. scan_count' \in Nat /\ acked' \subseteq Scans
    BY <2>1, <1>0
  <2> QED BY <2>1, <2>2, <1>0, QuietStep
<1>8. CASE Close
  <2>1. /\ UNCHANGED <<log, size, synced, rows, calls, scan, offset, part, lost, acked,
                       scan_count, uncounted, log_good>>
        /\ pc' = IF log_good THEN "down" ELSE "closing"
    BY <1>8 DEF Close, disk, record, history
  <2>2. pc' \in {"down", "closing"} /\ (pc' = "closing" => scan \in Scans)
    BY <2>1, <1>0
  <2> QED BY <2>1, <2>2, <1>0, QuietStep
<1>9. CASE Closed \/ Crash
  <2>1. /\ UNCHANGED <<log, size, synced, rows, calls, scan, offset, part, lost, acked,
                       scan_count, uncounted, log_good>>
        /\ pc' = "down"
    BY <1>9 DEF Closed, Crash, disk, record, history
  <2> QED BY <2>1, <1>0, QuietStep
<1>10. CASE PowerLoss
  <2> PICK n \in synced..size :
         /\ log' = [c \in Cells |-> IF c < n THEN log[c] ELSE Hole]
         /\ size' = n
         /\ synced' = n
         /\ lost' = lost \union Beyond(n)
    BY <1>10 DEF PowerLoss
  <2> USE <1>10 DEF PowerLoss
  <2>a. n \in Nat /\ n <= size /\ n \in 0..Capacity /\ size \in Nat
    BY DEF IInv, TypeOK
  <2>1. TypeOK'
    <3>1. log' \in [Cells -> {Hole} \union (Scans \X Nat)]
      BY DEF IInv, TypeOK
    <3>2. lost' \subseteq 1..Len(rows)
      BY DEF IInv, TypeOK, Beyond
    <3> QED BY <3>1, <3>2, <2>a DEF IInv, TypeOK, record
  <2>2. InProgress' /\ Broken'
    BY DEF IInv, InProgress, Broken, record
  <2>3. RowsHeld'
    <3> SUFFICES ASSUME NEW i \in (1..Len(rows)) \ lost'
                 PROVE  (rows[i].length = Size[rows[i].scan] /\ Holds(rows[i].offset, rows[i].scan))'
      BY DEF RowsHeld
    <3>0. rows[i].offset \in Nat /\ rows[i].scan \in Scans
      <4>1. rows \in Seq(Row) /\ i \in 1..Len(rows)
        BY DEF IInv, TypeOK
      <4>2. rows[i] \in Row
        BY <4>1
      <4> QED BY <4>2 DEF Row
    <3>1. PICK o \in Nat, s \in Scans : o = rows[i].offset /\ s = rows[i].scan
      BY <3>0
    <3>2. rows[i].length = Size[s] /\ Holds(o, s) /\ Size[s] \in Nat
      BY <3>1 DEF IInv, RowsHeld
    <3>3. o + Size[s] < n
      BY <3>1, <3>2, <2>a DEF Beyond
    <3>4. \A c \in 0..(n - 1) : log'[c] = log[c]
      BY <2>a DEF Cells
    <3>5. Holds(o, s)'
      BY <3>2, <3>3, <3>4, <2>a, HeldBelow
    <3> QED BY <3>1, <3>2, <3>5 DEF Holds
  <2> QED BY <2>1, <2>2, <2>3 DEF IInv
<1>11. CASE UNCHANGED vars
  <2>1. UNCHANGED <<log, size, synced, rows, pc, calls, scan, offset, part, lost, acked,
                    scan_count, uncounted, log_good>>
    BY <1>11 DEF vars
  <2> QED BY <2>1, <1>0, QuietStep
<1> QED
  BY <1>1, <1>2, <1>3, <1>4, <1>5, <1>6, <1>7, <1>8, <1>9, <1>10, <1>11 DEF Next

(* The variables of the recorder and its disk keep their types, for every   *)
(* Size, Capacity and number of scans.                                      *)
THEOREM RecorderTypes == Spec => []TypeOK
<1>1. IInv => TypeOK
  BY DEF IInv
<1> QED
  BY InitIInv, NextIInv, <1>1, PTL DEF Spec

(* A committed row the power supply spared always reads back as its scan.   *)
THEOREM RowsStayReadable == Spec => []RowsReadable
<1> QED
  BY InitIInv, NextIInv, HeldIsReadable, PTL DEF Spec

-----------------------------------------------------------------------------
(* Rows are in the order of the calls: the scan about to be indexed is      *)
(* newer than every row, so an acknowledged scan has its row and no other.  *)
Ordered ==
  /\ \A i, j \in 1..Len(rows) : i < j => rows[i].scan < rows[j].scan
  /\ \A i \in 1..Len(rows) : rows[i].scan <= calls
  /\ pc \in {"writing", "written", "indexed"} => scan <= calls
  /\ pc \in {"writing", "written"} => \A i \in 1..Len(rows) : rows[i].scan < scan
  /\ pc = "indexed" => \E i \in 1..Len(rows) : rows[i].scan = scan
  /\ \A s \in acked : \E i \in 1..Len(rows) : rows[i].scan = s

(* What the counter and the COUNT that failed leave out: it also lags the   *)
(* index by one between the commit and ++scan_count.                        *)
Counted ==
  /\ pc \in {"idle", "writing", "written"} => scan_count + uncounted = Len(rows)
  /\ pc = "indexed" => scan_count + 1 + uncounted = Len(rows)

OInv == Ordered /\ Counted

LEMMA InitOInv == Init => OInv
BY DEF Init, OInv, Ordered, Counted

LEMMA NextOInv == TypeOK /\ OInv /\ [Next]_vars => OInv'
<1> SUFFICES ASSUME TypeOK, OInv, [Next]_vars PROVE OInv'
  OBVIOUS
<1> USE RecorderAssumption
<1>0. /\ \A i \in 1..Len(rows) : rows[i] \in Row
      /\ Len(rows) \in Nat /\ calls \in Nat /\ scan \in Nat /\ scan_count \in Nat
      /\ uncounted \in Nat
  BY DEF TypeOK
<1>1. ASSUME UNCHANGED <<rows, calls, acked>>,
             pc' \in {"writing", "written", "indexed"} => pc' = pc /\ UNCHANGED scan
      PROVE  Ordered'
  BY <1>1 DEF OInv, Ordered
<1>2. CASE InsertRow
  <2> DEFINE new == [scan |-> scan, offset |-> offset, length |-> Size[scan]]
  <2>1. /\ rows' = Append(rows, new) /\ new.scan = scan /\ rows \in Seq(Row)
        /\ UNCHANGED <<calls, scan, acked, scan_count, uncounted>> /\ pc = "written" /\ pc' = "indexed"
    BY <1>2 DEF InsertRow, TypeOK, record, history
  <2> HIDE DEF new
  <2>2. /\ Len(rows') = Len(rows) + 1
        /\ \A i \in 1..Len(rows) : rows'[i] = rows[i]
        /\ rows'[Len(rows) + 1] = new
    BY <2>1
  <2>3. \A i \in 1..Len(rows) : rows[i].scan < scan
    BY <2>1 DEF OInv, Ordered
  <2>4. \A i, j \in 1..Len(rows') : i < j => rows'[i].scan < rows'[j].scan
    <3> SUFFICES ASSUME NEW i \in 1..Len(rows'), NEW j \in 1..Len(rows'), i < j
                 PROVE  rows'[i].scan < rows'[j].scan
      OBVIOUS
    <3>1. i \in 1..Len(rows) /\ rows'[i] = rows[i]
      BY <2>2, <1>0
    <3>2. CASE j = Len(rows) + 1
      BY <3>1, <3>2, <2>1, <2>2, <2>3
    <3>3. CASE j \in 1..Len(rows)
      BY <3>1, <3>3, <2>2 DEF OInv, Ordered
    <3> QED BY <3>2, <3>3, <2>2, <1>0
  <2>5. Ordered'
    <3>1. \A i \in 1..Len(rows') : rows'[i].scan <= calls'
      BY <2>1, <2>2, <1>0 DEF OInv, Ordered
    <3>2. \E i \in 1..Len(rows') : rows'[i].scan = scan'
      <4>1. Len(rows) + 1 \in 1..Len(rows') /\ rows'[Len(rows) + 1].scan = scan'
        BY <2>1, <2>2, <1>0
      <4> QED BY <4>1
    <3>3. \A s \in acked' : \E i \in 1..Len(rows') : rows'[i].scan = s
      <4> SUFFICES ASSUME NEW s \in acked PROVE \E i \in 1..Len(rows') : rows'[i].scan = s
        BY <2>1
      <4>1. PICK i \in 1..Len(rows) : rows[i].scan = s
        BY DEF OInv, Ordered
      <4>2. i \in 1..Len(rows') /\ rows'[i].scan = s
        BY <4>1, <2>2, <1>0
      <4> QED BY <4>2
    <3> QED BY <2>1, <2>4, <3>1, <3>2, <3>3 DEF OInv, Ordered
  <2>6. Counted'
    BY <2>1, <2>2, <1>0 DEF OInv, Counted
  <2> QED BY <2>5, <2>6 DEF OInv
<1>3. CASE BeginRecord
  <2>1. Counted'
    BY <1>3 DEF BeginRecord, OInv, Counted, history
  <2>2. Ordered'
    <3>1. rows' = rows /\ acked' = acked /\ calls' = calls + 1 /\ pc = "idle"
      BY <1>3 DEF BeginRecord, history
    <3>2. \A i \in 1..Len(rows) : rows[i].scan \in Nat /\ rows[i].scan < calls'
      <4> SUFFICES ASSUME NEW i \in 1..Len(rows)
                   PROVE  rows[i].scan \in Nat /\ rows[i].scan < calls'
        OBVIOUS
      <4>1. rows[i].scan \in Nat
        BY <1>0 DEF Row, Scans
      <4>2. rows[i].scan <= calls
        BY DEF OInv, Ordered
      <4> QED BY <4>1, <4>2, <3>1, <1>0
    <3>3. pc' = "idle" \/ (pc' = "writing" /\ scan' = calls')
      BY <1>3 DEF BeginRecord
    <3>4. calls' \in Nat
      BY <3>1, <1>0
    <3> QED BY <3>1, <3>2, <3>3, <3>4 DEF OInv, Ordered
  <2> QED BY <2>1, <2>2 DEF OInv
<1>4. CASE WriteCell
  BY <1>4 DEF WriteCell, OInv, Ordered, Counted, history
<1>5. CASE ReturnFromRecord
  BY <1>5, <1>0 DEF ReturnFromRecord, OInv, Ordered, Counted, record
<1>6. CASE Open
  <2>1. Ordered'
    BY <1>6, <1>1 DEF Open, record
  <2>2. Counted'
    BY <1>6, <1>0 DEF Open, Counted
  <2> QED
    BY <2>1, <2>2 DEF OInv
<1>7. CASE WriteFails \/ InsertFails \/ Close \/ Closed \/ Crash
  <2>1. Ordered'
    BY <1>7, <1>1 DEF WriteFails, InsertFails, Close, Closed, Crash, record, history
  <2>2. Counted'
    BY <1>7 DEF WriteFails, InsertFails, Close, Closed, Crash, OInv, Counted, history
  <2> QED BY <2>1, <2>2 DEF OInv
<1>8. CASE PowerLoss
  BY <1>8, <1>1 DEF PowerLoss, OInv, Counted, record
<1>9. CASE UNCHANGED vars
  BY <1>9 DEF vars, OInv, Ordered, Counted
<1> QED
  BY <1>2, <1>3, <1>4, <1>5, <1>6, <1>7, <1>8, <1>9 DEF Next

(* Every acknowledged scan is indexed, once and in the order of the calls.  *)
THEOREM AckedStaysIndexed == Spec => []AckedIndexed
<1>1. OInv => AckedIndexed
  BY DEF OInv, Ordered, AckedIndexed
<1> QED
  BY InitOInv, NextOInv, RecorderTypes, <1>1, PTL DEF Spec

(* count() is off by the rows a failed COUNT left out and by nothing else,  *)
(* whatever failed or died before, so it is exact when the COUNT worked.    *)
THEOREM CountStaysOffByUncounted == Spec => []CountOffByUncounted
<1>1. OInv => CountOffByUncounted
  BY DEF OInv, Counted, CountOffByUncounted
<1> QED
  BY InitOInv, NextOInv, RecorderTypes, <1>1, PTL DEF Spec

-----------------------------------------------------------------------------
(* The refinement.  ReadAll goes through the bytes of the log; as long as   *)
(* the rows are readable it is what the rows alone say.                     *)
Kept == [i \in 1..Len(rows) |-> IF i \in lost THEN LostRow ELSE rows[i].scan]

LEMMA ReadAllIsKept == RowsReadable => ReadAll = Kept
BY DEF RowsReadable, ReadAll, Kept

(* A committed row appends its scan to what can be read, which no row had.  *)
LEMMA InsertStores ==
  ASSUME IInv, OInv, InsertRow
  PROVE  \E s \in Scans :
           /\ \A i \in 1..Len(Kept) : Kept[i] # s
           /\ Kept' = Append(Kept, s)
<1> DEFINE new == [scan |-> scan, offset |-> offset, length |-> Size[scan]]
<1>1. /\ rows' = Append(rows, new) /\ new.scan = scan /\ rows \in Seq(Row)
      /\ lost' = lost /\ lost \subseteq 1..Len(rows) /\ pc = "written" /\ scan \in Scans
  BY DEF InsertRow, IInv, TypeOK, InProgress, history
<1> HIDE DEF new
<1>2. /\ Len(rows) \in Nat /\ Len(rows') = Len(rows) + 1
      /\ \A i \in 1..Len(rows) : rows'[i] = rows[i]
      /\ rows'[Len(rows) + 1] = new
  BY <1>1
<1>3. Len(Kept) = Len(rows) /\ Kept \in Seq({LostRow} \union Scans)
  <2>1. \A i \in 1..Len(rows) : rows[i] \in Row
    BY <1>1
  <2>2. \A i \in 1..Len(rows) : Kept[i] \in {LostRow} \union Scans
    BY <2>1 DEF Kept, Row
  <2> QED BY <1>2, <2>2 DEF Kept
<1>4. \A i \in 1..Len(Kept) : Kept[i] # scan
  <2> SUFFICES ASSUME NEW i \in 1..Len(rows) PROVE Kept[i] # scan
    BY <1>3
  <2>1. rows[i].scan < scan /\ rows[i].scan \in Nat
    <3>1. rows[i] \in Row
      BY <1>1
    <3> QED BY <3>1, <1>1 DEF OInv, Ordered, Row, Scans
  <2>2. scan \in Nat /\ scan # LostRow
    BY <1>1 DEF Scans, LostRow
  <2> QED BY <2>1, <2>2 DEF Kept
<1>5. Kept' = Append(Kept, scan)
  <2>1. Kept' = [i \in 1..(Len(rows) + 1) |->
                   IF i \in lost THEN LostRow ELSE rows'[i].scan]
    BY <1>1, <1>2 DEF Kept
  <2>2. Len(rows) + 1 \notin lost
    BY <1>1, <1>2
  <2>3. \A i \in 1..(Len(rows) + 1) :
          Kept'[i] = IF i = Len(rows) + 1 THEN scan ELSE Kept[i]
    BY <2>1, <2>2, <1>1, <1>2 DEF Kept
  <2>4. /\ Append(Kept, scan) \in Seq({LostRow} \union Scans)
        /\ Len(Append(Kept, scan)) = Len(rows) + 1
        /\ \A i \in 1..(Len(rows) + 1) :
             Append(Kept, scan)[i] = IF i = Len(rows) + 1 THEN scan ELSE Kept[i]
    <3>1. Len(Kept) = Len(rows) /\ Kept \in Seq({LostRow} \union Scans)
          /\ scan \in {LostRow} \union Scans
      BY <1>1, <1>3
    <3> HIDE DEF Kept
    <3> QED BY <3>1, <1>2, AppendProperties
  <2>5. Kept' \in Seq({LostRow} \union Scans) /\ Len(Kept') = Len(rows) + 1
    <3>1. \A i \in 1..(Len(rows) + 1) : Kept'[i] \in {LostRow} \union Scans
      BY <2>3, <1>3, <1>1, <1>2
    <3> QED BY <3>1, <2>1, <1>2
  <2> HIDE DEF Kept
  <2> QED BY <2>3, <2>4, <2>5, <1>2
<1> QED BY <1>1, <1>4, <1>5

(* A power failure turns entries into LostRow and moves none.               *)
LEMMA LossLoses ==
  ASSUME IInv, PowerLoss
  PROVE  \E I \in SUBSET (1..Len(Kept)) :
           Kept' = [i \in 1..Len(Kept) |-> IF i \in I THEN LostRow ELSE Kept[i]]
<1>1. PICK n \in synced..size : lost' = lost \union Beyond(n) /\ rows' = rows
  BY DEF PowerLoss
<1>2. Len(Kept) = Len(rows) /\ DOMAIN Kept = 1..Len(rows)
  BY DEF Kept, IInv, TypeOK
<1>3. Beyond(n) \subseteq 1..Len(rows)
  BY DEF Beyond
<1>4. Kept' = [i \in 1..Len(Kept) |-> IF i \in Beyond(n) THEN LostRow ELSE Kept[i]]
  BY <1>1, <1>2 DEF Kept
<1> QED BY <1>2, <1>3, <1>4

LEMMA StepIsStoreStep ==
  ASSUME IInv, OInv, RowsReadable, RowsReadable', [Next]_vars
  PROVE  [Store!StoreNext]_ReadAll
<1>1. ReadAll = Kept
  BY ReadAllIsKept
<1>2. ReadAll' = Kept'
  BY DEF RowsReadable, ReadAll, Kept
<1>3. CASE InsertRow
  <2>1. Store!StoreNext
    BY <1>3, InsertStores, <1>1, <1>2 DEF Store!StoreNext, Store!Store
  <2> QED BY <2>1
<1>4. CASE PowerLoss
  <2>1. Store!StoreNext
    BY <1>4, LossLoses, <1>1, <1>2 DEF Store!StoreNext, Store!Lose
  <2> QED BY <2>1
<1>5. CASE rows' = rows /\ lost' = lost
  BY <1>1, <1>2, <1>5 DEF Kept
<1> QED
  BY <1>3, <1>4, <1>5
     DEF Next, vars, history, Open, BeginRecord, WriteCell, WriteFails, InsertFails,
         ReturnFromRecord, Close, Closed, Crash

(* The recorder, its crashes and its power failures implement ScanStore.    *)
THEOREM RecorderImplementsStore == Spec => ImplementsStore
<1>1. Init => Store!StoreInit
  BY DEF Init, Store!StoreInit, ReadAll
<1>2. IInv /\ OInv /\ RowsReadable /\ RowsReadable' /\ [Next]_vars => [Store!StoreNext]_ReadAll
  BY StepIsStoreStep
<1>3. IInv => TypeOK
  BY DEF IInv
<1> QED
  BY <1>1, <1>2, <1>3, InitIInv, NextIInv, InitOInv, NextOInv, HeldIsReadable, PTL
     DEF Spec, ImplementsStore, Store!StoreSpec

-----------------------------------------------------------------------------
(* The reader.  What is intact is served, under its own position, and a     *)
(* RECENT window contains the scan it was asked for.  The argument rests on *)
(* what count() leaves behind: its statement stays active, so the           *)
(* statements that follow it see at least the rows it counted.              *)

(* What each step of the reader is a step of.                               *)
Asks ==
  /\ at = "closed" => op = "COUNT" /\ outcome = "none"
  /\ at = "any" => op \in {"LATEST", "RECENT", "COUNT"}
  /\ at = "newest" => op \in {"LATEST", "RECENT"} /\ snap > 0
  /\ at \in {"bound", "fetch"} => op \in {"LATEST", "RECENT", "GET"}
  /\ at = "anchor" => op = "RECENT"
  /\ at = "select" => op \in {"RANGE", "RECENT"}
  /\ at = "load" => op \in {"LATEST", "GET", "RANGE", "RECENT"}
  /\ at \notin {"closed", "ready", "select"} /\ (at = "load" => op \in {"LATEST", "GET"})
       => found = << >>
  /\ at \in {"ready", "any"} \/ total > 0 \/ op \in {"GET", "RANGE", "COUNT"}

(* The position asked for is one of the snapshot, which count() has pinned. *)
Positioned ==
  \/ op = "GET"
  \/ "count" \in active /\ index + 1 <= snap

Answered == at = "ready" /\ outcome = "done" /\ (op = "GET" \/ total > 0)

Pinned ==
  /\ at = "newest" => "count" \in active
  /\ at = "bound" => Positioned
  /\ at \in {"fetch", "anchor"} => "count" \in active /\ index + 1 <= snap
  /\ at \in {"select", "load"} /\ op # "RANGE" => index + 1 <= snap
  /\ at \in {"select", "load"} /\ op = "RECENT" => "count" \in active
  /\ at \in {"anchor", "load"} => cursor \in 1..snap
  /\ at = "anchor" \/ (at = "load" /\ op \in {"LATEST", "GET"}) => cursor = index + 1
  /\ Answered /\ op \in {"GET", "LATEST", "RECENT"} => index + 1 <= snap

(* Only a log that lost bytes can break the stream or make a read throw.    *)
Intact ==
  /\ lost = {} => in_good
  /\ IntactIsServed

RInv ==
  /\ ReaderTypeOK
  /\ Asks
  /\ Pinned
  /\ Intact
  /\ GetReturnsItsRow

-----------------------------------------------------------------------------
(* What the reader relies on.                                              *)

(* Beside the reader the recorder only appends rows.                        *)
LEMMA RecorderAppends ==
  ASSUME IInv, RecorderStep
  PROVE  /\ Len(rows) <= Len(rows') /\ Len(rows') \in Nat
         /\ \A i \in 1..Len(rows) : rows'[i] = rows[i]
         /\ lost' = lost
<1>1. lost' = lost
  BY DEF RecorderStep, Open, BeginRecord, WriteCell, WriteFails, InsertRow, InsertFails,
     ReturnFromRecord, Close, Closed, Crash, history
<1>2. rows \in Seq(Row)
  BY DEF IInv, TypeOK
<1>3. CASE InsertRow
  <2>1. rows' = Append(rows, [scan |-> scan, offset |-> offset, length |-> Size[scan]])
    BY <1>3 DEF InsertRow
  <2> QED
    BY <1>1, <1>2, <2>1
<1>4. CASE ~InsertRow
  <2>1. rows' = rows
    BY <1>4 DEF RecorderStep, Open, BeginRecord, WriteCell, WriteFails, InsertFails,
       ReturnFromRecord, Close, Closed, Crash
  <2> QED
    BY <1>1, <1>2, <2>1
<1> QED
  BY <1>3, <1>4

(* A row the power supply spared is read whole by a good stream.            *)
LEMMA GoodLoad ==
  ASSUME IInv, NEW i \in (1..Len(rows)) \ lost
  PROVE  /\ rows[i].scan \in Scans
         /\ Read(rows[i].offset, rows[i].length) = rows[i].scan
         /\ ~Truncated(rows[i].offset, rows[i].length)
<1>1. rows[i] \in Row
  BY DEF IInv, TypeOK
<1>2. Read(rows[i].offset, rows[i].length) = rows[i].scan
  BY HeldIsReadable DEF RowsReadable
<1>3. rows[i].scan \in Scans /\ NoScan \notin Scans
  BY <1>1 DEF Row, NoScan, Scans
<1> QED
  BY <1>2, <1>3 DEF Read

(* What a read returns is a scan or nothing.                               *)
LEMMA ReadsScan ==
  ASSUME IInv, NEW o \in Nat, NEW len
  PROVE  Read(o, len) \in Scans \union {NoScan}
BY DEF Read, Declares

LEMMA LoadsScan ==
  ASSUME IInv, ReaderTypeOK, cursor \in 1..Len(rows), Loaded # NoScan
  PROVE  Loaded \in Scans
<1>1. rows[cursor] \in Row
  BY DEF IInv, TypeOK
<1> QED
  BY <1>1, ReadsScan DEF Loaded, Row

-----------------------------------------------------------------------------
(* The invariant, step by step.                                            *)

LEMMA RInvInitially == Init /\ NoReader => RInv
BY DEF Init, NoReader, RInv, ReaderTypeOK, Asks, Pinned, Intact, IntactIsServed, GetReturnsItsRow, Done,
   Answered, Ops, Stmts

LEMMA BesideKeeps ==
  ASSUME IInv, RInv, RecorderStep, UNCHANGED reader
  PROVE  RInv'
<1>1. /\ Len(rows) <= Len(rows') /\ Len(rows') \in Nat /\ Len(rows) \in Nat
      /\ \A i \in 1..Len(rows) : rows'[i] = rows[i]
      /\ lost' = lost
  BY RecorderAppends DEF IInv, TypeOK
<1>2. ReaderTypeOK' /\ Asks'
  BY <1>1 DEF RInv, ReaderTypeOK, Asks, reader
<1>3. Pinned'
  BY DEF RInv, Pinned, Positioned, Answered, reader
<1>4. Intact'
  BY <1>1 DEF RInv, Intact, IntactIsServed, reader
<1>5. GetReturnsItsRow'
  BY <1>1 DEF RInv, ReaderTypeOK, Pinned, Answered, GetReturnsItsRow, Done, reader
<1> QED
  BY <1>2, <1>3, <1>4, <1>5 DEF RInv

LEMMA DiscardKeeps ==
  ASSUME Discard, rows' \in Seq(Row)
  PROVE  RInv'
BY DEF Discard, RInv, ReaderTypeOK, Asks, Pinned, Positioned, Answered, Intact, IntactIsServed,
   GetReturnsItsRow, Done, Ops, Stmts

LEMMA BeginKeeps ==
  ASSUME IInv, RInv, UNCHANGED <<rows, lost>>,
         BeginLatest \/ BeginRecent \/ BeginCount \/ BeginGet \/ BeginRange
  PROVE  RInv'
<1>1. Stamps \subseteq Int /\ MaxScans \in Nat
  BY ReaderAssumption, RecorderAssumption DEF Stamps
<1>2. PICK o \in Ops, first \in {"any", "bound", "select"}, i \in Nat, l \in Int, h \in Int :
        /\ Begin(o, first, i, l, h)
        /\ first = "any" => o \in {"LATEST", "RECENT", "COUNT"}
        /\ first = "bound" => o = "GET"
        /\ first = "select" => o = "RANGE"
  BY <1>1 DEF BeginLatest, BeginRecent, BeginCount, BeginGet, BeginRange, Ops
<1>3. View("count") \in 0..Len(rows)
  BY DEF View, IInv, TypeOK, RInv, ReaderTypeOK
<1> HIDE DEF View
<1> QED
  BY <1>2, <1>3 DEF Begin, IInv, TypeOK, RInv, ReaderTypeOK, Asks, Pinned, Positioned, Answered, Intact,
     IntactIsServed, GetReturnsItsRow, Done

(* count() sees all that its predecessor saw, and leaves its statement.     *)
LEMMA CountKeeps ==
  ASSUME IInv, RInv, UNCHANGED <<rows, lost>>, CountAny \/ CountNewest \/ GetBound
  PROVE  RInv'
<1>1. /\ View("count") \in 0..Len(rows) /\ Len(rows) \in Nat
      /\ snap <= View("count")
  BY DEF View, IInv, TypeOK, RInv, ReaderTypeOK
<1> HIDE DEF View
<1>2. CASE CountAny
  BY <1>1, <1>2 DEF CountAny, RowStep, Finish, request, RInv, ReaderTypeOK, Asks, Pinned, Positioned,
     Answered, Intact, IntactIsServed, GetReturnsItsRow, Done, Stmts
<1>3. CASE CountNewest
  BY <1>1, <1>3 DEF CountNewest, RowStep, Finish, request, RInv, ReaderTypeOK, Asks, Pinned, Positioned,
     Answered, Intact, IntactIsServed, GetReturnsItsRow, Done, Stmts
<1>4. CASE GetBound
  BY <1>1, <1>4 DEF GetBound, RowStep, Finish, request, RInv, ReaderTypeOK, Asks, Pinned, Positioned,
     Answered, Intact, IntactIsServed, GetReturnsItsRow, Done, Stmts
<1> QED
  BY <1>2, <1>3, <1>4

LEMMA FetchKeeps ==
  ASSUME IInv, RInv, UNCHANGED <<rows, lost>>, GetFetch
  PROVE  RInv'
<1>1. View("get") = snap
  BY DEF View, GetFetch, RInv, Pinned
<1>2. /\ RowStep("get", snap)
      /\ cursor' = index + 1
      /\ at' = IF op = "RECENT" THEN "anchor" ELSE "load"
      /\ UNCHANGED <<outcome, request, in_good, index, total, found>>
  BY <1>1 DEF GetFetch, RInv, Pinned
<1> QED
  BY <1>2 DEF GetFetch, RowStep, request, IInv, TypeOK, RInv, ReaderTypeOK, Asks, Pinned, Positioned,
     Answered, Intact, IntactIsServed, GetReturnsItsRow, Done, Stmts

LEMMA SelectKeeps ==
  ASSUME IInv, RInv, UNCHANGED <<rows, lost>>, RangeSelect
  PROVE  RInv'
<1> DEFINE view == Stepped("range")
<1>1. /\ view \in 0..Len(rows) /\ Len(rows) \in Nat
      /\ snap <= view
      /\ op = "RECENT" => view = snap
  BY DEF Stepped, View, IInv, TypeOK, RInv, ReaderTypeOK, Pinned, RangeSelect
<1>2. /\ at = "select"
      /\ \/ DoneStep("range", view) /\ Finish("done") /\ UNCHANGED cursor
         \/ \E i \in (cursor + 1)..view :
              RowStep("range", view) /\ cursor' = i /\ at' = "load" /\ UNCHANGED outcome
      /\ UNCHANGED <<request, in_good, index, total, found>>
  BY DEF RangeSelect
<1> HIDE DEF view
<1> USE DEF DoneStep, RowStep, Finish, request, RInv
<1>3. ReaderTypeOK'
  <2>1. active' \subseteq Stmts /\ snap' = view
    BY <1>2 DEF ReaderTypeOK, Stmts
  <2>2. cursor' \in 0..Len(rows) /\ Len(rows') = Len(rows)
    BY <1>1, <1>2 DEF ReaderTypeOK
  <2>3. /\ at' \in {"load", "ready"}
        /\ outcome' \in {outcome, "done"}
        /\ UNCHANGED <<op, lo, hi, began, seen, in_good, index, total, found>>
    BY <1>2
  <2> QED
    BY <1>1, <2>1, <2>2, <2>3 DEF ReaderTypeOK
<1>4. Asks' /\ Intact' /\ GetReturnsItsRow'
  BY <1>1, <1>2 DEF Asks, Intact, IntactIsServed, GetReturnsItsRow, Done
<1>5. Pinned'
  BY <1>1, <1>2 DEF ReaderTypeOK, Asks, Pinned, Answered
<1> QED
  BY <1>3, <1>4, <1>5

(* A row that is not lost is loaded by a stream that is good, and throws    *)
(* nothing.                                                                *)
LEMMA LoadKeeps ==
  ASSUME IInv, RInv, UNCHANGED <<rows, lost>>, LoadFails \/ LoadAnchor \/ Load
  PROVE  RInv'
<1>1. cursor \in 1..Len(rows) /\ Len(rows) \in Nat /\ in_good \in BOOLEAN
  BY DEF LoadFails, LoadAnchor, Load, IInv, TypeOK, RInv, ReaderTypeOK, Pinned
<1>2. lost = {} => Loaded # NoScan /\ in_good'
  <2>1. NoScan \notin Scans
    BY DEF NoScan, Scans
  <2> QED
    BY <1>1, <2>1, GoodLoad DEF Loaded, LoadFails, LoadAnchor, Load, LoadEffect, RInv, Intact
<1>3. cursor \notin lost /\ Loaded # NoScan => Loaded = rows[cursor].scan
  BY <1>1, GoodLoad DEF Loaded
<1>4. in_good' \in BOOLEAN
  BY <1>1 DEF LoadFails, LoadAnchor, Load, LoadEffect
<1>5. Loaded # NoScan => Loaded \in Scans
  BY <1>1, LoadsScan DEF RInv
<1> HIDE DEF Loaded
<1>6. CASE LoadFails
  BY <1>1, <1>2, <1>4, <1>6 DEF LoadFails, Finish, request, RInv, ReaderTypeOK, Asks, Pinned, Positioned,
     Answered, Intact, IntactIsServed, GetReturnsItsRow, Done
<1>7. CASE LoadAnchor
  <2>1. Stamp[Loaded] \in Int /\ Window \in Int
    BY <1>5, <1>7, ReaderAssumption DEF LoadAnchor
  <2> QED
    BY <1>1, <1>2, <1>4, <1>7, <2>1 DEF LoadAnchor, RInv, ReaderTypeOK, Asks, Pinned, Positioned,
       Answered, Intact, IntactIsServed, GetReturnsItsRow, Done
<1>8. CASE Load
  <2>1. found' = Append(found, Loaded) /\ found' \in Seq(Scans)
    BY <1>5, <1>8 DEF Load, RInv, ReaderTypeOK
  <2>2. op \in {"LATEST", "GET"} => found' = << Loaded >> /\ cursor = index + 1
    <3>1. op \in {"LATEST", "GET"} => found = << >> /\ cursor = index + 1
      BY <1>8 DEF Load, RInv, Asks, Pinned
    <3>2. Append(<< >>, Loaded) = << Loaded >>
      OBVIOUS
    <3> QED
      BY <2>1, <3>1, <3>2
  <2>3. ReaderTypeOK' /\ Asks' /\ Pinned' /\ Intact'
    BY <1>1, <1>2, <1>4, <1>8, <2>1 DEF Load, Finish, request, RInv, ReaderTypeOK, Asks, Pinned,
       Positioned, Answered, Intact, IntactIsServed
  <2>4. GetReturnsItsRow'
    BY <1>3, <1>8, <2>2 DEF Load, Finish, request, GetReturnsItsRow, Done
  <2> QED
    BY <2>3, <2>4 DEF RInv
<1> QED
  BY <1>6, <1>7, <1>8

LEMMA ReaderKeeps ==
  ASSUME IInv, RInv, ReaderNext, UNCHANGED vars
  PROVE  RInv'
<1>1. UNCHANGED <<rows, lost>> /\ rows' \in Seq(Row)
  BY DEF vars, IInv, TypeOK
<1>2. CASE OpenReader
  BY <1>1, <1>2 DEF OpenReader, request, RInv, ReaderTypeOK, Asks, Pinned, Positioned, Answered, Intact,
     IntactIsServed, GetReturnsItsRow, Done
<1>3. CASE CloseReader
  BY <1>1, <1>3, DiscardKeeps DEF CloseReader
<1>4. ASSUME BeginLatest \/ BeginRecent \/ BeginCount \/ BeginGet \/ BeginRange PROVE RInv'
  BY <1>1, <1>4, BeginKeeps
<1>5. ASSUME CountAny \/ CountNewest \/ GetBound PROVE RInv'
  BY <1>1, <1>5, CountKeeps
<1>6. ASSUME GetFetch PROVE RInv'
  BY <1>1, <1>6, FetchKeeps
<1>7. ASSUME RangeSelect PROVE RInv'
  BY <1>1, <1>7, SelectKeeps
<1>8. ASSUME LoadFails \/ LoadAnchor \/ Load PROVE RInv'
  BY <1>1, <1>8, LoadKeeps
<1> QED
  BY <1>2, <1>3, <1>4, <1>5, <1>6, <1>7, <1>8 DEF ReaderNext

-----------------------------------------------------------------------------
(* Both processes.                                                         *)

(* The recorder's steps are those of its own specification.                 *)
LEMMA SystemKeepsRecorder ==
  ASSUME IInv, [SystemNext]_<<vars, reader>>
  PROVE  IInv'
<1>1. [Next]_vars
  BY DEF SystemNext, RecorderStep, MachineDown, Next, vars
<1> QED
  BY <1>1, NextIInv

LEMMA SystemKeeps ==
  ASSUME IInv, RInv, [SystemNext]_<<vars, reader>>
  PROVE  RInv'
<1>1. CASE RecorderStep /\ UNCHANGED reader
  BY <1>1, BesideKeeps
<1>2. CASE MachineDown
  <2>1. rows' \in Seq(Row)
    BY <1>2 DEF MachineDown, PowerLoss, IInv, TypeOK
  <2> QED
    BY <1>2, <2>1, DiscardKeeps DEF MachineDown
<1>3. CASE ReaderNext /\ UNCHANGED vars
  BY <1>3, ReaderKeeps
<1>4. CASE UNCHANGED <<vars, reader>>
  BY <1>4 DEF vars, reader, RInv, ReaderTypeOK, Asks, Pinned, Positioned, Answered, Intact,
     IntactIsServed, GetReturnsItsRow, Done
<1> QED
  BY <1>1, <1>2, <1>3, <1>4 DEF SystemNext

THEOREM SystemInductive == SystemSpec => [](IInv /\ RInv)
<1>1. SystemInit => IInv /\ RInv
  BY InitIInv, RInvInitially DEF SystemInit
<1>2. IInv /\ RInv /\ [SystemNext]_<<vars, reader>> => IInv' /\ RInv'
  BY SystemKeepsRecorder, SystemKeeps
<1> QED
  BY <1>1, <1>2, PTL DEF SystemSpec

(* The reader's variables keep their types, beside any recorder.            *)
THEOREM ReaderTypes == SystemSpec => []ReaderTypeOK
  BY SystemInductive, PTL DEF RInv

(* Short of a power failure that takes log bytes no read ever throws.       *)
THEOREM IntactRecordingsAreServed == SystemSpec => []IntactIsServed
  BY SystemInductive, PTL DEF RInv, Intact

(* A position is answered with the scan recorded under it, whatever a power *)
(* failure did to the others.                                              *)
THEOREM PositionsStay == SystemSpec => []GetReturnsItsRow
  BY SystemInductive, PTL DEF RInv

-----------------------------------------------------------------------------
(* The anchor of RECENT.                                                   *)

(* Count after count the connection sees at least what it saw when RECENT   *)
(* came, and the anchor is the last of what it saw.                         *)
Fresh ==
  op = "RECENT" =>
    /\ at \in {"any", "newest"} => seen <= View("count")
    /\ at \in {"bound", "fetch", "anchor", "select", "load"} \/ Answered => seen <= index + 1

Anchor == rows[index + 1].scan

(* From its anchor on, RECENT goes through the range of its window.         *)
Anchored ==
  op = "RECENT" /\ lost = {} /\ (at \in {"select", "load"} \/ Answered) =>
    lo = Stamp[Anchor] - Window /\ hi = Stamp[Anchor]

WindowInv == Fresh /\ Anchored

LEMMA FreshKeeps ==
  ASSUME IInv, RInv, Fresh, [SystemNext]_<<vars, reader>>
  PROVE  Fresh'
<1>0. /\ Len(rows) \in Nat /\ snap \in 0..Len(rows) /\ seen \in 0..Len(rows)
      /\ index \in Nat
  BY DEF IInv, TypeOK, RInv, ReaderTypeOK
<1>1. CASE RecorderStep /\ UNCHANGED reader
  <2>1. Len(rows) <= Len(rows') /\ Len(rows') \in Nat
    BY <1>1, RecorderAppends
  <2>2. View("count")' \in Nat /\ View("count") \in Nat /\ View("count") <= View("count")'
    BY <1>0, <1>1, <2>1 DEF View, reader
  <2> HIDE DEF View
  <2> QED
    BY <1>0, <1>1, <2>2 DEF Fresh, Answered, reader
<1>2. CASE MachineDown
  BY <1>2 DEF MachineDown, Discard, Fresh
<1>3. CASE ReaderNext /\ UNCHANGED vars
  <2>0. rows' = rows
    BY <1>3 DEF vars
  <2>1. ASSUME CloseReader \/ OpenReader PROVE Fresh'
    BY <2>1 DEF OpenReader, CloseReader, Discard, Fresh, RInv, Asks, request
  <2>2. ASSUME BeginLatest \/ BeginRecent \/ BeginCount \/ BeginGet \/ BeginRange
        PROVE  Fresh'
    <3>1. CASE BeginRecent
      <4>1. at' = "any" /\ seen' = View("count") /\ UNCHANGED <<active, snap>>
        BY <3>1 DEF BeginRecent, Begin
      <4>2. View("count") \in Nat /\ View("count")' = View("count")
        BY <1>0, <2>0, <4>1 DEF View
      <4> QED
        BY <4>1, <4>2 DEF Fresh, Answered
    <3> QED
      BY <2>2, <3>1 DEF BeginLatest, BeginCount, BeginGet, BeginRange, Begin, Fresh
  <2>3. ASSUME CountAny, op = "RECENT" PROVE Fresh'
    <3>1. /\ snap' = View("count") /\ View("count") \in Nat /\ View("count") <= Len(rows)
          /\ seen <= View("count") /\ seen' = seen
          /\ at' = "newest" \/ (at' = "ready" /\ total' = 0 /\ op' = "RECENT")
      BY <1>0, <2>3 DEF CountAny, RowStep, Finish, View, Fresh, request
    <3>2. View("count")' = Len(rows) \/ View("count")' = snap'
      BY <2>0 DEF View
    <3>3. seen' <= View("count")'
      BY <1>0, <3>1, <3>2
    <3> HIDE DEF View
    <3> QED
      BY <3>1, <3>3 DEF Fresh, Answered
  <2>4. ASSUME CountNewest, op = "RECENT" PROVE Fresh'
    <3>1. /\ at' = "bound" /\ seen' = seen /\ index' = View("count") - 1
          /\ View("count") \in Nat /\ seen <= View("count")
      BY <1>0, <2>4 DEF CountNewest, View, Fresh, request
    <3> HIDE DEF View
    <3> QED
      BY <1>0, <3>1 DEF Fresh
  <2>5. ASSUME GetBound \/ GetFetch \/ RangeSelect \/ LoadFails \/ LoadAnchor \/ Load,
               op = "RECENT"
        PROVE  Fresh'
    <3>1. /\ UNCHANGED <<seen, index>> /\ at' \notin {"any", "newest"}
          /\ at \in {"bound", "fetch", "anchor", "select", "load"}
      BY <2>5 DEF GetBound, GetFetch, RangeSelect, LoadFails, LoadAnchor, Load, Finish, request
    <3> HIDE DEF View
    <3> QED
      BY <2>5, <3>1 DEF Fresh
  <2>6. ASSUME ~(op = "RECENT"), op' = op PROVE Fresh'
    BY <2>6 DEF Fresh
  <2>7. op' = op \/ CloseReader \/ BeginLatest \/ BeginRecent \/ BeginCount \/ BeginGet
        \/ BeginRange
    BY <1>3 DEF ReaderNext, OpenReader, CountAny, CountNewest, GetBound, GetFetch, RangeSelect,
       LoadFails, LoadAnchor, Load, request
  <2> QED
    BY <1>3, <2>1, <2>2, <2>3, <2>4, <2>5, <2>6, <2>7 DEF ReaderNext
<1>4. CASE UNCHANGED <<vars, reader>>
  BY <1>4 DEF vars, reader, Fresh, View, Answered
<1> QED
  BY <1>1, <1>2, <1>3, <1>4 DEF SystemNext

LEMMA AnchoredKeeps ==
  ASSUME IInv, RInv, Anchored, [SystemNext]_<<vars, reader>>
  PROVE  Anchored'
<1>1. CASE RecorderStep /\ UNCHANGED reader
  <2> SUFFICES ASSUME op = "RECENT", lost = {}, at \in {"select", "load"} \/ Answered
               PROVE  Anchored'
    BY <1>1, RecorderAppends DEF Anchored, Answered, reader
  <2>1. index + 1 \in 1..Len(rows)
    BY DEF RInv, ReaderTypeOK, Pinned
  <2>2. rows'[index + 1] = rows[index + 1]
    BY <1>1, <2>1, RecorderAppends
  <2> QED
    BY <1>1, <2>2 DEF Anchored, Anchor, reader
<1>2. CASE MachineDown
  BY <1>2 DEF MachineDown, Discard, Anchored
<1>3. CASE ReaderNext /\ UNCHANGED vars
  <2>1. ASSUME LoadAnchor PROVE Anchored'
    <3> SUFFICES ASSUME op = "RECENT", lost = {} PROVE Anchored'
      BY <1>3, <2>1 DEF Anchored, LoadAnchor, vars
    <3>1. cursor = index + 1 /\ cursor \in 1..Len(rows)
      BY <2>1 DEF LoadAnchor, RInv, ReaderTypeOK, Pinned
    <3>2. Loaded = Anchor
      BY <2>1, <3>1, GoodLoad DEF Loaded, LoadAnchor, Anchor
    <3> QED
      BY <1>3, <2>1, <3>2 DEF LoadAnchor, Anchored, Anchor, vars
  <2>2. ASSUME RangeSelect \/ Load PROVE Anchored'
    BY <1>3, <2>2 DEF RangeSelect, Load, Finish, request, vars, Anchored, Anchor, Answered
  <2>3. ASSUME CloseReader \/ OpenReader PROVE Anchored'
    BY <2>3 DEF OpenReader, CloseReader, Discard, Anchored, Answered, RInv, Asks, request
  <2>4. ASSUME BeginLatest \/ BeginRecent \/ BeginCount \/ BeginGet \/ BeginRange
        PROVE  Anchored'
    BY <2>4 DEF BeginLatest, BeginRecent, BeginCount, BeginGet, BeginRange, Begin, Anchored, Answered
  <2>5. ASSUME CountAny \/ CountNewest \/ GetBound \/ GetFetch \/ LoadFails PROVE Anchored'
    BY <2>5 DEF CountAny, CountNewest, GetBound, GetFetch, LoadFails, Finish, Anchored, Answered,
       request
  <2> QED
    BY <1>3, <2>1, <2>2, <2>3, <2>4, <2>5 DEF ReaderNext
<1>4. CASE UNCHANGED <<vars, reader>>
  BY <1>4 DEF vars, reader, Anchored, Anchor, Answered
<1> QED
  BY <1>1, <1>2, <1>3, <1>4 DEF SystemNext

-----------------------------------------------------------------------------
(* The sweep of a range.                                                   *)

(* The rows of the snapshot that the sweep has passed.                      *)
Past(i) == IF at = "load" THEN i < cursor ELSE at = "select" => i <= cursor

Sweeping ==
  /\ lost = {} /\ op \in {"RANGE", "RECENT"}
  /\ \/ at \in {"select", "load"}
     \/ at = "ready" /\ outcome = "done" /\ (op = "RECENT" => total > 0)

Swept(i) == i \in 1..snap /\ Past(i) /\ InRange(i)

(* What was found so far is what the sweep has passed of its snapshot, in   *)
(* the order of the rows.                                                  *)
SweepInv ==
  Sweeping =>
    /\ at = "select" => cursor <= snap
    /\ at = "load" => InRange(cursor)
    /\ \A k \in 1..Len(found) : \E i : Swept(i) /\ found[k] = rows[i].scan
    /\ \A i : Swept(i) => \E k \in 1..Len(found) : found[k] = rows[i].scan
    /\ \A j, k \in 1..Len(found) : j < k => found[j] < found[k]

LEMMA SweepBeside ==
  ASSUME IInv, RInv, SweepInv, RecorderStep, UNCHANGED reader
  PROVE  SweepInv'
<1>1. /\ Len(rows) <= Len(rows') /\ Len(rows') \in Nat /\ Len(rows) \in Nat
      /\ \A i \in 1..Len(rows) : rows'[i] = rows[i]
      /\ lost' = lost
  BY RecorderAppends DEF IInv, TypeOK
<1> SUFFICES ASSUME Sweeping PROVE SweepInv'
  BY <1>1 DEF SweepInv, Sweeping, reader
<1>2. snap \in 0..Len(rows) /\ (at = "load" => cursor \in 1..Len(rows))
  BY DEF RInv, ReaderTypeOK, Pinned
<1>3. \A i \in 1..snap : rows'[i] = rows[i]
  BY <1>1, <1>2
<1>4. \A i \in 1..snap : InRange(i)' <=> InRange(i)
  BY <1>3 DEF InRange, reader
<1>5. \A i : Swept(i)' <=> Swept(i)
  BY <1>4 DEF Swept, Past, reader
<1>6. at = "load" => InRange(cursor)'
  BY <1>1, <1>2 DEF InRange, reader, SweepInv
<1>7. \A i : Swept(i) => rows'[i] = rows[i]
  BY <1>3 DEF Swept
<1>8. UNCHANGED <<at, cursor, snap, found>>
  BY DEF reader
<1>9. /\ at' = "select" => cursor' <= snap'
      /\ at' = "load" => InRange(cursor)'
  BY <1>6, <1>8 DEF SweepInv
<1>10. /\ \A k \in 1..Len(found) : \E i : Swept(i) /\ found[k] = rows[i].scan
       /\ \A i : Swept(i) => \E k \in 1..Len(found) : found[k] = rows[i].scan
       /\ \A j, k \in 1..Len(found) : j < k => found[j] < found[k]
  BY DEF SweepInv
<1>11. /\ \A k \in 1..Len(found) : \E i : Swept(i)' /\ found[k] = rows'[i].scan
       /\ \A i : Swept(i)' => \E k \in 1..Len(found) : found[k] = rows'[i].scan
  BY <1>5, <1>7, <1>10
<1> QED
  BY <1>8, <1>9, <1>10, <1>11 DEF SweepInv

LEMMA SweepGoesOn ==
  ASSUME IInv, RInv, SweepInv, RangeSelect, UNCHANGED vars
  PROVE  SweepInv'
<1> SUFFICES ASSUME lost = {} PROVE SweepInv'
  BY DEF SweepInv, Sweeping, vars
<1> DEFINE next == {i \in (cursor + 1)..Stepped("range") : InRange(i)}
<1>1. at = "select" /\ op \in {"RANGE", "RECENT"}
  BY DEF RangeSelect, RInv, Asks
<1>2. /\ cursor <= snap
      /\ \A k \in 1..Len(found) : \E i : Swept(i) /\ found[k] = rows[i].scan
      /\ \A i : Swept(i) => \E k \in 1..Len(found) : found[k] = rows[i].scan
      /\ \A j, k \in 1..Len(found) : j < k => found[j] < found[k]
  BY <1>1 DEF SweepInv, Sweeping
<1>3. PICK v \in Nat : /\ v = Stepped("range") /\ snap <= v /\ snap' = v
                       /\ cursor # 0 => v = snap
  <2>1. Stepped("range") \in Nat /\ snap <= Stepped("range")
    BY DEF Stepped, View, IInv, TypeOK, RInv, ReaderTypeOK
  <2>2. snap' = Stepped("range") /\ (cursor # 0 => Stepped("range") = snap)
    BY DEF RangeSelect, DoneStep, RowStep, Stepped
  <2> QED
    BY <2>1, <2>2
<1>4. cursor \in Nat /\ snap \in Nat
  BY DEF IInv, TypeOK, RInv, ReaderTypeOK
<1>5. UNCHANGED <<rows, lost, op, lo, hi, found, total>> /\ \A i : InRange(i)' <=> InRange(i)
  BY DEF RangeSelect, request, vars, InRange
<1>6. \A i : Swept(i) <=> i \in 1..v /\ i <= cursor /\ InRange(i)
  BY <1>1, <1>2, <1>3, <1>4 DEF Swept, Past
<1>7. CASE next = {} /\ at' = "ready"
  <2>1. \A i : Swept(i)' <=> Swept(i)
    <3>1. \A i \in (cursor + 1)..v : ~InRange(i)
      BY <1>3, <1>7
    <3>2. \A i \in 1..v : InRange(i) => i <= cursor
      BY <1>3, <1>4, <3>1
    <3>3. \A i : Swept(i)' <=> i \in 1..v /\ InRange(i)
      BY <1>3, <1>5, <1>7 DEF Swept, Past
    <3> QED
      BY <1>6, <3>2, <3>3
  <2> QED
    BY <1>2, <1>5, <1>7, <2>1 DEF SweepInv
<1>8. CASE \E i \in next : (\A j \in next : i <= j) /\ cursor' = i /\ at' = "load"
  <2>1. PICK i : i \in next /\ (\A j \in next : i <= j) /\ cursor' = i /\ at' = "load"
    BY <1>8
  <2>2. /\ i \in (cursor + 1)..v /\ InRange(i)
        /\ \A j \in (cursor + 1)..v : InRange(j) => i <= j
    BY <1>3, <2>1
  <2>3. \A j : Swept(j)' <=> j \in 1..v /\ j < i /\ InRange(j)
    BY <1>3, <1>5, <2>1 DEF Swept, Past
  <2>4. \A j \in 1..v : InRange(j) => (j < i <=> j <= cursor)
    BY <1>4, <2>2
  <2>5. \A j : Swept(j)' <=> Swept(j)
    BY <1>6, <2>3, <2>4
  <2>6. InRange(cursor)'
    BY <2>1, <2>2 DEF InRange, RangeSelect, request, vars
  <2> QED
    BY <1>2, <1>5, <2>1, <2>5, <2>6 DEF SweepInv
<1> QED
  BY <1>7, <1>8 DEF RangeSelect, Finish

LEMMA SweepLoads ==
  ASSUME IInv, OInv, RInv, SweepInv, LoadAnchor \/ Load, UNCHANGED vars
  PROVE  SweepInv'
<1> SUFFICES ASSUME lost = {}, op \in {"RANGE", "RECENT"} PROVE SweepInv'
  BY DEF SweepInv, Sweeping, LoadAnchor, Load, request, vars
<1>1. /\ cursor \in 1..snap /\ snap \in 0..Len(rows) /\ Len(rows) \in Nat
      /\ found \in Seq(Scans)
      /\ UNCHANGED <<rows, lost, op, snap>>
  BY DEF LoadAnchor, Load, IInv, TypeOK, RInv, ReaderTypeOK, Pinned, request, vars
<1>2. Loaded = rows[cursor].scan /\ Loaded \in Scans
  <2>1. cursor \in 1..Len(rows)
    BY <1>1
  <2> QED
    BY <2>1, GoodLoad DEF Loaded, LoadAnchor, Load
<1> HIDE DEF Loaded
<1>3. CASE LoadAnchor
  <2>1. found' = << >> /\ cursor' = 0 /\ at' = "select"
    BY <1>3 DEF LoadAnchor, RInv, Asks
  <2>2. \A i : ~Swept(i)'
    BY <1>1, <2>1 DEF Swept, Past
  <2> QED
    BY <1>1, <2>1, <2>2 DEF SweepInv
<1>4. CASE Load
  <2>1. /\ at = "load" /\ at' = "select" /\ found' = Append(found, Loaded)
        /\ UNCHANGED <<lo, hi, cursor>>
    BY <1>4 DEF Load, request
  <2>2. /\ InRange(cursor)
        /\ \A k \in 1..Len(found) : \E i : Swept(i) /\ found[k] = rows[i].scan
        /\ \A i : Swept(i) => \E k \in 1..Len(found) : found[k] = rows[i].scan
        /\ \A j, k \in 1..Len(found) : j < k => found[j] < found[k]
    BY <2>1 DEF SweepInv, Sweeping
  <2>3. PICK n \in Nat :
          /\ n = Len(found) /\ Len(found') = n + 1 /\ found'[n + 1] = Loaded
          /\ \A k \in 1..n : found'[k] = found[k]
    BY <1>1, <1>2, <2>1
  <2>4. \A i : Swept(i)' <=> Swept(i) \/ i = cursor
    <3>1. \A i : InRange(i)' <=> InRange(i)
      BY <1>1, <2>1 DEF InRange
    <3>2. \A i : Swept(i) <=> i \in 1..snap /\ i < cursor /\ InRange(i)
      BY <2>1 DEF Swept, Past
    <3>3. \A i : Swept(i)' <=> i \in 1..snap /\ i <= cursor /\ InRange(i)
      BY <1>1, <2>1, <3>1 DEF Swept, Past
    <3> QED
      BY <1>1, <2>2, <3>2, <3>3
  <2>5. \A k \in 1..Len(found') : \E i : Swept(i)' /\ found'[k] = rows[i].scan
    <3> SUFFICES ASSUME NEW k \in 1..(n + 1)
                 PROVE  \E i : Swept(i)' /\ found'[k] = rows[i].scan
      BY <2>3
    <3>1. CASE k \in 1..n
      BY <2>2, <2>3, <2>4, <3>1
    <3>2. CASE k = n + 1
      BY <1>2, <2>3, <2>4, <3>2
    <3>3. k \in 1..n \/ k = n + 1
      OBVIOUS
    <3> QED
      BY <3>1, <3>2, <3>3
  <2>6. \A i : Swept(i)' => \E k \in 1..Len(found') : found'[k] = rows[i].scan
    <3> SUFFICES ASSUME NEW i, Swept(i)'
                 PROVE  \E k \in 1..(n + 1) : found'[k] = rows[i].scan
      BY <2>3
    <3>1. CASE Swept(i)
      BY <2>2, <2>3, <3>1
    <3>2. CASE i = cursor
      BY <1>2, <2>3, <3>2
    <3> QED
      BY <2>4, <3>1, <3>2
  <2>7. \A k \in 1..n : found[k] < Loaded
    <3> SUFFICES ASSUME NEW k \in 1..n PROVE found[k] < Loaded
      OBVIOUS
    <3>1. PICK i : Swept(i) /\ found[k] = rows[i].scan
      BY <2>2, <2>3
    <3>2. i \in 1..Len(rows) /\ cursor \in 1..Len(rows) /\ i < cursor
      BY <1>1, <2>1, <3>1 DEF Swept, Past
    <3> QED
      BY <1>2, <3>1, <3>2 DEF OInv, Ordered
  <2>8. \A j, k \in 1..Len(found') : j < k => found'[j] < found'[k]
    <3> SUFFICES ASSUME NEW j \in 1..(n + 1), NEW k \in 1..(n + 1), j < k
                 PROVE  found'[j] < found'[k]
      BY <2>3
    <3>1. j \in 1..n /\ (k \in 1..n \/ k = n + 1)
      OBVIOUS
    <3>2. CASE k \in 1..n
      BY <2>2, <2>3, <3>1, <3>2
    <3>3. CASE k = n + 1
      BY <2>3, <2>7, <3>1, <3>3
    <3> QED
      BY <3>1, <3>2, <3>3
  <2>9. at' # "load" /\ (Sweeping' => cursor' <= snap')
    BY <1>1, <2>1
  <2>10. \A i : Swept(i)' => \E k \in 1..Len(found') : found'[k] = rows'[i].scan
    BY <1>1, <2>6
  <2>11. \A k \in 1..Len(found') : \E i : Swept(i)' /\ found'[k] = rows'[i].scan
    BY <1>1, <2>5
  <2> QED
    BY <2>8, <2>9, <2>10, <2>11 DEF SweepInv
<1> QED
  BY <1>3, <1>4

LEMMA SweepKeeps ==
  ASSUME IInv, OInv, RInv, SweepInv, [SystemNext]_<<vars, reader>>
  PROVE  SweepInv'
<1>1. CASE RecorderStep /\ UNCHANGED reader
  BY <1>1, SweepBeside
<1>2. CASE MachineDown
  BY <1>2 DEF MachineDown, Discard, SweepInv, Sweeping
<1>3. CASE ReaderNext /\ UNCHANGED vars
  <2>1. ASSUME RangeSelect PROVE SweepInv'
    BY <1>3, <2>1, SweepGoesOn
  <2>2. ASSUME LoadAnchor \/ Load PROVE SweepInv'
    BY <1>3, <2>2, SweepLoads
  <2>3. ASSUME CloseReader \/ OpenReader PROVE SweepInv'
    BY <2>3 DEF OpenReader, CloseReader, Discard, SweepInv, Sweeping, RInv, Asks, request
  <2>4. ASSUME BeginLatest \/ BeginRecent \/ BeginCount \/ BeginGet PROVE SweepInv'
    BY <2>4 DEF BeginLatest, BeginRecent, BeginCount, BeginGet, Begin, SweepInv, Sweeping
  <2>5. ASSUME BeginRange PROVE SweepInv'
    <3>1. at' = "select" /\ cursor' = 0 /\ found' = << >> /\ snap' = snap
      BY <2>5 DEF BeginRange, Begin
    <3>2. snap \in Nat
      BY DEF IInv, TypeOK, RInv, ReaderTypeOK
    <3>3. \A i : ~Swept(i)'
      BY <3>1, <3>2 DEF Swept, Past
    <3> QED
      BY <3>1, <3>2, <3>3 DEF SweepInv
  <2>6. ASSUME CountAny \/ CountNewest \/ GetBound \/ GetFetch PROVE SweepInv'
    <3>1. op' = op /\ op \in {"LATEST", "RECENT", "COUNT", "GET"}
      BY <2>6 DEF CountAny, CountNewest, GetBound, GetFetch, request, RInv, Asks
    <3>2. CASE op = "RECENT"
      <4>1. ASSUME CountAny PROVE ~Sweeping'
        BY <3>2, <4>1 DEF CountAny, Finish, request, Sweeping
      <4>2. ASSUME CountNewest PROVE ~Sweeping'
        BY <3>2, <4>2 DEF CountNewest, request, Sweeping
      <4>3. ASSUME GetBound PROVE ~Sweeping'
        BY <3>2, <4>3 DEF GetBound, Finish, request, Sweeping
      <4>4. ASSUME GetFetch PROVE ~Sweeping'
        BY <3>2, <4>4 DEF GetFetch, Finish, request, Sweeping
      <4>5. ~Sweeping'
        BY <2>6, <4>1, <4>2, <4>3, <4>4
      <4> QED
        BY <4>5 DEF SweepInv
    <3> QED
      BY <3>1, <3>2 DEF SweepInv, Sweeping
  <2>7. ASSUME LoadFails PROVE SweepInv'
    BY <2>7 DEF LoadFails, Finish, SweepInv, Sweeping
  <2> QED
    BY <1>3, <2>1, <2>2, <2>3, <2>4, <2>5, <2>6, <2>7 DEF ReaderNext
<1>4. CASE UNCHANGED <<vars, reader>>
  BY <1>4 DEF vars, reader, SweepInv, Sweeping, Swept, Past, InRange
<1> QED
  BY <1>1, <1>2, <1>3, <1>4 DEF SystemNext

LEMMA SweepInductive == SystemSpec => []SweepInv
<1>1. SystemInit => SweepInv
  BY DEF SystemInit, NoReader, SweepInv, Sweeping
<1>2. IInv /\ OInv /\ [SystemNext]_<<vars, reader>> => OInv'
  <2>1. [SystemNext]_<<vars, reader>> => [Next]_vars
    BY DEF SystemNext, RecorderStep, MachineDown, Next, vars
  <2> QED
    BY <2>1, NextOInv DEF IInv
<1>3. SystemInit => OInv
  BY InitOInv DEF SystemInit
<1>4. IInv /\ OInv /\ RInv /\ SweepInv /\ [SystemNext]_<<vars, reader>> => SweepInv'
  BY SweepKeeps
<1> QED
  BY <1>1, <1>2, <1>3, <1>4, SystemInductive, PTL DEF SystemSpec

(* A range is the rows of one snapshot, whatever is committed meanwhile.    *)
THEOREM RangesAreSnapshots == SystemSpec => []RangeIsOneSnapshot
<1>1. IInv /\ RInv /\ SweepInv => RangeIsOneSnapshot
  <2> SUFFICES ASSUME IInv, RInv, SweepInv, lost = {},
                      Done("RANGE") \/ (Done("RECENT") /\ total > 0)
               PROVE  /\ {found[k] : k \in 1..Len(found)}
                           = {s \in {rows[i].scan : i \in 1..snap} :
                                lo <= Stamp[s] /\ Stamp[s] <= hi}
                      /\ \A j, k \in 1..Len(found) : j < k => found[j] < found[k]
    BY DEF RangeIsOneSnapshot
  <2>1. Sweeping /\ at = "ready"
    BY DEF Done, Sweeping
  <2>2. \A i : Swept(i) <=> i \in 1..snap /\ lo <= Stamp[rows[i].scan] /\ Stamp[rows[i].scan] <= hi
    <3>1. \A i \in 1..snap : rows[i].scan \in Scans
      <4>1. snap \in 0..Len(rows) /\ Len(rows) \in Nat /\ rows \in Seq(Row)
        BY DEF IInv, TypeOK, RInv, ReaderTypeOK
      <4>2. \A i \in 1..Len(rows) : rows[i] \in Row
        BY <4>1
      <4> QED
        BY <4>1, <4>2 DEF Row
    <3> QED
      BY <2>1, <3>1 DEF Swept, Past, InRange
  <2>3. /\ \A k \in 1..Len(found) : \E i : Swept(i) /\ found[k] = rows[i].scan
        /\ \A i : Swept(i) => \E k \in 1..Len(found) : found[k] = rows[i].scan
        /\ \A j, k \in 1..Len(found) : j < k => found[j] < found[k]
    BY <2>1 DEF SweepInv
  <2> DEFINE asked == {s \in {rows[i].scan : i \in 1..snap} : lo <= Stamp[s] /\ Stamp[s] <= hi}
  <2>4. ASSUME NEW k \in 1..Len(found) PROVE found[k] \in asked
    BY <2>2, <2>3
  <2>5. ASSUME NEW s \in asked PROVE \E k \in 1..Len(found) : found[k] = s
    <3>1. PICK i \in 1..snap : rows[i].scan = s
      OBVIOUS
    <3>2. Swept(i)
      BY <2>2, <3>1
    <3> QED
      BY <2>3, <3>1, <3>2
  <2>6. {found[k] : k \in 1..Len(found)} = asked
    BY <2>4, <2>5
  <2> QED
    BY <2>3, <2>6
<1> QED
  BY <1>1, SweepInductive, SystemInductive, PTL

(* The reply of RECENT has the scans of its window up to its anchor, nothing *)
(* outside it, and an anchor no older than what the connection could see.   *)
THEOREM RecentStaysAnchored == SystemSpec => []RecentIsAnchored
<1>1. IInv /\ RInv /\ SweepInv /\ WindowInv => RecentIsAnchored
  <2> SUFFICES ASSUME IInv, RInv, SweepInv, WindowInv, Done("RECENT"), total > 0, lost = {}
               PROVE  /\ seen <= index + 1
                      /\ \A i \in 1..(index + 1) :
                           Stamp[rows[i].scan] \in (Stamp[Anchor] - Window)..Stamp[Anchor]
                             => \E k \in 1..Len(found) : found[k] = rows[i].scan
                      /\ \A k \in 1..Len(found) :
                           Stamp[found[k]] \in (Stamp[Anchor] - Window)..Stamp[Anchor]
    BY DEF RecentIsAnchored, Anchor
  <2>1. /\ op = "RECENT" /\ at = "ready" /\ Answered /\ Sweeping
        /\ index \in Nat /\ index + 1 <= snap /\ snap \in 0..Len(rows) /\ Len(rows) \in Nat
    BY DEF Done, Answered, Sweeping, IInv, TypeOK, RInv, ReaderTypeOK, Pinned
  <2>2. lo = Stamp[Anchor] - Window /\ hi = Stamp[Anchor] /\ seen <= index + 1
    BY <2>1 DEF WindowInv, Fresh, Anchored
  <2>3. \A i \in 1..snap : rows[i].scan \in Scans
    BY <2>1, GoodLoad
  <2>4. /\ \A s \in Scans : Stamp[s] \in Nat
        /\ Anchor \in Scans /\ Window \in Nat
    BY <2>1, <2>3, ReaderAssumption DEF Anchor
  <2>5. \A s \in Scans : Stamp[s] \in (Stamp[Anchor] - Window)..Stamp[Anchor]
                            <=> lo <= Stamp[s] /\ Stamp[s] <= hi
    BY <2>2, <2>4
  <2>6. \A i : Swept(i) <=> i \in 1..snap /\ lo <= Stamp[rows[i].scan] /\ Stamp[rows[i].scan] <= hi
    BY <2>1, <2>3 DEF Swept, Past, InRange
  <2>7. ASSUME NEW i \in 1..(index + 1),
               Stamp[rows[i].scan] \in (Stamp[Anchor] - Window)..Stamp[Anchor]
        PROVE  \E k \in 1..Len(found) : found[k] = rows[i].scan
    <3>1. i \in 1..snap
      BY <2>1
    <3>2. Swept(i)
      BY <2>3, <2>5, <2>6, <2>7, <3>1
    <3> QED
      BY <2>1, <3>2 DEF SweepInv
  <2>8. ASSUME NEW k \in 1..Len(found)
        PROVE  Stamp[found[k]] \in (Stamp[Anchor] - Window)..Stamp[Anchor]
    <3>1. PICK i : Swept(i) /\ found[k] = rows[i].scan
      BY <2>1 DEF SweepInv
    <3> QED
      BY <2>3, <2>5, <2>6, <3>1
  <2> QED
    BY <2>2, <2>7, <2>8
<1>2. SystemInit => WindowInv
  BY DEF SystemInit, NoReader, WindowInv, Fresh, Anchored
<1>3. IInv /\ RInv /\ WindowInv /\ [SystemNext]_<<vars, reader>> => WindowInv'
  BY FreshKeeps, AnchoredKeeps DEF WindowInv
<1> QED
  BY <1>1, <1>2, <1>3, SweepInductive, SystemInductive, PTL DEF SystemSpec
=============================================================================
