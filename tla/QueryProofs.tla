----------------------------- MODULE QueryProofs -----------------------------
(***************************************************************************)
(* Of QueryService: a call returns the answer to its own request and leaves *)
(* nothing behind that the next one could meet, for any number of clients,  *)
(* calls, scans and restarts of the server; and an empty answer to LATEST   *)
(* means an empty recording.                                                *)
(***************************************************************************)
EXTENDS QueryService, TLAPS

InFlight == inbox \union serving \union replies

(* A message of the exchange its client's present socket is in.            *)
Current(m) == m.sock = sock[m.client]

(* Every client: what it sends is its present call, it is owed a reply only *)
(* during a call, and each call opens one socket at most.                   *)
ClientInv ==
  \A c \in Clients :
    /\ sock[c] <= call[c] + (IF calling[c] THEN 0 ELSE 1)
    /\ outbox[c] # NoCall => calling[c] /\ outbox[c] = call[c]
    /\ ~calling[c] => ~owed[c]
    /\ asked[c] <= recorded

(* Every message: it is of a socket its client has or had, and if it has it *)
(* it is of the present call.                                              *)
WireInv ==
  /\ \A m \in InFlight :
       /\ m.sock <= sock[m.client]
       /\ Current(m) => /\ calling[m.client] /\ outbox[m.client] = NoCall
                        /\ m.call = call[m.client]
  /\ \A m \in inbox \union serving : Current(m) => m.command = command[m.client]

(* One exchange at a time: its message is in one place.                     *)
Apart(S, T) == \A m \in S, n \in T : m.client = n.client => ~(Current(m) /\ Current(n))

OneMessage ==
  /\ Apart(inbox, serving) /\ Apart(inbox, replies) /\ Apart(serving, replies)
  /\ \A m, n \in replies : m.client = n.client /\ Current(m) /\ Current(n) => m = n

(* The statement get() leaves on its row pins a snapshot that is not empty, *)
(* so what LATEST answers with an empty one is the recording's.             *)
SnapshotInv ==
  /\ active = "get" => view > 0
  /\ active = "count" => view >= 0
  /\ \A m \in replies :
       Current(m) /\ m.newest = 0 /\ command[m.client] = "LATEST" => asked[m.client] = 0

QInv ==
  /\ TypeOK
  /\ ClientInv
  /\ WireInv
  /\ OneMessage
  /\ SnapshotInv
  /\ AnswersOwnRequest
  /\ OkNothingMeansEmpty

LEMMA QInvInitially == Init => QInv
BY QueryAssumption DEF Init, QInv, TypeOK, ClientInv, WireInv, OneMessage, SnapshotInv, AnswersOwnRequest,
   OkNothingMeansEmpty, InFlight, Apart, Current, QueryAssumption, Commands, NoCall, Unread,
   Request, Reply, Calls

-----------------------------------------------------------------------------
(* The clients.                                                            *)

LEMMA CallKeeps ==
  ASSUME QInv, NEW c \in Clients, Call(c)
  PROVE  QInv'
<1> USE QueryAssumption DEF QInv, QueryAssumption
<1>1. /\ ~calling[c] /\ ~owed[c] /\ call[c] < MaxCalls /\ outbox[c] = NoCall
      /\ call' = [call EXCEPT ![c] = @ + 1]
      /\ asked' = [asked EXCEPT ![c] = recorded]
      /\ calling' = [calling EXCEPT ![c] = TRUE]
      /\ owed' = [owed EXCEPT ![c] = TRUE]
      /\ outbox' = [outbox EXCEPT ![c] = call[c] + 1]
      /\ UNCHANGED <<sock, last_ok, answer, inbox, replies, server, serving, active, view,
                     served_count, runs, recorded>>
  BY DEF Call, ClientInv, network, process
<1>2. PICK cmd \in Commands : command' = [command EXCEPT ![c] = cmd]
  BY DEF Call
<1>3. \A m \in InFlight : m.client = c => ~Current(m)
  BY <1>1 DEF WireInv
<1>4. TypeOK'
  BY <1>1, <1>2 DEF TypeOK
<1>5. ClientInv'
  BY <1>1 DEF ClientInv, TypeOK, NoCall
<1>6. WireInv' /\ OneMessage' /\ SnapshotInv'
  BY <1>1, <1>2, <1>3 DEF WireInv, OneMessage, SnapshotInv, InFlight, Apart, Current, TypeOK,
     Request, Reply
<1>7. AnswersOwnRequest' /\ OkNothingMeansEmpty'
  BY <1>1, <1>2 DEF AnswersOwnRequest, OkNothingMeansEmpty, TypeOK, Reply
<1> QED
  BY <1>4, <1>5, <1>6, <1>7

LEMMA TimesOutKeeps ==
  ASSUME QInv, NEW c \in Clients, TimesOut(c)
  PROVE  QInv'
<1> USE QueryAssumption DEF QInv, QueryAssumption
<1>1. /\ calling[c]
      /\ sock' = [sock EXCEPT ![c] = @ + 1]
      /\ owed' = [owed EXCEPT ![c] = FALSE]
      /\ outbox' = [outbox EXCEPT ![c] = NoCall]
      /\ calling' = [calling EXCEPT ![c] = FALSE]
      /\ last_ok' = [last_ok EXCEPT ![c] = FALSE]
      /\ answer' = [answer EXCEPT ![c] = {}]
      /\ UNCHANGED <<call, command, asked, inbox, replies, server, serving, active, view,
                     served_count, runs, recorded>>
  BY DEF TimesOut, NewSocket, Nothing, network, process
<1>2. TypeOK'
  BY <1>1 DEF TypeOK, ClientInv, NoCall
<1>3. ClientInv'
  BY <1>1 DEF ClientInv, TypeOK, NoCall
<1>4. WireInv' /\ OneMessage' /\ SnapshotInv'
  BY <1>1 DEF WireInv, OneMessage, SnapshotInv, InFlight, Apart, Current, TypeOK, Request, Reply
<1>5. AnswersOwnRequest' /\ OkNothingMeansEmpty'
  BY <1>1 DEF AnswersOwnRequest, OkNothingMeansEmpty, TypeOK
<1> QED
  BY <1>2, <1>3, <1>4, <1>5

LEMMA AnsweredKeeps ==
  ASSUME QInv, NEW c \in Clients, Answered(c)
  PROVE  QInv'
<1> USE QueryAssumption DEF QInv, QueryAssumption
<1>1. PICK r \in replies :
        /\ r.client = c /\ r.sock = sock[c]
        /\ replies' = replies \ {r}
        /\ answer' = [answer EXCEPT ![c] = {r}]
  BY DEF Answered
<1>2. /\ calling[c]
      /\ calling' = [calling EXCEPT ![c] = FALSE]
      /\ owed' = [owed EXCEPT ![c] = FALSE]
      /\ last_ok' = [last_ok EXCEPT ![c] = TRUE]
      /\ UNCHANGED <<call, command, sock, outbox, asked, inbox, server, serving, active, view,
                     served_count, runs, recorded>>
  BY DEF Answered, process
<1>3. /\ r \in Reply /\ r.call = call[c] /\ outbox[c] = NoCall
      /\ r.newest = 0 /\ command[c] = "LATEST" => asked[c] = 0
  BY <1>1 DEF WireInv, SnapshotInv, InFlight, Current, TypeOK
<1>4. TypeOK'
  BY <1>1, <1>2, <1>3 DEF TypeOK
<1>5. ClientInv'
  BY <1>2, <1>3 DEF ClientInv, TypeOK
<1>6. \A m \in InFlight' : m.client = c => ~Current(m)
  BY <1>1, <1>2 DEF OneMessage, Apart, Current, InFlight
<1>7. WireInv' /\ OneMessage' /\ SnapshotInv'
  BY <1>1, <1>2, <1>6 DEF WireInv, OneMessage, SnapshotInv, InFlight, Apart, Current, TypeOK,
     Request, Reply
<1>8. AnswersOwnRequest' /\ OkNothingMeansEmpty'
  BY <1>1, <1>2, <1>3 DEF AnswersOwnRequest, OkNothingMeansEmpty, TypeOK
<1> QED
  BY <1>4, <1>5, <1>7, <1>8

-----------------------------------------------------------------------------
(* The network.                                                            *)

LEMMA TransmitKeeps ==
  ASSUME QInv, NEW c \in Clients, Transmit(c)
  PROVE  QInv'
<1> USE QueryAssumption DEF QInv, QueryAssumption
<1> DEFINE r == [client |-> c, sock |-> sock[c], call |-> outbox[c], command |-> command[c]]
<1>1. /\ outbox[c] # NoCall
      /\ inbox' = inbox \union {r}
      /\ outbox' = [outbox EXCEPT ![c] = NoCall]
      /\ UNCHANGED <<calling, call, command, sock, owed, last_ok, answer, asked, replies, server,
                     serving, active, view, served_count, runs, recorded>>
  BY DEF Transmit, process
<1>2. calling[c] /\ outbox[c] = call[c]
  BY <1>1 DEF ClientInv
<1>3. r \in Request
  BY <1>1 DEF TypeOK, Request, Calls, NoCall
<1>4. \A m \in InFlight : m.client = c => ~Current(m)
  BY <1>1 DEF WireInv
<1>5. TypeOK'
  BY <1>1, <1>3 DEF TypeOK, NoCall
<1>6. ClientInv'
  BY <1>1 DEF ClientInv, TypeOK, NoCall
<1>7. WireInv' /\ OneMessage' /\ SnapshotInv'
  BY <1>1, <1>2, <1>3, <1>4 DEF WireInv, OneMessage, SnapshotInv, InFlight, Apart, Current, TypeOK,
     Request, Reply
<1>8. AnswersOwnRequest' /\ OkNothingMeansEmpty'
  BY <1>1 DEF AnswersOwnRequest, OkNothingMeansEmpty
<1> QED
  BY <1>5, <1>6, <1>7, <1>8

(* Fewer messages in the same places tell nothing wrong.                    *)
LEMMA FewerMessages ==
  ASSUME WireInv, OneMessage, inbox' \subseteq inbox, serving' \subseteq serving,
         replies' \subseteq replies, UNCHANGED requester
  PROVE  WireInv' /\ OneMessage'
BY DEF WireInv, OneMessage, InFlight, Apart, Current, requester

LEMMA LoseKeeps ==
  ASSUME QInv, Lose
  PROVE  QInv'
<1> USE DEF QInv
<1>1. /\ inbox' \subseteq inbox /\ replies' \subseteq replies
      /\ UNCHANGED <<requester, process, recorded>>
  BY DEF Lose
<1>2. TypeOK' /\ ClientInv' /\ SnapshotInv'
  BY <1>1 DEF TypeOK, ClientInv, SnapshotInv, Current, requester, process
<1>3. WireInv' /\ OneMessage'
  BY <1>1, FewerMessages DEF process
<1>4. AnswersOwnRequest' /\ OkNothingMeansEmpty'
  BY <1>1 DEF AnswersOwnRequest, OkNothingMeansEmpty, requester
<1> QED
  BY <1>2, <1>3, <1>4

-----------------------------------------------------------------------------
(* The server and the recorder.                                            *)

LEMMA StartKeeps ==
  ASSUME QInv, Start
  PROVE  QInv'
<1> USE QueryAssumption DEF QInv, QueryAssumption
<1>1. UNCHANGED <<requester, inbox, replies, serving, recorded>>
  BY DEF Start, network
<1>2. TypeOK' /\ ClientInv' /\ SnapshotInv'
  BY <1>1 DEF Start, TypeOK, ClientInv, SnapshotInv, Current, requester, Unread
<1>3. WireInv' /\ OneMessage'
  BY <1>1, FewerMessages
<1>4. AnswersOwnRequest' /\ OkNothingMeansEmpty'
  BY <1>1 DEF AnswersOwnRequest, OkNothingMeansEmpty, requester
<1> QED
  BY <1>2, <1>3, <1>4

LEMMA ReceiveKeeps ==
  ASSUME QInv, Receive
  PROVE  QInv'
<1> USE DEF QInv
<1>1. PICK r \in inbox : inbox' = inbox \ {r} /\ serving' = {r}
  BY DEF Receive
<1>2. UNCHANGED <<requester, replies, active, view, runs, recorded>>
  BY DEF Receive, reading
<1>3. TypeOK' /\ ClientInv' /\ SnapshotInv'
  BY <1>1, <1>2 DEF Receive, TypeOK, ClientInv, SnapshotInv, Current, requester
<1>4. WireInv'
  BY <1>1, <1>2 DEF WireInv, InFlight, Current, requester
<1>5. \A m \in inbox' : m.client = r.client /\ Current(m) /\ Current(r) => m = r
  BY <1>1 DEF WireInv, InFlight, TypeOK, Request, Current
<1>6. OneMessage'
  BY <1>1, <1>2, <1>5 DEF OneMessage, Apart, Current, requester
<1>7. AnswersOwnRequest' /\ OkNothingMeansEmpty'
  BY <1>2 DEF AnswersOwnRequest, OkNothingMeansEmpty, requester
<1> QED
  BY <1>3, <1>4, <1>6, <1>7

LEMMA AnswerKeeps ==
  ASSUME QInv, Answer
  PROVE  QInv'
<1> USE QueryAssumption DEF QInv, QueryAssumption
<1> DEFINE reply(r) == [client |-> r.client, sock |-> r.sock, call |-> r.call,
                        newest |-> Snapshot(r.command)]
<1>1. PICK r \in serving :
        /\ view' = Snapshot(r.command)
        /\ active' = LeftActive(r.command)
        /\ replies' = replies \union {reply(r)}
  BY DEF Answer
<1>2. serving' = {} /\ server' = "waiting"
      /\ UNCHANGED <<requester, inbox, served_count, runs, recorded>>
  BY DEF Answer
<1>3. /\ r \in Request
      /\ Snapshot(r.command) \in 0..recorded
      /\ r.command = "LATEST" /\ Snapshot(r.command) = 0 => recorded = 0
      /\ LeftActive(r.command) = "get" => Snapshot(r.command) > 0
  BY DEF TypeOK, SnapshotInv, Snapshot, LeftActive, Request, Commands
<1>4. reply(r) \in Reply
  BY <1>3 DEF TypeOK, Request, Reply
<1>5. TypeOK'
  BY <1>1, <1>2, <1>3, <1>4 DEF TypeOK, LeftActive, requester, Unread
<1>6. ClientInv'
  BY <1>2 DEF ClientInv, requester
<1>7. WireInv'
  BY <1>1, <1>2 DEF WireInv, InFlight, Current, requester
<1>8. OneMessage'
  BY <1>1, <1>2 DEF OneMessage, Apart, Current, requester
<1>9. \A m \in replies' :
        Current(m) /\ m.newest = 0 /\ command[m.client] = "LATEST" => asked[m.client] = 0
  <2>1. Current(reply(r)) => r.command = command[r.client]
    BY DEF WireInv, Current
  <2>2. asked[r.client] \in 0..MaxScans /\ asked[r.client] <= recorded
    BY <1>3 DEF ClientInv, TypeOK, Request
  <2> QED
    BY <1>1, <1>3, <2>1, <2>2 DEF SnapshotInv
<1>10. SnapshotInv'
  BY <1>1, <1>2, <1>3, <1>9 DEF SnapshotInv, Current, requester
<1>11. AnswersOwnRequest' /\ OkNothingMeansEmpty'
  BY <1>2 DEF AnswersOwnRequest, OkNothingMeansEmpty, requester
<1> QED
  BY <1>5, <1>6, <1>7, <1>8, <1>10, <1>11

LEMMA ExitKeepsQInv ==
  ASSUME QInv, Exit, UNCHANGED <<requester, reading, served_count, runs, recorded>>
  PROVE  QInv'
<1> USE DEF QInv
<1>1. TypeOK' /\ ClientInv' /\ SnapshotInv'
  BY DEF Exit, TypeOK, ClientInv, SnapshotInv, Current, requester, reading
<1>2. WireInv' /\ OneMessage'
  BY FewerMessages DEF Exit
<1>3. AnswersOwnRequest' /\ OkNothingMeansEmpty'
  BY DEF AnswersOwnRequest, OkNothingMeansEmpty, requester
<1> QED
  BY <1>1, <1>2, <1>3

LEMMA RecordKeeps ==
  ASSUME QInv, Record
  PROVE  QInv'
<1> USE QueryAssumption DEF QInv, QueryAssumption
<1>1. recorded' = recorded + 1 /\ recorded' \in 0..MaxScans
      /\ UNCHANGED <<requester, inbox, replies, process>>
  BY DEF Record, TypeOK, network
<1>2. TypeOK' /\ ClientInv' /\ SnapshotInv'
  BY <1>1 DEF TypeOK, ClientInv, SnapshotInv, Current, requester, process, Unread
<1>3. WireInv' /\ OneMessage'
  BY <1>1, FewerMessages DEF process
<1>4. AnswersOwnRequest' /\ OkNothingMeansEmpty'
  BY <1>1 DEF AnswersOwnRequest, OkNothingMeansEmpty, requester
<1> QED
  BY <1>2, <1>3, <1>4

-----------------------------------------------------------------------------

THEOREM QueryInductive == Spec => []QInv
<1>1. ASSUME QInv, [Next]_vars PROVE QInv'
  <2>1. CASE Next
    BY <1>1, <2>1, CallKeeps, TimesOutKeeps, AnsweredKeeps, TransmitKeeps, LoseKeeps, StartKeeps,
       ReceiveKeeps, AnswerKeeps, ExitKeepsQInv, RecordKeeps DEF Next, Throws, Killed
  <2>2. CASE UNCHANGED vars
    <3>1. UNCHANGED <<requester, inbox, replies, process, recorded>>
      BY <2>2 DEF vars, network
    <3>2. TypeOK' /\ ClientInv' /\ SnapshotInv'
      BY <1>1, <3>1 DEF QInv, TypeOK, ClientInv, SnapshotInv, Current, requester, process
    <3>3. WireInv' /\ OneMessage'
      BY <1>1, <3>1, FewerMessages DEF QInv, process
    <3>4. AnswersOwnRequest' /\ OkNothingMeansEmpty'
      BY <1>1, <3>1 DEF QInv, AnswersOwnRequest, OkNothingMeansEmpty, requester
    <3> QED
      BY <3>2, <3>3, <3>4 DEF QInv
  <2> QED
    BY <1>1, <2>1, <2>2
<1> QED
  BY <1>1, QInvInitially, PTL DEF Spec

(* The variables keep their types; a client opens at most one socket more   *)
(* than it makes calls.                                                    *)
THEOREM QueryTypes == Spec => []TypeOK
  BY QueryInductive, PTL DEF QInv

(* No call returns the answer to a request that was given up on.            *)
THEOREM OwnRequestAnswered == Spec => []AnswersOwnRequest
  BY QueryInductive, PTL DEF QInv

(* Between calls the socket can send, and nothing is on its way to it.      *)
THEOREM CallsStartClean == Spec => []NextCallStartsClean
<1>1. QInv => NextCallStartsClean
  <2> SUFFICES ASSUME QInv, NEW c \in Clients, ~calling[c]
               PROVE  /\ ~owed[c]
                      /\ outbox[c] = NoCall
                      /\ \A m \in InFlight : m.client = c => m.sock < sock[c]
    BY DEF NextCallStartsClean, InFlight
  <2>1. ~owed[c] /\ outbox[c] = NoCall
    BY DEF QInv, ClientInv
  <2>2. ASSUME NEW m \in InFlight, m.client = c PROVE m.sock < sock[c]
    <3>1. m.sock <= sock[c] /\ m.sock # sock[c]
      BY <2>2 DEF QInv, WireInv, Current
    <3>2. m.sock \in Nat /\ sock[c] \in Nat
      BY DEF QInv, TypeOK, InFlight, Request, Reply
    <3> QED
      BY <3>1, <3>2
  <2> QED
    BY <2>1, <2>2
<1> QED
  BY <1>1, QueryInductive, PTL

(* No scan that was recorded before LATEST was asked for is missed.         *)
THEOREM EmptyMeansEmpty == Spec => []OkNothingMeansEmpty
  BY QueryInductive, PTL DEF QInv
=============================================================================
