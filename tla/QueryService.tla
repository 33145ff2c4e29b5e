---------------------------- MODULE QueryService ----------------------------
(***************************************************************************)
(* The pull path: ScanQueryClients (src/query_client.cpp) over mw::Requester *)
(* (src/transport.cpp), the network, and one ScanQueryServer                *)
(* (src/query_server.cpp) over mw::Replier, beside a live recorder.         *)
(*                                                                          *)
(* A Requester that got no reply in time throws its REQ socket away and     *)
(* opens another.  ZeroMQ keeps what a socket sent: the request of a call   *)
(* given up on may still be answered, and that answer goes to the socket    *)
(* that asked.  A scan is the number it was recorded under and a reply is   *)
(* the newest scan it draws on; ScanReader looks into how the rows behind a *)
(* reply are read.  A timeout may come at any time, power does not fail and *)
(* the replies this server sends decode (query_wire.cpp).                   *)
(***************************************************************************)
EXTENDS Integers, FiniteSets

CONSTANTS
  Clients,      (* the ScanQueryClient objects                              *)
  MaxCalls,     (* bound: calls each client makes                           *)
  MaxScans,     (* bound: scans recorded                                    *)
  MaxRuns,      (* bound: times the server is started                       *)
  MayThrow      (* whether reading the recording may throw                  *)

(* RECENT reads the newest scan first and leaves the same statement on its  *)
(* row: for what is told apart here it is LATEST.                           *)
Commands == {"LATEST", "RANGE"}
Calls    == 1..MaxCalls
NoCall   == 0
Unread   == -1                   \* the snapshot of a server that read nothing

ASSUME QueryAssumption ==
  /\ IsFiniteSet(Clients)
  /\ MaxCalls \in Nat
  /\ MaxScans \in Nat
  /\ MaxRuns \in Nat
  /\ MayThrow \in BOOLEAN

VARIABLES
  (* each client *)
  calling,      (* is it inside request()?                                  *)
  call,         (* the number of its current or last call                   *)
  command,      (* what that call asks for                                  *)
  sock,         (* which REQ socket it has: the n-th it opened              *)
  owed,         (* that socket has sent and not received                    *)
  outbox,       (* the call whose request the socket has yet to transmit    *)
  last_ok,      (* ok()                                                     *)
  answer,       (* what its last call returned: the reply, or {}            *)
  asked,        (* history: scans recorded when the call was made           *)
  (* the network *)
  inbox,        (* requests at the server's REP socket                      *)
  replies,      (* replies on their way                                     *)
  (* the server *)
  server,       (* "down", "waiting" in serve_one, or "handling"            *)
  serving,      (* the request being handled                                *)
  active,       (* the reader's statement that pins its snapshot, if any    *)
  view,         (* the scans the reader saw when it last looked             *)
  served_count, (* served()                                                 *)
  runs,         (* times the server was started                             *)
  (* the recorder *)
  recorded      (* scans recorded                                           *)

requester == <<calling, call, command, sock, owed, outbox, last_ok, answer, asked>>
network   == <<inbox, replies>>
reading   == <<active, view>>
process   == <<server, serving, active, view, served_count, runs>>
vars      == <<requester, network, process, recorded>>

Request == [client : Clients, sock : Nat \ {0}, call : Calls, command : Commands]
Reply   == [client : Clients, sock : Nat \ {0}, call : Calls, newest : 0..MaxScans]

TypeOK ==
  /\ calling \in [Clients -> BOOLEAN]
  /\ call \in [Clients -> 0..MaxCalls]
  /\ command \in [Clients -> Commands]
  /\ sock \in [Clients -> 1..(MaxCalls + 1)]
  /\ owed \in [Clients -> BOOLEAN]
  /\ outbox \in [Clients -> 0..MaxCalls]
  /\ last_ok \in [Clients -> BOOLEAN]
  /\ answer \in [Clients -> SUBSET Reply]
  /\ \A c \in Clients : \A r, s \in answer[c] : r = s
  /\ asked \in [Clients -> 0..MaxScans]
  /\ inbox \subseteq Request
  /\ replies \subseteq Reply
  /\ server \in {"down", "waiting", "handling"}
  /\ serving \subseteq Request
  /\ \A r, s \in serving : r = s
  /\ active \in {"none", "count", "get"}
  /\ view \in Unread..recorded
  /\ served_count \in Nat
  /\ runs \in 0..MaxRuns
  /\ recorded \in 0..MaxScans

Init ==
  /\ calling = [c \in Clients |-> FALSE]
  /\ call = [c \in Clients |-> NoCall]
  /\ command = [c \in Clients |-> "LATEST"]
  /\ sock = [c \in Clients |-> 1]
  /\ owed = [c \in Clients |-> FALSE]
  /\ outbox = [c \in Clients |-> NoCall]
  /\ last_ok = [c \in Clients |-> FALSE]
  /\ answer = [c \in Clients |-> {}]
  /\ asked = [c \in Clients |-> 0]
  /\ inbox = {}
  /\ replies = {}
  /\ server = "down"
  /\ serving = {}
  /\ active = "none"
  /\ view = Unread
  /\ served_count = 0
  /\ runs = 0
  /\ recorded = 0

-----------------------------------------------------------------------------
(* A client: latest(), range(), recent(), each one Requester::request().    *)

(* A fresh REQ socket takes the place of the old one, whose unsent request, *)
(* with linger 0, and claim to a reply go with it.                          *)
NewSocket(c) ==
  /\ sock' = [sock EXCEPT ![c] = @ + 1]
  /\ owed' = [owed EXCEPT ![c] = FALSE]
  /\ outbox' = [outbox EXCEPT ![c] = NoCall]

(* What a call without a reply returns: nothing, and ok() says why.         *)
Nothing(c) ==
  /\ calling' = [calling EXCEPT ![c] = FALSE]
  /\ last_ok' = [last_ok EXCEPT ![c] = FALSE]
  /\ answer' = [answer EXCEPT ![c] = {}]

(* A call is made and the request sent, which a REQ socket still owed a     *)
(* reply refuses: that socket is replaced and the call returns.             *)
Call(c) ==
  /\ ~calling[c]
  /\ call[c] < MaxCalls
  /\ call' = [call EXCEPT ![c] = @ + 1]
  /\ \E cmd \in Commands : command' = [command EXCEPT ![c] = cmd]
  /\ asked' = [asked EXCEPT ![c] = recorded]
  /\ IF owed[c]
     THEN NewSocket(c) /\ Nothing(c)
     ELSE /\ calling' = [calling EXCEPT ![c] = TRUE]
          /\ owed' = [owed EXCEPT ![c] = TRUE]
          /\ outbox' = [outbox EXCEPT ![c] = call[c] + 1]
          /\ UNCHANGED <<sock, last_ok, answer>>
  /\ UNCHANGED <<network, process, recorded>>

(* Mutant of TimesOut: the socket is made to take another send              *)
(* (ZMQ_REQ_RELAXED) and kept.                                              *)
TimesOutRelaxed(c) ==
  /\ calling[c]
  /\ owed' = [owed EXCEPT ![c] = FALSE]
  /\ outbox' = [outbox EXCEPT ![c] = NoCall]
  /\ Nothing(c)
  /\ UNCHANGED <<call, command, sock, asked, network, process, recorded>>

(* Mutant of TimesOut: the socket is kept as it is.                         *)
TimesOutStuck(c) ==
  /\ calling[c]
  /\ Nothing(c)
  /\ UNCHANGED <<call, command, sock, owed, outbox, asked, network, process, recorded>>

(* No reply within timeout_ms.                                             *)
TimesOut(c) ==
  /\ calling[c]
  /\ NewSocket(c)
  /\ Nothing(c)
  /\ UNCHANGED <<call, command, asked, network, process, recorded>>

(* A reply for the socket the client has arrives while it polls: the call   *)
(* returns what it decodes to.                                              *)
Answered(c) ==
  /\ calling[c]
  /\ \E r \in replies :
       /\ r.client = c /\ r.sock = sock[c]
       /\ replies' = replies \ {r}
       /\ answer' = [answer EXCEPT ![c] = {r}]
  /\ calling' = [calling EXCEPT ![c] = FALSE]
  /\ owed' = [owed EXCEPT ![c] = FALSE]
  /\ last_ok' = [last_ok EXCEPT ![c] = TRUE]
  /\ UNCHANGED <<call, command, sock, outbox, asked, inbox, process, recorded>>

-----------------------------------------------------------------------------
(* The network.                                                            *)

(* A connected socket transmits the request it holds.                      *)
Transmit(c) ==
  /\ outbox[c] # NoCall
  /\ server # "down"
  /\ inbox' = inbox \union {[client |-> c, sock |-> sock[c], call |-> outbox[c],
                            command |-> command[c]]}
  /\ outbox' = [outbox EXCEPT ![c] = NoCall]
  /\ UNCHANGED <<calling, call, command, sock, owed, last_ok, answer, asked, replies,
                 process, recorded>>

(* A message is lost with the connection it was on, or is a reply whose     *)
(* socket is closed.                                                        *)
Lose ==
  /\ \/ \E m \in inbox : inbox' = inbox \ {m} /\ UNCHANGED replies
     \/ \E m \in replies : replies' = replies \ {m} /\ UNCHANGED inbox
  /\ UNCHANGED <<requester, process, recorded>>

-----------------------------------------------------------------------------
(* The server.                                                             *)

Start ==
  /\ server = "down"
  /\ runs < MaxRuns
  /\ runs' = runs + 1
  /\ server' = "waiting"
  /\ active' = "none"
  /\ view' = Unread
  /\ served_count' = 0
  /\ UNCHANGED <<requester, network, serving, recorded>>

(* Replier::receive returns a request, of whichever connection's turn it    *)
(* is, and handle() is entered.                                             *)
Receive ==
  /\ server = "waiting"
  /\ \E r \in inbox : inbox' = inbox \ {r} /\ serving' = {r}
  /\ server' = "handling"
  /\ served_count' = served_count + 1
  /\ UNCHANGED <<requester, replies, reading, runs, recorded>>

(* Mutant of Snapshot: count()'s statement, never reset, pins it too.       *)
SnapshotPinnedByCount(cmd) == IF active = "none" THEN recorded ELSE view

(* The recording as the reader sees it: SQLite takes a new snapshot unless  *)
(* another statement of the connection is still on a row.                   *)
Snapshot(cmd) ==
  IF active = "none" \/ (active = "count" /\ cmd = "LATEST") THEN recorded ELSE view

(* The statement left on a row: LATEST ends in get()'s, or in count()'s if  *)
(* nothing is recorded; find_by_time_range steps its own to the end.        *)
LeftActive(cmd) ==
  IF cmd = "RANGE" THEN active
  ELSE IF Snapshot(cmd) > 0 THEN "get" ELSE "count"

(* handle() reads and encodes, and reply() sends.                           *)
Answer ==
  /\ server = "handling"
  /\ \E r \in serving :
       /\ view' = Snapshot(r.command)
       /\ active' = LeftActive(r.command)
       /\ replies' = replies \union {[client |-> r.client, sock |-> r.sock, call |-> r.call,
                                     newest |-> Snapshot(r.command)]}
  /\ serving' = {}
  /\ server' = "waiting"
  /\ UNCHANGED <<requester, inbox, served_count, runs, recorded>>

(* The process ends: its socket's queues and, with linger 0, any reply not  *)
(* yet on the wire are gone.                                                *)
Exit ==
  /\ server' = "down"
  /\ serving' = {}
  /\ inbox' = {}
  /\ replies' \in SUBSET replies

(* Reading the recording throws (a row that lost its bytes): the exception  *)
(* leaves serve_one with no reply sent, and main ends the process.          *)
Throws ==
  /\ MayThrow
  /\ server = "handling"
  /\ Exit
  /\ UNCHANGED <<requester, reading, served_count, runs, recorded>>

Killed ==
  /\ server # "down"
  /\ Exit
  /\ UNCHANGED <<requester, reading, served_count, runs, recorded>>

(* The recorder commits one more scan.                                     *)
Record ==
  /\ recorded < MaxScans
  /\ recorded' = recorded + 1
  /\ UNCHANGED <<requester, network, process>>

Next ==
  \/ \E c \in Clients : Call(c) \/ TimesOut(c) \/ Answered(c) \/ Transmit(c)
  \/ Lose
  \/ Start
  \/ Receive
  \/ Answer
  \/ Throws
  \/ Killed
  \/ Record

Spec == Init /\ [][Next]_vars

-----------------------------------------------------------------------------
(* What the pull path promises.                                            *)

(* A call that returns an answer returns the one to its own request, never  *)
(* one to a request that was given up on before: over timeouts that race    *)
(* late answers, retries and restarts of the server.                        *)
AnswersOwnRequest ==
  \A c \in Clients : \A r \in answer[c] : r.call = call[c] - (IF calling[c] THEN 1 ELSE 0)

(* The Lazy Pirate: whatever happened to the last call, the next one can    *)
(* send at once (transport.hpp:146-148, "so the NEXT call starts clean"),   *)
(* and nothing addressed to its socket is left over.                        *)
NextCallStartsClean ==
  \A c \in Clients : ~calling[c] =>
    /\ ~owed[c]
    /\ outbox[c] = NoCall
    /\ \A m \in inbox \union serving \union replies : m.client = c => m.sock < sock[c]

(* latest() returning nothing with ok() TRUE means that nothing had been    *)
(* recorded when it was called ("server reached, but nothing has been       *)
(* recorded yet", scan_query_client_demo.cpp:49): count() pins no snapshot. *)
OkNothingMeansEmpty ==
  \A c \in Clients :
    ~calling[c] /\ last_ok[c] /\ command[c] = "LATEST" =>
      \A r \in answer[c] : r.newest = 0 => asked[c] = 0

=============================================================================
