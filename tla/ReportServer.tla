---------------------------- MODULE ReportServer ----------------------------
(***************************************************************************)
(* server/sms_debian.cpp: the single-threaded server that takes the        *)
(* device's reports, forwards each to wxpusher and answers; with the       *)
(* kernel's edge-triggered ready list, the descriptors and connections it  *)
(* lives on, the device that retries, and strangers who connect as well.   *)
(*                                                                         *)
(* srvPc is the server's position:                                         *)
(*   events  epoll_wait, and the loop   forward  log_request of JSON,      *)
(*           over what it returned               in send_wxpusher          *)
(*   accept  the loop over accept       answer   send_response             *)
(*   recv    handle_client's recv loop  close    close_client              *)
(*   down    not running                                                   *)
(*                                                                         *)
(* A stream is cut into the pieces try_parse_request tells apart; a recv   *)
(* returns one of them.  One that returned several would append the same   *)
(* bytes to the buffer and, as a complete request stays complete whatever  *)
(* follows it, reach the same verdict.                                     *)
(***************************************************************************)
EXTENDS Naturals, Sequences, FiniteSets, Functions

CONSTANTS
  Reports,      \* the reports the device has to make
  Todo,         \* the same in order, without repetition
  Strays,       \* streams that anything else may send
  MaxConns,     \* connections considered
  MaxStrays,    \* how many of them are strays'
  MaxFd,        \* descriptors left for connections
  MaxUnwatched, \* how often epoll_ctl may fail
  BACKLOG,      \* of listen
  NoConn,
  NoReport,
  Stray,        \* what a stray's connection carries instead of a report
  listener

Conns == 1 .. MaxConns
Fds   == 1 .. MaxFd

\* The pieces of a request: headers not yet ended by the empty line; headers that
\* are, with Content-Length, without it, or after a line without two spaces; a body
\* of the announced length that is JSON or is not.
Headers == {"head", "nolength", "badline"}
Bodies  == {"json", "text"}
Pieces  == {"part"} \cup Headers \cup Bodies

\* What net_upload_post's client sends.
Request == <<"head", "json">>

ASSUME ServerAssumption ==
  /\ Todo \in Seq(Reports) /\ Reports = Range(Todo)
  /\ Strays \subseteq Seq(Pieces)
  /\ {MaxConns, MaxFd, BACKLOG} \subseteq Nat \ {0}
  /\ {MaxStrays, MaxUnwatched} \subseteq Nat
  /\ NoConn \notin Conns
  /\ NoReport \notin Reports
  /\ Stray \notin Reports \cup {NoReport}
  /\ listener \notin Fds

VARIABLES
  srvPc,
  fd,          \* the descriptor whose event is handled; the listener's between events
  ready,       \* descriptors the kernel will report: edges not yet returned
  batch,       \* descriptors of the last epoll_wait still to be handled
  backlog,     \* connections waiting for accept
  owner,       \* whose connection a descriptor is
  buffers,     \* what has been received, by descriptor
  carries,     \* by connection: its report, Stray, or NoReport if unused
  staying,     \* the peer has not closed its end
  inNet,       \* pieces on their way to the server
  unread,      \* pieces in the server's socket
  hungUp,      \* the peer's closing or reset has arrived
  answer,      \* what the server sent back
  forwards,    \* history: how often send_wxpusher ran for the connection
  leftBehind,  \* history: connections a failed accept left in the backlog
  unwatched,   \* connections whose descriptor epoll_ctl has refused
  todo,        \* reports the device has not had acknowledged
  attempt,     \* the connection of its request in progress
  acked        \* the answer was 200: the report is about to leave its queue

srvvars  == <<srvPc, fd, ready, batch, backlog, owner, buffers>>
tcpvars  == <<carries, staying, inNet, unread, hungUp>>
histvars == <<answer, forwards, leftBehind, unwatched>>
devvars  == <<todo, attempt, acked>>
vars     == <<srvvars, tcpvars, histvars, devvars>>

Positions == {"down", "events", "accept", "recv", "forward", "answer", "close"}

Open(f)      == owner[f] # NoConn
FreeFds      == {f \in Fds : ~Open(f)}
\* The lowest element of S, if it has one: the kernel's choice of a descriptor.
Lowest(S)    == {f \in S : \A g \in S : f <= g}
Held         == {owner[f] : f \in {g \in Fds : Open(g)}}
Waiting      == Range(backlog)
Connected(c) == c \in Held \cup Waiting
Unused       == {c \in Conns : carries[c] = NoReport}
Peer         == owner[fd]

\* The descriptors of connection c, one at most, and those an edge is raised for.
FdOf(c)      == {f \in Fds : owner[f] = c}
WatchedFd(c) == IF c \in unwatched THEN {} ELSE FdOf(c)

----------------------------------------------------------------------------
(* Parsing *)

\* The first of a kind of pieces in a stream is this one.
Leads(piece, kind, stream) ==
  \E i \in DOMAIN stream : stream[i] = piece /\ \A j \in 1 .. i - 1 : stream[j] \notin kind

\* Variant: the announced length is not waited for.
VerdictAtHeader(stream) ==
  CASE Range(stream) \cap Headers = {}      -> "incomplete"
    [] Leads("badline", Headers, stream)    -> "bad"
    [] OTHER                                -> "json"

\* try_parse_request, and for a whole request what pretty_json makes of its body:
\* without Content-Length that is empty, which is not JSON.
Verdict(stream) ==
  CASE Leads("badline", Headers, stream)                                   -> "bad"
    [] Leads("nolength", Headers, stream)                                  -> "notjson"
    [] Leads("head", Headers, stream) /\ Leads("text", Bodies, stream)    -> "notjson"
    [] Leads("head", Headers, stream) /\ Leads("json", Bodies, stream)    -> "json"
    [] OTHER                                                               -> "incomplete"

Received(f) == [i \in DOMAIN buffers[f] |-> buffers[f][i].piece]

\* Where handle_client goes once a buffer has been parsed.
AfterParse(verdict, peer_closed) ==
  CASE verdict = "json"       -> "forward"
    [] verdict = "incomplete" -> IF peer_closed THEN "close" ELSE "recv"
    [] OTHER                  -> "answer"

----------------------------------------------------------------------------

Init ==
  /\ srvPc = "events"
  /\ fd = listener
  /\ ready = {}
  /\ batch = {}
  /\ backlog = <<>>
  /\ owner = [f \in Fds |-> NoConn]
  /\ buffers = <<>>
  /\ carries = [c \in Conns |-> NoReport]
  /\ staying = [c \in Conns |-> FALSE]
  /\ inNet = [c \in Conns |-> <<>>]
  /\ unread = [c \in Conns |-> <<>>]
  /\ hungUp = [c \in Conns |-> FALSE]
  /\ answer = [c \in Conns |-> "none"]
  /\ forwards = [c \in Conns |-> 0]
  /\ leftBehind = {}
  /\ unwatched = {}
  /\ todo = Todo
  /\ attempt = NoConn
  /\ acked = FALSE

----------------------------------------------------------------------------
(* The peers and the network *)

\* A connection is complete once the kernel has queued it, accepted or not.
Connects(what, stream) ==
  /\ srvPc # "down"
  /\ Len(backlog) < BACKLOG
  /\ \E c \in Lowest(Unused) :
       /\ carries' = [carries EXCEPT ![c] = what]
       /\ staying' = [staying EXCEPT ![c] = TRUE]
       /\ inNet' = [inNet EXCEPT ![c] = stream]
       /\ backlog' = Append(backlog, c)
       /\ attempt' = IF what = Stray THEN attempt ELSE c
  /\ ready' = ready \cup {listener}
  /\ UNCHANGED <<srvPc, fd, batch, owner, buffers, unread, hungUp>>
  /\ UNCHANGED <<histvars, todo, acked>>

DeviceAsks ==
  /\ todo # <<>> /\ attempt = NoConn /\ ~acked
  /\ Connects(Head(todo), Request)

StrayConnects ==
  /\ Cardinality({c \in Conns : carries[c] = Stray}) < MaxStrays
  /\ \E stream \in Strays : Connects(Stray, stream)

DeviceCloses ==
  /\ staying' = [staying EXCEPT ![attempt] = FALSE]
  /\ attempt' = NoConn
  /\ UNCHANGED <<srvvars, carries, inNet, unread, hungUp, histvars, todo>>

DeviceAnswered ==
  /\ attempt # NoConn
  /\ answer[attempt] = "200"
  /\ acked' = TRUE
  /\ DeviceCloses

\* Variant: a time-out counts as success.
TimesOutAsDone ==
  /\ attempt # NoConn
  /\ acked' = TRUE
  /\ DeviceCloses

\* 30 s have passed, or the connection broke: an answer on its way is not seen.
DeviceGivesUp ==
  /\ attempt # NoConn
  /\ DeviceCloses
  /\ UNCHANGED acked

DevicePops ==
  /\ acked
  /\ acked' = FALSE
  /\ todo' = Tail(todo)
  /\ UNCHANGED <<srvvars, tcpvars, histvars, attempt>>

PieceArrives(c) ==
  /\ Connected(c)
  /\ inNet[c] # <<>>
  /\ unread' = [unread EXCEPT ![c] = Append(@, Head(inNet[c]))]
  /\ inNet' = [inNet EXCEPT ![c] = Tail(@)]
  /\ ready' = ready \cup WatchedFd(c)
  /\ UNCHANGED <<srvPc, fd, batch, backlog, owner, buffers, carries, staying, hungUp>>
  /\ UNCHANGED <<histvars, devvars>>

\* The peer's FIN, or a reset that overtakes what it had sent.  Neither need ever
\* come: the device may have lost its network.  A stray is free to leave.
HangUpArrives(c) ==
  /\ Connected(c)
  /\ ~staying[c] \/ carries[c] = Stray
  /\ ~hungUp[c]
  /\ hungUp' = [hungUp EXCEPT ![c] = TRUE]
  /\ staying' = [staying EXCEPT ![c] = FALSE]
  /\ inNet' = [inNet EXCEPT ![c] = <<>>]
  /\ ready' = ready \cup WatchedFd(c)
  /\ UNCHANGED <<srvPc, fd, batch, backlog, owner, buffers, carries, unread>>
  /\ UNCHANGED <<histvars, devvars>>

----------------------------------------------------------------------------
(* main: the event loop *)

Goes(pc) ==
  /\ srvPc' = pc
  /\ UNCHANGED <<tcpvars, devvars>>

\* Reporting an edge clears it.
EpollReturns ==
  /\ srvPc = "events"
  /\ batch = {}
  /\ ready # {}
  /\ batch' = ready
  /\ ready' = {}
  /\ Goes("events")
  /\ UNCHANGED <<fd, backlog, owner, buffers, histvars>>

\* The events come in any order.
NextEvent ==
  /\ srvPc = "events"
  /\ \E e \in batch :
       /\ batch' = batch \ {e}
       /\ fd' = e
       /\ Goes(IF e = listener THEN "accept" ELSE "recv")
  /\ UNCHANGED <<ready, backlog, owner, buffers, histvars>>

\* emplace leaves a buffer alone that is there.
WithBuffer(f) ==
  [g \in DOMAIN buffers \cup {f} |-> IF g \in DOMAIN buffers THEN buffers[g] ELSE <<>>]

\* Adding a descriptor raises its edge if there is something to read already.  A failure
\* is only printed: no event will ever tell of the connection.
addfd(f, c) ==
  \/ /\ ready' = IF unread[c] # <<>> \/ hungUp[c] THEN ready \cup {f} ELSE ready
     /\ UNCHANGED unwatched
  \/ /\ Cardinality(unwatched) < MaxUnwatched
     /\ unwatched' = unwatched \cup {c}
     /\ UNCHANGED ready

AcceptInto(f, c) ==
  /\ owner' = [owner EXCEPT ![f] = c]
  /\ backlog' = Tail(backlog)
  /\ addfd(f, c)
  /\ buffers' = WithBuffer(f)
  /\ leftBehind' = leftBehind \ {c}
  /\ UNCHANGED <<fd, batch, answer, forwards>>

\* Variant: one accept for each event of the listener.
AcceptsOne ==
  /\ srvPc = "accept"
  /\ backlog # <<>>
  /\ \E f \in Lowest(FreeFds) : AcceptInto(f, Head(backlog))
  /\ Goes("events")

Accepts ==
  /\ srvPc = "accept"
  /\ backlog # <<>>
  /\ \E f \in Lowest(FreeFds) : AcceptInto(f, Head(backlog))
  /\ Goes("accept")

\* EAGAIN.
AcceptsDone ==
  /\ srvPc = "accept"
  /\ backlog = <<>>
  /\ Goes("events")
  /\ UNCHANGED <<fd, ready, batch, backlog, owner, buffers, histvars>>

\* Variant: what a failed accept returns is taken for a connection.
AcceptUnchecked ==
  /\ srvPc = "accept"
  /\ backlog # <<>>
  /\ buffers' = WithBuffer(0)
  /\ Goes("events")
  /\ UNCHANGED <<fd, ready, batch, backlog, owner, histvars>>

\* Any error but EAGAIN and EINTR, as when no descriptor is left: the loop ends, and the
\* event has been used up.
AcceptFails ==
  /\ srvPc = "accept"
  /\ backlog # <<>>
  /\ leftBehind' = Waiting
  /\ Goes("events")
  /\ UNCHANGED <<fd, ready, batch, backlog, owner, buffers, answer, forwards, unwatched>>

----------------------------------------------------------------------------
(* handle_client *)

\* A recv that returns data, and the parsing of the buffer.
ReadPiece(pc) ==
  /\ srvPc = "recv"
  /\ unread[Peer] # <<>>
  /\ buffers' = [buffers EXCEPT ![fd] = Append(@, [conn |-> Peer, piece |-> Head(unread[Peer])])]
  /\ unread' = [unread EXCEPT ![Peer] = Tail(@)]
  /\ srvPc' = pc
  /\ UNCHANGED <<fd, ready, batch, backlog, owner, carries, staying, inNet, hungUp>>
  /\ UNCHANGED <<histvars, devvars>>

NowReceived == Append(Received(fd), Head(unread[Peer]))

\* Variant: one recv for each event.
ReceivesOne ==
  LET next == AfterParse(Verdict(NowReceived), FALSE)
  IN  ReadPiece(IF next = "recv" THEN "events" ELSE next)

Receives == ReadPiece(AfterParse(Verdict(NowReceived), FALSE))

WouldBlock ==
  /\ srvPc = "recv"
  /\ unread[Peer] = <<>>
  /\ ~hungUp[Peer]
  /\ Goes("events")
  /\ fd' = listener
  /\ UNCHANGED <<ready, batch, backlog, owner, buffers, histvars>>

\* Variant: the loop is not left at the end of the stream.
PeerClosedSpins ==
  /\ srvPc = "recv"
  /\ unread[Peer] = <<>>
  /\ hungUp[Peer]
  /\ Goes(AfterParse(Verdict(Received(fd)), FALSE))
  /\ UNCHANGED <<fd, ready, batch, backlog, owner, buffers, histvars>>

\* End of the stream or an error: what has come is parsed once more.
PeerClosed ==
  /\ srvPc = "recv"
  /\ unread[Peer] = <<>>
  /\ hungUp[Peer]
  /\ Goes(AfterParse(Verdict(Received(fd)), TRUE))
  /\ UNCHANGED <<fd, ready, batch, backlog, owner, buffers, histvars>>

\* send_wxpusher, whose sockets time out; log_request ignores its result.
Forwards ==
  /\ srvPc = "forward"
  /\ forwards' = [forwards EXCEPT ![Peer] = @ + 1]
  /\ Goes("answer")
  /\ UNCHANGED <<fd, ready, batch, backlog, owner, buffers, answer, leftBehind, unwatched>>

Answers ==
  /\ srvPc = "answer"
  /\ answer' = [answer EXCEPT ![Peer] = IF Verdict(Received(fd)) = "bad" THEN "400" ELSE "200"]
  /\ Goes("close")
  /\ UNCHANGED <<fd, ready, batch, backlog, owner, buffers, forwards, leftBehind, unwatched>>

\* What was on its way to a connection's socket is gone with the socket.
Discard(closed) ==
  /\ inNet'  = [c \in Conns |-> IF c \in closed THEN <<>> ELSE inNet[c]]
  /\ unread' = [c \in Conns |-> IF c \in closed THEN <<>> ELSE unread[c]]
  /\ hungUp' = [c \in Conns |-> c \notin closed /\ hungUp[c]]
  /\ UNCHANGED <<carries, staying>>

CloseSocket ==
  /\ srvPc = "close"
  /\ owner' = [owner EXCEPT ![fd] = NoConn]
  /\ ready' = ready \ {fd}
  /\ Discard({Peer})
  /\ srvPc' = "events"
  /\ fd' = listener
  /\ UNCHANGED <<batch, backlog, histvars, devvars>>

\* Variant: close_client leaves the buffer in the map.
ClosesKeepingBuffer == CloseSocket /\ UNCHANGED buffers

\* close_client.
Closes ==
  /\ CloseSocket
  /\ buffers' = [f \in DOMAIN buffers \ {fd} |-> buffers[f]]

----------------------------------------------------------------------------
(* The end of the process *)

\* epoll_wait fails, if only because a signal interrupts it: main ends.
EpollFails ==
  /\ srvPc = "events"
  /\ batch = {}
  /\ srvPc' = "down"
  /\ ready' = {} /\ batch' = {} /\ backlog' = <<>> /\ buffers' = <<>>
  /\ owner' = [f \in Fds |-> NoConn]
  /\ leftBehind' = {}
  /\ Discard({c \in Conns : Connected(c)})
  /\ UNCHANGED <<fd, answer, forwards, unwatched, devvars>>

Server ==
  \/ EpollReturns \/ NextEvent
  \/ Accepts \/ AcceptsDone \/ AcceptFails
  \/ Receives \/ WouldBlock \/ PeerClosed \/ Forwards \/ Answers \/ Closes

Next ==
  \/ DeviceAsks \/ DeviceAnswered \/ DeviceGivesUp \/ DevicePops
  \/ StrayConnects
  \/ \E c \in Conns : PieceArrives(c) \/ HangUpArrives(c)
  \/ Server
  \/ EpollFails

\* The one thread of the server runs, and its calls return: the sockets to wxpusher
\* have time-outs, and a stranger's stream ends.  Nothing else is obliged to happen.
\* (Every step of the server changes one of its own variables.)
Spec == Init /\ [][Next]_vars /\ WF_srvvars(Server)

----------------------------------------------------------------------------
(* What is checked *)

TypeOK ==
  /\ srvPc \in Positions
  /\ fd \in Fds \cup {listener}
  /\ ready \subseteq Fds \cup {listener}
  /\ batch \subseteq Fds \cup {listener}
  /\ backlog \in Seq(Conns) /\ Len(backlog) <= BACKLOG
  /\ owner \in [Fds -> Conns \cup {NoConn}]
  /\ DOMAIN buffers \subseteq Fds
  /\ \A f \in DOMAIN buffers : buffers[f] \in Seq([conn : Conns, piece : Pieces])
  /\ carries \in [Conns -> Reports \cup {Stray, NoReport}]
  /\ staying \in [Conns -> BOOLEAN]
  /\ inNet \in [Conns -> Seq(Pieces)]
  /\ unread \in [Conns -> Seq(Pieces)]
  /\ hungUp \in [Conns -> BOOLEAN]
  /\ answer \in [Conns -> {"none", "200", "400"}]
  /\ forwards \in [Conns -> Nat]
  /\ leftBehind \subseteq Conns
  /\ unwatched \subseteq Conns
  /\ todo \in Seq(Reports)
  /\ attempt \in Conns \cup {NoConn}
  /\ acked \in BOOLEAN

\* Every open descriptor has a buffer and no other has; a buffer holds what its own
\* connection sent and nothing of one that had the descriptor before.
BuffersApart ==
  /\ DOMAIN buffers = {f \in Fds : Open(f)}
  /\ \A f \in DOMAIN buffers : \A i \in DOMAIN buffers[f] : buffers[f][i].conn = owner[f]

\* Something a connection has to tell, data or its end, is never left in its socket
\* without an event to come: an edge is reported once only.  Not promised is this of a
\* connection that could not be added to the event table.
NothingUnseen ==
  \A f \in Fds :
    Open(f) /\ owner[f] \notin unwatched /\ (unread[owner[f]] # <<>> \/ hungUp[owner[f]]) =>
       \/ f \in ready \cup batch
       \/ srvPc \in {"recv", "forward", "answer", "close"} /\ fd = f

\* A connection waits in the backlog only while the listener's event is to come or
\* being handled, unless a failed accept has left it there.
NobodyStranded ==
  Waiting \subseteq leftBehind \/ listener \in ready \cup batch \/ srvPc = "accept"

\* No request is forwarded twice; a report is forwarded only when the whole of it has
\* come, and answered with 200 only after it was forwarded.
ForwardedThenAnswered ==
  \A c \in Conns :
    /\ forwards[c] <= 1
    /\ carries[c] \in Reports /\ forwards[c] = 1 => inNet[c] = <<>> /\ unread[c] = <<>>
    /\ carries[c] \in Reports /\ answer[c] = "200" => forwards[c] = 1

\* The server with the device's attempts implements ReportService.
Asking(c) == carries[c] \in Reports /\ c # attempt /\ forwards[c] = 0
Service == INSTANCE ReportService WITH
  report   <- IF acked \/ attempt # NoConn THEN Head(todo) ELSE NoReport,
  status   <- IF acked THEN "acked"
              ELSE IF attempt = NoConn THEN "idle"
              ELSE IF forwards[attempt] > 0 THEN "taken" ELSE "sent",
  late     <- {carries[c] : c \in {d \in Conns : Asking(d)}},
  received <- {carries[c] : c \in {d \in Conns : carries[d] \in Reports /\ forwards[d] > 0}}
ServesReports == Service!Spec

\* A request of the device that has come whole is answered while the device waits,
\* unless a failed accept or epoll_ctl left the connection behind or the server ended:
\* what a stranger sends or leaves out does not hold it up.  A stranger's stream has an
\* end: the loop of handle_client goes on for as long as one sends without a pause.
WholeCame(c) ==
  \/ \E f \in FdOf(c) : Verdict(Received(f) \o unread[c]) = "json"
  \/ c \in Waiting /\ Verdict(unread[c]) = "json"
WaitIsOver ==
  \/ attempt = NoConn \/ answer[attempt] # "none"
  \/ attempt \in leftBehind \cup unwatched \/ srvPc = "down"
DeviceIsAnswered == attempt # NoConn /\ WholeCame(attempt) ~> WaitIsOver
=============================================================================
