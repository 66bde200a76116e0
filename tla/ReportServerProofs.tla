------------------------- MODULE ReportServerProofs -------------------------
(***************************************************************************)
(* Proofs about ReportServer, for any number of connections, descriptors   *)
(* and reports, and whatever strangers send.                               *)
(***************************************************************************)
EXTENDS ReportServer, TLAPS

----------------------------------------------------------------------------
(* The inductive invariant *)

\* The server is inside handle_client, which works on a descriptor.
Busy == srvPc \in {"recv", "forward", "answer", "close"}

\* That descriptor is open and has no second event in the batch; events are for open
\* descriptors.
Placed ==
  /\ fd = listener <=> ~Busy
  /\ fd # listener => fd \notin batch
  /\ fd # listener => Open(fd)
  /\ \A f \in Fds : f \in ready \cup batch => Open(f)

\* A connection has one descriptor or one place in the backlog.
Distinct ==
  /\ \A f, g \in Fds : Open(f) /\ owner[f] = owner[g] => f = g
  /\ \A i, j \in DOMAIN backlog : backlog[i] = backlog[j] => i = j
  /\ \A f \in Fds, i \in DOMAIN backlog : owner[f] # backlog[i]
  /\ \A f \in Fds : Open(f) => carries[owner[f]] # NoReport
  /\ \A i \in DOMAIN backlog : carries[backlog[i]] # NoReport

\* Nothing was forwarded for a connection whose request has not been reached.
NotYet ==
  /\ \A f \in Fds : Open(f) => forwards[owner[f]] = 0 \/ (fd = f /\ srvPc \in {"answer", "close"})
  /\ \A i \in DOMAIN backlog : forwards[backlog[i]] = 0
  /\ \A c \in Conns : carries[c] = NoReport =>
       forwards[c] = 0 /\ answer[c] = "none" /\ unread[c] = <<>>

\* Of a report's request k pieces have been taken from the socket; those in it and
\* those on their way follow.
Follows(k, here, coming) ==
  /\ k + Len(here) + Len(coming) <= 2
  /\ \A i \in DOMAIN here : here[i] = Request[k + i]
  /\ \A i \in DOMAIN coming : coming[i] = Request[k + Len(here) + i]

InOrder ==
  /\ \A c \in Waiting : carries[c] \in Reports => Follows(0, unread[c], inNet[c])
  /\ \A f \in Fds : Open(f) /\ carries[owner[f]] \in Reports =>
       /\ Follows(Len(buffers[f]), unread[owner[f]], inNet[owner[f]])
       /\ \A i \in DOMAIN buffers[f] : buffers[f][i].piece = Request[i]

\* The server forwards whole requests, and answers no report it has not forwarded.
WholeFirst ==
  /\ srvPc = "forward" => Verdict(Received(fd)) = "json"
  /\ srvPc = "answer" /\ carries[Peer] \in Reports => forwards[Peer] = 1

\* The device's connection carries the report at the head of its queue.
Attempt ==
  /\ attempt # NoConn => ~acked /\ todo # <<>> /\ carries[attempt] = Head(todo)
  /\ acked => todo # <<>>

SIndInv ==
  /\ TypeOK
  /\ Placed
  /\ BuffersApart
  /\ NothingUnseen
  /\ NobodyStranded
  /\ Distinct
  /\ NotYet
  /\ InOrder
  /\ WholeFirst
  /\ ForwardedThenAnswered
  /\ Attempt

USE DEF srvvars, tcpvars, histvars, devvars, vars

----------------------------------------------------------------------------
(* Types *)

\* What the assumption says of the constants.
LEMMA Sorts ==
  /\ Conns \subseteq Nat /\ Fds \subseteq Nat
  /\ NoConn \notin Conns /\ listener \notin Fds
  /\ Stray \notin Reports \cup {NoReport} /\ NoReport \notin Reports
  /\ Todo \in Seq(Reports) /\ Strays \subseteq Seq(Pieces)
  /\ Request \in Seq(Pieces)
BY ServerAssumption DEF Conns, Fds, Request, Pieces, Headers, Bodies

\* The parts of TypeOK.
ServerTypes ==
  /\ srvPc \in Positions
  /\ fd \in Fds \cup {listener}
  /\ ready \subseteq Fds \cup {listener}
  /\ batch \subseteq Fds \cup {listener}
  /\ backlog \in Seq(Conns) /\ Len(backlog) <= BACKLOG
  /\ owner \in [Fds -> Conns \cup {NoConn}]
BufferTypes ==
  /\ DOMAIN buffers \subseteq Fds
  /\ \A f \in DOMAIN buffers : buffers[f] \in Seq([conn : Conns, piece : Pieces])
TcpTypes ==
  /\ carries \in [Conns -> Reports \cup {Stray, NoReport}]
  /\ staying \in [Conns -> BOOLEAN]
  /\ inNet \in [Conns -> Seq(Pieces)]
  /\ unread \in [Conns -> Seq(Pieces)]
  /\ hungUp \in [Conns -> BOOLEAN]
HistTypes ==
  /\ answer \in [Conns -> {"none", "200", "400"}]
  /\ forwards \in [Conns -> Nat]
  /\ leftBehind \subseteq Conns
  /\ unwatched \subseteq Conns
DeviceTypes ==
  /\ todo \in Seq(Reports)
  /\ attempt \in Conns \cup {NoConn}
  /\ acked \in BOOLEAN

Types == ServerTypes /\ BufferTypes /\ TcpTypes /\ HistTypes /\ DeviceTypes

\* Together they are all of it.
LEMMA TypesSplit == Types <=> TypeOK
BY DEF Types, TypeOK, ServerTypes, BufferTypes, TcpTypes, HistTypes, DeviceTypes

\* What a step leaves alone keeps its type.
LEMMA TypeFrames ==
  /\ ServerTypes /\ UNCHANGED <<srvPc, fd, ready, batch, backlog, owner>> => ServerTypes'
  /\ BufferTypes /\ UNCHANGED buffers => BufferTypes'
  /\ TcpTypes /\ UNCHANGED tcpvars => TcpTypes'
  /\ HistTypes /\ UNCHANGED histvars => HistTypes'
  /\ DeviceTypes /\ UNCHANGED devvars => DeviceTypes'
BY DEF ServerTypes, BufferTypes, TcpTypes, HistTypes, DeviceTypes

\* The system starts with the right types.
LEMMA InitTypes == Init => Types
<1> SUFFICES ASSUME Init PROVE Types
  OBVIOUS
<1>1. ServerTypes /\ BufferTypes
  BY ServerAssumption DEF Init, ServerTypes, BufferTypes, Positions
<1>2. TcpTypes
  BY DEF Init, TcpTypes
<1>3. HistTypes
  BY DEF Init, HistTypes
<1>4. DeviceTypes
  BY Sorts DEF Init, DeviceTypes
<1>. QED BY <1>1, <1>2, <1>3, <1>4 DEF Types

\* try_parse_request has four outcomes.
LEMMA VerdictType ==
  ASSUME NEW stream PROVE Verdict(stream) \in {"bad", "notjson", "json", "incomplete"}
BY DEF Verdict

\* Losing a socket keeps the connections' types.
LEMMA DiscardTypes ==
  ASSUME TcpTypes, NEW closed, Discard(closed)
  PROVE  TcpTypes'
BY DEF TcpTypes, Discard

\* A new connection keeps the types.
LEMMA ConnectTypes ==
  ASSUME Types, NEW what \in Reports \cup {Stray}, NEW stream \in Seq(Pieces),
         Connects(what, stream)
  PROVE  Types'
<1>1. PICK c \in Unused :
        /\ carries' = [carries EXCEPT ![c] = what]
        /\ staying' = [staying EXCEPT ![c] = TRUE]
        /\ inNet' = [inNet EXCEPT ![c] = stream]
        /\ backlog' = Append(backlog, c)
        /\ attempt' = IF what = Stray THEN attempt ELSE c
  BY DEF Connects, Lowest
<1>2. c \in Conns
  BY DEF Unused
<1>3. ServerTypes'
  <2>1. backlog' \in Seq(Conns) /\ Len(backlog') <= BACKLOG
    BY <1>1, <1>2, ServerAssumption DEF Connects, Types, ServerTypes
  <2>. QED BY <2>1 DEF Connects, Types, ServerTypes
<1>4. TcpTypes'
  BY <1>1, <1>2 DEF Connects, Types, TcpTypes
<1>5. DeviceTypes'
  BY <1>1, <1>2 DEF Connects, Types, DeviceTypes
<1>. QED BY <1>3, <1>4, <1>5, TypeFrames DEF Connects, Types

\* The device's steps keep the types.
LEMMA DeviceStepTypes ==
  ASSUME Types, Attempt, DeviceAsks \/ DeviceAnswered \/ DeviceGivesUp \/ DevicePops
  PROVE  Types'
<1>1. CASE DeviceAsks
  <2>1. Head(todo) \in Reports
    BY <1>1 DEF DeviceAsks, Types, DeviceTypes
  <2>. QED BY <1>1, <2>1, Sorts, ConnectTypes DEF DeviceAsks
<1>2. CASE DeviceCloses /\ acked' \in BOOLEAN
  <2>1. TcpTypes' /\ DeviceTypes'
    BY <1>2 DEF DeviceCloses, Types, TcpTypes, DeviceTypes
  <2>. QED BY <1>2, <2>1, TypeFrames DEF DeviceCloses, Types
<1>3. CASE DevicePops
  <2>1. todo # <<>>
    BY <1>3, Zenon DEF DevicePops, Attempt
  <2>2. todo' \in Seq(Reports)
    BY <1>3, <2>1 DEF DevicePops, Types, DeviceTypes
  <2>3. attempt' = attempt /\ acked' \in BOOLEAN
    BY <1>3 DEF DevicePops
  <2>4. DeviceTypes'
    BY <2>2, <2>3 DEF Types, DeviceTypes
  <2>. QED BY <1>3, <2>4, TypeFrames DEF DevicePops, Types
<1>. QED BY <1>1, <1>2, <1>3 DEF DeviceAnswered, DeviceGivesUp, Types, DeviceTypes

\* The network's and a stranger's steps keep them.
LEMMA NetworkStepTypes ==
  ASSUME Types, StrayConnects \/ \E c \in Conns : PieceArrives(c) \/ HangUpArrives(c)
  PROVE  Types'
<1>1. CASE StrayConnects
  BY <1>1, Sorts, ConnectTypes DEF StrayConnects
<1>2. ASSUME NEW c \in Conns, PieceArrives(c) PROVE Types'
  <2>1. Head(inNet[c]) \in Pieces /\ Tail(inNet[c]) \in Seq(Pieces) /\ unread[c] \in Seq(Pieces)
    BY <1>2 DEF PieceArrives, Types, TcpTypes
  <2>2. TcpTypes'
    BY <1>2, <2>1 DEF PieceArrives, Types, TcpTypes
  <2>3. ServerTypes'
    BY <1>2 DEF PieceArrives, Types, ServerTypes, WatchedFd, FdOf
  <2>. QED BY <1>2, <2>2, <2>3, TypeFrames DEF PieceArrives, Types
<1>3. ASSUME NEW c \in Conns, HangUpArrives(c) PROVE Types'
  <2>1. TcpTypes'
    BY <1>3 DEF HangUpArrives, Types, TcpTypes
  <2>2. ServerTypes'
    BY <1>3 DEF HangUpArrives, Types, ServerTypes, WatchedFd, FdOf
  <2>. QED BY <1>3, <2>1, <2>2, TypeFrames DEF HangUpArrives, Types
<1>. QED BY <1>1, <1>2, <1>3

\* What emplace does to the map of buffers.
LEMMA WithBufferFacts ==
  ASSUME NEW f
  PROVE  /\ DOMAIN WithBuffer(f) = DOMAIN buffers \cup {f}
         /\ \A g \in DOMAIN buffers : WithBuffer(f)[g] = buffers[g]
         /\ f \notin DOMAIN buffers => WithBuffer(f)[f] = <<>>
BY DEF WithBuffer

\* What adding a descriptor to the event table does.
LEMMA AddfdFacts ==
  ASSUME NEW f, NEW c, addfd(f, c)
  PROVE  /\ ready \subseteq ready' /\ ready' \subseteq ready \cup {f}
         /\ unwatched \subseteq unwatched' /\ unwatched' \subseteq unwatched \cup {c}
         /\ (unread[c] # <<>> \/ hungUp[c]) => f \in ready' \/ c \in unwatched'
BY DEF addfd

\* The steps of the event loop and of accepting keep the types.
LEMMA EventStepTypes ==
  ASSUME Types,
         EpollReturns \/ NextEvent \/ Accepts \/ AcceptsDone \/ AcceptFails
  PROVE  Types'
<1>1. CASE EpollReturns
  <2>1. ServerTypes'
    BY <1>1 DEF EpollReturns, Goes, Types, ServerTypes, Positions
  <2>. QED BY <1>1, <2>1, TypeFrames DEF EpollReturns, Goes, Types
<1>2. CASE NextEvent
  <2>1. ServerTypes'
    BY <1>2 DEF NextEvent, Goes, Types, ServerTypes, Positions
  <2>. QED BY <1>2, <2>1, TypeFrames DEF NextEvent, Goes, Types
<1>3. CASE Accepts
  <2>1. PICK f \in Fds : AcceptInto(f, Head(backlog))
    BY <1>3 DEF Accepts, Lowest, FreeFds
  <2>2. /\ Head(backlog) \in Conns /\ Tail(backlog) \in Seq(Conns)
        /\ Len(Tail(backlog)) <= BACKLOG
    BY <1>3, ServerAssumption DEF Accepts, Types, ServerTypes
  <2>3. ServerTypes'
    <3>1. ready' \subseteq ready \cup {f}
      BY <2>1, AddfdFacts DEF AcceptInto
    <3>. QED BY <1>3, <2>1, <2>2, <3>1 DEF Accepts, AcceptInto, Goes, Types, ServerTypes, Positions
  <2>4. BufferTypes'
    <3>1. buffers' = WithBuffer(f)
      BY <2>1 DEF AcceptInto
    <3>2. <<>> \in Seq([conn : Conns, piece : Pieces])
      OBVIOUS
    <3>3. DOMAIN WithBuffer(f) \subseteq Fds
      BY <2>1, WithBufferFacts DEF Types, BufferTypes
    <3>4. \A g \in DOMAIN WithBuffer(f) : WithBuffer(f)[g] \in Seq([conn : Conns, piece : Pieces])
      BY <3>2, WithBufferFacts DEF Types, BufferTypes
    <3>. QED BY <3>1, <3>3, <3>4 DEF BufferTypes
  <2>5. HistTypes'
    <3>1. unwatched' \subseteq unwatched \cup {Head(backlog)}
      BY <2>1, AddfdFacts DEF AcceptInto
    <3>. QED BY <2>1, <2>2, <3>1 DEF AcceptInto, Types, HistTypes
  <2>. QED BY <1>3, <2>3, <2>4, <2>5, TypeFrames DEF Accepts, Goes, Types
<1>4. CASE AcceptsDone
  <2>1. ServerTypes'
    BY <1>4 DEF AcceptsDone, Goes, Types, ServerTypes, Positions
  <2>. QED BY <1>4, <2>1, TypeFrames DEF AcceptsDone, Goes, Types
<1>5. CASE AcceptFails
  <2>1. ServerTypes'
    BY <1>5 DEF AcceptFails, Goes, Types, ServerTypes, Positions
  <2>2. Waiting \subseteq Conns
    BY DEF Types, ServerTypes, Waiting, Range
  <2>3. HistTypes'
    BY <1>5, <2>2 DEF AcceptFails, Types, HistTypes
  <2>. QED BY <1>5, <2>1, <2>3, TypeFrames DEF AcceptFails, Goes, Types
<1>. QED BY <1>1, <1>2, <1>3, <1>4, <1>5

\* Parsing leads to one of four positions.
LEMMA AfterParseType ==
  ASSUME NEW stream, NEW peer_closed \in BOOLEAN
  PROVE  AfterParse(Verdict(stream), peer_closed) \in {"forward", "close", "recv", "answer"}
BY VerdictType DEF AfterParse

\* While a descriptor is handled, its connection is one.
LEMMA PeerType ==
  ASSUME ServerTypes, Placed, Busy
  PROVE  fd \in Fds /\ fd # listener /\ Open(fd) /\ Peer \in Conns
BY Sorts DEF ServerTypes, Placed, Open, Peer

\* Those of handle_client keep them.
LEMMA ClientStepTypes ==
  ASSUME Types, Placed, BuffersApart,
         Receives \/ WouldBlock \/ PeerClosed \/ Forwards \/ Answers \/ Closes
  PROVE  Types'
<1>0. fd \in Fds /\ Peer \in Conns /\ fd \in DOMAIN buffers
  <2>1. Busy
    BY DEF Busy, Receives, ReadPiece, WouldBlock, PeerClosed, Forwards, Answers, Closes, CloseSocket
  <2>. QED BY <2>1, PeerType DEF Types, BuffersApart
<1>1. CASE Receives
  <2>1. srvPc' \in Positions
    BY <1>1, AfterParseType DEF Receives, ReadPiece, Positions
  <2>2. ServerTypes'
    BY <1>1, <2>1 DEF Receives, ReadPiece, Types, ServerTypes
  <2>3. Head(unread[Peer]) \in Pieces /\ Tail(unread[Peer]) \in Seq(Pieces)
    BY <1>0, <1>1 DEF Receives, ReadPiece, Types, TcpTypes
  <2>4. TcpTypes'
    BY <1>0, <1>1, <2>3 DEF Receives, ReadPiece, Types, TcpTypes
  <2>5. [conn |-> Peer, piece |-> Head(unread[Peer])] \in [conn : Conns, piece : Pieces]
    BY <1>0, <2>3
  <2>6. BufferTypes'
    <3> DEFINE entry == [conn |-> Peer, piece |-> Head(unread[Peer])]
    <3>1. buffers' = [buffers EXCEPT ![fd] = Append(@, entry)]
      BY <1>1 DEF Receives, ReadPiece
    <3>2. buffers[fd] \in Seq([conn : Conns, piece : Pieces])
      BY <1>0 DEF Types, BufferTypes
    <3> HIDE DEF entry
    <3>3. Append(buffers[fd], entry) \in Seq([conn : Conns, piece : Pieces])
      BY <2>5, <3>2 DEF entry
    <3>. QED BY <3>1, <3>3 DEF Types, BufferTypes
  <2>. QED BY <1>1, <2>2, <2>4, <2>6, TypeFrames DEF Receives, ReadPiece, Types
<1>2. CASE WouldBlock
  <2>1. ServerTypes'
    BY <1>2 DEF WouldBlock, Goes, Types, ServerTypes, Positions
  <2>. QED BY <1>2, <2>1, TypeFrames DEF WouldBlock, Goes, Types
<1>3. CASE PeerClosed
  <2>1. srvPc' \in Positions
    BY <1>3, AfterParseType DEF PeerClosed, Goes, Positions
  <2>2. ServerTypes'
    BY <1>3, <2>1 DEF PeerClosed, Goes, Types, ServerTypes
  <2>. QED BY <1>3, <2>2, TypeFrames DEF PeerClosed, Goes, Types
<1>4. CASE Forwards
  <2>1. ServerTypes'
    BY <1>4 DEF Forwards, Goes, Types, ServerTypes, Positions
  <2>2. HistTypes'
    BY <1>0, <1>4 DEF Forwards, Types, HistTypes
  <2>. QED BY <1>4, <2>1, <2>2, TypeFrames DEF Forwards, Goes, Types
<1>5. CASE Answers
  <2>1. ServerTypes'
    BY <1>5 DEF Answers, Goes, Types, ServerTypes, Positions
  <2>2. HistTypes'
    BY <1>0, <1>5 DEF Answers, Types, HistTypes
  <2>. QED BY <1>5, <2>1, <2>2, TypeFrames DEF Answers, Goes, Types
<1>6. CASE Closes
  <2>1. ServerTypes'
    BY <1>0, <1>6 DEF Closes, CloseSocket, Types, ServerTypes, Positions
  <2>2. BufferTypes'
    BY <1>6 DEF Closes, Types, BufferTypes
  <2>3. TcpTypes'
    BY <1>6, DiscardTypes DEF Closes, CloseSocket, Types
  <2>. QED BY <1>6, <2>1, <2>2, <2>3, TypeFrames DEF Closes, CloseSocket, Types
<1>. QED BY <1>1, <1>2, <1>3, <1>4, <1>5, <1>6

\* The end of the process keeps them.
LEMMA EndTypes ==
  ASSUME Types, EpollFails PROVE Types'
<1>1. ServerTypes'
  BY ServerAssumption DEF EpollFails, Types, ServerTypes, Positions
<1>2. BufferTypes'
  BY DEF EpollFails, BufferTypes
<1>3. TcpTypes'
  BY DiscardTypes DEF EpollFails, Types
<1>4. HistTypes'
  BY DEF EpollFails, Types, HistTypes
<1>. QED BY <1>1, <1>2, <1>3, <1>4, TypeFrames DEF EpollFails, Types

\* Every step keeps the types.
LEMMA TypesStep ==
  ASSUME Types, Placed, BuffersApart, Attempt, Next PROVE Types'
BY DeviceStepTypes, NetworkStepTypes, EventStepTypes, ClientStepTypes, EndTypes DEF Next, Server

----------------------------------------------------------------------------
(* The device's attempt *)

\* A step of the server, or of the network, leaves alone what the peers know.
LEMMA PeersUntouched ==
  ASSUME Server \/ EpollFails \/ \E c \in Conns : PieceArrives(c) \/ HangUpArrives(c)
  PROVE  UNCHANGED <<carries, devvars>>
BY DEF Server, EpollFails, PieceArrives, HangUpArrives, EpollReturns, NextEvent, Accepts, AcceptsDone,
       AcceptFails, Receives, ReadPiece, WouldBlock, PeerClosed, Forwards, Answers, Closes,
       CloseSocket, Discard, Goes

\* The device's connection carries the head of its queue after every step.
LEMMA AttemptStep ==
  ASSUME Types, Attempt, Next PROVE Attempt'
<1>1. ASSUME NEW what \in Reports \cup {Stray}, NEW stream, Connects(what, stream),
             what = Stray \/ (todo # <<>> /\ attempt = NoConn /\ ~acked /\ what = Head(todo))
      PROVE  Attempt'
  <2>1. PICK c \in Unused :
          /\ carries' = [carries EXCEPT ![c] = what]
          /\ attempt' = IF what = Stray THEN attempt ELSE c
    BY <1>1 DEF Connects, Lowest
  <2>2. c \in Conns /\ carries[c] = NoReport /\ todo' = todo /\ acked' = acked
    BY <1>1, <2>1 DEF Unused, Connects
  <2>3. CASE what = Stray
    <3>1. attempt # NoConn => Head(todo) \in Reports
      BY DEF Attempt, Types, DeviceTypes
    <3>2. attempt # NoConn => carries'[attempt] = carries[attempt]
      BY <2>1, <2>2, <3>1, Sorts DEF Attempt, Types, TcpTypes, DeviceTypes
    <3>. QED BY <2>1, <2>2, <2>3, <3>2 DEF Attempt
  <2>4. CASE what # Stray
    <3>1. attempt' = c /\ carries'[c] = what
      BY <2>1, <2>2, <2>4 DEF Types, TcpTypes
    <3>. QED BY <1>1, <2>2, <2>4, <3>1 DEF Attempt
  <2>. QED BY <2>3, <2>4
<1>2. CASE DeviceAsks
  <2>1. Head(todo) \in Reports
    BY <1>2 DEF DeviceAsks, Types, DeviceTypes
  <2>. QED BY <1>1, <1>2, <2>1 DEF DeviceAsks
<1>3. CASE StrayConnects
  BY <1>1, <1>3 DEF StrayConnects
<1>4. CASE DeviceAnswered \/ DeviceGivesUp
  BY <1>4 DEF DeviceAnswered, DeviceGivesUp, DeviceCloses, Attempt
<1>5. CASE DevicePops
  BY <1>5, Zenon DEF DevicePops, Attempt
<1>6. CASE Server \/ EpollFails \/ \E c \in Conns : PieceArrives(c) \/ HangUpArrives(c)
  BY <1>6, PeersUntouched DEF Attempt
<1>. QED BY <1>2, <1>3, <1>4, <1>5, <1>6 DEF Next

----------------------------------------------------------------------------
(* Descriptors and events *)

\* What the peers do never touches the server's own state, except for the kernel's
\* ready list and the backlog.
LEMMA PeersOutside ==
  ASSUME DeviceAsks \/ DeviceAnswered \/ DeviceGivesUp \/ DevicePops \/ StrayConnects
           \/ \E c \in Conns : PieceArrives(c) \/ HangUpArrives(c)
  PROVE  /\ UNCHANGED <<srvPc, fd, batch, owner, buffers, answer, forwards, leftBehind,
                       unwatched>>
         /\ \/ ready' = ready
            \/ ready' = ready \cup {listener}
            \/ \E c \in Conns : ready' = ready \cup WatchedFd(c)
BY DEF DeviceAsks, DeviceAnswered, DeviceGivesUp, DevicePops, StrayConnects, Connects, DeviceCloses,
       PieceArrives, HangUpArrives

\* The server works on one open descriptor at a time, after every step.
LEMMA PlacedStep ==
  ASSUME Types, Placed, Next PROVE Placed'
<1>. USE DEF Placed, Busy
<1>1. CASE \/ DeviceAsks \/ DeviceAnswered \/ DeviceGivesUp \/ DevicePops \/ StrayConnects
           \/ \E c \in Conns : PieceArrives(c) \/ HangUpArrives(c)
  BY <1>1, PeersOutside, Sorts DEF WatchedFd, FdOf, Open
<1>2. CASE EpollReturns
  BY <1>2, Sorts DEF EpollReturns, Goes, Open
<1>3. CASE NextEvent
  BY <1>3, Sorts DEF NextEvent, Goes, Open, Types, ServerTypes
<1>4. CASE Accepts
  <2>1. PICK f \in FreeFds : AcceptInto(f, Head(backlog))
    BY <1>4 DEF Accepts, Lowest
  <2>2. Head(backlog) \in Conns
    BY <1>4 DEF Accepts, Types, ServerTypes
  <2>3. \A g \in Fds : Open(g) => Open(g)'
    BY <2>1, <2>2, Sorts DEF AcceptInto, Open, Types, ServerTypes
  <2>4. f \in Fds /\ Open(f)'
    BY <2>1, <2>2, Sorts DEF AcceptInto, Open, FreeFds, Types, ServerTypes
  <2>5. ready' \subseteq ready \cup {f} /\ batch' = batch /\ fd' = fd /\ srvPc' = srvPc
    BY <1>4, <2>1, AddfdFacts DEF Accepts, AcceptInto, Goes
  <2>. QED BY <1>4, <2>3, <2>4, <2>5 DEF Accepts
<1>5. CASE AcceptsDone \/ AcceptFails
  BY <1>5 DEF AcceptsDone, AcceptFails, Goes, Open
<1>6. CASE Receives \/ PeerClosed
  <2>1. srvPc' \in {"forward", "close", "recv", "answer"}
    BY <1>6, AfterParseType DEF Receives, ReadPiece, PeerClosed, Goes
  <2>. QED BY <1>6, <2>1 DEF Receives, ReadPiece, PeerClosed, Goes, Open
<1>7. CASE WouldBlock
  BY <1>7, Sorts DEF WouldBlock, Goes, Open
<1>8. CASE Forwards \/ Answers
  BY <1>8 DEF Forwards, Answers, Goes, Open
<1>9. CASE Closes
  BY <1>9, Sorts DEF Closes, CloseSocket, Open, Types, ServerTypes
<1>10. CASE EpollFails
  BY <1>10, Sorts DEF EpollFails, Open
<1>. QED BY <1>1, <1>2, <1>3, <1>4, <1>5, <1>6, <1>7, <1>8, <1>9, <1>10 DEF Next, Server

\* The members of a sequence with one appended.
LEMMA Appended ==
  ASSUME NEW S, NEW s \in Seq(S), NEW e \in S
  PROVE  /\ Append(s, e) \in Seq(S)
         /\ Len(Append(s, e)) = Len(s) + 1
         /\ Append(s, e)[Len(s) + 1] = e
         /\ \A i \in DOMAIN s : i \in DOMAIN Append(s, e) /\ Append(s, e)[i] = s[i]
         /\ \A i \in DOMAIN Append(s, e) : i \in DOMAIN s \/ i = Len(s) + 1
OBVIOUS

\* What a recv appends to the buffer.
LEMMA ReadTypes ==
  ASSUME Types, Placed, NEW pc, ReadPiece(pc)
  PROVE  [conn |-> Peer, piece |-> Head(unread[Peer])] \in [conn : Conns, piece : Pieces]
<1>1. Peer \in Conns
  BY PeerType DEF ReadPiece, Busy, Types
<1>2. Head(unread[Peer]) \in Pieces
  BY <1>1 DEF ReadPiece, Types, TcpTypes
<1>. QED BY <1>1, <1>2

\* A buffer holds what its own connection sent, after every step.
LEMMA BuffersApartStep ==
  ASSUME Types, Placed, BuffersApart, Next PROVE BuffersApart'
<1>1. CASE UNCHANGED <<buffers, owner>>
  BY <1>1 DEF BuffersApart, Open
<1>2. CASE Accepts
  <2>1. PICK f \in FreeFds : AcceptInto(f, Head(backlog))
    BY <1>2 DEF Accepts, Lowest
  <2>2. Head(backlog) \in Conns
    BY <1>2 DEF Accepts, Types, ServerTypes
  <2>3. f \in Fds /\ f \notin DOMAIN buffers
    BY <2>1 DEF BuffersApart, FreeFds
  <2>4. \A g \in Fds : g # f => owner'[g] = owner[g]
    BY <2>1 DEF AcceptInto, Types, ServerTypes
  <2>5. Open(f)'
    BY <2>1, <2>2, <2>3, Sorts DEF AcceptInto, Open, Types, ServerTypes
  <2>6. DOMAIN buffers' = DOMAIN buffers \cup {f}
    BY <2>1, WithBufferFacts DEF AcceptInto
  <2>7. DOMAIN buffers' = {g \in Fds : Open(g)}'
    BY <2>3, <2>4, <2>5, <2>6 DEF BuffersApart, Open
  <2>8. \A g \in DOMAIN buffers : buffers'[g] = buffers[g] /\ owner'[g] = owner[g]
    BY <2>1, <2>3, <2>4, WithBufferFacts DEF AcceptInto, Types, BufferTypes
  <2>9. buffers'[f] = <<>>
    BY <2>1, <2>3, WithBufferFacts DEF AcceptInto
  <2>. QED BY <2>6, <2>7, <2>8, <2>9 DEF BuffersApart
<1>3. CASE Receives
  <2> DEFINE entry == [conn |-> Peer, piece |-> Head(unread[Peer])]
  <2>0. fd \in Fds /\ fd \in DOMAIN buffers /\ Peer = owner[fd]
    BY <1>3, PeerType DEF Receives, ReadPiece, Busy, Types, BuffersApart, Peer
  <2>1. buffers' = [buffers EXCEPT ![fd] = Append(@, entry)] /\ owner' = owner
    BY <1>3 DEF Receives, ReadPiece
  <2>2. buffers[fd] \in Seq([conn : Conns, piece : Pieces]) /\ entry.conn = owner[fd]
    BY <2>0 DEF Types, BufferTypes
  <2>3. entry \in [conn : Conns, piece : Pieces]
    BY <1>3, ReadTypes DEF Receives
  <2> HIDE DEF entry
  <2>4. \A i \in DOMAIN buffers'[fd] : buffers'[fd][i].conn = owner[fd]
    <3>1. buffers'[fd] = Append(buffers[fd], entry)
      BY <2>0, <2>1
    <3>2. SUFFICES ASSUME NEW i \in DOMAIN Append(buffers[fd], entry)
                   PROVE  Append(buffers[fd], entry)[i].conn = owner[fd]
      BY <3>1
    <3>3. \/ i \in DOMAIN buffers[fd] /\ Append(buffers[fd], entry)[i] = buffers[fd][i]
          \/ Append(buffers[fd], entry)[i] = entry
      BY <2>2, <2>3, Appended
    <3>. QED BY <2>0, <2>2, <3>3 DEF BuffersApart
  <2>. QED BY <2>0, <2>1, <2>4 DEF BuffersApart, Open
<1>4. CASE Closes
  <2>1. fd \in Fds
    BY <1>4, PeerType DEF Closes, CloseSocket, Busy, Types
  <2>2. /\ DOMAIN buffers' = DOMAIN buffers \ {fd}
        /\ \A f \in DOMAIN buffers' : buffers'[f] = buffers[f]
    BY <1>4 DEF Closes
  <2>3. /\ \A f \in Fds : f # fd => owner'[f] = owner[f]
        /\ owner'[fd] = NoConn
    BY <1>4, <2>1 DEF Closes, CloseSocket, Open, Types, ServerTypes
  <2>. QED BY <2>1, <2>2, <2>3 DEF BuffersApart, Open
<1>5. CASE EpollFails
  BY <1>5 DEF EpollFails, BuffersApart, Open
<1>6. CASE \/ DeviceAsks \/ DeviceAnswered \/ DeviceGivesUp \/ DevicePops \/ StrayConnects
           \/ \E c \in Conns : PieceArrives(c) \/ HangUpArrives(c)
  <2>1. UNCHANGED <<buffers, owner>>
    BY <1>6, PeersOutside
  <2>. QED BY <1>1, <2>1
<1>7. CASE \/ EpollReturns \/ NextEvent \/ AcceptsDone \/ AcceptFails
           \/ WouldBlock \/ PeerClosed \/ Forwards \/ Answers
  BY <1>1, <1>7 DEF EpollReturns, NextEvent, AcceptsDone, AcceptFails, WouldBlock, PeerClosed, Forwards,
       Answers
<1>. QED BY <1>2, <1>3, <1>4, <1>5, <1>6, <1>7 DEF Next, Server

----------------------------------------------------------------------------
(* Edges *)

\* No step uses up the last event of a connection that has something to tell.
LEMMA NothingUnseenStep ==
  ASSUME Types, Placed, NothingUnseen, Next PROVE NothingUnseen'
<1> SUFFICES ASSUME NEW f \in Fds, Open(f)', (owner[f] \notin unwatched)',
                    (unread[owner[f]] # <<>> \/ hungUp[owner[f]])'
             PROVE  f \in ready' \cup batch' \/ (Busy' /\ fd' = f)
  BY DEF NothingUnseen, Busy
<1> DEFINE Told == Open(f) /\ owner[f] \notin unwatched
                     /\ (unread[owner[f]] # <<>> \/ hungUp[owner[f]])
<1>0. Told => f \in ready \cup batch \/ (Busy /\ fd = f)
  BY DEF NothingUnseen, Busy
<1>1. CASE UNCHANGED <<srvPc, fd, batch, owner, unread, hungUp, unwatched>> /\ ready \subseteq ready'
  BY <1>0, <1>1 DEF Open, Busy
<1>2. ASSUME NEW c \in Conns, PieceArrives(c) \/ HangUpArrives(c) PROVE f \in ready' \/ Told
  <2>1. /\ owner[f] \in Conns /\ Open(f) /\ owner[f] \notin unwatched
        /\ ready' = ready \cup WatchedFd(c)
    BY <1>2 DEF PieceArrives, HangUpArrives, Open, Types, ServerTypes
  <2>2. CASE owner[f] = c
    BY <2>1, <2>2 DEF WatchedFd, FdOf
  <2>3. CASE owner[f] # c
    BY <1>2, <2>1, <2>3 DEF PieceArrives, HangUpArrives, Types, TcpTypes
  <2>. QED BY <2>2, <2>3
<1>3. ASSUME NEW c \in Conns, PieceArrives(c) \/ HangUpArrives(c)
      PROVE  UNCHANGED <<srvPc, fd, batch>> /\ ready \subseteq ready'
  BY <1>3 DEF PieceArrives, HangUpArrives
<1>4. CASE EpollReturns
  BY <1>0, <1>4, Sorts DEF EpollReturns, Goes, Placed, Busy, Open
<1>5. CASE NextEvent
  BY <1>0, <1>5, Sorts DEF NextEvent, Goes, Placed, Busy, Open
<1>6. CASE Accepts
  <2>1. PICK g \in FreeFds : AcceptInto(g, Head(backlog))
    BY <1>6 DEF Accepts, Lowest
  <2>2. /\ UNCHANGED <<srvPc, fd, batch, unread, hungUp>>
        /\ ready \subseteq ready' /\ unwatched \subseteq unwatched'
    BY <1>6, <2>1, AddfdFacts DEF Accepts, AcceptInto, Goes
  <2>3. CASE f = g
    <3>1. owner'[f] = Head(backlog)
      BY <2>1, <2>3 DEF AcceptInto, FreeFds, Types, ServerTypes
    <3>2. unread[Head(backlog)] # <<>> \/ hungUp[Head(backlog)]
      BY <2>2, <3>1
    <3>. QED BY <2>1, <2>3, <3>1, <3>2, AddfdFacts DEF AcceptInto
  <2>4. CASE f # g
    <3>1. owner'[f] = owner[f]
      BY <2>1, <2>4 DEF AcceptInto, FreeFds, Types, ServerTypes
    <3>. QED BY <1>0, <2>2, <3>1 DEF Open, Busy
  <2>. QED BY <2>3, <2>4
<1>7. CASE AcceptsDone \/ AcceptFails
  BY <1>0, <1>7 DEF AcceptsDone, AcceptFails, Goes, Busy, Open
<1>8. CASE Receives
  <2>1. Peer \in Conns /\ Busy'
    BY <1>8, PeerType, AfterParseType DEF Receives, ReadPiece, Busy, Types
  <2>2. \A c \in Conns : unread'[c] # <<>> => unread[c] # <<>>
    BY <1>8, <2>1 DEF Receives, ReadPiece, Types, TcpTypes
  <2>3. owner[f] \in Conns
    BY <1>8 DEF Receives, ReadPiece, Open, Types, ServerTypes
  <2>. QED BY <1>0, <1>8, <2>1, <2>2, <2>3 DEF Receives, ReadPiece, Open
<1>9. CASE WouldBlock
  BY <1>0, <1>9 DEF WouldBlock, Goes, Open, Busy, Peer
<1>10. CASE PeerClosed
  <2>1. Busy'
    BY <1>10, AfterParseType DEF PeerClosed, Goes, Busy
  <2>. QED BY <1>0, <1>10, <2>1 DEF PeerClosed, Goes, Open
<1>11. CASE Forwards \/ Answers
  BY <1>0, <1>11 DEF Forwards, Answers, Goes, Open, Busy
<1>12. CASE Closes
  <2>1. f # fd /\ owner'[f] = owner[f]
    BY <1>12 DEF Closes, CloseSocket, Open, Types, ServerTypes
  <2>2. owner[f] \in Conns
    BY <2>1 DEF Open, Types, ServerTypes
  <2>3. owner[f] # Peer /\ unread'[owner[f]] = unread[owner[f]] /\ hungUp'[owner[f]] = hungUp[owner[f]]
    BY <1>12, <2>1, <2>2 DEF Closes, CloseSocket, Discard, Types, TcpTypes
  <2>. QED BY <1>0, <1>12, <2>1, <2>3 DEF Closes, CloseSocket, Open
<1>13. CASE EpollFails
  BY <1>13 DEF EpollFails, Open
<1>14. CASE DeviceAsks \/ DeviceAnswered \/ DeviceGivesUp \/ DevicePops \/ StrayConnects
  BY <1>1, <1>14 DEF DeviceAsks, DeviceAnswered, DeviceGivesUp, DevicePops, StrayConnects, Connects,
       DeviceCloses
<1>15. ASSUME NEW c \in Conns, PieceArrives(c) \/ HangUpArrives(c)
       PROVE  f \in ready' \cup batch' \/ (Busy' /\ fd' = f)
  BY <1>0, <1>2, <1>3, <1>15 DEF Busy
<1>. QED BY <1>4, <1>5, <1>6, <1>7, <1>8, <1>9, <1>10, <1>11, <1>12, <1>13, <1>14, <1>15 DEF Next, Server

\* Nor does a step use up the listener's event while somebody waits, but for a failed
\* accept, which says whom it leaves behind.
LEMMA NobodyStrandedStep ==
  ASSUME Types, Placed, NobodyStranded, Next PROVE NobodyStranded'
<1>. USE DEF NobodyStranded
<1>1. CASE \/ DeviceAsks \/ DeviceAnswered \/ DeviceGivesUp \/ DevicePops \/ StrayConnects
           \/ \E c \in Conns : PieceArrives(c) \/ HangUpArrives(c)
  <2>1. backlog' = backlog \/ listener \in ready'
    BY <1>1 DEF DeviceAsks, DeviceAnswered, DeviceGivesUp, DevicePops, StrayConnects, Connects,
         DeviceCloses, PieceArrives, HangUpArrives
  <2>. QED BY <1>1, <2>1, PeersOutside DEF Waiting
<1>2. CASE EpollReturns
  BY <1>2 DEF EpollReturns, Goes, Waiting
<1>3. CASE NextEvent
  BY <1>3 DEF NextEvent, Goes, Waiting
<1>4. CASE Accepts
  BY <1>4 DEF Accepts, Goes
<1>5. CASE AcceptsDone
  <2>1. backlog' = <<>>
    BY <1>5 DEF AcceptsDone
  <2>2. Waiting' = {}
    BY <2>1 DEF Waiting, Range
  <2>. QED BY <2>2
<1>6. CASE AcceptFails
  BY <1>6 DEF AcceptFails, Waiting
<1>7. CASE Receives \/ WouldBlock \/ PeerClosed \/ Forwards \/ Answers
  BY <1>7 DEF Receives, ReadPiece, WouldBlock, PeerClosed, Forwards, Answers, Goes, Waiting
<1>8. CASE Closes
  <2>1. fd # listener
    BY <1>8, PeerType DEF Closes, CloseSocket, Busy, Types
  <2>. QED BY <1>8, <2>1 DEF Closes, CloseSocket, Waiting
<1>9. CASE EpollFails
  <2>1. backlog' = <<>>
    BY <1>9 DEF EpollFails
  <2>2. Waiting' = {}
    BY <2>1 DEF Waiting, Range
  <2>. QED BY <2>2
<1>. QED BY <1>1, <1>2, <1>3, <1>4, <1>5, <1>6, <1>7, <1>8, <1>9 DEF Next, Server

----------------------------------------------------------------------------
(* Connections *)

\* A connection that is known to the server's side has been used.
LEMMA ConnectedUsed ==
  ASSUME Distinct, NEW c \in Conns, Connected(c) PROVE carries[c] # NoReport
BY DEF Distinct, Connected, Held, Waiting, Range, Open

\* A new connection is the device's for the head of its queue, or a stranger's.
LEMMA Connecting ==
  ASSUME Types, DeviceAsks \/ StrayConnects
  PROVE  \E what \in Reports \cup {Stray}, stream \in Seq(Pieces) :
           Connects(what, stream) /\ (what \in Reports => stream = Request)
<1>1. CASE DeviceAsks
  BY <1>1, Sorts DEF DeviceAsks, Types, DeviceTypes
<1>2. CASE StrayConnects
  BY <1>2, Sorts DEF StrayConnects
<1>. QED BY <1>1, <1>2

\* It takes one that nobody has used.
LEMMA ConnectFresh ==
  ASSUME Types, Distinct, NEW what, NEW stream, Connects(what, stream)
  PROVE  \E c \in Conns :
           /\ carries[c] = NoReport /\ ~Connected(c)
           /\ carries' = [carries EXCEPT ![c] = what]
           /\ inNet' = [inNet EXCEPT ![c] = stream]
           /\ backlog' = Append(backlog, c)
           /\ UNCHANGED <<srvPc, fd, batch, owner, buffers, unread, hungUp, histvars>>
<1>1. PICK c \in Unused :
        /\ carries' = [carries EXCEPT ![c] = what]
        /\ inNet' = [inNet EXCEPT ![c] = stream]
        /\ backlog' = Append(backlog, c)
  BY DEF Connects, Lowest
<1>2. c \in Conns /\ carries[c] = NoReport
  BY <1>1 DEF Unused
<1>3. ~Connected(c)
  BY <1>2, ConnectedUsed
<1>. QED BY <1>1, <1>2, <1>3 DEF Connects

\* Distinct, said of one connection.
LEMMA InOnePlace ==
  ASSUME Types, Distinct
  PROVE  /\ \A f \in Fds : Open(f) => owner[f] \in Conns /\ owner[f] \notin Waiting
         /\ \A c \in Waiting : c \in Conns /\ carries[c] # NoReport
         /\ \A f, g \in Fds : Open(f) /\ Open(g) /\ f # g => owner[f] # owner[g]
BY DEF Distinct, Waiting, Range, Open, Types, ServerTypes

\* The rest of the backlog, once its head is taken.
LEMMA TailOfBacklog ==
  ASSUME Types, backlog # <<>>
  PROVE  /\ Head(backlog) \in Conns /\ Head(backlog) = backlog[1] /\ 1 \in DOMAIN backlog
         /\ Tail(backlog) \in Seq(Conns)
         /\ \A i \in DOMAIN Tail(backlog) : i + 1 \in DOMAIN backlog /\ Tail(backlog)[i] = backlog[i + 1]
         /\ \A i \in DOMAIN Tail(backlog) : i + 1 # 1
BY DEF Types, ServerTypes

\* No step gives a connection a second place.
LEMMA DistinctStep ==
  ASSUME Types, Placed, Distinct, Next PROVE Distinct'
<1>1. CASE UNCHANGED <<owner, backlog, carries>>
  BY <1>1 DEF Distinct, Open
<1>2. CASE DeviceAsks \/ StrayConnects
  <2>1. PICK what \in Reports \cup {Stray}, stream \in Seq(Pieces) : Connects(what, stream)
    BY <1>2, Connecting
  <2>2. PICK c \in Conns :
          /\ carries[c] = NoReport /\ ~Connected(c)
          /\ carries' = [carries EXCEPT ![c] = what]
          /\ backlog' = Append(backlog, c)
          /\ UNCHANGED owner
    BY <2>1, ConnectFresh
  <2>3. /\ \A f \in Fds : Open(f) => owner[f] # c
        /\ \A i \in DOMAIN backlog : backlog[i] # c
    BY <2>2 DEF Connected, Held, Waiting, Range
  <2>4. what # NoReport
    BY Sorts
  <2>5. carries'[c] # NoReport /\ \A d \in Conns : carries[d] # NoReport => carries'[d] # NoReport
    BY <2>2, <2>4 DEF Types, TcpTypes
  <2>6. /\ \A i \in DOMAIN backlog : i \in DOMAIN backlog' /\ backlog'[i] = backlog[i]
        /\ \A i \in DOMAIN backlog' : i \in DOMAIN backlog \/ i = Len(backlog) + 1
        /\ backlog'[Len(backlog) + 1] = c
    BY <2>2, Appended DEF Types, ServerTypes
  <2>7. /\ \A i \in DOMAIN backlog : backlog[i] \in Conns
        /\ \A f \in Fds : Open(f) => owner[f] \in Conns
    BY DEF Types, ServerTypes, Open
  <2>8. \A i, j \in DOMAIN backlog' : backlog'[i] = backlog'[j] => i = j
    BY <2>3, <2>6 DEF Distinct
  <2>9. \A f \in Fds, i \in DOMAIN backlog' : owner'[f] # backlog'[i]
    <3>1. \A f \in Fds : owner[f] # c
      BY <2>3, Sorts DEF Open
    <3>. QED BY <2>2, <2>6, <3>1 DEF Distinct
  <2>10. \A i \in DOMAIN backlog' : carries'[backlog'[i]] # NoReport
    BY <2>5, <2>6, <2>7 DEF Distinct
  <2>11. \A f \in Fds : owner'[f] # NoConn => carries'[owner'[f]] # NoReport
    BY <2>2, <2>5, <2>7 DEF Distinct, Open
  <2>. QED BY <2>2, <2>8, <2>9, <2>10, <2>11 DEF Distinct, Open
<1>3. CASE Accepts
  <2>1. PICK f \in FreeFds : AcceptInto(f, Head(backlog))
    BY <1>3 DEF Accepts, Lowest
  <2>2. backlog # <<>> /\ backlog' = Tail(backlog) /\ carries' = carries
    BY <1>3, <2>1 DEF Accepts, AcceptInto, Goes
  <2>3. f \in Fds /\ owner'[f] = backlog[1] /\ \A g \in Fds : g # f => owner'[g] = owner[g]
    BY <2>1, <2>2, TailOfBacklog DEF AcceptInto, FreeFds, Types, ServerTypes
  <2>. QED BY <2>2, <2>3, TailOfBacklog DEF Distinct, Open
<1>4. CASE Closes
  <2>1. UNCHANGED <<backlog, carries>>
    BY <1>4 DEF Closes, CloseSocket, Discard
  <2>2. \A g \in Fds : owner'[g] = NoConn \/ owner'[g] = owner[g]
    BY <1>4 DEF Closes, CloseSocket, Types, ServerTypes
  <2>3. \A i \in DOMAIN backlog : backlog[i] # NoConn
    BY Sorts DEF Types, ServerTypes
  <2>. QED BY <2>1, <2>2, <2>3 DEF Distinct, Open
<1>5. CASE EpollFails
  BY <1>5 DEF EpollFails, Distinct, Open
<1>6. CASE \/ DeviceAnswered \/ DeviceGivesUp \/ DevicePops
           \/ \E c \in Conns : PieceArrives(c) \/ HangUpArrives(c)
  <2>1. UNCHANGED <<owner, backlog, carries>>
    BY <1>6 DEF DeviceAnswered, DeviceGivesUp, DevicePops, DeviceCloses, PieceArrives, HangUpArrives
  <2>. QED BY <1>1, <2>1
<1>7. CASE \/ EpollReturns \/ NextEvent \/ AcceptsDone \/ AcceptFails
           \/ Receives \/ WouldBlock \/ PeerClosed \/ Forwards \/ Answers
  BY <1>1, <1>7 DEF EpollReturns, NextEvent, AcceptsDone, AcceptFails, Receives, ReadPiece, WouldBlock,
       PeerClosed, Forwards, Answers, Goes
<1>. QED BY <1>2, <1>3, <1>4, <1>5, <1>6, <1>7 DEF Next, Server

----------------------------------------------------------------------------
(* What has been received *)

\* What a sequence over a set holds is in the set.
LEMMA Member ==
  ASSUME NEW S, NEW s \in Seq(S) PROVE \A i \in 1 .. Len(s) : s[i] \in S
OBVIOUS

\* The pieces in a buffer are a stream.
LEMMA ReceivedFacts ==
  ASSUME Types, NEW f \in DOMAIN buffers
  PROVE  /\ Received(f) \in Seq(Pieces)
         /\ Len(Received(f)) = Len(buffers[f])
         /\ \A i \in DOMAIN buffers[f] : Received(f)[i] = buffers[f][i].piece
<1>1. buffers[f] \in Seq([conn : Conns, piece : Pieces])
  BY DEF Types, BufferTypes
<1>2. \A i \in 1 .. Len(buffers[f]) : buffers[f][i].piece \in Pieces
  <2>1. \A i \in 1 .. Len(buffers[f]) : buffers[f][i] \in [conn : Conns, piece : Pieces]
    BY <1>1, Member
  <2>2. \A e \in [conn : Conns, piece : Pieces] : e.piece \in Pieces
    OBVIOUS
  <2>. QED BY <2>1, <2>2
<1>3. Received(f) = [i \in 1 .. Len(buffers[f]) |-> buffers[f][i].piece]
  BY <1>1 DEF Received
<1>. QED BY <1>1, <1>2, <1>3

\* Of a report's request, only the whole is more than incomplete.
LEMMA RequestVerdict ==
  ASSUME NEW stream \in Seq(Pieces), Len(stream) <= 2,
         \A i \in DOMAIN stream : stream[i] = Request[i]
  PROVE  Verdict(stream) = "incomplete" \/ (Verdict(stream) = "json" /\ Len(stream) = 2)
<1>1. \A i \in DOMAIN stream : stream[i] \in {"head", "json"}
  BY DEF Request
<1>2. /\ ~Leads("badline", Headers, stream) /\ ~Leads("nolength", Headers, stream)
      /\ ~Leads("text", Bodies, stream)
  BY <1>1 DEF Leads
<1>3. Leads("json", Bodies, stream) => Len(stream) = 2
  BY DEF Leads, Request
<1>. QED BY <1>2, <1>3 DEF Verdict

\* A recv appends to what the server works on, and takes it from the socket.
LEMMA ReadFacts ==
  ASSUME Types, Placed, BuffersApart, NEW pc, ReadPiece(pc)
  PROVE  /\ fd \in Fds /\ Open(fd) /\ Peer \in Conns /\ fd \in DOMAIN buffers /\ fd \in DOMAIN buffers'
         /\ Len(buffers'[fd]) = Len(buffers[fd]) + 1
         /\ \A i \in DOMAIN buffers[fd] : buffers'[fd][i] = buffers[fd][i]
         /\ \A i \in DOMAIN buffers'[fd] : i \in DOMAIN buffers[fd] \/ i = Len(buffers[fd]) + 1
         /\ buffers'[fd][Len(buffers[fd]) + 1].piece = Head(unread[Peer])
         /\ \A f \in DOMAIN buffers : f # fd => buffers'[f] = buffers[f]
         /\ DOMAIN buffers' = DOMAIN buffers
         /\ unread[Peer] \in Seq(Pieces) /\ unread'[Peer] = Tail(unread[Peer])
         /\ \A c \in Conns : c # Peer => unread'[c] = unread[c]
<1> DEFINE entry == [conn |-> Peer, piece |-> Head(unread[Peer])]
<1>1. fd \in Fds /\ Open(fd) /\ Peer \in Conns /\ fd \in DOMAIN buffers
  BY PeerType DEF ReadPiece, Busy, Types, BuffersApart
<1>2. buffers' = [buffers EXCEPT ![fd] = Append(@, entry)]
  BY DEF ReadPiece
<1>3. entry \in [conn : Conns, piece : Pieces] /\ entry.piece = Head(unread[Peer])
  BY ReadTypes
<1>4. buffers[fd] \in Seq([conn : Conns, piece : Pieces])
  BY <1>1 DEF Types, BufferTypes
<1>5. unread[Peer] \in Seq(Pieces) /\ unread'[Peer] = Tail(unread[Peer])
      /\ \A c \in Conns : c # Peer => unread'[c] = unread[c]
  BY <1>1 DEF ReadPiece, Types, TcpTypes
<1> HIDE DEF entry
<1>6. buffers'[fd] = Append(buffers[fd], entry) /\ DOMAIN buffers' = DOMAIN buffers
      /\ \A f \in DOMAIN buffers : f # fd => buffers'[f] = buffers[f]
  <2>1. DOMAIN buffers' = DOMAIN buffers /\ buffers'[fd] = Append(buffers[fd], entry)
    BY <1>1, <1>2
  <2>2. ASSUME NEW f \in DOMAIN buffers, f # fd PROVE buffers'[f] = buffers[f]
    BY <1>2, <2>2
  <2>. QED BY <2>1, <2>2
<1>. QED BY <1>1, <1>3, <1>4, <1>5, <1>6, Appended

----------------------------------------------------------------------------
(* Forwarding *)

\* No step forwards for a connection before its request was reached, or twice.
LEMMA NotYetStep ==
  ASSUME Types, Placed, BuffersApart, Distinct, NotYet, Next PROVE NotYet'
<1>1. CASE DeviceAsks \/ StrayConnects
  <2>1. PICK what \in Reports \cup {Stray}, stream \in Seq(Pieces) : Connects(what, stream)
    BY <1>1, Connecting
  <2>2. PICK c \in Conns :
          /\ carries[c] = NoReport
          /\ carries' = [carries EXCEPT ![c] = what]
          /\ backlog' = Append(backlog, c)
          /\ UNCHANGED <<srvPc, fd, owner, unread, answer, forwards>>
    BY <2>1, ConnectFresh
  <2>3. \A i \in DOMAIN backlog' : backlog'[i] = c \/ (i \in DOMAIN backlog /\ backlog'[i] = backlog[i])
    BY <2>2, Appended DEF Types, ServerTypes
  <2>4. \A d \in Conns : carries'[d] = NoReport => carries[d] = NoReport
    BY <2>2 DEF Types, TcpTypes
  <2>. QED BY <2>2, <2>3, <2>4 DEF NotYet, Open
<1>2. CASE DeviceAnswered \/ DeviceGivesUp \/ DevicePops
  <2>1. UNCHANGED <<srvPc, fd, owner, backlog, carries, unread, answer, forwards>>
    BY <1>2 DEF DeviceAnswered, DeviceGivesUp, DevicePops, DeviceCloses
  <2>. QED BY <2>1 DEF NotYet, Open
<1>3. ASSUME NEW c \in Conns, PieceArrives(c) \/ HangUpArrives(c) PROVE NotYet'
  <2>1. carries[c] # NoReport
    BY <1>3, ConnectedUsed DEF PieceArrives, HangUpArrives
  <2>2. /\ UNCHANGED <<srvPc, fd, owner, backlog, carries, answer, forwards>>
        /\ \A d \in Conns : d # c => unread'[d] = unread[d]
    BY <1>3 DEF PieceArrives, HangUpArrives, Types, TcpTypes
  <2>. QED BY <2>1, <2>2 DEF NotYet, Open
<1>4. CASE EpollReturns \/ NextEvent \/ AcceptsDone \/ AcceptFails \/ WouldBlock
  <2>1. UNCHANGED <<owner, backlog, carries, unread, answer, forwards>>
    BY <1>4 DEF EpollReturns, NextEvent, AcceptsDone, AcceptFails, WouldBlock, Goes
  <2>2. srvPc \notin {"answer", "close"}
    BY <1>4 DEF EpollReturns, NextEvent, AcceptsDone, AcceptFails, WouldBlock
  <2>. QED BY <2>1, <2>2 DEF NotYet, Open
<1>5. CASE Accepts
  <2>1. PICK f \in FreeFds : AcceptInto(f, Head(backlog))
    BY <1>5 DEF Accepts, Lowest
  <2>2. /\ backlog # <<>> /\ backlog' = Tail(backlog) /\ srvPc = "accept"
        /\ UNCHANGED <<carries, unread, answer, forwards>>
    BY <1>5, <2>1 DEF Accepts, AcceptInto, Goes
  <2>3. owner'[f] = backlog[1] /\ \A g \in Fds : g # f => owner'[g] = owner[g]
    BY <2>1, <2>2, TailOfBacklog DEF AcceptInto, FreeFds, Types, ServerTypes
  <2>. QED BY <2>2, <2>3, TailOfBacklog DEF NotYet, Open
<1>6. CASE Receives
  <2>1. PICK pc : ReadPiece(pc)
    BY <1>6 DEF Receives
  <2>2. carries[Peer] # NoReport
    BY <2>1, ReadFacts DEF Distinct, Peer
  <2>3. UNCHANGED <<fd, owner, backlog, carries, answer, forwards>> /\ srvPc = "recv"
    BY <2>1 DEF ReadPiece
  <2>. QED BY <2>1, <2>2, <2>3, ReadFacts DEF NotYet, Open
<1>7. CASE PeerClosed
  BY <1>7 DEF PeerClosed, Goes, NotYet, Open
<1>8. CASE Forwards
  <2>1. fd \in Fds /\ Open(fd) /\ Peer \in Conns /\ Peer = owner[fd]
    BY <1>8, PeerType DEF Forwards, Busy, Types, Peer
  <2>2. /\ UNCHANGED <<fd, owner, backlog, carries, unread, answer>> /\ srvPc' = "answer"
        /\ srvPc = "forward" /\ \A c \in Conns : c # Peer => forwards'[c] = forwards[c]
    BY <1>8 DEF Forwards, Goes, Types, HistTypes
  <2>3. \A f \in Fds : Open(f) /\ f # fd => owner[f] # Peer /\ owner[f] \in Conns
    BY <2>1, InOnePlace
  <2>4. \A i \in DOMAIN backlog : backlog[i] # Peer /\ backlog[i] \in Conns
    BY <2>1 DEF Distinct, Types, ServerTypes
  <2>5. carries[Peer] # NoReport
    BY <2>1 DEF Distinct
  <2>. QED BY <2>2, <2>3, <2>4, <2>5 DEF NotYet, Open
<1>9. CASE Answers
  <2>1. fd \in Fds /\ Open(fd) /\ Peer \in Conns /\ Peer = owner[fd]
    BY <1>9, PeerType DEF Answers, Busy, Types, Peer
  <2>2. /\ UNCHANGED <<fd, owner, backlog, carries, unread, forwards>> /\ srvPc' = "close"
        /\ srvPc = "answer" /\ \A c \in Conns : c # Peer => answer'[c] = answer[c]
    BY <1>9 DEF Answers, Goes, Types, HistTypes
  <2>3. carries[Peer] # NoReport
    BY <2>1 DEF Distinct
  <2>. QED BY <2>2, <2>3 DEF NotYet, Open
<1>10. CASE Closes
  <2>1. UNCHANGED <<backlog, carries, answer, forwards>>
    BY <1>10 DEF Closes, CloseSocket, Discard
  <2>2. \A f \in Fds : owner'[f] = NoConn \/ (owner'[f] = owner[f] /\ f # fd)
    BY <1>10 DEF Closes, CloseSocket, Types, ServerTypes
  <2>3. \A c \in Conns : unread[c] = <<>> => unread'[c] = <<>>
    BY <1>10 DEF Closes, CloseSocket, Discard
  <2>. QED BY <2>1, <2>2, <2>3 DEF NotYet, Open
<1>11. CASE EpollFails
  <2>1. \A c \in Conns : unread[c] = <<>> => unread'[c] = <<>>
    BY <1>11 DEF EpollFails, Discard
  <2>. QED BY <1>11, <2>1 DEF EpollFails, Discard, NotYet, Open
<1>. QED BY <1>1, <1>2, <1>3, <1>4, <1>5, <1>6, <1>7, <1>8, <1>9, <1>10, <1>11 DEF Next, Server

----------------------------------------------------------------------------
(* Whole requests *)

\* A request that is still to come follows from nothing.
LEMMA FollowsAll == Follows(0, <<>>, Request)
BY DEF Follows, Request

\* They follow still when a piece arrives,
LEMMA FollowsArrival ==
  ASSUME NEW k \in Nat, NEW here \in Seq(Pieces), NEW coming \in Seq(Pieces), coming # <<>>,
         Follows(k, here, coming)
  PROVE  Follows(k, Append(here, Head(coming)), Tail(coming))
<1> DEFINE here1 == Append(here, Head(coming))
<1>1. Head(coming) = coming[1] /\ Head(coming) \in Pieces /\ 1 \in DOMAIN coming
      /\ Len(Tail(coming)) = Len(coming) - 1
  OBVIOUS
<1>2. /\ Len(here1) = Len(here) + 1 /\ here1[Len(here) + 1] = coming[1]
      /\ \A i \in DOMAIN here : here1[i] = here[i]
      /\ \A i \in DOMAIN here1 : i \in DOMAIN here \/ i = Len(here) + 1
  BY <1>1, Appended
<1>3. \A i \in DOMAIN Tail(coming) : i \in Nat /\ i + 1 \in DOMAIN coming /\ Tail(coming)[i] = coming[i + 1]
  OBVIOUS
<1> HIDE DEF here1
<1>4. \A i \in DOMAIN here1 : here1[i] = Request[k + i]
  <2>1. coming[1] = Request[k + Len(here) + 1] /\ k + Len(here) + 1 = k + (Len(here) + 1)
    BY <1>1 DEF Follows
  <2>. QED BY <1>2, <2>1 DEF Follows
<1>5. \A i \in DOMAIN Tail(coming) : Tail(coming)[i] = Request[k + Len(here1) + i]
  <2> SUFFICES ASSUME NEW i \in DOMAIN Tail(coming)
               PROVE  Tail(coming)[i] = Request[k + Len(here1) + i]
    OBVIOUS
  <2>1. k + Len(here1) + i = k + Len(here) + (i + 1)
    BY <1>2, <1>3
  <2>. QED BY <1>3, <2>1 DEF Follows
<1>6. k + Len(here1) + Len(Tail(coming)) <= 2
  BY <1>1, <1>2 DEF Follows
<1>. QED BY <1>4, <1>5, <1>6 DEF Follows, here1

\* when those on their way are lost,
LEMMA FollowsLoss ==
  ASSUME NEW k \in Nat, NEW here \in Seq(Pieces), NEW coming \in Seq(Pieces), Follows(k, here, coming)
  PROVE  Follows(k, here, <<>>)
BY DEF Follows

\* and when a piece is read, which was the next.
LEMMA FollowsRead ==
  ASSUME NEW k \in Nat, NEW here \in Seq(Pieces), NEW coming \in Seq(Pieces), here # <<>>,
         Follows(k, here, coming)
  PROVE  Follows(k + 1, Tail(here), coming) /\ Head(here) = Request[k + 1]
<1>1. /\ Len(Tail(here)) = Len(here) - 1 /\ Head(here) = here[1] /\ 1 \in DOMAIN here
      /\ \A i \in DOMAIN Tail(here) : i \in Nat /\ i + 1 \in DOMAIN here /\ Tail(here)[i] = here[i + 1]
  OBVIOUS
<1>2. \A i \in DOMAIN Tail(here) : Tail(here)[i] = Request[(k + 1) + i]
  <2> SUFFICES ASSUME NEW i \in DOMAIN Tail(here) PROVE Tail(here)[i] = Request[(k + 1) + i]
    OBVIOUS
  <2>1. (k + 1) + i = k + (i + 1)
    BY <1>1
  <2>. QED BY <1>1, <2>1 DEF Follows
<1>3. \A i \in DOMAIN coming : coming[i] = Request[(k + 1) + Len(Tail(here)) + i]
  <2>1. (k + 1) + Len(Tail(here)) = k + Len(here)
    BY <1>1
  <2>. QED BY <2>1 DEF Follows
<1>4. (k + 1) + Len(Tail(here)) + Len(coming) <= 2
  BY <1>1 DEF Follows
<1>. QED BY <1>1, <1>2, <1>3, <1>4 DEF Follows

\* There are two pieces in all.
LEMMA FollowsBounds ==
  ASSUME NEW k \in Nat, NEW here \in Seq(Pieces), NEW coming \in Seq(Pieces), Follows(k, here, coming)
  PROVE  /\ k <= 2
         /\ k = 2 => here = <<>> /\ coming = <<>>
         /\ here # <<>> => k + 1 <= 2
<1>1. k + Len(here) + Len(coming) <= 2 /\ Len(here) \in Nat /\ Len(coming) \in Nat
  BY DEF Follows
<1>2. (Len(here) = 0 <=> here = <<>>) /\ (Len(coming) = 0 <=> coming = <<>>)
  OBVIOUS
<1>. QED BY <1>1, <1>2

\* Who waits after a connection is appended to the backlog.
LEMMA WaitingAppend ==
  ASSUME Types, NEW c \in Conns, backlog' = Append(backlog, c)
  PROVE  Waiting' = Waiting \cup {c}
<1>1. /\ \A i \in DOMAIN backlog : i \in DOMAIN backlog' /\ backlog'[i] = backlog[i]
      /\ \A i \in DOMAIN backlog' : i \in DOMAIN backlog \/ i = Len(backlog) + 1
      /\ Len(backlog) + 1 \in DOMAIN backlog' /\ backlog'[Len(backlog) + 1] = c
  BY Appended DEF Types, ServerTypes
<1>. QED BY <1>1 DEF Waiting, Range

\* Taking the first of the backlog leaves the others.
LEMMA WaitingTail ==
  ASSUME Types, backlog # <<>>, backlog' = Tail(backlog)
  PROVE  Head(backlog) \in Waiting /\ Waiting' \subseteq Waiting
BY TailOfBacklog DEF Waiting, Range

\* What is left of a report's request stays in order, whatever happens to it.
LEMMA InOrderStep ==
  ASSUME Types, Placed, BuffersApart, Distinct, NotYet, InOrder, Next PROVE InOrder'
<1>0. /\ \A c \in Conns : unread[c] \in Seq(Pieces) /\ inNet[c] \in Seq(Pieces)
      /\ \A f \in Fds : Open(f) => owner[f] \in Conns /\ f \in DOMAIN buffers /\ Len(buffers[f]) \in Nat
      /\ \A c \in Waiting : c \in Conns
  <2>1. \A f \in Fds : Open(f) => owner[f] \in Conns /\ f \in DOMAIN buffers
    BY DEF Types, ServerTypes, BuffersApart, Open
  <2>2. \A f \in DOMAIN buffers : Len(buffers[f]) \in Nat
    BY DEF Types, BufferTypes
  <2>. QED BY <2>1, <2>2, InOnePlace DEF Types, TcpTypes
<1>1. CASE DeviceAsks \/ StrayConnects
  <2>1. PICK what \in Reports \cup {Stray}, stream \in Seq(Pieces) :
          Connects(what, stream) /\ (what \in Reports => stream = Request)
    BY <1>1, Connecting
  <2>2. PICK c \in Conns :
          /\ carries[c] = NoReport /\ ~Connected(c)
          /\ carries' = [carries EXCEPT ![c] = what]
          /\ inNet' = [inNet EXCEPT ![c] = stream]
          /\ backlog' = Append(backlog, c)
          /\ UNCHANGED <<owner, buffers, unread>>
    BY <2>1, ConnectFresh
  <2>3. Waiting' = Waiting \cup {c}
    BY <2>2, WaitingAppend
  <2>4. /\ carries'[c] = what /\ inNet'[c] = stream /\ unread[c] = <<>>
        /\ \A d \in Conns : d # c => carries'[d] = carries[d] /\ inNet'[d] = inNet[d]
    BY <2>2 DEF Types, TcpTypes, NotYet
  <2>5. c \notin Waiting /\ \A f \in Fds : Open(f) => owner[f] # c
    BY <2>2 DEF Connected, Held
  <2>6. \A d \in Waiting' : carries'[d] \in Reports => Follows(0, unread'[d], inNet'[d])
    <3>1. carries'[c] \in Reports => Follows(0, unread'[c], inNet'[c])
      BY <2>1, <2>2, <2>4, FollowsAll
    <3>2. \A d \in Waiting : d # c /\ d \in Conns
      BY <1>0, <2>5
    <3>. QED BY <2>2, <2>3, <2>4, <3>1, <3>2 DEF InOrder
  <2>. QED BY <1>0, <2>2, <2>4, <2>5, <2>6 DEF InOrder, Open
<1>2. CASE DeviceAnswered \/ DeviceGivesUp \/ DevicePops
  <2>1. UNCHANGED <<owner, backlog, buffers, carries, unread, inNet>>
    BY <1>2 DEF DeviceAnswered, DeviceGivesUp, DevicePops, DeviceCloses
  <2>. QED BY <2>1 DEF InOrder, Open, Waiting
<1>3. ASSUME NEW c \in Conns, PieceArrives(c) PROVE InOrder'
  <2>1. /\ UNCHANGED <<owner, backlog, buffers, carries>> /\ inNet[c] # <<>>
        /\ unread'[c] = Append(unread[c], Head(inNet[c])) /\ inNet'[c] = Tail(inNet[c])
        /\ \A d \in Conns : d # c => unread'[d] = unread[d] /\ inNet'[d] = inNet[d]
    BY <1>3 DEF PieceArrives, Types, TcpTypes
  <2>2. ASSUME NEW k \in Nat, NEW d \in Conns, Follows(k, unread[d], inNet[d])
        PROVE  Follows(k, unread'[d], inNet'[d])
    BY <1>0, <2>1, <2>2, FollowsArrival
  <2>. QED BY <1>0, <2>1, <2>2 DEF InOrder, Open, Waiting
<1>4. ASSUME NEW c \in Conns, HangUpArrives(c) PROVE InOrder'
  <2>1. /\ UNCHANGED <<owner, backlog, buffers, carries, unread>> /\ inNet'[c] = <<>>
        /\ \A d \in Conns : d # c => inNet'[d] = inNet[d]
    BY <1>4 DEF HangUpArrives, Types, TcpTypes
  <2>2. ASSUME NEW k \in Nat, NEW d \in Conns, Follows(k, unread[d], inNet[d])
        PROVE  Follows(k, unread'[d], inNet'[d])
    BY <1>0, <2>1, <2>2, FollowsLoss
  <2>. QED BY <1>0, <2>1, <2>2 DEF InOrder, Open, Waiting
<1>5. CASE \/ EpollReturns \/ NextEvent \/ AcceptsDone \/ AcceptFails
           \/ WouldBlock \/ PeerClosed \/ Forwards \/ Answers
  <2>1. UNCHANGED <<owner, backlog, buffers, carries, unread, inNet>>
    BY <1>5 DEF EpollReturns, NextEvent, AcceptsDone, AcceptFails, WouldBlock, PeerClosed, Forwards,
         Answers, Goes
  <2>. QED BY <2>1 DEF InOrder, Open, Waiting
<1>6. CASE Accepts
  <2>1. PICK f \in FreeFds : AcceptInto(f, Head(backlog))
    BY <1>6 DEF Accepts, Lowest
  <2>2. /\ backlog # <<>> /\ backlog' = Tail(backlog) /\ buffers' = WithBuffer(f)
        /\ UNCHANGED <<carries, unread, inNet>>
    BY <1>6, <2>1 DEF Accepts, AcceptInto, Goes
  <2>3. /\ f \in Fds /\ owner'[f] = Head(backlog) /\ f \notin DOMAIN buffers
        /\ \A g \in Fds : g # f => owner'[g] = owner[g]
    BY <2>1, <2>2 DEF AcceptInto, FreeFds, Types, ServerTypes, BuffersApart
  <2>4. buffers'[f] = <<>> /\ \A g \in DOMAIN buffers : buffers'[g] = buffers[g]
    BY <2>2, <2>3, WithBufferFacts
  <2>5. carries'[owner'[f]] \in Reports => Follows(Len(buffers'[f]), unread'[owner'[f]], inNet'[owner'[f]])
    BY <2>2, <2>3, <2>4, WaitingTail DEF InOrder
  <2>6. \A g \in Fds : g # f /\ Open(g) => g \in DOMAIN buffers
    BY <1>0
  <2>. QED BY <2>2, <2>3, <2>4, <2>5, <2>6, WaitingTail DEF InOrder, Open
<1>7. CASE Receives
  <2>1. PICK pc : ReadPiece(pc)
    BY <1>7 DEF Receives
  <2>2. /\ UNCHANGED <<fd, owner, backlog, carries, inNet>> /\ unread[Peer] # <<>> /\ Peer = owner[fd]
        /\ fd \in Fds /\ Open(fd)
    BY <2>1, ReadFacts DEF ReadPiece, Peer
  <2>3. \A f \in Fds : Open(f) /\ f # fd => owner[f] # Peer
    BY <2>2, InOnePlace
  <2>4. Peer \notin Waiting
    BY <2>2, InOnePlace
  <2>5. \A c \in Waiting : carries[c] \in Reports => Follows(0, unread'[c], inNet'[c])
    BY <1>0, <2>1, <2>2, <2>4, ReadFacts DEF InOrder
  <2>6. ASSUME carries[Peer] \in Reports
        PROVE  /\ Follows(Len(buffers'[fd]), unread'[Peer], inNet'[Peer])
               /\ \A i \in DOMAIN buffers'[fd] : buffers'[fd][i].piece = Request[i]
    <3>1. /\ Follows(Len(buffers[fd]) + 1, Tail(unread[Peer]), inNet[Peer])
          /\ Head(unread[Peer]) = Request[Len(buffers[fd]) + 1]
      BY <1>0, <2>2, <2>6, FollowsRead DEF InOrder
    <3>2. \A i \in DOMAIN buffers[fd] : buffers[fd][i].piece = Request[i]
      BY <2>2, <2>6 DEF InOrder
    <3>. QED BY <2>1, <2>2, <3>1, <3>2, ReadFacts
  <2>7. \A f \in Fds : Open(f) /\ f # fd =>
          unread'[owner[f]] = unread[owner[f]] /\ buffers'[f] = buffers[f]
    BY <1>0, <2>1, <2>3, ReadFacts
  <2>. QED BY <2>2, <2>5, <2>6, <2>7 DEF InOrder, Open, Waiting
<1>8. CASE Closes
  <2>1. UNCHANGED <<backlog, carries>> /\ fd \in Fds /\ Open(fd) /\ Peer = owner[fd]
    BY <1>8, PeerType DEF Closes, CloseSocket, Discard, Busy, Types, Peer
  <2>2. \A f \in Fds : owner'[f] = NoConn \/ (owner'[f] = owner[f] /\ f # fd)
    BY <1>8 DEF Closes, CloseSocket, Types, ServerTypes
  <2>3. /\ Peer \notin Waiting
        /\ \A f \in Fds : Open(f) /\ f # fd => owner[f] # Peer
    BY <2>1, InOnePlace
  <2>4. /\ \A c \in Conns : c # Peer => unread'[c] = unread[c] /\ inNet'[c] = inNet[c]
        /\ \A f \in DOMAIN buffers : f # fd => buffers'[f] = buffers[f]
    BY <1>8 DEF Closes, CloseSocket, Discard
  <2>5. \A c \in Waiting : c # Peer /\ c \in Conns
    BY <1>0, <2>3
  <2>. QED BY <1>0, <2>1, <2>2, <2>3, <2>4, <2>5 DEF InOrder, Open, Waiting
<1>9. CASE EpollFails
  <2>1. backlog' = <<>> /\ \A f \in Fds : owner'[f] = NoConn
    BY <1>9 DEF EpollFails
  <2>2. Waiting' = {}
    BY <2>1 DEF Waiting, Range
  <2>. QED BY <2>1, <2>2 DEF InOrder, Open
<1>. QED BY <1>1, <1>2, <1>3, <1>4, <1>5, <1>6, <1>7, <1>8, <1>9 DEF Next, Server

\* What the server has of a report's request is complete only if it is the whole,
\* before a recv and after it.
LEMMA WholeOrIncomplete ==
  ASSUME Types, Placed, BuffersApart, InOrder, Busy, carries[Peer] \in Reports
  PROVE  /\ Verdict(Received(fd)) = "incomplete"
              \/ (Verdict(Received(fd)) = "json" /\ unread[Peer] = <<>> /\ inNet[Peer] = <<>>)
         /\ unread[Peer] # <<>> => Verdict(NowReceived) \in {"incomplete", "json"}
<1>1. fd \in Fds /\ Open(fd) /\ Peer \in Conns /\ Peer = owner[fd] /\ fd \in DOMAIN buffers
  BY PeerType DEF Types, Peer, BuffersApart
<1>2. unread[Peer] \in Seq(Pieces) /\ inNet[Peer] \in Seq(Pieces)
  BY <1>1 DEF Types, TcpTypes
<1>3. /\ Received(fd) \in Seq(Pieces) /\ Len(Received(fd)) = Len(buffers[fd])
      /\ Len(buffers[fd]) \in Nat
      /\ \A i \in DOMAIN Received(fd) : Received(fd)[i] = Request[i]
  <2>1. buffers[fd] \in Seq([conn : Conns, piece : Pieces])
    BY <1>1 DEF Types, BufferTypes
  <2>2. DOMAIN buffers[fd] = 1 .. Len(buffers[fd]) /\ Len(buffers[fd]) \in Nat
    BY <2>1
  <2>3. DOMAIN Received(fd) = DOMAIN buffers[fd]
    BY DEF Received
  <2>. QED BY <1>1, <2>2, <2>3, ReceivedFacts DEF InOrder
<1>4. Follows(Len(buffers[fd]), unread[Peer], inNet[Peer])
  BY <1>1 DEF InOrder
<1>5. Verdict(Received(fd)) = "incomplete" \/ (Verdict(Received(fd)) = "json" /\ Len(buffers[fd]) = 2)
  <2>1. Len(Received(fd)) <= 2
    BY <1>2, <1>3, <1>4, FollowsBounds
  <2>. QED BY <1>3, <2>1, RequestVerdict
<1>6. Len(buffers[fd]) = 2 => unread[Peer] = <<>> /\ inNet[Peer] = <<>>
  BY <1>2, <1>3, <1>4, FollowsBounds
<1>7. ASSUME unread[Peer] # <<>> PROVE Verdict(NowReceived) \in {"incomplete", "json"}
  <2>1. Head(unread[Peer]) = Request[Len(buffers[fd]) + 1] /\ Head(unread[Peer]) \in Pieces
    BY <1>2, <1>3, <1>4, <1>7, FollowsRead
  <2>2. Len(buffers[fd]) + 1 <= 2
    BY <1>2, <1>3, <1>4, <1>7, FollowsBounds
  <2>3. /\ NowReceived \in Seq(Pieces) /\ Len(NowReceived) <= 2
        /\ \A i \in DOMAIN NowReceived : NowReceived[i] = Request[i]
    BY <1>3, <2>1, <2>2, Appended DEF NowReceived
  <2>. QED BY <2>3, RequestVerdict
<1>. QED BY <1>5, <1>6, <1>7

\* After a recv the buffer holds what was parsed.
LEMMA ReceivedNext ==
  ASSUME Types, Placed, BuffersApart, NEW pc, ReadPiece(pc)
  PROVE  Received(fd)' = NowReceived
<1>1. fd' = fd
  BY DEF ReadPiece
<1>2. /\ fd \in DOMAIN buffers
      /\ buffers[fd] \in Seq([conn : Conns, piece : Pieces])
      /\ Peer \in Conns
  BY ReadFacts DEF Types, BufferTypes
<1> DEFINE entry == [conn |-> Peer, piece |-> Head(unread[Peer])]
<1>3. buffers' = [buffers EXCEPT ![fd] = Append(@, entry)]
  BY DEF ReadPiece
<1>4. entry \in [conn : Conns, piece : Pieces] /\ entry.piece = Head(unread[Peer])
  BY ReadTypes
<1> HIDE DEF entry
<1>5. buffers'[fd] = Append(buffers[fd], entry)
  BY <1>2, <1>3
<1> DEFINE n == Len(buffers[fd])
<1>6. /\ n \in Nat /\ DOMAIN buffers'[fd] = 1 .. n + 1 /\ buffers'[fd][n + 1].piece = Head(unread[Peer])
      /\ \A i \in 1 .. n : buffers'[fd][i] = buffers[fd][i]
  BY <1>2, <1>4, <1>5, Appended
<1>7. Received(fd)' = [i \in 1 .. n + 1 |-> buffers'[fd][i].piece]
  BY <1>1, <1>6 DEF Received
<1>8. /\ Received(fd) \in Seq(Pieces) /\ Len(Received(fd)) = n
      /\ \A i \in 1 .. n : Received(fd)[i] = buffers[fd][i].piece
  BY <1>2, ReceivedFacts
<1>9. Head(unread[Peer]) \in Pieces
  BY <1>2 DEF ReadPiece, Types, TcpTypes
<1>10. NowReceived = [i \in 1 .. n + 1 |-> IF i = n + 1 THEN Head(unread[Peer]) ELSE Received(fd)[i]]
  BY <1>8, <1>9 DEF NowReceived
<1> HIDE DEF n
<1>. QED BY <1>6, <1>7, <1>8, <1>10

\* The server goes on to forward with a whole request, to answer a report with one
\* that has been forwarded.
LEMMA WholeFirstStep ==
  ASSUME Types, Placed, BuffersApart, Distinct, NotYet, InOrder, WholeFirst, Next
  PROVE  WholeFirst'
<1>1. CASE \/ DeviceAsks \/ DeviceAnswered \/ DeviceGivesUp \/ DevicePops \/ StrayConnects
           \/ \E c \in Conns : PieceArrives(c) \/ HangUpArrives(c)
  <2>1. UNCHANGED <<srvPc, fd, owner, buffers, forwards>>
    BY <1>1, PeersOutside
  <2>2. ASSUME Busy PROVE carries'[Peer] = carries[Peer]
    <3>1. fd \in Fds /\ Open(fd) /\ Peer \in Conns /\ Peer = owner[fd] /\ carries[Peer] # NoReport
      BY <2>2, PeerType DEF Types, Peer, Distinct
    <3>2. CASE DeviceAsks \/ StrayConnects
      <4>1. PICK what, stream : Connects(what, stream)
        BY <3>2, Connecting
      <4>2. PICK c \in Conns : carries[c] = NoReport /\ carries' = [carries EXCEPT ![c] = what]
        BY <4>1, ConnectFresh
      <4>. QED BY <3>1, <4>2 DEF Types, TcpTypes
    <3>3. CASE \/ DeviceAnswered \/ DeviceGivesUp \/ DevicePops
               \/ \E c \in Conns : PieceArrives(c) \/ HangUpArrives(c)
      BY <3>3 DEF DeviceAnswered, DeviceGivesUp, DevicePops, DeviceCloses, PieceArrives, HangUpArrives
    <3>. QED BY <1>1, <3>2, <3>3
  <2>3. srvPc' \in {"forward", "answer"} => Busy
    BY <2>1 DEF Busy
  <2>. QED BY <2>1, <2>2, <2>3 DEF WholeFirst, Received, Peer
<1>2. CASE \/ EpollReturns \/ NextEvent \/ Accepts \/ AcceptsDone \/ AcceptFails
           \/ WouldBlock \/ Answers \/ Closes \/ EpollFails
  <2>1. srvPc' \notin {"forward", "answer"}
    BY <1>2 DEF EpollReturns, NextEvent, Accepts, AcceptsDone, AcceptFails, WouldBlock, Answers, Closes,
         CloseSocket, EpollFails, Goes
  <2>. QED BY <2>1 DEF WholeFirst
<1>3. CASE Receives
  <2>1. ReadPiece(AfterParse(Verdict(NowReceived), FALSE))
    BY <1>3 DEF Receives
  <2>2. Received(fd)' = NowReceived
    BY <2>1, ReceivedNext
  <2>3. /\ UNCHANGED <<fd, owner, carries>> /\ srvPc = "recv" /\ unread[Peer] # <<>>
        /\ srvPc' = AfterParse(Verdict(NowReceived), FALSE)
    BY <2>1 DEF ReadPiece
  <2>4. carries[Peer] \in Reports => srvPc' # "answer"
    BY <2>3, WholeOrIncomplete DEF AfterParse, Busy
  <2>5. srvPc' = "forward" => Verdict(NowReceived) = "json"
    BY <2>3 DEF AfterParse
  <2>. QED BY <2>2, <2>3, <2>4, <2>5 DEF WholeFirst, Peer
<1>4. CASE PeerClosed
  <2>1. /\ UNCHANGED <<fd, owner, carries, buffers>> /\ srvPc = "recv"
        /\ srvPc' = AfterParse(Verdict(Received(fd)), TRUE)
    BY <1>4 DEF PeerClosed, Goes
  <2>2. carries[Peer] \in Reports => srvPc' # "answer"
    BY <2>1, WholeOrIncomplete DEF AfterParse, Busy
  <2>3. srvPc' = "forward" => Verdict(Received(fd)) = "json"
    BY <2>1 DEF AfterParse
  <2>. QED BY <2>1, <2>2, <2>3 DEF WholeFirst, Peer, Received
<1>5. CASE Forwards
  <2>1. fd \in Fds /\ Open(fd) /\ Peer \in Conns /\ Peer = owner[fd]
    BY <1>5, PeerType DEF Forwards, Busy, Types, Peer
  <2>2. forwards[Peer] = 0
    BY <1>5, <2>1 DEF Forwards, NotYet
  <2>3. /\ UNCHANGED <<fd, owner, carries>> /\ srvPc' = "answer"
        /\ forwards'[Peer] = 1
    BY <1>5, <2>1, <2>2 DEF Forwards, Goes, Types, HistTypes
  <2>. QED BY <2>3 DEF WholeFirst, Peer
<1>. QED BY <1>1, <1>2, <1>3, <1>4, <1>5 DEF Next, Server

\* No step forwards a request again, forwards a report that has not come whole, or
\* answers 200 before it is forwarded.
LEMMA ForwardedThenAnsweredStep ==
  ASSUME Types, Placed, BuffersApart, Distinct, NotYet, InOrder, WholeFirst, ForwardedThenAnswered, Next
  PROVE  ForwardedThenAnswered'
<1>1. CASE DeviceAsks \/ StrayConnects
  <2>1. PICK what, stream : Connects(what, stream)
    BY <1>1, Connecting
  <2>2. PICK c \in Conns :
          /\ carries[c] = NoReport
          /\ carries' = [carries EXCEPT ![c] = what]
          /\ inNet' = [inNet EXCEPT ![c] = stream]
          /\ UNCHANGED <<unread, answer, forwards>>
    BY <2>1, ConnectFresh
  <2>3. forwards[c] = 0 /\ answer[c] = "none"
    BY <2>2 DEF NotYet
  <2>4. \A d \in Conns : d # c => carries'[d] = carries[d] /\ inNet'[d] = inNet[d]
    BY <2>2 DEF Types, TcpTypes
  <2>. QED BY <2>2, <2>3, <2>4 DEF ForwardedThenAnswered
<1>2. CASE DeviceAnswered \/ DeviceGivesUp \/ DevicePops
  <2>1. UNCHANGED <<carries, unread, inNet, answer, forwards>>
    BY <1>2 DEF DeviceAnswered, DeviceGivesUp, DevicePops, DeviceCloses
  <2>. QED BY <2>1 DEF ForwardedThenAnswered
<1>3. ASSUME NEW c \in Conns, PieceArrives(c) PROVE ForwardedThenAnswered'
  <2>1. UNCHANGED <<carries, answer, forwards>> /\ inNet[c] # <<>>
        /\ \A d \in Conns : d # c => unread'[d] = unread[d] /\ inNet'[d] = inNet[d]
    BY <1>3 DEF PieceArrives, Types, TcpTypes
  <2>. QED BY <2>1 DEF ForwardedThenAnswered
<1>4. ASSUME NEW c \in Conns, HangUpArrives(c) PROVE ForwardedThenAnswered'
  <2>1. UNCHANGED <<carries, unread, answer, forwards>>
        /\ \A d \in Conns : inNet'[d] = inNet[d] \/ inNet'[d] = <<>>
    BY <1>4 DEF HangUpArrives, Types, TcpTypes
  <2>. QED BY <2>1 DEF ForwardedThenAnswered
<1>5. CASE EpollReturns \/ NextEvent \/ Accepts \/ AcceptsDone \/ AcceptFails \/ WouldBlock \/ PeerClosed
  <2>1. UNCHANGED <<carries, unread, inNet, answer, forwards>>
    BY <1>5 DEF EpollReturns, NextEvent, Accepts, AcceptInto, AcceptsDone, AcceptFails, WouldBlock,
         PeerClosed, Goes
  <2>. QED BY <2>1 DEF ForwardedThenAnswered
<1>6. CASE Receives
  <2>1. PICK pc : ReadPiece(pc)
    BY <1>6 DEF Receives
  <2>2. UNCHANGED <<carries, inNet, answer, forwards>> /\ unread[Peer] # <<>> /\ srvPc = "recv"
    BY <2>1 DEF ReadPiece
  <2>3. \A c \in Conns : unread[c] = <<>> => unread'[c] = <<>>
    BY <2>1, <2>2, ReadFacts
  <2>. QED BY <2>2, <2>3 DEF ForwardedThenAnswered
<1>7. CASE Forwards
  <2>1. fd \in Fds /\ Open(fd) /\ Peer \in Conns /\ Peer = owner[fd]
    BY <1>7, PeerType DEF Forwards, Busy, Types, Peer
  <2>2. forwards[Peer] = 0 /\ Verdict(Received(fd)) = "json" /\ Busy
    BY <1>7, <2>1 DEF Forwards, NotYet, WholeFirst, Busy
  <2>3. /\ UNCHANGED <<carries, unread, inNet, answer>> /\ forwards'[Peer] = 1
        /\ \A c \in Conns : c # Peer => forwards'[c] = forwards[c]
    BY <1>7, <2>1, <2>2 DEF Forwards, Goes, Types, HistTypes
  <2>4. carries[Peer] \in Reports => unread[Peer] = <<>> /\ inNet[Peer] = <<>>
    BY <2>2, WholeOrIncomplete
  <2>. QED BY <2>3, <2>4 DEF ForwardedThenAnswered
<1>8. CASE Answers
  <2>1. fd \in Fds /\ Open(fd) /\ Peer \in Conns /\ Peer = owner[fd]
    BY <1>8, PeerType DEF Answers, Busy, Types, Peer
  <2>2. carries[Peer] \in Reports => forwards[Peer] = 1
    BY <1>8 DEF Answers, WholeFirst
  <2>3. /\ UNCHANGED <<carries, unread, inNet, forwards>>
        /\ \A c \in Conns : c # Peer => answer'[c] = answer[c]
    BY <1>8 DEF Answers, Goes, Types, HistTypes
  <2>. QED BY <2>2, <2>3 DEF ForwardedThenAnswered
<1>9. CASE Closes \/ EpollFails
  <2>1. UNCHANGED <<carries, answer, forwards>>
        /\ \A c \in Conns : (unread'[c] = unread[c] \/ unread'[c] = <<>>) /\ (inNet'[c] = inNet[c] \/ inNet'[c] = <<>>)
    BY <1>9 DEF Closes, CloseSocket, EpollFails, Discard
  <2>. QED BY <2>1 DEF ForwardedThenAnswered
<1>. QED BY <1>1, <1>2, <1>3, <1>4, <1>5, <1>6, <1>7, <1>8, <1>9 DEF Next, Server

----------------------------------------------------------------------------
(* The theorems *)

\* The system starts with the invariant.
LEMMA InitInvariant == Init => SIndInv
<1> SUFFICES ASSUME Init PROVE SIndInv
  OBVIOUS
<1>1. Types /\ TypeOK
  BY InitTypes, TypesSplit
<1>2. /\ \A f \in Fds : ~Open(f)
      /\ DOMAIN buffers = {} /\ ready = {} /\ batch = {} /\ srvPc = "events" /\ fd = listener
  BY DEF Init, Open
<1>3. backlog = <<>> /\ Waiting = {}
  BY DEF Init, Waiting, Range
<1>4. \A c \in Conns : forwards[c] = 0 /\ answer[c] = "none" /\ unread[c] = <<>>
  BY DEF Init
<1>5. Placed /\ BuffersApart /\ NothingUnseen
  BY <1>2, Sorts DEF Placed, BuffersApart, NothingUnseen, Busy
<1>6. NobodyStranded
  BY <1>3 DEF NobodyStranded
<1>7. Distinct /\ NotYet
  BY <1>2, <1>3, <1>4, Sorts DEF Distinct, NotYet, Open, Init
<1>8. InOrder /\ WholeFirst
  BY <1>2, <1>3 DEF InOrder, WholeFirst
<1>9. ForwardedThenAnswered
  BY <1>4 DEF ForwardedThenAnswered
<1>10. Attempt
  BY DEF Init, Attempt
<1>. QED BY <1>1, <1>5, <1>6, <1>7, <1>8, <1>9, <1>10 DEF SIndInv

\* A stutter changes nothing the invariant speaks of.
LEMMA StutterInvariant == SIndInv /\ UNCHANGED vars => SIndInv'
<1> SUFFICES ASSUME SIndInv, UNCHANGED vars PROVE SIndInv'
  OBVIOUS
<1>1. TypeOK' /\ Placed' /\ BuffersApart'
  BY DEF SIndInv, TypeOK, Placed, Busy, BuffersApart, Open
<1>2. NothingUnseen' /\ NobodyStranded' /\ Distinct' /\ NotYet'
  BY DEF SIndInv, NothingUnseen, NobodyStranded, Distinct, NotYet, Open, Waiting
<1>3. InOrder' /\ WholeFirst' /\ ForwardedThenAnswered' /\ Attempt'
  BY DEF SIndInv, InOrder, WholeFirst, ForwardedThenAnswered, Attempt, Open, Waiting, Peer, Received
<1>. QED BY <1>1, <1>2, <1>3 DEF SIndInv

\* Every step keeps it.
LEMMA StepInvariant == SIndInv /\ [Next]_vars => SIndInv'
<1> SUFFICES ASSUME SIndInv, Next PROVE SIndInv'
  BY StutterInvariant
<1>1. Types
  BY TypesSplit DEF SIndInv
<1>2. Types' => TypeOK'
  BY TypesSplit, PTL
<1>3. TypeOK' /\ Placed' /\ BuffersApart' /\ Attempt'
  BY <1>1, <1>2, TypesStep, PlacedStep, BuffersApartStep, AttemptStep DEF SIndInv
<1>4. NothingUnseen' /\ NobodyStranded' /\ Distinct' /\ NotYet'
  BY <1>1, NothingUnseenStep, NobodyStrandedStep, DistinctStep, NotYetStep DEF SIndInv
<1>5. InOrder' /\ WholeFirst' /\ ForwardedThenAnswered'
  BY <1>1, InOrderStep, WholeFirstStep, ForwardedThenAnsweredStep DEF SIndInv
<1>. QED BY <1>3, <1>4, <1>5 DEF SIndInv

\* The invariant holds in every state.
THEOREM ServerInvariant == Spec => []SIndInv
BY InitInvariant, StepInvariant, PTL DEF Spec

\* The server, the sockets and the device keep their types.
THEOREM ServerTypeOK == Spec => []TypeOK
<1>1. SIndInv => TypeOK
  BY DEF SIndInv
<1>. QED BY <1>1, ServerInvariant, PTL

\* Every open descriptor has a buffer and no other has; a buffer holds what its own
\* connection sent and nothing of one that had the descriptor before.
THEOREM ServerBuffersApart == Spec => []BuffersApart
<1>1. SIndInv => BuffersApart
  BY DEF SIndInv
<1>. QED BY <1>1, ServerInvariant, PTL

\* Data or the end of a connection is never left in its socket without an event to come.
THEOREM ServerNothingUnseen == Spec => []NothingUnseen
<1>1. SIndInv => NothingUnseen
  BY DEF SIndInv
<1>. QED BY <1>1, ServerInvariant, PTL

\* Nobody waits in the backlog without an event of the listener to come, but those a
\* failed accept left there.
THEOREM ServerNobodyStranded == Spec => []NobodyStranded
<1>1. SIndInv => NobodyStranded
  BY DEF SIndInv
<1>. QED BY <1>1, ServerInvariant, PTL

\* No request is forwarded twice, no report before it has come whole, and none is
\* answered with 200 before it is forwarded.
THEOREM ServerForwardedThenAnswered == Spec => []ForwardedThenAnswered
<1>1. SIndInv => ForwardedThenAnswered
  BY DEF SIndInv
<1>. QED BY <1>1, ServerInvariant, PTL

----------------------------------------------------------------------------
(* The refinement *)

\* ReportService's variables, in this module's terms.
Report   == IF acked \/ attempt # NoConn THEN Head(todo) ELSE NoReport
Status   == IF acked THEN "acked"
            ELSE IF attempt = NoConn THEN "idle"
            ELSE IF forwards[attempt] > 0 THEN "taken" ELSE "sent"
Late     == {carries[c] : c \in {d \in Conns : Asking(d)}}
Took     == {carries[c] : c \in {d \in Conns : carries[d] \in Reports /\ forwards[d] > 0}}

\* A step that leaves these alone stutters.
LEMMA ServiceStutters ==
  ASSUME UNCHANGED <<Report, Status, Late, Took>>
  PROVE  UNCHANGED Service!svars
BY DEF Service!svars, Report, Status, Late, Took

\* The steps that ask, give up, acknowledge and finish.
LEMMA DeviceServes ==
  ASSUME Types, NotYet, Distinct, Attempt, ForwardedThenAnswered,
         DeviceAsks \/ DeviceAnswered \/ DeviceGivesUp \/ DevicePops
  PROVE  Service!Next
<1>0. attempt # NoConn =>
        /\ attempt \in Conns /\ ~acked /\ carries[attempt] = Head(todo) /\ Head(todo) \in Reports
        /\ forwards[attempt] \in Nat
  BY DEF Attempt, Types, DeviceTypes, HistTypes
<1>1. CASE DeviceAsks
  <2>1. /\ Connects(Head(todo), Request) /\ Head(todo) \in Reports
        /\ todo' = todo /\ acked' = acked /\ attempt = NoConn /\ ~acked
    <3>1. todo # <<>> /\ attempt = NoConn /\ ~acked /\ Connects(Head(todo), Request)
      BY <1>1 DEF DeviceAsks
    <3>2. Head(todo) \in Reports
      BY <3>1 DEF Types, DeviceTypes
    <3>3. todo' = todo /\ acked' = acked
      BY <3>1 DEF Connects
    <3>. QED BY <3>1, <3>2, <3>3
  <2>2. PICK c \in Conns :
          /\ carries[c] = NoReport
          /\ carries' = [carries EXCEPT ![c] = Head(todo)]
          /\ attempt' = c
    BY <2>1, Sorts DEF Connects, Lowest, Unused
  <2>3. forwards' = forwards /\ forwards[c] = 0
    BY <2>1, <2>2 DEF Connects, NotYet
  <2>4. /\ carries'[c] \in Reports /\ c # NoConn
        /\ \A d \in Conns : d # c => carries'[d] = carries[d]
    BY <2>1, <2>2, Sorts DEF Types, TcpTypes
  <2>5. \A d \in Conns : Asking(d)' <=> Asking(d)
    BY <2>1, <2>2, <2>3, <2>4, Sorts DEF Asking
  <2>6. Late' = Late /\ Took' = Took
    <3>1. \A d \in Conns : Asking(d) => d # c
      BY <2>2, Sorts DEF Asking
    <3>2. \A d \in Conns : (carries'[d] \in Reports /\ forwards'[d] > 0) <=> (carries[d] \in Reports /\ forwards[d] > 0)
      BY <2>2, <2>3, <2>4
    <3>. QED BY <2>3, <2>4, <2>5, <3>1, <3>2 DEF Late, Took
  <2>7. Status = "idle" /\ Status' = "sent" /\ Report' \in Reports
    BY <2>1, <2>2, <2>3, <2>4 DEF Status, Report
  <2>. QED BY <2>6, <2>7 DEF Service!Next, Service!Ask, Status, Report, Late, Took
<1>2. CASE DeviceAnswered
  <2>1. /\ attempt # NoConn /\ answer[attempt] = "200" /\ acked' = TRUE /\ attempt' = NoConn
        /\ UNCHANGED <<carries, forwards, todo>>
    BY <1>2 DEF DeviceAnswered, DeviceCloses
  <2>2. forwards[attempt] = 1
    BY <1>0, <2>1 DEF ForwardedThenAnswered
  <2>3. \A d \in Conns : Asking(d)' <=> Asking(d)
    BY <1>0, <2>1, <2>2, Sorts DEF Asking
  <2>4. Late' = Late /\ Took' = Took
    BY <2>1, <2>3 DEF Late, Took
  <2>5. Status = "taken" /\ Status' = "acked" /\ Report' = Report
    BY <1>0, <2>1, <2>2 DEF Status, Report
  <2>. QED BY <2>4, <2>5 DEF Service!Next, Service!Acknowledge, Status, Report, Late, Took
<1>3. CASE DeviceGivesUp
  <2>1. attempt # NoConn /\ attempt' = NoConn /\ UNCHANGED <<carries, forwards, todo, acked>>
    BY <1>3 DEF DeviceGivesUp, DeviceCloses
  <2>2. Took' = Took
    BY <2>1 DEF Took
  <2>3. /\ Status' = "idle" /\ Report' = NoReport /\ Report = carries[attempt]
        /\ Status = IF forwards[attempt] > 0 THEN "taken" ELSE "sent"
    BY <1>0, <2>1 DEF Status, Report
  <2>4. \A d \in Conns : Asking(d)' => Asking(d) \/ (d = attempt /\ Status = "sent")
    BY <1>0, <2>1, <2>3 DEF Asking
  <2>5. Late' \subseteq IF Status = "sent" THEN Late \cup {Report} ELSE Late
    BY <2>1, <2>3, <2>4 DEF Late
  <2>6. Late' \in SUBSET (IF Status = "sent" THEN Late \cup {Report} ELSE Late)
    BY <2>5
  <2>. QED BY <2>2, <2>3, <2>6 DEF Service!Next, Service!GiveUp, Status, Report, Late, Took
<1>4. CASE DevicePops
  <2>1. acked = TRUE /\ acked' = FALSE /\ UNCHANGED <<carries, forwards, attempt>> /\ attempt = NoConn
    BY <1>4, Zenon DEF DevicePops, Attempt, Types, DeviceTypes
  <2>2. Late' = Late /\ Took' = Took
    BY <2>1 DEF Late, Took, Asking
  <2>3. Status = "acked" /\ Status' = "idle" /\ Report' = NoReport
    BY <2>1 DEF Status, Report
  <2>. QED BY <2>2, <2>3 DEF Service!Next, Service!Finish, Status, Report, Late, Took
<1>. QED BY <1>1, <1>2, <1>3, <1>4

\* Forwarding takes the report being asked for, or one given up on; a stranger's
\* request is neither.
LEMMA ForwardServes ==
  ASSUME Types, Placed, NotYet, Attempt, Forwards
  PROVE  Service!Next \/ UNCHANGED Service!svars
<1>1. fd \in Fds /\ Open(fd) /\ Peer \in Conns /\ Peer = owner[fd]
  BY PeerType DEF Forwards, Busy, Types, Peer
<1>2. forwards[Peer] = 0
  BY <1>1 DEF Forwards, NotYet
<1>3. /\ UNCHANGED <<carries, todo, attempt, acked>> /\ forwards'[Peer] = 1
      /\ \A c \in Conns : c # Peer => forwards'[c] = forwards[c]
  BY <1>1, <1>2 DEF Forwards, Goes, Types, HistTypes
<1>4. attempt # NoConn =>
        attempt \in Conns /\ ~acked /\ carries[attempt] = Head(todo) /\ Head(todo) \in Reports
  BY DEF Attempt, Types, DeviceTypes
<1>5. Report' = Report
  BY <1>3 DEF Report
<1>6. ASSUME carries[Peer] \in Reports PROVE Took' = Took \cup {carries[Peer]}
  <2>1. \A d \in Conns : (carries'[d] \in Reports /\ forwards'[d] > 0)
                           <=> (carries[d] \in Reports /\ forwards[d] > 0) \/ d = Peer
    BY <1>3, <1>6
  <2>. QED BY <1>1, <1>3, <2>1 DEF Took
<1>7. CASE Peer = attempt
  <2>1. Status = "sent" /\ Status' = "taken" /\ Report = carries[Peer] /\ carries[Peer] \in Reports
    BY <1>1, <1>2, <1>3, <1>4, <1>7, Sorts DEF Status, Report
  <2>2. \A d \in Conns : Asking(d)' <=> Asking(d)
    BY <1>3, <1>7 DEF Asking
  <2>3. Late' = Late
    BY <1>3, <2>2 DEF Late
  <2>. QED BY <1>5, <1>6, <2>1, <2>3 DEF Service!Next, Service!Take, Status, Report, Late, Took
<1>8. CASE Peer # attempt
  <2>1. Status' = Status
    BY <1>3, <1>4, <1>8 DEF Status
  <2>2. \A d \in Conns : Asking(d)' <=> Asking(d) /\ d # Peer
    BY <1>2, <1>3, <1>8 DEF Asking
  <2>3. CASE carries[Peer] \in Reports
    <3>1. Asking(Peer)
      BY <1>2, <1>8, <2>3 DEF Asking
    <3>2. carries[Peer] \in Late /\ Late' \in SUBSET Late
      BY <1>1, <1>3, <2>2, <3>1 DEF Late
    <3>. QED BY <1>5, <1>6, <2>1, <2>3, <3>2 DEF Service!Next, Service!TakeLate, Status, Report, Late, Took
  <2>4. CASE carries[Peer] \notin Reports
    <3>1. ~Asking(Peer)
      BY <2>4 DEF Asking
    <3>2. Late' = Late
      BY <1>3, <2>2, <3>1 DEF Late
    <3>3. \A d \in Conns : (carries'[d] \in Reports /\ forwards'[d] > 0)
                             <=> (carries[d] \in Reports /\ forwards[d] > 0)
      BY <1>3, <2>4
    <3>4. Took' = Took
      BY <1>3, <3>3 DEF Took
    <3>. QED BY <1>5, <2>1, <3>2, <3>4, ServiceStutters
  <2>. QED BY <2>3, <2>4
<1>. QED BY <1>7, <1>8

\* A stranger's connecting is nothing to the service.
LEMMA StrayServes ==
  ASSUME Types, Attempt, StrayConnects
  PROVE  UNCHANGED Service!svars
<1>1. PICK stream : Connects(Stray, stream)
  BY DEF StrayConnects
<1>2. PICK c \in Conns :
        /\ carries[c] = NoReport
        /\ carries' = [carries EXCEPT ![c] = Stray]
        /\ UNCHANGED <<forwards, todo, attempt, acked>>
  BY <1>1 DEF Connects, Lowest, Unused
<1>3. /\ carries[c] \notin Reports /\ carries'[c] \notin Reports
      /\ \A d \in Conns : d # c => carries'[d] = carries[d]
  BY <1>2, Sorts DEF Types, TcpTypes
<1>4. \A d \in Conns : /\ Asking(d)' <=> Asking(d)
                       /\ Asking(d) => carries'[d] = carries[d]
                       /\ carries[d] \in Reports <=> carries'[d] \in Reports
                       /\ carries[d] \in Reports => carries'[d] = carries[d]
  BY <1>2, <1>3 DEF Asking
<1>5. Late' = Late
  BY <1>4 DEF Late
<1>6. Took' = Took
  BY <1>2, <1>4 DEF Took
<1>7. Report' = Report /\ Status' = Status
  BY <1>2 DEF Report, Status
<1>. QED BY <1>5, <1>6, <1>7, ServiceStutters

\* Every step is one of the service, or none.
LEMMA StepServes == SIndInv /\ [Next]_vars => [Service!Next]_Service!svars
<1> SUFFICES ASSUME SIndInv, [Next]_vars PROVE Service!Next \/ UNCHANGED Service!svars
  OBVIOUS
<1>1. Types
  BY TypesSplit DEF SIndInv
<1>2. ASSUME UNCHANGED <<carries, forwards, todo, attempt, acked>> PROVE UNCHANGED Service!svars
  BY <1>2, ServiceStutters DEF Report, Status, Late, Took, Asking
<1>3. CASE DeviceAsks \/ DeviceAnswered \/ DeviceGivesUp \/ DevicePops
  BY <1>1, <1>3, DeviceServes DEF SIndInv
<1>4. CASE StrayConnects
  BY <1>1, <1>4, StrayServes DEF SIndInv
<1>5. CASE Forwards
  BY <1>1, <1>5, ForwardServes DEF SIndInv
<1>6. CASE EpollFails \/ \E c \in Conns : PieceArrives(c) \/ HangUpArrives(c)
  BY <1>2, <1>6 DEF EpollFails, Discard, PieceArrives, HangUpArrives
<1>7. CASE \/ EpollReturns \/ NextEvent \/ Accepts \/ AcceptsDone \/ AcceptFails
           \/ Receives \/ WouldBlock \/ PeerClosed \/ Answers \/ Closes
  <2>1. UNCHANGED <<carries, forwards, todo, attempt, acked>>
    BY <1>7 DEF EpollReturns, NextEvent, Accepts, AcceptInto, AcceptsDone, AcceptFails, Receives,
         ReadPiece, WouldBlock, PeerClosed, Answers, Closes, CloseSocket, Discard, Goes
  <2>. QED BY <1>2, <2>1
<1>8. CASE UNCHANGED vars
  BY <1>2, <1>8
<1>. QED BY <1>3, <1>4, <1>5, <1>6, <1>7, <1>8 DEF Next, Server

\* The server with the device's attempts implements ReportService.
THEOREM ServerServesReports == Spec => ServesReports
<1>1. Init => Service!Init
  BY Sorts DEF Init, Service!Init, Asking
<1>. QED BY <1>1, ServerInvariant, StepServes, PTL DEF Spec, ServesReports, Service!Spec
=============================================================================
