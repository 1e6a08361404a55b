------------------------------- MODULE WebSocket -------------------------------
(***************************************************************************)
(* easywsclient's _RealWebSocket as GSConnection uses it: the thread that  *)
(* resolves, connects and upgrades, the application's thread that polls    *)
(* and dispatches once per Update, and the peer.                           *)
(*                                                                         *)
(* Bytes are abstracted to the two halves of every frame, which recv and   *)
(* send may cut anywhere.  The sockets are mbedtls's (Windows, Android,    *)
(* PS4): a recv or send that would block says so, and after abort every    *)
(* call fails.  A text frame also stands for a pong.                       *)
(***************************************************************************)
EXTENDS Integers, Sequences

CONSTANTS
    MaxFrames,      \* bound on the frames the peer sends
    MaxSends        \* bound on the messages the application sends

ASSUME BoundAssumption == MaxFrames \in Nat /\ MaxSends \in Nat

VARIABLES
    readyState, ipLookup,
    dns,            \* what the connecting thread is at
    joinable,       \* whether the thread is still to be joined
    aborted,        \* BaseSocket::abort was called
    freed,          \* the socket was deleted
    rxbuf, txbuf,   \* halves of frames
    stopped,        \* GSConnection::m_Stopped, or what makes it true
    app,            \* what the application's thread is at
    network,        \* the connection to the peer
    stream,         \* the frames the peer has sent
    received,       \* how many halves of them recv has returned
    queued,         \* the frames that were put into txbuf
    wire,           \* the halves send has taken
    sends,          \* how many messages the application has sent
    delivered,      \* the frames given to messageCallback
    misused         \* members of the WebSocket were used after its deletion

thread == <<ipLookup, dns>>
tx == <<txbuf, queued, sends>>
peer == <<network, stream>>
vars == <<readyState, thread, joinable, aborted, freed, rxbuf, tx, stopped, app,
          peer, received, wire, delivered, misused>>

FrameKind == {"text", "ping", "close", "other"}
OutKind == {"text", "pong", "close"}

Halves(s) == [i \in 1..(2 * Len(s)) |-> <<(i + 1) \div 2, i % 2>>]

Drop(s, n) == SubSeq(s, n + 1, Len(s))

Init ==
    /\ readyState = "CONNECTING" /\ ipLookup = "keInprogress"
    /\ dns = "connect" /\ joinable = TRUE
    /\ aborted = FALSE /\ freed = FALSE
    /\ rxbuf = <<>> /\ txbuf = <<>>
    /\ stopped = FALSE /\ app = "idle"
    /\ network = "up" /\ stream = <<>> /\ received = 0
    /\ queued = <<>> /\ wire = <<>> /\ sends = 0
    /\ delivered = <<>> /\ misused = FALSE

-----------------------------------------------------------------------------
(* The peer                                                                *)

PeerSends(kind) ==
    /\ network = "up" /\ ipLookup = "keComplete" /\ Len(stream) < MaxFrames
    /\ stream' = Append(stream, kind)
    /\ UNCHANGED <<readyState, thread, joinable, aborted, freed, rxbuf, tx, stopped,
                   app, network, received, wire, delivered, misused>>

NetworkFails(outcome) ==
    /\ network = "up"
    /\ network' = outcome
    /\ UNCHANGED <<readyState, thread, joinable, aborted, freed, rxbuf, tx, stopped,
                   app, stream, received, wire, delivered, misused>>

-----------------------------------------------------------------------------
(* The connecting thread: _s_dns_Lookup and doConnect2                     *)

(* Mutant: abort leaves the connection as it is.                           *)
ReadFails_Unaborted == network = "broken"

(* A blocking recv has something to return other than what the peer sends. *)
ReadFails == aborted \/ network = "broken"
ReadEnds == ~aborted /\ network = "closed"

Continue(pc) ==
    /\ dns' = pc
    /\ UNCHANGED <<readyState, ipLookup, joinable, aborted, freed, rxbuf, tx, stopped,
                   app, peer, received, wire, delivered, misused>>

Publish(result) ==
    /\ ipLookup' = result
    /\ dns' = "published"
    /\ UNCHANGED <<readyState, joinable, aborted, freed, rxbuf, tx, stopped, app,
                   peer, received, wire, delivered, misused>>

(* connect, and the TLS handshake, block no longer than the platform lets  *)
(* them.                                                                   *)
Connect ==
    /\ dns = "connect"
    /\ \/ ~ReadFails /\ Continue("status")
       \/ Publish("keFailed")

(* The status line is that of an upgrade.  A recv that fails leaves what   *)
(* is in the buffer: when the status has come before, it is taken, too.    *)
ReadStatus ==
    /\ dns = "status"
    /\ Continue("headers")

(* It ends early, or is another: a recv that fails before the status has   *)
(* come leaves the last line sent, which is none.                          *)
BadStatus ==
    /\ dns = "status"
    /\ Publish("keFailed")

(* The header lines come, to the last one.                                 *)
ReadHeaders ==
    /\ dns = "headers" /\ network # "broken"
    /\ Publish("keComplete")

(* recv returns 0.  What it returns below 0 is not looked at: the loop     *)
(* goes on with the line it has.                                           *)
HeadersEnd ==
    /\ dns = "headers" /\ ReadEnds
    /\ Publish("keFailed")

ThreadExit ==
    /\ dns = "published"
    /\ Continue("done")

-----------------------------------------------------------------------------
(* The application's thread: sending and closing                           *)

(* The frame's halves go to the end of txbuf.                              *)
Insert(kind) ==
    /\ queued' = Append(queued, kind)
    /\ txbuf' = txbuf \o <<<<Len(queued) + 1, 1>>, <<Len(queued) + 1, 0>>>>

(* sendData.                                                               *)
Enqueue(kind) ==
    \/ readyState # "OPEN" /\ UNCHANGED <<txbuf, queued>>
    \/ readyState = "OPEN" /\ Insert(kind)

(* close(), with the frame that says so.                                   *)
CloseFrame ==
    \/ readyState \in {"CLOSING", "CLOSED"} /\ UNCHANGED <<readyState, txbuf, queued>>
    \/ /\ readyState \in {"CONNECTING", "OPEN"} /\ readyState' = "CLOSING"
       /\ Insert("close")

(* GSConnection::SendImmediate, and the blank that keeps a connection.     *)
Send ==
    /\ app = "idle" /\ sends < MaxSends
    /\ sends' = sends + 1
    /\ Enqueue("text")
    /\ UNCHANGED <<readyState, thread, joinable, aborted, freed, rxbuf, stopped, app,
                   peer, received, wire, delivered, misused>>

(* GS::Stop.                                                               *)
Stop ==
    /\ app = "idle" /\ ~stopped
    /\ stopped' = TRUE
    /\ UNCHANGED <<readyState, thread, joinable, aborted, freed, rxbuf, tx, app,
                   peer, received, wire, delivered, misused>>

(* GSConnection::Close and the destructor, which aborts and joins a thread *)
(* that was not joined yet.                                                *)
Close ==
    /\ app = "idle"
    /\ CloseFrame
    /\ aborted' = (aborted \/ joinable)
    /\ app' = (IF joinable THEN "destroying" ELSE "gone")
    /\ UNCHANGED <<thread, joinable, freed, rxbuf, sends, stopped, peer, received,
                   wire, delivered, misused>>

(* Mutant: a thread that has published its result is taken for ended.      *)
JoinReturns_Early == dns \in {"published", "done"}

(* threading::thread_join.                                                 *)
JoinReturns == dns = "done"

Destroyed ==
    /\ app = "destroying" /\ JoinReturns
    /\ joinable' = FALSE /\ freed' = TRUE
    /\ app' = "gone"
    /\ UNCHANGED <<readyState, thread, aborted, rxbuf, tx, stopped, peer, received,
                   wire, delivered, misused>>

(* An error callback or a message callback from which the application      *)
(* shuts GS down: the WebSocket is deleted below poll or _dispatch.        *)
DeletedInside ==
    /\ app' = "gone"
    /\ misused' = TRUE

-----------------------------------------------------------------------------
(* The application's thread: poll                                          *)

LookupEnded == ipLookup # "keInprogress"

PollConnecting ==
    /\ app = "idle" /\ readyState = "CONNECTING" /\ LookupEnded
    /\ app' = "joining"
    /\ UNCHANGED <<readyState, thread, joinable, aborted, freed, rxbuf, tx, stopped,
                   peer, received, wire, delivered, misused>>

(* GSConnection::Update dispatches only if poll has not stopped it.        *)
AfterPoll(stop) == IF stop THEN "idle" ELSE "polled"

Joined ==
    /\ app = "joining" /\ JoinReturns
    /\ joinable' = FALSE
    /\ \/ /\ ipLookup = "keComplete"
          /\ readyState' = "OPEN"
          /\ app' = AfterPoll(stopped)
          /\ UNCHANGED <<stopped, misused>>
       \/ /\ ipLookup = "keFailed"
          /\ readyState' = "CLOSED"
          /\ stopped' = TRUE
          /\ \/ app' = "idle" /\ UNCHANGED misused
             \/ DeletedInside
    /\ UNCHANGED <<thread, aborted, freed, rxbuf, tx, peer, received, wire, delivered>>

(* What recv can return in a row, and how the loop around it ends.         *)
Arrived == 0..(2 * Len(stream) - received)
RecvEnds(n, how) ==
    \/ how = "want"
    \/ how = "closed" /\ network = "closed" /\ received + n = 2 * Len(stream)
    \/ how = "failed" /\ network = "broken"

SendEnds(k, how) ==
    \/ how = "want" /\ (k = Len(txbuf) \/ network # "broken")
    \/ how \in {"closed", "failed"} /\ k < Len(txbuf) /\ network # "up"

(* The recv loop, the send loop, which is entered whatever came of the     *)
(* other one, and the end of a connection that was closing.                *)
ReadyAfter(r, s, k) ==
    IF r # "want" \/ s # "want" \/ (readyState = "CLOSING" /\ k = Len(txbuf))
    THEN "CLOSED" ELSE readyState

(* Every one of these ways is reported to errorCallback, which stops the   *)
(* connection.                                                             *)
Reported(r, s, k) == ReadyAfter(r, s, k) = "CLOSED"

PollTraffic ==
    /\ app = "idle" /\ ipLookup = "keComplete" /\ readyState \in {"OPEN", "CLOSING"}
    /\ \E n \in Arrived, k \in 0..Len(txbuf),
          r \in {"want", "closed", "failed"}, s \in {"want", "closed", "failed"} :
         /\ RecvEnds(n, r) /\ SendEnds(k, s)
         /\ rxbuf' = rxbuf \o SubSeq(Halves(stream), received + 1, received + n)
         /\ received' = received + n
         /\ wire' = wire \o SubSeq(txbuf, 1, k)
         /\ txbuf' = Drop(txbuf, k)
         /\ readyState' = ReadyAfter(r, s, k)
         /\ stopped' = (stopped \/ Reported(r, s, k))
         /\ \/ /\ app' = AfterPoll(stopped')
               /\ UNCHANGED misused
            \/ /\ r = "failed" \/ s = "failed"
               /\ DeletedInside
    /\ UNCHANGED <<thread, joinable, aborted, freed, queued, sends, peer, delivered>>

-----------------------------------------------------------------------------
(* The application's thread: _dispatch                                     *)

(* Mutant: the header is enough.                                           *)
Whole_Header == Len(rxbuf) >= 1

(* A whole frame is in rxbuf.                                              *)
Whole == Len(rxbuf) >= 2

DispatchNothing ==
    /\ app = "polled" /\ ~Whole
    /\ app' = "idle"
    /\ UNCHANGED <<readyState, thread, joinable, aborted, freed, rxbuf, tx, stopped,
                   peer, received, wire, delivered, misused>>

Frame == rxbuf[1][1]

(* The callback may send, stop the connection, or delete the WebSocket     *)
(* whose buffer _dispatch goes on with.                                    *)
DispatchText ==
    /\ stream[Frame] = "text"
    /\ delivered' = Append(delivered, Frame)
    /\ \/ app' = "idle" /\ UNCHANGED <<txbuf, queued, sends, misused, stopped>>
       \/ app' = "idle" /\ stopped' = TRUE /\ UNCHANGED <<txbuf, queued, sends, misused>>
       \/ /\ sends < MaxSends /\ sends' = sends + 1
          /\ Enqueue("text")
          /\ app' = "idle" /\ UNCHANGED <<misused, stopped>>
       \/ DeletedInside /\ UNCHANGED <<txbuf, queued, sends, stopped>>
    /\ UNCHANGED readyState

(* Mutant: a ping is sent back as it came.                                 *)
DispatchPing_Echo ==
    /\ stream[Frame] = "ping"
    /\ Enqueue("ping")
    /\ app' = "idle"
    /\ UNCHANGED <<readyState, sends, stopped, delivered, misused>>

DispatchPing ==
    /\ stream[Frame] = "ping"
    /\ Enqueue("pong")
    /\ app' = "idle"
    /\ UNCHANGED <<readyState, sends, stopped, delivered, misused>>

DispatchClose ==
    /\ stream[Frame] = "close"
    /\ CloseFrame
    /\ app' = "idle"
    /\ UNCHANGED <<sends, stopped, delivered, misused>>

DispatchOther ==
    /\ stream[Frame] = "other"
    /\ stopped' = TRUE
    /\ CloseFrame
    /\ \/ app' = "idle" /\ UNCHANGED misused
       \/ DeletedInside
    /\ UNCHANGED <<sends, delivered>>

Dispatch ==
    /\ app = "polled" /\ Whole
    /\ DispatchText \/ DispatchPing \/ DispatchClose \/ DispatchOther
    /\ rxbuf' = Drop(rxbuf, 2)
    /\ UNCHANGED <<thread, joinable, aborted, freed, peer, received, wire>>

-----------------------------------------------------------------------------
Peer ==
    \/ \E kind \in FrameKind : PeerSends(kind)
    \/ \E outcome \in {"closed", "broken"} : NetworkFails(outcome)

(* What the thread does without anything from the peer.                    *)
ThreadAlone ==
    \/ Connect \/ HeadersEnd \/ ThreadExit
    \/ (ReadFails \/ ReadEnds) /\ BadStatus

ConnectThread == Connect \/ ReadStatus \/ BadStatus \/ ReadHeaders \/ HeadersEnd \/ ThreadExit

Update == PollConnecting \/ Joined \/ PollTraffic \/ DispatchNothing \/ Dispatch

Next == Peer \/ ConnectThread \/ Update \/ Send \/ Stop \/ Close \/ Destroyed

(* The thread runs while a call of its own can return; the application     *)
(* goes on calling Update, and its destructor goes on when it can.         *)
Fairness == WF_vars(ThreadAlone) /\ WF_vars(Update) /\ WF_vars(Destroyed)

Spec == Init /\ [][Next]_vars /\ Fairness

-----------------------------------------------------------------------------
(* Type correctness of the WebSocket, its thread and its user.             *)
TypeOK ==
    /\ readyState \in {"CONNECTING", "OPEN", "CLOSING", "CLOSED"}
    /\ ipLookup \in {"keInprogress", "keComplete", "keFailed"}
    /\ dns \in {"connect", "status", "headers", "published", "done"}
    /\ joinable \in BOOLEAN /\ aborted \in BOOLEAN /\ freed \in BOOLEAN
    /\ stopped \in BOOLEAN /\ misused \in BOOLEAN
    /\ app \in {"idle", "joining", "polled", "destroying", "gone"}
    /\ network \in {"up", "closed", "broken"}
    /\ stream \in Seq(FrameKind) /\ received \in 0..(2 * Len(stream))
    /\ queued \in Seq(OutKind)
    /\ rxbuf \in Seq(Nat \X {0, 1}) /\ txbuf \in Seq(Nat \X {0, 1})
    /\ wire \in Seq(Nat \X {0, 1})
    /\ delivered \in Seq(Nat) /\ sends \in 0..MaxSends

(* Whatever way recv cuts the stream, and however many frames wait, the    *)
(* callback gets whole text frames in the order the peer sent them, and    *)
(* each once (easywsclient.cpp:393); and what the peer gets is what was    *)
(* sent, in order, whatever part of the buffer a send takes, with nothing  *)
(* after a close frame.                                                    *)
FramesInOrder ==
    /\ \A i \in 1..Len(delivered) :
         /\ delivered[i] \in 1..(received \div 2)
         /\ stream[delivered[i]] = "text"
    /\ \A i, j \in 1..Len(delivered) : i < j => delivered[i] < delivered[j]
    /\ ~misused =>
         \A f \in 1..(received \div 2) : stream[f] = "text" =>
           \/ \E i \in 1..Len(delivered) : delivered[i] = f
           \/ \E i \in 1..Len(rxbuf) : rxbuf[i] = <<f, 0>>
    /\ wire \o txbuf = Halves(queued)
    /\ \A i \in 1..(Len(queued) - 1) : queued[i] # "close"

(* A connection that is closed is also stopped: every end poll finds, on   *)
(* whichever of its paths, has been reported.                              *)
ClosedIsReported == readyState = "CLOSED" => stopped

(* The thread and the application use the socket at different times, but   *)
(* for the abort of the destructor: the socket, and the WebSocket, are not *)
(* deleted before the thread has ended, and poll reads and writes only     *)
(* after it (easywsclient.cpp:213), and gives it up with its connection.   *)
SocketHandedOver ==
    /\ freed => dns = "done"
    /\ readyState \in {"OPEN", "CLOSING"} /\ app \in {"idle", "polled"}
         => dns = "done" /\ ~joinable /\ ~aborted
    /\ ClosedIsReported

(* A deletion of the WebSocket comes to its end, unless the thread is      *)
(* reading header lines.                                                   *)
DestructorReturns == app = "destroying" ~> app = "gone" \/ dns = "headers"
=============================================================================
