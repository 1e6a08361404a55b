------------------------------- MODULE RTSession -------------------------------
(***************************************************************************)
(* A real-time session (RTSessionImpl) from Start to Stop, and the threads *)
(* of its connections.  The application's thread updates and stops the     *)
(* session and sends.  A ReliableConnection has a thread that connects     *)
(* over TCP and reads packets; the LoginResult it reads makes the session  *)
(* open a FastConnection, whose thread logs in over UDP and then reads     *)
(* packets, too.                                                           *)
(*                                                                         *)
(* A step of a thread ends where it has to wait, or where what another     *)
(* thread does next matters to it.  Who holds a lock follows from where    *)
(* the threads are: sendMutex and the sessionMutex of the FastConnection   *)
(* are held over several steps; nobody waits while holding the mutex of    *)
(* the queue or the sessionMutex of the ReliableConnection, so that their  *)
(* critical sections lie within a step.  The thread of a ReliableConnection *)
(* mostly works without that mutex: it looks at its session pointer in one *)
(* step and uses what it saw in another.  The server and the network are   *)
(* external.                                                               *)
(***************************************************************************)
EXTENDS Integers, SequencesExt

CONSTANTS
    MaxPackets,   \* bounds on the data packets that arrive by each route
    MaxQueue,     \* bound on the queued actions when one more is provoked
    MaxConnects   \* bound on the ReliableConnections of a session

(* reliableConnection and fastConnection                                   *)
Route == {"tcp", "udp"}

ASSUME PacketsAssumption == MaxPackets \in [Route -> Nat]
ASSUME QueueAssumption == MaxQueue \in Nat
ASSUME ConnectsAssumption == MaxConnects \in Nat \ {0}

VARIABLES
    app,        \* where the application's thread is in the session's code
    todo,       \* the connections it still has to stop, and what follows
    running,    \* RTSessionImpl::running
    connects,   \* ReliableConnections made so far
    ready,      \* IRTSession::Ready
    state,      \* RTSessionImpl::internalState
    queue,      \* RTSessionImpl::actionQueue
    conn,       \* the two connections and their threads
    received,   \* data packets that arrived by each route
    executed,   \* the last of them that the listener was called with
    crashed     \* a thread has used a session pointer that is null

appVars == <<app, todo, running, connects>>
sessionVars == <<ready, state, queue>>
packetVars == <<received, executed>>
vars == <<appVars, sessionVars, conn, packetVars, crashed>>

(* GameSparksRT::ConnectState; Connecting (1) is never set.                *)
Disconnected == 0
ReliableOnly == 2
ReliableAndFastSend == 3
ReliableAndFast == 4
ConnectState == {Disconnected, ReliableOnly, ReliableAndFastSend, ReliableAndFast}

(* An IRTCommand of the queue: the n-th data packet of a route, or a call  *)
(* of OnReady(true) (n = 1) or OnReady(false) (n = 0).                     *)
Command == [from : Route \cup {"session"}, n : Nat]

(* What a thread can have read.  A LoginResult that is marked unreliable   *)
(* says that the server has got the log-in over UDP.                       *)
Packet == {"LoginResult", "FastLoginResult", "UDPConnectMessage", "data"}

AppPc == {"idle", "check", "execute", "poll", "send",
          "lock", "stop", "detach", "teardown", "join"}

(* A connection: whether the session has it, where its thread is, whether  *)
(* its session pointer is set, its flag stopped, whether its socket is     *)
(* connected and isTearingDown, whether the server may know it (the log-in *)
(* was answered over TCP, or sent over UDP), and the packet in hand.       *)
Connection ==
    [exists : BOOLEAN,
     pc : {"connect", "login", "report", "lock", "wait", "begin", "read",
           "packet", "execute", "answer", "done"},
     attached : BOOLEAN, stopped : BOOLEAN, open : BOOLEAN,
     tearing : BOOLEAN, loggedIn : BOOLEAN, packet : Packet]

FreshConnection ==
    [exists |-> TRUE, pc |-> "connect", attached |-> TRUE, stopped |-> FALSE,
     open |-> FALSE, tearing |-> FALSE, loggedIn |-> FALSE, packet |-> "data"]

NoConnection == [FreshConnection EXCEPT !.exists = FALSE, !.pc = "done"]

(* Start has been called.                                                  *)
Init ==
    /\ app = "idle" /\ todo = <<>>
    /\ running = TRUE /\ connects = 1
    /\ ready = FALSE /\ state = Disconnected /\ queue = <<>>
    /\ conn = [tcp |-> FreshConnection, udp |-> NoConnection]
    /\ received = [r \in Route |-> 0]
    /\ executed = [r \in Route |-> 0]
    /\ crashed = FALSE

-----------------------------------------------------------------------------
(* Locks, and what several threads do                                      *)

(* Stop and CheckConnection hold it while they stop the connections.       *)
AppHoldsSendMutex == app \in {"stop", "detach", "teardown", "join"}

(* DoLogin is called with both mutexes held.                               *)
LoggingIn == conn["udp"].pc = "wait"

SendMutexFree == ~AppHoldsSendMutex /\ ~LoggingIn

(* ReadBuffer handles a packet under the connection's sessionMutex.        *)
FastMutexFree == ~LoggingIn /\ conn["udp"].pc # "answer"

(* A state that is not higher is ignored, so that Disconnected always is.  *)
SetConnectState(s) == state' = IF state < s THEN s ELSE state

(* The action OnReady submits.                                             *)
OnReadyCommand(isReady) ==
    [from |-> "session", n |-> IF isReady THEN 1 ELSE 0]

OnNotReady ==
    /\ ready' = FALSE
    /\ SetConnectState(Disconnected)
    /\ queue' = Append(queue, OnReadyCommand(FALSE))

(* Whether ReliableConnection::Send writes, and says so if writing fails.  *)
CanSend ==
    /\ conn["tcp"].exists /\ state >= ReliableOnly
    /\ conn["tcp"].open /\ conn["tcp"].attached /\ ~conn["tcp"].stopped

(* SendData by a thread that holds sendMutex: the message is written or    *)
(* dropped, or writing it fails.                                           *)
SendData == UNCHANGED sessionVars \/ (CanSend /\ OnNotReady)

MayQueue == Len(queue) < MaxQueue

Goto(c, place) == conn' = [conn EXCEPT ![c].pc = place]

-----------------------------------------------------------------------------
(* The application's thread: Update and SendData                           *)

AppMoves(from, to) == ~crashed /\ app = from /\ app' = to /\ UNCHANGED crashed

UpdateBegin ==
    /\ AppMoves("idle", IF running THEN "check" ELSE "execute")
    /\ UNCHANGED <<todo, running, connects, sessionVars, conn, packetVars>>

IsConnected == state >= ReliableOnly

(* CheckConnection, when connected or when there still is time.            *)
CheckPasses ==
    /\ AppMoves("check", "execute")
    /\ UNCHANGED <<todo, running, connects, sessionVars, conn, packetVars>>

(* Mutant: only the reliable connection is stopped.                        *)
CheckFails_Reliable ==
    /\ ~IsConnected /\ connects < MaxConnects
    /\ AppMoves("check", "lock") /\ todo' = <<"tcp", "connect">>
    /\ UNCHANGED <<running, connects, sessionVars, conn, packetVars>>

(* CheckConnection, not connected in time: both connections are stopped.   *)
CheckFails ==
    /\ ~IsConnected /\ connects < MaxConnects
    /\ AppMoves("check", "lock") /\ todo' = <<"tcp", "udp", "connect">>
    /\ UNCHANGED <<running, connects, sessionVars, conn, packetVars>>

(* The listener is called with a packet.                                   *)
Executed(command) ==
    executed' = [r \in Route |-> IF command.from = r
                                   THEN command.n ELSE executed[r]]

(* Mutant: GetNextAction takes the newest action.                          *)
Execute_Newest ==
    /\ AppMoves("execute", "execute") /\ queue # <<>>
    /\ queue' = Front(queue) /\ Executed(Last(queue))
    /\ UNCHANGED <<todo, running, connects, ready, state, conn, received>>

(* GetNextAction, and Execute of what it returns.                          *)
Execute ==
    /\ AppMoves("execute", "execute") /\ queue # <<>>
    /\ queue' = Tail(queue) /\ Executed(Head(queue))
    /\ UNCHANGED <<todo, running, connects, ready, state, conn, received>>

NothingToExecute ==
    /\ queue = <<>>
    /\ AppMoves("execute", "poll")
    /\ UNCHANGED <<todo, running, connects, sessionVars, conn, packetVars>>

(* Update polls the reliable connection under sendMutex; as no receive is  *)
(* scheduled on its socket, nothing comes of it.                           *)
Poll ==
    /\ SendMutexFree
    /\ AppMoves("poll", "idle")
    /\ UNCHANGED <<todo, running, connects, sessionVars, conn, packetVars>>

(* The application calls SendData or one of its siblings.                  *)
SendBegin ==
    /\ MayQueue
    /\ AppMoves("idle", "send")
    /\ UNCHANGED <<todo, running, connects, sessionVars, conn, packetVars>>

Send ==
    /\ SendMutexFree
    /\ SendData
    /\ AppMoves("send", "idle")
    /\ UNCHANGED <<todo, running, connects, conn, packetVars>>

-----------------------------------------------------------------------------
(* Stop and CheckConnection stop the connections, under sendMutex.  They   *)
(* differ in the order, and in that only Stop sets the flag stopped.       *)

Stop ==
    /\ AppMoves("idle", "lock") /\ todo' = <<"udp", "tcp", "return">>
    /\ running' = FALSE /\ ready' = FALSE
    /\ UNCHANGED <<connects, state, queue, conn, packetVars>>

Lock ==
    /\ SendMutexFree
    /\ AppMoves("lock", "stop")
    /\ UNCHANGED <<todo, running, connects, sessionVars, conn, packetVars>>

(* What the application has to do next, or is doing.                       *)
Stopping(c) == todo # <<>> /\ Head(todo) = c

SkipConnection(c) ==
    /\ AppMoves("stop", "stop")
    /\ Stopping(c) /\ ~conn[c].exists
    /\ todo' = Tail(todo)
    /\ UNCHANGED <<running, connects, sessionVars, conn, packetVars>>

StopConnection(c) ==
    /\ Stopping(c) /\ conn[c].exists
    /\ AppMoves("stop", "detach")
    /\ conn' = [conn EXCEPT ![c].stopped = @ \/ Last(todo) = "return"]
    /\ UNCHANGED <<todo, running, connects, sessionVars, packetVars>>

(* The session pointer becomes null, under the connection's sessionMutex;  *)
(* the reliable connection closes its socket, too.                         *)
StopInternal(c) ==
    /\ Stopping(c)
    /\ c = "udp" => FastMutexFree
    /\ AppMoves("detach", "teardown")
    /\ conn' = [conn EXCEPT ![c].attached = FALSE,
                            ![c].open = @ /\ c = "udp"]
    /\ UNCHANGED <<todo, running, connects, sessionVars, packetVars>>

(* Mutant: the socket is not freed before the thread is joined.            *)
Teardown_Open(c) ==
    /\ Stopping(c)
    /\ AppMoves("teardown", "join")
    /\ conn' = [conn EXCEPT ![c].tearing = TRUE]
    /\ UNCHANGED <<todo, running, connects, sessionVars, packetVars>>

(* Socket::teardown, from the destructor: no read blocks any more ...      *)
Teardown(c) ==
    /\ Stopping(c)
    /\ AppMoves("teardown", "join")
    /\ conn' = [conn EXCEPT ![c].tearing = TRUE, ![c].open = FALSE]
    /\ UNCHANGED <<todo, running, connects, sessionVars, packetVars>>

(* ... and then it waits for the thread to end.                            *)
Join(c) ==
    /\ Stopping(c) /\ conn[c].pc = "done"
    /\ AppMoves("join", "stop")
    /\ conn' = [conn EXCEPT ![c] = NoConnection]
    /\ todo' = Tail(todo)
    /\ UNCHANGED <<running, connects, sessionVars, packetVars>>

(* Stop returns.                                                           *)
Stopped ==
    /\ todo = <<"return">> /\ todo' = <<>>
    /\ AppMoves("stop", "idle")
    /\ UNCHANGED <<running, connects, sessionVars, conn, packetVars>>

(* CheckConnection connects again.                                         *)
ConnectReliable ==
    /\ todo = <<"connect">> /\ todo' = <<>>
    /\ AppMoves("stop", "execute")
    /\ conn' = [conn EXCEPT !["tcp"] = FreshConnection]
    /\ connects' = connects + 1
    /\ UNCHANGED <<running, sessionVars, packetVars>>

-----------------------------------------------------------------------------
(* The threads of the connections                                          *)

At(c, place) == conn[c].pc = place

RunsAt(c, place) == ~crashed /\ At(c, place)

(* BeginConnect fails, or finds that the socket is being torn down.        *)
ConnectFails(c) ==
    /\ RunsAt(c, "connect")
    /\ Goto(c, "done")
    /\ UNCHANGED <<appVars, sessionVars, packetVars, crashed>>

(* The socket is connected.  ConnectCallback ends here if it is stopped.   *)
Connects(c) ==
    /\ RunsAt(c, "connect") /\ ~conn[c].tearing
    /\ conn' = [conn EXCEPT ![c].open = ~(c = "tcp" /\ conn[c].stopped),
                            ![c].pc = CASE c = "udp" -> "lock"
                                        [] conn[c].stopped -> "done"
                                        [] OTHER -> "login"]
    /\ UNCHANGED <<appVars, sessionVars, packetVars, crashed>>

(* The packets the server may send by a route, to whom it knows: it        *)
(* answers a log-in over TCP once, and tells once that UDP works.          *)
MayArrive(c, packet) ==
    CASE packet = "LoginResult" -> c = "tcp" /\ ~conn[c].loggedIn
      [] packet = "FastLoginResult" -> conn["udp"].loggedIn
      [] packet = "UDPConnectMessage" ->
           conn["udp"].loggedIn /\ MayQueue /\ state < ReliableAndFast
      [] packet = "data" ->
           conn[c].loggedIn /\ MayQueue /\ received[c] < MaxPackets[c]

(* A packet arrives.  The loop of ConnectCallback then looks at session    *)
(* once, without a lock; ReadBuffer does so later, with the lock.          *)
Reads(c, packet) ==
    /\ RunsAt(c, "read") \/ RunsAt(c, "begin")
    /\ conn[c].open
    /\ MayArrive(c, packet)
    /\ conn' = [conn EXCEPT ![c].pc = IF c = "tcp" /\ ~conn[c].attached
                                        THEN "done" ELSE "packet",
                            ![c].packet = packet]
    /\ UNCHANGED <<appVars, sessionVars, packetVars, crashed>>

(* Where a thread is that asks for the next packet: it ends if it sees     *)
(* stopped, and the one of the FastConnection if it sees no session.       *)
NextRead(c) ==
    IF conn[c].stopped \/ (c = "udp" /\ ~conn[c].attached)
    THEN "done" ELSE "read"

(* A null session pointer is used, and the program ends.                   *)
Crashes ==
    /\ crashed' = TRUE
    /\ UNCHANGED <<appVars, sessionVars, conn, packetVars>>

(* What a packet does to the session (OnPacketReceived), in one step.      *)
ReceiveData(c) ==
    /\ received' = [received EXCEPT ![c] = @ + 1]
    /\ queue' = Append(queue, [from |-> c, n |-> received[c] + 1])
    /\ Goto(c, NextRead(c))
    /\ UNCHANGED <<ready, state>>

ReceiveFastLoginResult(c) ==
    /\ SetConnectState(ReliableAndFastSend)
    /\ Goto(c, NextRead(c))
    /\ UNCHANGED <<ready, queue, received>>

(* It is answered with SendData, which has to wait for sendMutex.          *)
ReceiveUDPConnectMessage(c) ==
    /\ SetConnectState(ReliableAndFast)
    /\ Goto(c, "answer")
    /\ UNCHANGED <<ready, queue, received>>

(* Mutant: a LoginResult leaves the session Connecting (1).                *)
ReceiveLoginResult_Connecting(c) ==
    /\ SetConnectState(1)
    /\ conn' = [conn EXCEPT ![c].pc = NextRead(c), ![c].loggedIn = TRUE,
                            !["udp"] = FreshConnection]
    /\ UNCHANGED <<ready, queue, received>>

(* ConnectFast makes a FastConnection without locking sendMutex.           *)
ReceiveLoginResult(c) ==
    /\ SetConnectState(ReliableOnly)
    /\ conn' = [conn EXCEPT ![c].pc = NextRead(c), ![c].loggedIn = TRUE,
                            !["udp"] = FreshConnection]
    /\ UNCHANGED <<ready, queue, received>>

OnPacketReceived(c) ==
    /\ CASE conn[c].packet = "data" -> ReceiveData(c)
         [] conn[c].packet = "FastLoginResult" -> ReceiveFastLoginResult(c)
         [] conn[c].packet = "UDPConnectMessage" -> ReceiveUDPConnectMessage(c)
         [] conn[c].packet = "LoginResult" -> ReceiveLoginResult(c)
    /\ UNCHANGED <<appVars, executed, crashed>>

Answer(c) ==
    /\ RunsAt(c, "answer") /\ SendMutexFree
    /\ SendData
    /\ Goto(c, NextRead(c))
    /\ UNCHANGED <<appVars, packetVars, crashed>>

-----------------------------------------------------------------------------
(* ReliableConnection                                                      *)

(* ConnectCallback uses session without a lock and logs in; that the       *)
(* socket has been closed, or a failure to write, does not end it.         *)
LogIn ==
    /\ RunsAt("tcp", "login")
    /\ IF conn["tcp"].attached
         THEN /\ \/ Goto("tcp", NextRead("tcp"))
                 \/ /\ conn["tcp"].open /\ ~conn["tcp"].stopped
                    /\ Goto("tcp", "report")
              /\ UNCHANGED <<appVars, sessionVars, packetVars, crashed>>
         ELSE Crashes

(* ReliableConnection::Send failed to write and found a session, without a *)
(* lock: it tells that session, or finds the pointer null by now.          *)
Report ==
    /\ RunsAt("tcp", "report")
    /\ \/ /\ OnNotReady
          /\ Goto("tcp", NextRead("tcp"))
          /\ UNCHANGED <<appVars, packetVars, crashed>>
       \/ ~conn["tcp"].attached /\ Crashes

(* A read fails: the session hears of it, unless it has been stopped.      *)
TcpFails ==
    /\ RunsAt("tcp", "read")
    /\ IF conn["tcp"].attached /\ ~conn["tcp"].stopped
         THEN OnNotReady ELSE UNCHANGED sessionVars
    /\ Goto("tcp", "done")
    /\ UNCHANGED <<appVars, packetVars, crashed>>

(* OnPacketReceived asserts that there is a session, which nothing locks,  *)
(* and takes the pointer, for a result into the result itself ...          *)
TcpPacket ==
    /\ RunsAt("tcp", "packet")
    /\ IF conn["tcp"].attached
         THEN /\ Goto("tcp", "execute")
              /\ UNCHANGED <<appVars, sessionVars, packetVars, crashed>>
         ELSE Crashes

(* ... and uses it, whether the connection still has its session or not.   *)
TcpExecute ==
    /\ RunsAt("tcp", "execute")
    /\ OnPacketReceived("tcp")

-----------------------------------------------------------------------------
(* FastConnection                                                          *)

(* The callback of BeginConnect locks sendMutex and sessionMutex, and the  *)
(* loop of DoLogin sends the log-in until ReliableAndFastSend is reached.  *)
BeginLogin ==
    /\ RunsAt("udp", "lock") /\ SendMutexFree
    /\ conn' = [conn EXCEPT
                  !["udp"].pc = IF conn["udp"].attached THEN "wait" ELSE "done",
                  !["udp"].loggedIn = conn["udp"].attached
                                       /\ state < ReliableAndFastSend]
    /\ UNCHANGED <<appVars, sessionVars, packetVars, crashed>>

(* OnReady(true): a session that was not ready tells its peers; if that    *)
(* fails, OnReady(false) is called in between.                             *)
OnReady ==
    /\ ready' = TRUE
    /\ \/ queue' = Append(queue, OnReadyCommand(TRUE))
       \/ /\ ~ready /\ CanSend
          /\ queue' = queue \o <<OnReadyCommand(FALSE), OnReadyCommand(TRUE)>>

(* Mutant: the log-in is over with the reliable one.                       *)
EndLogin_Reliable ==
    /\ RunsAt("udp", "wait") /\ state >= ReliableOnly
    /\ OnReady
    /\ Goto("udp", "begin")
    /\ UNCHANGED <<appVars, state, packetVars, crashed>>

EndLogin ==
    /\ RunsAt("udp", "wait") /\ state >= ReliableAndFastSend
    /\ OnReady
    /\ Goto("udp", "begin")
    /\ UNCHANGED <<appVars, state, packetVars, crashed>>

(* The log-in cannot be sent, which ends DoLogin, too.                     *)
FailLogin ==
    /\ RunsAt("udp", "wait") /\ state < ReliableAndFastSend
    /\ Goto("udp", "begin")
    /\ UNCHANGED <<appVars, sessionVars, packetVars, crashed>>

(* BeginReceive: nothing arrives for 100 ms, or the socket is torn down,   *)
(* and the thread ends.                                                    *)
BeginReceiveEnds ==
    /\ RunsAt("udp", "begin")
    /\ Goto("udp", "done")
    /\ UNCHANGED <<appVars, sessionVars, packetVars, crashed>>

(* Mutant: a packet is handled without asking whether there is a session.  *)
ReadBuffer_Detached ==
    /\ RunsAt("udp", "packet")
    /\ OnPacketReceived("udp")

(* ReadBuffer, under sessionMutex, and the way back to the next read.      *)
ReadBuffer ==
    /\ RunsAt("udp", "packet")
    /\ IF conn["udp"].attached
         THEN OnPacketReceived("udp")
         ELSE /\ Goto("udp", "done")
              /\ UNCHANGED <<appVars, sessionVars, packetVars, crashed>>

(* SyncReceive fails; Recv begins to receive again.                        *)
UdpFails ==
    /\ RunsAt("udp", "read")
    /\ Goto("udp", IF conn["udp"].attached /\ ~conn["udp"].stopped
                     THEN "begin" ELSE "done")
    /\ UNCHANGED <<appVars, sessionVars, packetVars, crashed>>

-----------------------------------------------------------------------------
(* The threads, and the fairness of scheduling them                        *)

(* What the application goes through once it is in a call.                 *)
InCall ==
    \/ CheckPasses \/ CheckFails \/ Execute \/ NothingToExecute \/ Poll
    \/ Send
    \/ Lock \/ Stopped \/ ConnectReliable
    \/ \E c \in Route :
         SkipConnection(c) \/ StopConnection(c) \/ StopInternal(c)
           \/ Teardown(c) \/ Join(c)

Application == UpdateBegin \/ SendBegin \/ Stop \/ InCall

Receive(c) ==
    \/ ConnectFails(c) \/ Connects(c) \/ Answer(c)
    \/ \E packet \in Packet : Reads(c, packet)

TcpThread ==
    Receive("tcp") \/ LogIn \/ Report \/ TcpFails \/ TcpPacket \/ TcpExecute

UdpThread ==
    \/ Receive("udp")
    \/ BeginLogin \/ EndLogin \/ FailLogin \/ BeginReceiveEnds
    \/ ReadBuffer \/ UdpFails

Next == Application \/ TcpThread \/ UdpThread

Spec == Init /\ [][Next]_vars

(* A thread that waits for the network may do so for ever.                 *)
WaitsForNetwork(c) ==
    \/ At(c, "connect") /\ ~conn[c].tearing
    \/ At(c, "read") /\ conn[c].open

(* Every thread is scheduled.  A log-in that is not answered need not fail.*)
Fairness ==
    /\ WF_vars(InCall)
    /\ WF_vars(~WaitsForNetwork("tcp") /\ TcpThread)
    /\ WF_vars(~WaitsForNetwork("udp") /\ UdpThread /\ ~FailLogin)

FairSpec == Spec /\ Fairness

-----------------------------------------------------------------------------
(* Properties                                                              *)

TypeOK ==
    /\ app \in AppPc /\ todo \in Seq(Route \cup {"connect", "return"})
    /\ running \in BOOLEAN /\ connects \in 1..MaxConnects
    /\ ready \in BOOLEAN /\ state \in ConnectState
    /\ queue \in Seq(Command)
    /\ conn \in [Route -> Connection]
    /\ received \in [Route -> Nat] /\ executed \in [Route -> Nat]
    /\ \A r \in Route : executed[r] <= received[r]
    /\ crashed \in BOOLEAN

(* The positions in the queue of the packets of a route.                   *)
Waiting(r) == {i \in 1..Len(queue) : queue[i].from = r}

(* The packets of a route are executed in the order in which they arrived, *)
(* each one once: those in the queue follow the one executed last and end  *)
(* with the one received last, whichever threads have queued in between.   *)
InOrder ==
    \A r \in Route :
       /\ {queue[i].n : i \in Waiting(r)} = executed[r] + 1 .. received[r]
       /\ \A i, j \in Waiting(r) : i < j => queue[i].n < queue[j].n

(* After StopInternal a connection begins nothing with its session any     *)
(* more, though its thread may still be running.  The FastConnection,      *)
(* which looks and acts under sessionMutex, leaves the session as it is.   *)
(* The reliable one, which does not, may still end what it had begun: one  *)
(* packet, or the report of one failure.                                   *)
DetachedIsSilent ==
    [][\A c \in Route :
          ~conn[c].attached /\ conn'[c].pc # conn[c].pc
             => /\ conn'[c].pc \notin {"execute", "report"}
                /\ \/ UNCHANGED sessionVars
                   \/ c = "tcp" /\ conn[c].pc \in {"execute", "report"}]_vars

(* OnReady(true) means that the server knows the player by both routes,    *)
(* whatever has been lost, stopped or connected again since.               *)
ReadyMeansFast == ready => state >= ReliableAndFastSend

(* ConnectFast never replaces a FastConnection: the thread of the reliable *)
(* connection would destroy it, and wait for its thread.                   *)
FastIsReplacedByNone ==
    At("tcp", "execute") /\ conn["tcp"].packet = "LoginResult"
      => ~conn["udp"].exists

(* Once Stop has returned there is no reliable connection, and none is     *)
(* made by the Updates that follow.                                        *)
StopIsFinal ==
    ~running /\ app \in {"idle", "check", "execute", "poll", "send"}
       => ~conn["tcp"].exists /\ conn["tcp"].pc = "done"

(* The application waits for the thread of a connection to end, or for a   *)
(* lock it holds ...                                                       *)
AppWaitsFor(c) ==
    \/ app = "join" /\ Stopping(c) /\ ~At(c, "done")
    \/ app = "detach" /\ Stopping(c) /\ c = "udp" /\ ~FastMutexFree
    \/ app \in {"poll", "send", "lock"} /\ c = "udp" /\ LoggingIn

(* ... which in turn waits for the sendMutex of the application.           *)
WaitsForApp(c) == AppHoldsSendMutex /\ (At(c, "lock") \/ At(c, "answer"))

Deadlock == \E c \in Route : AppWaitsFor(c) /\ WaitsForApp(c)

(* No call of the application hangs but for three reasons: the program has *)
(* crashed, two threads wait for each other, or the log-in over UDP, which *)
(* holds sendMutex, is never answered.                                     *)
CallsReturn ==
    \/ []<>(app = "idle")
    \/ <>[](crashed \/ Deadlock)
    \/ <>[](LoggingIn /\ state < ReliableAndFastSend)

(* FastConnection locks "sessionSendMutex first to avoid ABA deadlock"     *)
(* (FastConnection.cpp:22).  Violated: Stop joins the thread while it      *)
(* holds the mutex, for which the thread waits; and ReadBuffer holds       *)
(* sessionMutex when an answer waits for sendMutex.                        *)
NoDeadlock == ~Deadlock
=============================================================================
