-------------------------- MODULE RTSession_proofs --------------------------
(* Proofs about RTSession, for any number of packets, of queued actions    *)
(* and of reconnections.                                                   *)
EXTENDS RTSession, TLAPS

-----------------------------------------------------------------------------
(* The inductive invariant                                                 *)

(* What CheckConnection, or Stop, still has to do.                         *)
ReconnectPlans ==
    {<<"tcp", "udp", "connect">>, <<"udp", "connect">>, <<"connect">>}

StopPlans == {<<"udp", "tcp", "return">>, <<"tcp", "return">>, <<"return">>}

(* The application holds sendMutex, or waits for it, when it has a plan.   *)
Plans ==
    /\ todo \in {<<>>} \cup ReconnectPlans \cup StopPlans
    /\ todo # <<>> <=> app = "lock" \/ AppHoldsSendMutex
    /\ todo \in ReconnectPlans \/ app = "check" => running
    /\ todo \in ReconnectPlans => connects < MaxConnects
    /\ todo \in StopPlans => ~running

(* The connection the application is in the middle of stopping.            *)
BeingStopped(c) == app \in {"detach", "teardown", "join"} /\ Stopping(c)

(* The plans keep their order: which connections are gone, and when.       *)
Gone ==
    /\ \A c \in Route : ~conn[c].exists => At(c, "done")
    /\ \A c \in Route : BeingStopped(c) => conn[c].exists
    /\ app \in {"detach", "teardown", "join"} => \E c \in Route : Stopping(c)
    /\ todo \in {<<"udp", "connect">>, <<"connect">>, <<"return">>}
         => ~conn["tcp"].exists
    /\ todo = <<"connect">> => ~conn["udp"].exists
    /\ ~running /\ todo = <<>> => ~conn["tcp"].exists

(* One thread has sendMutex, and only it can have taken a session away.    *)
Locks ==
    /\ ~(AppHoldsSendMutex /\ LoggingIn)
    /\ \A c \in Route : ~conn[c].attached => BeingStopped(c)

(* The thread has read a packet that has not been handled.                 *)
HasPacket(c) == conn[c].pc \in {"packet", "execute"}

(* A FastConnection comes from a LoginResult, which comes once.            *)
LogsInOnce ==
    /\ conn["tcp"].exists /\ ~conn["tcp"].loggedIn => ~conn["udp"].exists
    /\ \A c \in Route : HasPacket(c) /\ conn[c].packet = "LoginResult"
                          => c = "tcp" /\ ~conn[c].loggedIn

(* Packets are counted before they are queued.                             *)
Counted ==
    \A i \in 1..Len(queue) :
       queue[i].from \in Route => queue[i].n <= received[queue[i].from]

Inv ==
    /\ TypeOK /\ Plans /\ Gone /\ Locks /\ LogsInOnce /\ Counted
    /\ ReadyMeansFast

-----------------------------------------------------------------------------
(* The values of the model have their types                                *)

(* What is done with a plan.                                               *)
LEMMA PlanSteps ==
    ASSUME Plans, NEW c, Stopping(c)
    PROVE  \/ /\ c = "tcp" /\ todo = <<"tcp", "udp", "connect">>
              /\ Tail(todo) = <<"udp", "connect">> /\ Last(todo) = "connect"
           \/ /\ c = "udp" /\ todo = <<"udp", "connect">>
              /\ Tail(todo) = <<"connect">> /\ Last(todo) = "connect"
           \/ /\ c = "connect" /\ todo = <<"connect">>
              /\ Tail(todo) = <<>> /\ Last(todo) = "connect"
           \/ /\ c = "udp" /\ todo = <<"udp", "tcp", "return">>
              /\ Tail(todo) = <<"tcp", "return">> /\ Last(todo) = "return"
           \/ /\ c = "tcp" /\ todo = <<"tcp", "return">>
              /\ Tail(todo) = <<"return">> /\ Last(todo) = "return"
           \/ /\ c = "return" /\ todo = <<"return">>
              /\ Tail(todo) = <<>> /\ Last(todo) = "return"
<1>0. todo \in {<<>>} \cup ReconnectPlans \cup StopPlans /\ todo # <<>>
  BY DEF Plans, Stopping
<1>1. \/ todo = <<"tcp", "udp", "connect">> \/ todo = <<"udp", "connect">>
      \/ todo = <<"connect">> \/ todo = <<"udp", "tcp", "return">>
      \/ todo = <<"tcp", "return">> \/ todo = <<"return">>
  BY <1>0 DEF ReconnectPlans, StopPlans
<1>2. Head(todo) = c
  BY DEF Stopping
<1>3. CASE todo = <<"tcp", "udp", "connect">>
  <2>1. Head(todo) = "tcp" /\ Last(todo) = "connect"
    BY <1>3 DEF Last
  <2>2. Tail(todo) = <<"udp", "connect">>
    BY <1>3
  <2> QED
    BY <1>2, <1>3, <2>1, <2>2
<1>4. CASE todo = <<"udp", "connect">>
  <2>1. Head(todo) = "udp" /\ Last(todo) = "connect"
    BY <1>4 DEF Last
  <2>2. Tail(todo) = <<"connect">>
    BY <1>4
  <2> QED
    BY <1>2, <1>4, <2>1, <2>2
<1>5. CASE todo = <<"connect">>
  <2>1. Head(todo) = "connect" /\ Last(todo) = "connect"
    BY <1>5 DEF Last
  <2>2. Tail(todo) = <<>>
    BY <1>5
  <2> QED
    BY <1>2, <1>5, <2>1, <2>2
<1>6. CASE todo = <<"udp", "tcp", "return">>
  <2>1. Head(todo) = "udp" /\ Last(todo) = "return"
    BY <1>6 DEF Last
  <2>2. Tail(todo) = <<"tcp", "return">>
    BY <1>6
  <2> QED
    BY <1>2, <1>6, <2>1, <2>2
<1>7. CASE todo = <<"tcp", "return">>
  <2>1. Head(todo) = "tcp" /\ Last(todo) = "return"
    BY <1>7 DEF Last
  <2>2. Tail(todo) = <<"return">>
    BY <1>7
  <2> QED
    BY <1>2, <1>7, <2>1, <2>2
<1>8. CASE todo = <<"return">>
  <2>1. Head(todo) = "return" /\ Last(todo) = "return"
    BY <1>8 DEF Last
  <2>2. Tail(todo) = <<>>
    BY <1>8
  <2> QED
    BY <1>2, <1>8, <2>1, <2>2
<1> QED
  BY <1>1, <1>3, <1>4, <1>5, <1>6, <1>7, <1>8

(* Plans with different first steps or lengths are different.              *)
LEMMA PlansDiffer ==
    /\ <<"tcp", "udp", "connect">> # <<>>
    /\ <<"tcp", "udp", "connect">> # <<"udp", "connect">>
    /\ <<"tcp", "udp", "connect">> # <<"connect">>
    /\ <<"tcp", "udp", "connect">> # <<"return">>
    /\ <<"udp", "connect">> # <<>>
    /\ <<"udp", "connect">> # <<"connect">>
    /\ <<"udp", "connect">> # <<"tcp", "return">>
    /\ <<"udp", "connect">> # <<"return">>
    /\ <<"udp", "connect">> # <<"udp", "tcp", "return">>
    /\ <<"connect">> # <<>>
    /\ <<"connect">> # <<"return">>
    /\ <<"connect">> # <<"tcp", "return">>
    /\ <<"connect">> # <<"udp", "tcp", "return">>
    /\ <<"return">> # <<>>
    /\ <<"return">> # <<"tcp", "return">>
    /\ <<"return">> # <<"udp", "tcp", "return">>
    /\ <<"tcp", "return">> # <<>>
    /\ <<"udp", "tcp", "return">> # <<>>
OBVIOUS

(* A new value for some fields of a connection is a connection.            *)
LEMMA ConnectionTypes ==
    /\ FreshConnection \in Connection
    /\ NoConnection \in Connection
BY DEF FreshConnection, NoConnection, Connection, Packet

(* The initial state has it.                                               *)
LEMMA InvInit == Init => Inv
<1> SUFFICES ASSUME Init PROVE Inv
  OBVIOUS
<1> USE DEF Init
<1>1. TypeOK
  <2>1. todo \in Seq(Route \cup {"connect", "return"}) /\ queue \in Seq(Command)
    OBVIOUS
  <2>2. connects \in 1..MaxConnects
    BY ConnectsAssumption
  <2>3. conn \in [Route -> Connection]
    BY ConnectionTypes DEF Route
  <2>4. /\ received \in [Route -> Nat] /\ executed \in [Route -> Nat]
        /\ \A r \in Route : executed[r] <= received[r]
    OBVIOUS
  <2> QED
    BY <2>1, <2>2, <2>3, <2>4 DEF TypeOK, AppPc, ConnectState, Disconnected
<1>2. Plans
  <2>1. <<>> \notin StopPlans /\ <<>> \notin ReconnectPlans
    BY PlansDiffer DEF StopPlans, ReconnectPlans
  <2> QED
    BY <2>1 DEF Plans, AppHoldsSendMutex
<1>3. Gone /\ LogsInOnce /\ Locks
  <2>1. /\ conn["tcp"] = FreshConnection
        /\ conn["udp"] = [FreshConnection EXCEPT !.exists = FALSE, !.pc = "done"]
    BY DEF NoConnection
  <2>2. /\ conn["tcp"].exists /\ conn["tcp"].pc = "connect" /\ conn["tcp"].attached
        /\ ~conn["udp"].exists /\ conn["udp"].pc = "done" /\ conn["udp"].attached
    BY <2>1 DEF FreshConnection
  <2>3. todo \notin {<<"udp", "connect">>, <<"connect">>, <<"return">>}
    BY PlansDiffer
  <2> QED
    BY <2>2, <2>3 DEF Gone, LogsInOnce, HasPacket, Locks, BeingStopped, Route, At, LoggingIn,
                      AppHoldsSendMutex
<1>4. Counted /\ ReadyMeansFast
  BY DEF Counted, ReadyMeansFast
<1> QED
  BY <1>1, <1>2, <1>3, <1>4 DEF Inv

(* A step keeps the types of what only the application's thread sets.      *)
LEMMA AppTypes ==
    ASSUME TypeOK, Plans, InCall \/ UpdateBegin \/ SendBegin \/ Stop
    PROVE  /\ app' \in AppPc /\ todo' \in Seq(Route \cup {"connect", "return"})
           /\ running' \in BOOLEAN /\ connects' \in 1..MaxConnects
<1>1. /\ app \in AppPc /\ todo \in Seq(Route \cup {"connect", "return"})
      /\ running \in BOOLEAN /\ connects \in 1..MaxConnects
  BY DEF TypeOK
<1> USE DEF AppPc, AppMoves
<1>2. CASE UpdateBegin
  BY <1>1, <1>2 DEF UpdateBegin
<1>3. CASE CheckPasses
  BY <1>1, <1>3 DEF CheckPasses
<1>4. CASE CheckFails
  BY <1>1, <1>4 DEF CheckFails, Route
<1>5. CASE Execute
  BY <1>1, <1>5 DEF Execute, appVars
<1>6. CASE NothingToExecute
  BY <1>1, <1>6 DEF NothingToExecute
<1>7. CASE Poll
  BY <1>1, <1>7 DEF Poll
<1>8. CASE SendBegin
  BY <1>1, <1>8 DEF SendBegin
<1>9. CASE Send
  BY <1>1, <1>9 DEF Send
<1>10. CASE Stop
  <2>1. todo' = <<"udp", "tcp", "return">>
    BY <1>10 DEF Stop
  <2>2. todo' \in Seq(Route \cup {"connect", "return"})
    BY <2>1 DEF Route
  <2> QED
    BY <1>1, <1>10, <2>2 DEF Stop
<1>11. CASE Lock
  BY <1>1, <1>11 DEF Lock
<1>12. CASE Stopped
  BY <1>1, <1>12 DEF Stopped
<1>13. CASE ConnectReliable
  <2>1. connects < MaxConnects
    BY <1>13 DEF ConnectReliable, Plans, ReconnectPlans
  <2> QED
    BY <1>1, <1>13, <2>1, ConnectsAssumption DEF ConnectReliable
<1>14. CASE \E c \in Route : SkipConnection(c)
  BY <1>1, <1>14 DEF SkipConnection, Stopping
<1>15. CASE \E c \in Route : StopConnection(c) \/ StopInternal(c) \/ Teardown(c)
  BY <1>1, <1>15 DEF StopConnection, StopInternal, Teardown
<1>16. CASE \E c \in Route : Join(c)
  BY <1>1, <1>16 DEF Join, Stopping
<1> QED
  BY <1>2, <1>3, <1>4, <1>5, <1>6, <1>7, <1>8, <1>9, <1>10, <1>11, <1>12, <1>13,
     <1>14, <1>15, <1>16 DEF InCall

(* The cases of OnPacketReceived are the packets there are.                *)
LEMMA PacketCases ==
    ASSUME TypeOK, NEW c \in Route, OnPacketReceived(c)
    PROVE  /\ \/ conn[c].packet = "data" /\ ReceiveData(c)
              \/ conn[c].packet = "FastLoginResult" /\ ReceiveFastLoginResult(c)
              \/ conn[c].packet = "UDPConnectMessage" /\ ReceiveUDPConnectMessage(c)
              \/ conn[c].packet = "LoginResult" /\ ReceiveLoginResult(c)
           /\ UNCHANGED <<appVars, executed, crashed>>
<1>1. conn[c].packet \in Packet
  BY DEF TypeOK, Connection
<1> QED
  BY <1>1 DEF OnPacketReceived, Packet

(* A step keeps the types of the connections.                              *)
LEMMA ConnectionStep ==
    ASSUME TypeOK, Next
    PROVE  conn' \in [Route -> Connection]
<1>1. conn \in [Route -> Connection]
  BY DEF TypeOK
<1>2. ASSUME NEW c \in Route, NEW d \in Connection, conn' = [conn EXCEPT ![c] = d]
      PROVE  conn' \in [Route -> Connection]
  BY <1>1, <1>2
<1>3. ASSUME NEW c \in Route,
             NEW p \in {"connect", "login", "report", "lock", "wait", "begin", "read",
                        "packet", "execute", "answer", "done"},
             Goto(c, p)
      PROVE  conn' \in [Route -> Connection]
  BY <1>1, <1>3 DEF Goto, Connection
<1>4. \A c \in Route : NextRead(c) \in {"done", "read"}
  BY DEF NextRead
<1>5. ASSUME NEW c \in Route, OnPacketReceived(c)
      PROVE  conn' \in [Route -> Connection]
  <2>1. CASE ReceiveLoginResult(c)
    <3>1. FreshConnection \in Connection /\ "udp" \in Route
      BY ConnectionTypes DEF Route
    <3>2. [conn[c] EXCEPT !.pc = NextRead(c), !.loggedIn = TRUE] \in Connection
      BY <1>1, <1>4 DEF Connection
    <3> QED
      BY <1>1, <2>1, <3>1, <3>2 DEF ReceiveLoginResult
  <2>2. CASE Goto(c, NextRead(c)) \/ Goto(c, "answer")
    BY <1>3, <1>4, <2>2
  <2> QED
    BY <1>5, <2>1, <2>2, PacketCases
       DEF ReceiveData, ReceiveFastLoginResult, ReceiveUDPConnectMessage
<1>6. CASE Application
  <2>1. CASE \E c \in Route : StopConnection(c)
    <3> PICK c \in Route : StopConnection(c)
      BY <2>1
    <3> DEFINE b == conn[c].stopped \/ Last(todo) = "return"
    <3>1. b \in BOOLEAN
      OBVIOUS
    <3>2. conn' = [conn EXCEPT ![c].stopped = b]
      BY DEF StopConnection
    <3> HIDE DEF b
    <3> QED
      BY <1>1, <3>1, <3>2 DEF Connection
  <2>2. CASE \E c \in Route : StopInternal(c)
    <3> PICK c \in Route : StopInternal(c)
      BY <2>2
    <3> DEFINE b == conn[c].open /\ c = "udp"
    <3>1. b \in BOOLEAN
      OBVIOUS
    <3>2. conn' = [conn EXCEPT ![c].attached = FALSE, ![c].open = b]
      BY DEF StopInternal
    <3> HIDE DEF b
    <3> QED
      BY ZenonT(40), <1>1, <3>1, <3>2 DEF Connection
  <2>3. CASE \E c \in Route : Teardown(c)
    <3> PICK c \in Route : Teardown(c)
      BY <2>3
    <3>1. conn' = [conn EXCEPT ![c].tearing = TRUE, ![c].open = FALSE]
      BY DEF Teardown
    <3> QED
      BY ZenonT(40), <1>1, <3>1 DEF Connection
  <2>4. CASE \E c \in Route : Join(c)
    BY <1>2, <2>4, ConnectionTypes DEF Join
  <2>5. CASE ConnectReliable
    BY <1>2, <2>5, ConnectionTypes DEF ConnectReliable, Route
  <2>6. CASE UNCHANGED conn
    BY <1>1, <2>6
  <2> QED
    BY <1>6, <2>1, <2>2, <2>3, <2>4, <2>5, <2>6
       DEF Application, InCall, UpdateBegin, CheckPasses, CheckFails, Execute,
           NothingToExecute, Poll, SendBegin, Send, Stop, Lock, Stopped, SkipConnection
<1>7. CASE \E c \in Route : Receive(c)
  <2> PICK c \in Route : Receive(c)
    BY <1>7
  <2>1. CASE ConnectFails(c)
    BY <1>3, <2>1 DEF ConnectFails
  <2>2. CASE Connects(c)
    <3> DEFINE b == ~(c = "tcp" /\ conn[c].stopped)
               p == CASE c = "udp" -> "lock"
                      [] conn[c].stopped -> "done"
                      [] OTHER -> "login"
    <3>1. b \in BOOLEAN /\ p \in {"lock", "done", "login"}
      OBVIOUS
    <3>2. conn' = [conn EXCEPT ![c].open = b, ![c].pc = p]
      BY <2>2 DEF Connects
    <3> HIDE DEF b, p
    <3>3. [conn[c] EXCEPT !.open = b, !.pc = p] \in Connection
      BY <1>1, <3>1 DEF Connection
    <3> QED
      BY ZenonT(40), <1>2, <3>2, <3>3
  <2>3. CASE Answer(c)
    BY <1>3, <1>4, <2>3 DEF Answer
  <2>4. CASE \E packet \in Packet : Reads(c, packet)
    <3> PICK packet \in Packet : Reads(c, packet)
      BY <2>4
    <3> DEFINE p == IF c = "tcp" /\ ~conn[c].attached THEN "done" ELSE "packet"
    <3>1. p \in {"done", "packet"}
      OBVIOUS
    <3>2. conn' = [conn EXCEPT ![c].pc = p, ![c].packet = packet]
      BY DEF Reads
    <3> HIDE DEF p
    <3> QED
      BY ZenonT(40), <1>1, <3>1, <3>2 DEF Connection
  <2> QED
    BY <2>1, <2>2, <2>3, <2>4 DEF Receive
<1>8. CASE LogIn \/ Report \/ TcpFails \/ TcpPacket \/ TcpExecute
  <2>1. "tcp" \in Route
    BY DEF Route
  <2>2. CASE LogIn
    BY <1>1, <1>3, <1>4, <2>1, <2>2 DEF LogIn, Crashes
  <2>3. CASE Report
    BY <1>1, <1>3, <1>4, <2>1, <2>3 DEF Report, Crashes
  <2>4. CASE TcpFails
    BY <1>3, <2>1, <2>4 DEF TcpFails
  <2>5. CASE TcpPacket
    BY <1>1, <1>3, <2>1, <2>5 DEF TcpPacket, Crashes
  <2>6. CASE TcpExecute
    BY <1>5, <2>1, <2>6 DEF TcpExecute
  <2> QED
    BY <1>8, <2>2, <2>3, <2>4, <2>5, <2>6
<1>9. CASE UdpThread /\ ~Receive("udp")
  <2>1. "udp" \in Route
    BY DEF Route
  <2>2. CASE BeginLogin
    <3> DEFINE b == conn["udp"].attached /\ state < ReliableAndFastSend
               p == IF conn["udp"].attached THEN "wait" ELSE "done"
    <3>1. b \in BOOLEAN /\ p \in {"wait", "done"}
      OBVIOUS
    <3>2. conn' = [conn EXCEPT !["udp"].pc = p, !["udp"].loggedIn = b]
      BY <2>2 DEF BeginLogin
    <3> HIDE DEF b, p
    <3>3. [conn["udp"] EXCEPT !.pc = p, !.loggedIn = b] \in Connection
      BY <1>1, <2>1, <3>1 DEF Connection
    <3> QED
      BY <1>1, <1>2, <2>1, <3>2, <3>3 DEF Connection
  <2>3. CASE EndLogin \/ FailLogin
    BY <1>3, <2>1, <2>3 DEF EndLogin, FailLogin
  <2>4. CASE BeginReceiveEnds
    BY <1>3, <2>1, <2>4 DEF BeginReceiveEnds
  <2>5. CASE ReadBuffer
    BY <1>3, <1>5, <2>1, <2>5 DEF ReadBuffer
  <2>6. CASE UdpFails
    BY <1>3, <2>1, <2>6 DEF UdpFails
  <2> QED
    BY <1>9, <2>2, <2>3, <2>4, <2>5, <2>6 DEF UdpThread
<1> QED
  BY <1>6, <1>7, <1>8, <1>9 DEF Next, TcpThread, UdpThread, Route

(* What a step may do to the session: the state never falls, and the       *)
(* session becomes ready only when the state allows it.                    *)
SessionRises ==
    /\ ready' \in BOOLEAN /\ state' \in ConnectState /\ queue' \in Seq(Command)
    /\ state <= state'
    /\ ready' => ready \/ state >= ReliableAndFastSend

(* SetConnectState never lowers the state.                                 *)
LEMMA StateRises ==
    ASSUME TypeOK, NEW s \in ConnectState, SetConnectState(s)
    PROVE  state' \in ConnectState /\ state <= state'
BY DEF TypeOK, SetConnectState, ConnectState, Disconnected, ReliableOnly,
       ReliableAndFastSend, ReliableAndFast

(* The commands that are queued; those of OnReady are no packets.          *)
LEMMA CommandTypes ==
    /\ OnReadyCommand(TRUE) \in Command /\ OnReadyCommand(TRUE).from \notin Route
    /\ OnReadyCommand(FALSE) \in Command /\ OnReadyCommand(FALSE).from \notin Route
    /\ \A c \in Route, n \in Nat : [from |-> c, n |-> n] \in Command
BY DEF OnReadyCommand, Command, Route

(* SubmitAction, once and twice.                                           *)
LEMMA Submitted ==
    ASSUME NEW q \in Seq(Command), NEW c \in Command, NEW d \in Command
    PROVE  Append(q, c) \in Seq(Command) /\ q \o <<c, d>> \in Seq(Command)
OBVIOUS

(* OnReady(false) keeps the state.                                         *)
LEMMA OnNotReadyRises ==
    ASSUME TypeOK, OnNotReady
    PROVE  SessionRises
<1>1. state' \in ConnectState /\ state <= state'
  BY StateRises DEF OnNotReady, ConnectState
<1>2. queue' \in Seq(Command)
  BY CommandTypes, Submitted, Zenon DEF OnNotReady, TypeOK
<1> QED
  BY <1>1, <1>2 DEF OnNotReady, SessionRises

(* So does a message that is sent, dropped or fails.                       *)
LEMMA SendDataRises ==
    ASSUME TypeOK, SendData
    PROVE  SessionRises
<1>1. CASE UNCHANGED sessionVars
  BY <1>1 DEF SessionRises, sessionVars, TypeOK, ConnectState, Disconnected,
              ReliableOnly, ReliableAndFastSend, ReliableAndFast
<1> QED
  BY <1>1, OnNotReadyRises DEF SendData

(* Every step keeps the types of the session, and its state.               *)
LEMMA SessionStep ==
    ASSUME TypeOK, Next
    PROVE  SessionRises
<1>1. CASE UNCHANGED sessionVars \/ SendData
  BY <1>1, SendDataRises DEF SendData
<1>2. /\ ready \in BOOLEAN /\ state \in ConnectState /\ queue \in Seq(Command)
      /\ received \in [Route -> Nat] /\ state <= state
  BY DEF TypeOK, ConnectState, Disconnected, ReliableOnly, ReliableAndFastSend,
         ReliableAndFast
<1>3. CASE OnNotReady
  BY <1>3, OnNotReadyRises
<1>4. CASE Execute
  BY <1>2, <1>4 DEF Execute, SessionRises
<1>5. CASE Stop
  BY <1>2, <1>5 DEF Stop, SessionRises
<1>6. CASE EndLogin
  <2>1. queue' \in Seq(Command)
    <3>1. Append(queue, OnReadyCommand(TRUE)) \in Seq(Command)
      BY <1>2, CommandTypes, Submitted, Zenon
    <3>2. queue \o <<OnReadyCommand(FALSE), OnReadyCommand(TRUE)>> \in Seq(Command)
      BY <1>2, CommandTypes, Submitted, Zenon
    <3> QED
      BY <1>6, <3>1, <3>2 DEF EndLogin, OnReady
  <2> QED
    BY <1>2, <1>6, <2>1 DEF EndLogin, OnReady, SessionRises
<1>7. ASSUME NEW c \in Route, OnPacketReceived(c)
      PROVE  SessionRises
  <2>1. CASE ReceiveData(c)
    <3>1. queue' \in Seq(Command)
      BY <1>2, <2>1, CommandTypes DEF ReceiveData
    <3> QED
      BY <1>2, <2>1, <3>1 DEF ReceiveData, SessionRises
  <2>2. ASSUME NEW s \in ConnectState, SetConnectState(s), UNCHANGED <<ready, queue>>
        PROVE  SessionRises
    BY <1>2, <2>2, StateRises DEF SessionRises
  <2> QED
    BY <1>7, <2>1, <2>2, PacketCases
       DEF ReceiveFastLoginResult, ReceiveUDPConnectMessage, ReceiveLoginResult,
           ConnectState
<1>8. CASE Application
  BY <1>1, <1>4, <1>5, <1>8
     DEF Application, InCall, UpdateBegin, CheckPasses, CheckFails, NothingToExecute,
         Poll, SendBegin, Send, Lock, Stopped, ConnectReliable, SkipConnection,
         StopConnection, StopInternal, Teardown, Join
<1>9. CASE \E c \in Route : Receive(c)
  BY <1>1, <1>9 DEF Receive, ConnectFails, Connects, Answer, Reads
<1>10. CASE LogIn \/ Report \/ TcpFails \/ TcpPacket
  BY <1>1, <1>3, <1>10 DEF LogIn, Report, TcpFails, TcpPacket, Crashes
<1>11. CASE TcpExecute
  BY <1>7, <1>11 DEF TcpExecute, Route
<1>12. CASE ReadBuffer
  BY <1>1, <1>7, <1>12 DEF ReadBuffer, Route
<1>13. CASE BeginLogin \/ FailLogin \/ BeginReceiveEnds \/ UdpFails
  BY <1>1, <1>13 DEF BeginLogin, FailLogin, BeginReceiveEnds, UdpFails
<1> QED
  BY <1>6, <1>8, <1>9, <1>10, <1>11, <1>12, <1>13 DEF Next, TcpThread, UdpThread, Route

(* What a step does to the counts, and Counted.                            *)
CountsKept ==
    /\ received' \in [Route -> Nat] /\ executed' \in [Route -> Nat]
    /\ \A r \in Route : executed'[r] <= received'[r]
    /\ Counted'

(* OnReady(false) queues no packet.                                        *)
LEMMA CountedNotReady ==
    ASSUME TypeOK, Counted, OnNotReady, UNCHANGED received
    PROVE  Counted'
<1> DEFINE c == OnReadyCommand(FALSE)
<1>1. queue \in Seq(Command) /\ c \in Command /\ c.from \notin Route
  BY CommandTypes DEF TypeOK
<1>2. queue' = Append(queue, c)
  BY DEF OnNotReady
<1> HIDE DEF c
<1>3. /\ Len(queue') = Len(queue) + 1 /\ queue'[Len(queue) + 1] = c
      /\ \A i \in 1..Len(queue) : queue'[i] = queue[i]
  BY <1>1, <1>2
<1> QED
  BY <1>1, <1>3 DEF Counted

(* OnReady(true) queues none, either.                                      *)
LEMMA CountedReady ==
    ASSUME TypeOK, Counted, OnReady, UNCHANGED received
    PROVE  Counted'
<1> DEFINE c == OnReadyCommand(FALSE)
           d == OnReadyCommand(TRUE)
<1>1. queue \in Seq(Command) /\ c \in Command /\ d \in Command
      /\ c.from \notin Route /\ d.from \notin Route
  BY CommandTypes DEF TypeOK
<1>2. queue' = Append(queue, d) \/ queue' = queue \o <<c, d>>
  BY DEF OnReady
<1> HIDE DEF c, d
<1>3. \A i \in 1..Len(queue') : (i \in 1..Len(queue) /\ queue'[i] = queue[i])
                                 \/ queue'[i] \in {c, d}
  <2>1. CASE queue' = Append(queue, d)
    BY <1>1, <2>1
  <2>2. CASE queue' = queue \o <<c, d>>
    <3>1. <<c, d>> \in Seq(Command) /\ Len(<<c, d>>) = 2
      BY <1>1
    <3>2. /\ Len(queue') = Len(queue) + 2
          /\ \A i \in 1..Len(queue) : queue'[i] = queue[i]
          /\ queue'[Len(queue) + 1] = c /\ queue'[Len(queue) + 2] = d
      BY <1>1, <2>2, <3>1
    <3> QED
      BY <1>1, <3>2
  <2> QED
    BY <1>2, <2>1, <2>2
<1> QED
  BY <1>1, <1>3 DEF Counted

(* A data packet is counted as it is queued.                               *)
LEMMA CountedData ==
    ASSUME TypeOK, Counted, NEW c \in Route, ReceiveData(c), UNCHANGED executed
    PROVE  CountsKept
<1> DEFINE d == [from |-> c, n |-> received[c] + 1]
<1>1. /\ queue \in Seq(Command) /\ received \in [Route -> Nat]
      /\ executed \in [Route -> Nat] /\ \A r \in Route : executed[r] <= received[r]
  BY DEF TypeOK
<1>2. /\ received' = [received EXCEPT ![c] = received[c] + 1]
      /\ queue' = Append(queue, d)
  BY DEF ReceiveData
<1>3. d \in Command /\ d.from = c /\ d.n = received[c] + 1
  BY <1>1 DEF Command
<1> HIDE DEF d
<1>4. /\ Len(queue') = Len(queue) + 1 /\ queue'[Len(queue) + 1] = d
      /\ \A i \in 1..Len(queue) : queue'[i] = queue[i]
  BY <1>1, <1>2, <1>3
<1>5. /\ received' \in [Route -> Nat] /\ received'[c] = received[c] + 1
      /\ \A r \in Route : received[r] <= received'[r]
  BY <1>1, <1>2
<1>6. Counted'
  <2>1. SUFFICES ASSUME NEW i \in 1..Len(queue'), queue'[i].from \in Route
                 PROVE  queue'[i].n <= received'[queue'[i].from]
    BY DEF Counted
  <2>2. CASE i \in 1..Len(queue)
    <3>0. queue[i] \in Command
      BY <1>1, <2>2
    <3>1. queue[i].n \in Nat
      BY <3>0 DEF Command
    <3>2. queue'[i] = queue[i] /\ queue[i].n <= received[queue[i].from]
      BY <1>4, <2>1, <2>2 DEF Counted
    <3> QED
      BY <1>1, <1>5, <2>1, <3>1, <3>2
  <2>3. CASE i = Len(queue) + 1
    BY <1>1, <1>3, <1>4, <1>5, <2>3
  <2> QED
    BY <1>1, <1>4, <2>2, <2>3
<1> QED
  BY <1>1, <1>5, <1>6 DEF CountsKept

(* What is executed was counted.                                           *)
LEMMA CountedExecute ==
    ASSUME TypeOK, Counted, Execute
    PROVE  CountsKept
<1> DEFINE h == Head(queue)
<1>1. /\ queue \in Seq(Command) /\ received \in [Route -> Nat]
      /\ executed \in [Route -> Nat] /\ \A r \in Route : executed[r] <= received[r]
  BY DEF TypeOK
<1>2. queue # <<>> /\ queue' = Tail(queue) /\ Executed(h) /\ received' = received
  BY DEF Execute
<1>3. h \in Command /\ h = queue[1] /\ 1 \in 1..Len(queue)
  BY <1>1, <1>2
<1>4. h.from \in Route => h.n <= received[h.from]
  BY <1>3 DEF Counted
<1>5. /\ executed' \in [Route -> Nat]
      /\ \A r \in Route : executed'[r] <= received'[r]
  <2> HIDE DEF h
  <2>1. executed' = [r \in Route |-> IF h.from = r THEN h.n ELSE executed[r]]
    BY <1>2 DEF Executed
  <2>2. h.n \in Nat
    BY <1>3 DEF Command
  <2> QED
    BY <1>1, <1>2, <1>4, <2>1, <2>2
<1>6. Counted'
  <2>1. /\ Len(queue') = Len(queue) - 1
        /\ \A i \in 1..Len(queue') : queue'[i] = queue[i + 1] /\ i + 1 \in 1..Len(queue)
    BY <1>1, <1>2
  <2> QED
    BY <1>2, <2>1 DEF Counted
<1> QED
  BY <1>1, <1>2, <1>5, <1>6 DEF CountsKept

(* A step keeps the counts.                                                *)
LEMMA CountsStep ==
    ASSUME TypeOK, Counted, Next
    PROVE  CountsKept
<1>1. /\ received \in [Route -> Nat] /\ executed \in [Route -> Nat]
      /\ \A r \in Route : executed[r] <= received[r]
  BY DEF TypeOK
<1>2. ASSUME UNCHANGED <<queue, packetVars>> PROVE CountsKept
  BY <1>1, <1>2 DEF CountsKept, Counted, packetVars
<1>3. ASSUME OnNotReady, UNCHANGED packetVars PROVE CountsKept
  BY <1>1, <1>3, CountedNotReady DEF CountsKept, packetVars
<1>4. ASSUME SendData, UNCHANGED packetVars PROVE CountsKept
  BY <1>2, <1>3, <1>4 DEF SendData, sessionVars
<1>5. CASE EndLogin
  BY <1>1, <1>5, CountedReady DEF EndLogin, CountsKept, packetVars
<1>6. ASSUME NEW c \in Route, OnPacketReceived(c)
      PROVE  CountsKept
  BY <1>2, <1>6, CountedData, PacketCases
     DEF ReceiveFastLoginResult, ReceiveUDPConnectMessage, ReceiveLoginResult, packetVars
<1>7. CASE Application
  <2>1. CASE Execute
    BY <2>1, CountedExecute
  <2>2. CASE Send
    BY <1>4, <2>2 DEF Send
  <2> QED
    BY <1>2, <1>7, <2>1, <2>2
       DEF Application, InCall, UpdateBegin, CheckPasses, CheckFails, NothingToExecute,
           Poll, SendBegin, Stop, Lock, Stopped, ConnectReliable, SkipConnection,
           StopConnection, StopInternal, Teardown, Join, sessionVars
<1>8. CASE \E c \in Route : Receive(c)
  BY <1>2, <1>4, <1>8 DEF Receive, ConnectFails, Connects, Answer, Reads, sessionVars
<1>9. CASE LogIn \/ Report \/ TcpFails \/ TcpPacket
  BY <1>2, <1>3, <1>9 DEF LogIn, Report, TcpFails, TcpPacket, Crashes, sessionVars
<1>10. CASE TcpExecute
  BY <1>6, <1>10 DEF TcpExecute, Route
<1>11. CASE ReadBuffer
  BY <1>2, <1>6, <1>11 DEF ReadBuffer, Route, sessionVars
<1>12. CASE BeginLogin \/ FailLogin \/ BeginReceiveEnds \/ UdpFails
  BY <1>2, <1>12 DEF BeginLogin, FailLogin, BeginReceiveEnds, UdpFails, sessionVars
<1> QED
  BY <1>5, <1>7, <1>8, <1>9, <1>10, <1>11, <1>12 DEF Next, TcpThread, UdpThread, Route

(* A step keeps the type of crashed.                                       *)
LEMMA CrashStep ==
    ASSUME TypeOK, Next
    PROVE  crashed' \in BOOLEAN
<1>1. CASE UNCHANGED crashed \/ Crashes
  BY <1>1 DEF Crashes, TypeOK
<1>2. ASSUME NEW c \in Route, OnPacketReceived(c) PROVE UNCHANGED crashed
  BY <1>2 DEF OnPacketReceived
<1>3. CASE Application
  BY <1>1, <1>3
     DEF Application, InCall, UpdateBegin, CheckPasses, CheckFails, Execute,
         NothingToExecute, Poll, SendBegin, Send, Stop, Lock, Stopped, ConnectReliable,
         SkipConnection, StopConnection, StopInternal, Teardown, Join, AppMoves
<1> QED
  BY <1>1, <1>2, <1>3
     DEF Next, TcpThread, UdpThread, Receive, ConnectFails, Connects,
         Answer, Reads, LogIn, Report, TcpFails, TcpPacket, TcpExecute, BeginLogin,
         EndLogin, FailLogin, BeginReceiveEnds, ReadBuffer, UdpFails, Route

(* A step keeps the types.                                                 *)
LEMMA TypeStep == ASSUME Inv, Next PROVE TypeOK'
<1>1. TypeOK /\ Plans /\ Counted
  BY DEF Inv
<1>2. /\ app' \in AppPc /\ todo' \in Seq(Route \cup {"connect", "return"})
      /\ running' \in BOOLEAN /\ connects' \in 1..MaxConnects
  <2>1. CASE UNCHANGED appVars
    BY <1>1, <2>1 DEF TypeOK, appVars
  <2>2. ASSUME NEW c \in Route, OnPacketReceived(c) PROVE UNCHANGED appVars
    BY <2>2 DEF OnPacketReceived
  <2>3. CASE Application
    BY <1>1, <2>3, AppTypes DEF Application
  <2> QED
    BY <2>1, <2>2, <2>3
       DEF Next, TcpThread, UdpThread, Receive, ConnectFails, Connects,
           Answer, Reads, LogIn, Report, TcpFails, TcpPacket, TcpExecute, BeginLogin,
           EndLogin, FailLogin, BeginReceiveEnds, ReadBuffer, UdpFails, Crashes, Route
<1> QED
  BY <1>1, <1>2, ConnectionStep, SessionStep, CountsStep, CrashStep
     DEF TypeOK, SessionRises, CountsKept

-----------------------------------------------------------------------------
(* The packets of a route, in their order in the queue                     *)

(* InOrder of a route and a queue: its packets are those from e + 1 to m,  *)
(* each of them once, as they ascend.                                      *)
OrderOf(q, r, e, m) ==
    /\ \A i \in 1..Len(q) : q[i].from = r => q[i].n \in e + 1 .. m
    /\ \A i, j \in 1..Len(q) :
         q[i].from = r /\ q[j].from = r /\ i < j => q[i].n < q[j].n
    /\ \A n \in e + 1 .. m : \E i \in 1..Len(q) : q[i].from = r /\ q[i].n = n

LEMMA OrderMeans ==
    ASSUME NEW q, NEW r, NEW e, NEW m
    PROVE  OrderOf(q, r, e, m)
             <=> LET w == {i \in 1..Len(q) : q[i].from = r}
                 IN  /\ {q[i].n : i \in w} = e + 1 .. m
                     /\ \A i, j \in w : i < j => q[i].n < q[j].n
<1> DEFINE w == {i \in 1..Len(q) : q[i].from = r}
           ns == {q[i].n : i \in w}
           up == e + 1 .. m
<1> HIDE DEF up
<1>1. ns = up <=> /\ \A i \in w : q[i].n \in up
                  /\ \A n \in up : \E i \in w : q[i].n = n
  OBVIOUS
<1>2. ns = up <=> /\ \A i \in 1..Len(q) : q[i].from = r => q[i].n \in up
                  /\ \A n \in up : \E i \in 1..Len(q) : q[i].from = r /\ q[i].n = n
  BY <1>1
<1>3. (\A i, j \in w : i < j => q[i].n < q[j].n)
        <=> \A i, j \in 1..Len(q) :
              q[i].from = r /\ q[j].from = r /\ i < j => q[i].n < q[j].n
  OBVIOUS
<1> QED
  BY <1>2, <1>3 DEF OrderOf, up

LEMMA InOrderOf ==
    InOrder <=> \A r \in Route : OrderOf(queue, r, executed[r], received[r])
BY OrderMeans DEF InOrder, Waiting

(* What is queued of another route, or of the session, is not seen.        *)
LEMMA OrderOthers ==
    ASSUME NEW q \in Seq(Command), NEW p \in Seq(Command), NEW r, NEW e, NEW m,
           OrderOf(q, r, e, m), Len(q) <= Len(p),
           \A i \in 1..Len(p) :
              \/ i \in 1..Len(q) /\ p[i] = q[i]
              \/ p[i].from # r,
           \A i \in 1..Len(q) : p[i] = q[i]
    PROVE  OrderOf(p, r, e, m)
<1>1. \A i \in 1..Len(p) : p[i].from = r => i \in 1..Len(q) /\ p[i] = q[i]
  OBVIOUS
<1>2. \A i \in 1..Len(q) : i \in 1..Len(p)
  OBVIOUS
<1>3. \A i \in 1..Len(p) : p[i].from = r => p[i].n \in e + 1 .. m
  BY <1>1 DEF OrderOf
<1>4. \A i, j \in 1..Len(p) :
         p[i].from = r /\ p[j].from = r /\ i < j => p[i].n < p[j].n
  BY <1>1 DEF OrderOf
<1>5. \A n \in e + 1 .. m : \E i \in 1..Len(p) : p[i].from = r /\ p[i].n = n
  BY <1>2 DEF OrderOf
<1> QED
  BY <1>3, <1>4, <1>5 DEF OrderOf

(* The next packet of the route goes to the end of the queue.              *)
LEMMA OrderAppended ==
    ASSUME NEW q \in Seq(Command), NEW r, NEW e \in Nat, NEW m \in Nat, e <= m,
           OrderOf(q, r, e, m), NEW d \in Command, d.from = r, d.n = m + 1
    PROVE  OrderOf(Append(q, d), r, e, m + 1)
<1> DEFINE p == Append(q, d)
<1>1. /\ Len(p) = Len(q) + 1 /\ p[Len(q) + 1] = d /\ Len(q) \in Nat
      /\ \A i \in 1..Len(q) : p[i] = q[i]
  OBVIOUS
<1> HIDE DEF p
<1>2. \A i \in 1..Len(p) : i \in 1..Len(q) \/ (i = Len(q) + 1 /\ p[i] = d)
  BY <1>1
<1>3. \A i \in 1..Len(q) : p[i].from = r => p[i].n \in e + 1 .. m
  BY <1>1 DEF OrderOf
<1>4. \A i \in 1..Len(p) : p[i].from = r => p[i].n \in e + 1 .. m + 1
  BY <1>2, <1>3
<1>5. \A i, j \in 1..Len(p) :
         p[i].from = r /\ p[j].from = r /\ i < j => p[i].n < p[j].n
  <2> SUFFICES ASSUME NEW i \in 1..Len(p), NEW j \in 1..Len(p),
                      p[i].from = r, p[j].from = r, i < j
               PROVE  p[i].n < p[j].n
    OBVIOUS
  <2>1. i \in 1..Len(q)
    BY <1>1
  <2>2. CASE j \in 1..Len(q)
    BY <1>1, <2>1, <2>2 DEF OrderOf
  <2>3. CASE p[j] = d
    BY <1>3, <2>1, <2>3
  <2> QED
    BY <1>2, <2>2, <2>3
<1>6. \A n \in e + 1 .. m + 1 : \E i \in 1..Len(p) : p[i].from = r /\ p[i].n = n
  <2> SUFFICES ASSUME NEW n \in e + 1 .. m + 1
               PROVE  \E i \in 1..Len(p) : p[i].from = r /\ p[i].n = n
    OBVIOUS
  <2>1. CASE n = m + 1
    <3>1. Len(q) + 1 \in 1..Len(p)
      BY <1>1
    <3> QED
      BY <1>1, <2>1, <3>1
  <2>2. CASE n \in e + 1 .. m
    <3>1. PICK i \in 1..Len(q) : q[i].from = r /\ q[i].n = n
      BY <2>2 DEF OrderOf
    <3>2. i \in 1..Len(p) /\ p[i] = q[i]
      BY <1>1
    <3> QED
      BY <3>1, <3>2
  <2> QED
    BY <2>1, <2>2
<1>7. OrderOf(p, r, e, m + 1)
  BY <1>4, <1>5, <1>6 DEF OrderOf
<1> QED
  BY <1>7 DEF p

(* The oldest action leaves the queue.  If it is a packet of the route, it *)
(* is the one after the one executed last.                                 *)
LEMMA OrderTail ==
    ASSUME NEW q \in Seq(Command), q # <<>>, NEW r, NEW e \in Nat, NEW m \in Nat,
           OrderOf(q, r, e, m)
    PROVE  OrderOf(Tail(q), r, IF Head(q).from = r THEN Head(q).n ELSE e, m)
<1> DEFINE p == Tail(q)
           h == Head(q)
<1>1. /\ Len(q) \in Nat /\ 1 \in 1..Len(q) /\ h = q[1]
      /\ p \in Seq(Command) /\ Len(p) = Len(q) - 1
      /\ \A i \in 1..Len(p) : i + 1 \in 1..Len(q) /\ p[i] = q[i + 1]
  OBVIOUS
<1>2. \A i \in 1..Len(q) : i = 1 \/ (i - 1 \in 1..Len(p) /\ p[i - 1] = q[i])
  <2> TAKE i \in 1..Len(q)
  <2>1. i = 1 \/ (i - 1 \in 1..Len(p) /\ i - 1 + 1 = i)
    BY <1>1
  <2> QED
    BY <1>1, <2>1
<1> HIDE DEF p, h
<1>3. \A i \in 1..Len(q) : q[i].n \in Nat
  <2> TAKE i \in 1..Len(q)
  <2>1. q[i] \in Command
    OBVIOUS
  <2> QED
    BY <2>1 DEF Command
<1>4. \A i, j \in 1..Len(p) :
         p[i].from = r /\ p[j].from = r /\ i < j => p[i].n < p[j].n
  <2> SUFFICES ASSUME NEW i \in 1..Len(p), NEW j \in 1..Len(p),
                      p[i].from = r, p[j].from = r, i < j
               PROVE  p[i].n < p[j].n
    OBVIOUS
  <2>1. i + 1 \in 1..Len(q) /\ j + 1 \in 1..Len(q) /\ i + 1 < j + 1
        /\ p[i] = q[i + 1] /\ p[j] = q[j + 1]
    BY <1>1
  <2> QED
    BY <2>1 DEF OrderOf
<1>5. CASE h.from = r
  <2>1. h.n \in e + 1 .. m
    BY <1>1, <1>5 DEF OrderOf
  <2>2. \A i \in 1..Len(p) : p[i].from = r => p[i].n \in h.n + 1 .. m
    <3> SUFFICES ASSUME NEW i \in 1..Len(p), p[i].from = r
                 PROVE  p[i].n \in h.n + 1 .. m
      OBVIOUS
    <3>1. i + 1 \in 1..Len(q) /\ 1 < i + 1 /\ p[i] = q[i + 1]
      BY <1>1
    <3>2. q[1].n < q[i + 1].n /\ q[i + 1].n \in e + 1 .. m
      BY <1>1, <1>5, <3>1 DEF OrderOf
    <3> QED
      BY <1>1, <2>1, <3>1, <3>2
  <2>3. \A n \in h.n + 1 .. m : \E i \in 1..Len(p) : p[i].from = r /\ p[i].n = n
    <3> SUFFICES ASSUME NEW n \in h.n + 1 .. m
                 PROVE  \E i \in 1..Len(p) : p[i].from = r /\ p[i].n = n
      OBVIOUS
    <3>1. n \in e + 1 .. m /\ n # h.n
      BY <2>1
    <3>2. PICK i \in 1..Len(q) : q[i].from = r /\ q[i].n = n
      BY <3>1 DEF OrderOf
    <3>3. i # 1
      BY <1>1, <3>1, <3>2
    <3> QED
      BY <1>2, <3>2, <3>3
  <2>4. OrderOf(p, r, h.n, m)
    BY <1>4, <2>2, <2>3 DEF OrderOf
  <2> QED
    BY <1>5, <2>4 DEF h, p
<1>6. CASE h.from # r
  <2>1. \A i \in 1..Len(p) : p[i].from = r => p[i].n \in e + 1 .. m
    BY SMTT(20), <1>1 DEF OrderOf
  <2>2. \A n \in e + 1 .. m : \E i \in 1..Len(p) : p[i].from = r /\ p[i].n = n
    <3> SUFFICES ASSUME NEW n \in e + 1 .. m
                 PROVE  \E i \in 1..Len(p) : p[i].from = r /\ p[i].n = n
      OBVIOUS
    <3>1. PICK i \in 1..Len(q) : q[i].from = r /\ q[i].n = n
      BY DEF OrderOf
    <3>2. i # 1
      BY <1>1, <1>6, <3>1
    <3> QED
      BY <1>2, <3>1, <3>2
  <2>3. OrderOf(p, r, e, m)
    BY <1>4, <2>1, <2>2 DEF OrderOf
  <2> QED
    BY <1>6, <2>3 DEF h, p
<1> QED
  BY <1>5, <1>6

(* The session's own actions keep the order of the packets.                *)
LEMMA OrderSession ==
    ASSUME TypeOK, InOrder, OnNotReady \/ OnReady, UNCHANGED packetVars
    PROVE  InOrder'
<1> DEFINE c == OnReadyCommand(FALSE)
           d == OnReadyCommand(TRUE)
<1>1. queue \in Seq(Command) /\ c \in Command /\ d \in Command
      /\ c.from \notin Route /\ d.from \notin Route
  BY CommandTypes DEF TypeOK
<1>2. \/ queue' = Append(queue, c) \/ queue' = Append(queue, d)
      \/ queue' = queue \o <<c, d>>
  BY DEF OnNotReady, OnReady
<1> HIDE DEF c, d
<1>3. /\ queue' \in Seq(Command) /\ Len(queue) <= Len(queue')
      /\ \A i \in 1..Len(queue) : queue'[i] = queue[i]
      /\ \A i \in 1..Len(queue') : (i \in 1..Len(queue) /\ queue'[i] = queue[i])
                                    \/ queue'[i] \in {c, d}
  <2>1. CASE queue' = Append(queue, c) \/ queue' = Append(queue, d)
    BY <1>1, <2>1
  <2>2. CASE queue' = queue \o <<c, d>>
    <3>1. <<c, d>> \in Seq(Command) /\ Len(<<c, d>>) = 2
      BY <1>1
    <3>2. /\ queue' \in Seq(Command) /\ Len(queue') = Len(queue) + 2
          /\ \A i \in 1..Len(queue) : queue'[i] = queue[i]
          /\ queue'[Len(queue) + 1] = c /\ queue'[Len(queue) + 2] = d
      BY <1>1, <2>2, <3>1
    <3> QED
      BY <1>1, <3>2
  <2> QED
    BY <1>2, <2>1, <2>2
<1>4. ASSUME NEW r \in Route
      PROVE  OrderOf(queue', r, executed[r], received[r])
  <2>1. OrderOf(queue, r, executed[r], received[r])
    BY InOrderOf
  <2>2. \A i \in 1..Len(queue') : (i \in 1..Len(queue) /\ queue'[i] = queue[i])
                                    \/ queue'[i].from # r
    BY <1>1, <1>3
  <2> QED
    BY <1>1, <1>3, <2>1, <2>2, OrderOthers
<1>5. \A r \in Route : OrderOf(queue', r, executed'[r], received'[r])
  BY <1>4 DEF packetVars
<1> QED
  BY <1>5 DEF InOrder, Waiting, OrderOf

(* So does a data packet, which is the next one of its route.              *)
LEMMA OrderData ==
    ASSUME TypeOK, InOrder, NEW c \in Route, ReceiveData(c), UNCHANGED executed
    PROVE  InOrder'
<1> DEFINE d == [from |-> c, n |-> received[c] + 1]
<1>1. /\ queue \in Seq(Command) /\ received \in [Route -> Nat]
      /\ executed \in [Route -> Nat] /\ \A r \in Route : executed[r] <= received[r]
  BY DEF TypeOK
<1>2. /\ received' = [received EXCEPT ![c] = received[c] + 1]
      /\ queue' = Append(queue, d)
  BY DEF ReceiveData
<1>3. d \in Command /\ d.from = c /\ d.n = received[c] + 1
  BY <1>1 DEF Command
<1> HIDE DEF d
<1>4. ASSUME NEW r \in Route
      PROVE  OrderOf(queue', r, executed'[r], received'[r])
  <2>1. OrderOf(queue, r, executed[r], received[r])
    BY InOrderOf
  <2>2. CASE r = c
    <3>1. OrderOf(Append(queue, d), r, executed[r], received[r] + 1)
      BY <1>1, <1>3, <2>1, <2>2, OrderAppended
    <3> QED
      BY <1>1, <1>2, <2>2, <3>1
  <2>3. CASE r # c
    <3>1. /\ queue' \in Seq(Command) /\ Len(queue) <= Len(queue')
          /\ \A i \in 1..Len(queue) : queue'[i] = queue[i]
          /\ \A i \in 1..Len(queue') : (i \in 1..Len(queue) /\ queue'[i] = queue[i])
                                        \/ queue'[i] = d
      BY <1>1, <1>2, <1>3
    <3>2. \A i \in 1..Len(queue') : (i \in 1..Len(queue) /\ queue'[i] = queue[i])
                                      \/ queue'[i].from # r
      BY <1>3, <2>3, <3>1
    <3>3. OrderOf(queue', r, executed[r], received[r])
      BY <1>1, <2>1, <3>1, <3>2, OrderOthers
    <3> QED
      BY <1>1, <1>2, <2>3, <3>3
  <2> QED
    BY <2>2, <2>3
<1> QED
  BY <1>4 DEF InOrder, Waiting, OrderOf

(* So does the execution of the oldest action.                             *)
LEMMA OrderExecute ==
    ASSUME TypeOK, InOrder, Execute
    PROVE  InOrder'
<1>1. /\ queue \in Seq(Command) /\ received \in [Route -> Nat]
      /\ executed \in [Route -> Nat]
  BY DEF TypeOK
<1>2. /\ queue # <<>> /\ queue' = Tail(queue) /\ received' = received
      /\ executed' = [r \in Route |-> IF Head(queue).from = r
                                        THEN Head(queue).n ELSE executed[r]]
  BY DEF Execute, Executed
<1>3. ASSUME NEW r \in Route
      PROVE  OrderOf(queue', r, executed'[r], received'[r])
  <2>1. OrderOf(queue, r, executed[r], received[r])
    BY InOrderOf
  <2>2. executed[r] \in Nat /\ received[r] \in Nat
    BY <1>1
  <2>3. OrderOf(Tail(queue), r,
                IF Head(queue).from = r THEN Head(queue).n ELSE executed[r],
                received[r])
    BY <1>1, <1>2, <2>1, <2>2, OrderTail
  <2> QED
    BY <1>2, <2>3
<1> QED
  BY <1>3, OrderMeans DEF InOrder, Waiting

(* Every step keeps the order.                                             *)
LEMMA OrderStep ==
    ASSUME TypeOK, InOrder, [Next]_vars
    PROVE  InOrder'
<1>1. ASSUME UNCHANGED <<queue, packetVars>> PROVE InOrder'
  BY <1>1 DEF InOrder, Waiting, packetVars
<1>2. ASSUME OnNotReady \/ OnReady, UNCHANGED packetVars PROVE InOrder'
  BY <1>2, OrderSession
<1>3. ASSUME SendData, UNCHANGED packetVars PROVE InOrder'
  BY <1>1, <1>2, <1>3 DEF SendData, sessionVars
<1>4. ASSUME NEW c \in Route, OnPacketReceived(c)
      PROVE  InOrder'
  BY <1>1, <1>4, OrderData, PacketCases
     DEF ReceiveFastLoginResult, ReceiveUDPConnectMessage, ReceiveLoginResult, packetVars
<1>5. CASE Application
  <2>1. CASE Execute
    BY <2>1, OrderExecute
  <2>2. CASE Send
    BY <1>3, <2>2 DEF Send
  <2> QED
    BY <1>1, <1>5, <2>1, <2>2
       DEF Application, InCall, UpdateBegin, CheckPasses, CheckFails, NothingToExecute,
           Poll, SendBegin, Stop, Lock, Stopped, ConnectReliable, SkipConnection,
           StopConnection, StopInternal, Teardown, Join, sessionVars
<1>6. CASE \E c \in Route : Receive(c)
  BY <1>1, <1>3, <1>6 DEF Receive, ConnectFails, Connects, Answer, Reads, sessionVars
<1>7. CASE LogIn \/ Report \/ TcpFails \/ TcpPacket
  BY <1>1, <1>2, <1>7 DEF LogIn, Report, TcpFails, TcpPacket, Crashes, sessionVars
<1>8. CASE TcpExecute
  BY <1>4, <1>8 DEF TcpExecute, Route
<1>9. CASE ReadBuffer
  BY <1>1, <1>4, <1>9 DEF ReadBuffer, Route, sessionVars
<1>10. CASE EndLogin
  BY <1>2, <1>10 DEF EndLogin
<1>11. CASE BeginLogin \/ FailLogin \/ BeginReceiveEnds \/ UdpFails
  BY <1>1, <1>11 DEF BeginLogin, FailLogin, BeginReceiveEnds, UdpFails, sessionVars
<1>12. CASE UNCHANGED vars
  BY <1>1, <1>12 DEF vars, sessionVars
<1> QED
  BY <1>5, <1>6, <1>7, <1>8, <1>9, <1>10, <1>11, <1>12
     DEF Next, TcpThread, UdpThread, Route

-----------------------------------------------------------------------------
(* The threads of the connections                                          *)

(* What the thread of a connection can do, but for a LoginResult: it moves *)
(* and neither makes, stops nor detaches a connection.                     *)
ThreadMoves(c) ==
    /\ UNCHANGED appVars
    /\ \A d \in Route : conn'[d].exists = conn[d].exists
                         /\ conn'[d].attached = conn[d].attached
    /\ \A d \in Route : conn'[d].pc # conn[d].pc => d = c /\ ~At(c, "done")
    /\ conn'["tcp"].loggedIn = conn["tcp"].loggedIn
    /\ \A d \in Route :
         HasPacket(d)' =>
           \/ HasPacket(d) /\ conn'[d].packet = conn[d].packet
           \/ MayArrive(d, conn'[d].packet)
    /\ conn'["udp"].pc = "wait" => LoggingIn \/ SendMutexFree

(* What a LoginResult does.                                                *)
LogsIn(c) ==
    /\ UNCHANGED appVars
    /\ HasPacket(c) /\ conn[c].packet = "LoginResult"
    /\ ReceiveLoginResult(c)

(* A thread goes on to where it has no sendMutex, nor a new packet.        *)
LEMMA ThreadGoes ==
    ASSUME TypeOK, NEW c \in Route, UNCHANGED appVars, NEW p, Goto(c, p),
           p \in {"packet", "execute"} => HasPacket(c), p # "wait", ~At(c, "done")
    PROVE  ThreadMoves(c)
BY DEF ThreadMoves, HasPacket, TypeOK, Connection, Goto, At, Route, LoggingIn

(* A packet that is handled.                                               *)
LEMMA PacketMoves ==
    ASSUME TypeOK, NEW c \in Route, OnPacketReceived(c), HasPacket(c)
    PROVE  ThreadMoves(c) \/ LogsIn(c)
<1>1. UNCHANGED appVars
  BY DEF OnPacketReceived
<1>2. CASE Goto(c, NextRead(c)) \/ Goto(c, "answer")
  BY <1>1, <1>2, ThreadGoes DEF NextRead, At, HasPacket
<1>3. CASE ReceiveLoginResult(c) /\ conn[c].packet = "LoginResult"
  BY <1>1, <1>3 DEF LogsIn
<1> QED
  BY <1>2, <1>3, PacketCases
     DEF ReceiveData, ReceiveFastLoginResult, ReceiveUDPConnectMessage

(* What both threads do.                                                   *)
LEMMA ReceiveMoves ==
    ASSUME TypeOK, NEW c \in Route, Receive(c)
    PROVE  ThreadMoves(c)
<1>1. conn \in [Route -> Connection] /\ UNCHANGED appVars
  BY DEF TypeOK, Receive, ConnectFails, Connects, Answer, Reads
<1>2. CASE ConnectFails(c)
  BY <1>1, <1>2, ThreadGoes DEF ConnectFails, RunsAt, At
<1>3. CASE Connects(c)
  <2> DEFINE b == ~(c = "tcp" /\ conn[c].stopped)
             p == CASE c = "udp" -> "lock"
                    [] conn[c].stopped -> "done"
                    [] OTHER -> "login"
  <2>1. p \in {"lock", "done", "login"} /\ At(c, "connect")
    BY <1>3 DEF Connects, RunsAt
  <2>2. conn' = [conn EXCEPT ![c].open = b, ![c].pc = p]
    BY <1>3 DEF Connects
  <2> HIDE DEF b, p
  <2>3. /\ conn'[c].pc = p /\ conn'[c].exists = conn[c].exists
        /\ conn'[c].attached = conn[c].attached /\ conn'[c].loggedIn = conn[c].loggedIn
        /\ \A d \in Route : d # c => conn'[d] = conn[d]
    BY <1>1, <2>2 DEF Connection
  <2> QED
    BY <1>1, <2>1, <2>3 DEF ThreadMoves, HasPacket, At, LoggingIn, Route
<1>4. CASE Answer(c)
  BY <1>1, <1>4, ThreadGoes DEF Answer, NextRead, RunsAt, At
<1>5. CASE \E packet \in Packet : Reads(c, packet)
  <2> PICK packet \in Packet : Reads(c, packet)
    BY <1>5
  <2> DEFINE p == IF c = "tcp" /\ ~conn[c].attached THEN "done" ELSE "packet"
  <2>1. p \in {"done", "packet"} /\ (At(c, "read") \/ At(c, "begin"))
    BY DEF Reads, RunsAt
  <2>2. conn' = [conn EXCEPT ![c] = [conn[c] EXCEPT !.pc = p, !.packet = packet]]
    BY <1>1 DEF Reads
  <2> HIDE DEF p
  <2>3. /\ conn'[c].pc = p /\ conn'[c].exists = conn[c].exists
        /\ conn'[c].attached = conn[c].attached /\ conn'[c].loggedIn = conn[c].loggedIn
        /\ conn'[c].packet = packet
        /\ \A d \in Route : d # c => conn'[d] = conn[d]
    BY <1>1, <2>2 DEF Connection
  <2>4. MayArrive(c, packet)
    BY DEF Reads
  <2> QED
    BY <1>1, <2>1, <2>3, <2>4 DEF ThreadMoves, HasPacket, At, LoggingIn, Route
<1> QED
  BY <1>2, <1>3, <1>4, <1>5 DEF Receive

(* A thread moves only itself, or handles a LoginResult.                   *)
LEMMA ThreadStep ==
    ASSUME TypeOK
    PROVE  /\ TcpThread => ThreadMoves("tcp") \/ LogsIn("tcp")
           /\ UdpThread => ThreadMoves("udp") \/ LogsIn("udp")
<1>1. "tcp" \in Route /\ "udp" \in Route /\ conn \in [Route -> Connection]
  BY DEF Route, TypeOK
<1>2. ASSUME NEW c \in Route, Crashes PROVE ThreadMoves(c)
  BY <1>2 DEF Crashes, ThreadMoves, HasPacket, LoggingIn
<1>3. ASSUME NEW c \in Route, Receive(c) PROVE ThreadMoves(c)
  BY <1>3, ReceiveMoves
<1>4. ASSUME LogIn \/ Report PROVE ThreadMoves("tcp")
  BY <1>1, <1>2, <1>4, ThreadGoes DEF LogIn, Report, NextRead, RunsAt, At
<1>5. ASSUME TcpFails PROVE ThreadMoves("tcp")
  BY <1>1, <1>5, ThreadGoes DEF TcpFails, RunsAt, At
<1>6. ASSUME TcpPacket \/ TcpExecute PROVE ThreadMoves("tcp") \/ LogsIn("tcp")
  <2>1. HasPacket("tcp") /\ ~At("tcp", "done")
    BY <1>6 DEF TcpPacket, TcpExecute, RunsAt, At, HasPacket
  <2>2. CASE TcpPacket
    BY <1>1, <1>2, <2>1, <2>2, ThreadGoes DEF TcpPacket
  <2>3. CASE TcpExecute
    BY <1>1, <2>1, <2>3, PacketMoves DEF TcpExecute
  <2> QED
    BY <1>6, <2>2, <2>3
<1>7. ASSUME BeginLogin PROVE ThreadMoves("udp")
  <2> DEFINE b == conn["udp"].attached /\ state < ReliableAndFastSend
             p == IF conn["udp"].attached THEN "wait" ELSE "done"
  <2>1. p \in {"wait", "done"} /\ At("udp", "lock") /\ SendMutexFree /\ UNCHANGED appVars
    BY <1>7 DEF BeginLogin, RunsAt
  <2>2. conn' = [conn EXCEPT !["udp"] = [conn["udp"] EXCEPT !.pc = p, !.loggedIn = b]]
    BY <1>1, <1>7 DEF BeginLogin
  <2> HIDE DEF b, p
  <2>3. /\ conn'["udp"].pc = p /\ conn'["udp"].exists = conn["udp"].exists
        /\ conn'["udp"].attached = conn["udp"].attached
        /\ \A d \in Route : d # "udp" => conn'[d] = conn[d]
    BY <1>1, <2>2 DEF Connection
  <2> QED
    BY <1>1, <2>1, <2>3 DEF ThreadMoves, HasPacket, At
<1>8. ASSUME EndLogin \/ FailLogin \/ BeginReceiveEnds \/ UdpFails
      PROVE  ThreadMoves("udp")
  BY <1>1, <1>8, ThreadGoes
     DEF EndLogin, FailLogin, BeginReceiveEnds, UdpFails, RunsAt, At
<1>9. ASSUME ReadBuffer PROVE ThreadMoves("udp") \/ LogsIn("udp")
  BY <1>1, <1>9, ThreadGoes, PacketMoves DEF ReadBuffer, RunsAt, At, HasPacket
<1>10. TcpThread => ThreadMoves("tcp") \/ LogsIn("tcp")
  BY <1>1, <1>3, <1>4, <1>5, <1>6 DEF TcpThread
<1>11. UdpThread => ThreadMoves("udp") \/ LogsIn("udp")
  BY <1>1, <1>3, <1>7, <1>8, <1>9 DEF UdpThread
<1> QED
  BY <1>10, <1>11

(* ... which leaves the invariant's parts as they are.                     *)
LEMMA MovesKeep ==
    ASSUME TypeOK, Plans, Gone, Locks, LogsInOnce, NEW c \in Route, ThreadMoves(c)
    PROVE  Plans' /\ Gone' /\ Locks' /\ LogsInOnce'
<1>1. /\ app' = app /\ todo' = todo /\ running' = running /\ connects' = connects
      /\ \A d \in Route : conn'[d].exists = conn[d].exists
                           /\ conn'[d].attached = conn[d].attached
      /\ \A d \in Route : conn'[d].pc # conn[d].pc => d = c /\ ~At(c, "done")
      /\ "tcp" \in Route /\ "udp" \in Route
  BY DEF ThreadMoves, appVars, Route
<1>2. \A d \in Route : BeingStopped(d)' <=> BeingStopped(d)
  BY <1>1 DEF BeingStopped, Stopping
<1>3. Plans'
  BY <1>1 DEF Plans, AppHoldsSendMutex
<1>4. Gone'
  BY <1>1, <1>2 DEF Gone, At, Stopping
<1>5. Locks'
  BY <1>1, <1>2 DEF Locks, LoggingIn, AppHoldsSendMutex, ThreadMoves, SendMutexFree
<1>6. LogsInOnce'
  <2>1. conn'["tcp"].loggedIn = conn["tcp"].loggedIn
    BY DEF ThreadMoves
  <2>2. ASSUME NEW d \in Route, HasPacket(d)', conn'[d].packet = "LoginResult"
        PROVE  d = "tcp" /\ ~conn'[d].loggedIn
    <3>1. CASE HasPacket(d) /\ conn'[d].packet = conn[d].packet
      BY <2>1, <2>2, <3>1 DEF LogsInOnce
    <3>2. CASE MayArrive(d, "LoginResult")
      BY <2>1, <3>2 DEF MayArrive
    <3> QED
      BY <2>2, <3>1, <3>2 DEF ThreadMoves
  <2> QED
    BY <1>1, <2>1, <2>2 DEF LogsInOnce
<1> QED
  BY <1>3, <1>4, <1>5, <1>6

(* A LoginResult is handled once, by the thread of a reliable connection   *)
(* that is still there, and finds no FastConnection.                       *)
LEMMA LoginFindsNone ==
    ASSUME Gone, Locks, LogsInOnce, NEW c \in Route,
           HasPacket(c), conn[c].packet = "LoginResult"
    PROVE  /\ c = "tcp" /\ conn["tcp"].exists /\ ~conn["udp"].exists
           /\ At("udp", "done") /\ conn["udp"].attached
<1>1. c = "tcp" /\ ~conn["tcp"].loggedIn
  BY DEF LogsInOnce
<1>2. conn["tcp"].exists
  BY <1>1 DEF Gone, At, HasPacket
<1>3. ~conn["udp"].exists
  BY <1>1, <1>2 DEF LogsInOnce
<1>4. "udp" \in Route
  BY DEF Route
<1>5. At("udp", "done")
  BY <1>3, <1>4 DEF Gone
<1>6. conn["udp"].attached
  BY <1>3, <1>4 DEF Locks, Gone
<1> QED
  BY <1>1, <1>2, <1>3, <1>5, <1>6

(* A LoginResult keeps the invariant's parts.                              *)
LEMMA LoginKeeps ==
    ASSUME TypeOK, Plans, Gone, Locks, LogsInOnce, NEW c \in Route, LogsIn(c)
    PROVE  Plans' /\ Gone' /\ Locks' /\ LogsInOnce'
<1>1. /\ c = "tcp" /\ conn["tcp"].exists /\ ~conn["udp"].exists
      /\ HasPacket("tcp")
  BY LoginFindsNone DEF LogsIn
<1>2. /\ app' = app /\ todo' = todo /\ running' = running /\ connects' = connects
  BY DEF LogsIn, appVars
<1>3. /\ conn'["tcp"].exists /\ conn'["tcp"].attached = conn["tcp"].attached
      /\ conn'["tcp"].loggedIn /\ conn'["tcp"].pc \in {"done", "read"}
      /\ conn'["udp"] = FreshConnection
  BY <1>1 DEF LogsIn, ReceiveLoginResult, NextRead, TypeOK, Route, Connection
<1>4. conn'["udp"].exists /\ conn'["udp"].attached /\ conn'["udp"].pc = "connect"
  BY <1>3 DEF FreshConnection
<1>5. Plans'
  BY <1>2 DEF Plans, AppHoldsSendMutex
<1>6. \A d \in Route : BeingStopped(d)' <=> BeingStopped(d)
  BY <1>2 DEF BeingStopped, Stopping
<1>7. Gone'
  BY <1>1, <1>2, <1>3, <1>4, <1>6 DEF Gone, At, Stopping, Route
<1>8. Locks'
  BY <1>3, <1>4, <1>6 DEF Locks, LoggingIn, Route
<1>9. LogsInOnce'
  BY <1>3, <1>4 DEF LogsInOnce, HasPacket, Route
<1> QED
  BY <1>5, <1>7, <1>8, <1>9

-----------------------------------------------------------------------------
(* The application's thread                                                *)

(* The application moves outside of the locks.                             *)
LEMMA FreeKeeps ==
    ASSUME TypeOK, Plans, Gone, Locks, LogsInOnce,
           UpdateBegin \/ CheckPasses \/ Execute \/ NothingToExecute \/ Poll
             \/ SendBegin \/ Send
    PROVE  Plans' /\ Gone' /\ Locks' /\ LogsInOnce'
<1>1. /\ app \in {"idle", "check", "execute", "poll", "send"}
      /\ app' \in {"idle", "check", "execute", "poll", "send"}
      /\ app' = "check" => running
      /\ todo' = todo /\ running' = running /\ connects' = connects /\ conn' = conn
  BY DEF UpdateBegin, CheckPasses, Execute, NothingToExecute, Poll, SendBegin, Send,
         AppMoves, appVars
<1>2. todo = <<>>
  BY <1>1 DEF Plans, AppHoldsSendMutex
<1>3. Plans'
  BY <1>1, <1>2 DEF Plans, AppHoldsSendMutex
<1>4. Gone'
  BY <1>1 DEF Gone, BeingStopped, Stopping, At
<1>5. Locks'
  BY <1>1 DEF Locks, AppHoldsSendMutex, LoggingIn, BeingStopped, Stopping
<1>6. LogsInOnce'
  BY <1>1 DEF LogsInOnce, HasPacket
<1> QED
  BY <1>3, <1>4, <1>5, <1>6

(* It makes a plan.                                                        *)
LEMMA PlanKeeps ==
    ASSUME TypeOK, Plans, Gone, Locks, LogsInOnce, CheckFails \/ Stop
    PROVE  Plans' /\ Gone' /\ Locks' /\ LogsInOnce'
<1>1. /\ app \in {"idle", "check"} /\ app' = "lock" /\ connects' = connects
      /\ conn' = conn
  BY DEF CheckFails, Stop, AppMoves
<1>2. \/ /\ todo' = <<"tcp", "udp", "connect">> /\ running' /\ connects < MaxConnects
      \/ todo' = <<"udp", "tcp", "return">> /\ ~running'
  BY DEF CheckFails, Stop, AppMoves, Plans
<1>3. Plans'
  BY <1>1, <1>2, PlansDiffer
     DEF Plans, AppHoldsSendMutex, ReconnectPlans, StopPlans
<1>4. todo' \notin {<<"udp", "connect">>, <<"connect">>, <<"return">>, <<>>}
  BY <1>2, PlansDiffer
<1>5. Gone'
  BY <1>1, <1>4 DEF Gone, BeingStopped, At
<1>6. Locks'
  BY <1>1 DEF Locks, AppHoldsSendMutex, LoggingIn, BeingStopped
<1>7. LogsInOnce'
  BY <1>1 DEF LogsInOnce, HasPacket
<1> QED
  BY <1>3, <1>5, <1>6, <1>7

(* It locks sendMutex, which no thread has then.                           *)
LEMMA LockKeeps ==
    ASSUME TypeOK, Plans, Gone, Locks, LogsInOnce, Lock
    PROVE  Plans' /\ Gone' /\ Locks' /\ LogsInOnce'
<1>1. /\ app = "lock" /\ app' = "stop" /\ ~LoggingIn
      /\ todo' = todo /\ running' = running /\ connects' = connects /\ conn' = conn
  BY DEF Lock, AppMoves, SendMutexFree
<1>2. Plans'
  BY <1>1 DEF Plans, AppHoldsSendMutex
<1>3. Gone'
  BY <1>1 DEF Gone, BeingStopped, At
<1>4. Locks'
  BY <1>1 DEF Locks, LoggingIn, BeingStopped
<1>5. LogsInOnce'
  BY <1>1 DEF LogsInOnce, HasPacket
<1> QED
  BY <1>2, <1>3, <1>4, <1>5

(* It works at a connection of the plan, which may lose its session.       *)
LEMMA WorkKeeps ==
    ASSUME TypeOK, Plans, Gone, Locks, LogsInOnce, NEW c \in Route,
           StopConnection(c) \/ StopInternal(c) \/ Teardown(c)
    PROVE  Plans' /\ Gone' /\ Locks' /\ LogsInOnce'
<1>1. /\ app \in {"stop", "detach", "teardown"}
      /\ app' \in {"detach", "teardown", "join"}
      /\ todo' = todo /\ running' = running /\ connects' = connects
      /\ Stopping(c) /\ Stopping(c)'
  BY DEF StopConnection, StopInternal, Teardown, AppMoves, Stopping
<1>2. conn[c].exists
  <2>1. CASE StopConnection(c)
    BY <2>1 DEF StopConnection
  <2>2. CASE ~StopConnection(c)
    BY <1>1, <2>2 DEF StopInternal, Teardown, AppMoves, Gone, BeingStopped
  <2> QED
    BY <2>1, <2>2
<1>3. \A d \in Route :
        /\ conn'[d].exists = conn[d].exists /\ conn'[d].pc = conn[d].pc
        /\ conn'[d].loggedIn = conn[d].loggedIn /\ conn'[d].packet = conn[d].packet
        /\ d # c => conn'[d].attached = conn[d].attached
  BY DEF StopConnection, StopInternal, Teardown, TypeOK, Connection
<1>4. \A d \in Route : BeingStopped(d) => d = c
  BY <1>1 DEF BeingStopped, Stopping
<1>5. BeingStopped(c)'
  BY <1>1 DEF BeingStopped
<1>6. Plans'
  BY <1>1 DEF Plans, AppHoldsSendMutex
<1>7. \A d \in Route : BeingStopped(d)' => d = c
  BY <1>1 DEF BeingStopped, Stopping
<1>8. Gone'
  <2>1. \A d \in Route : ~conn'[d].exists => At(d, "done")'
    BY <1>3 DEF Gone, At
  <2>2. \A d \in Route : BeingStopped(d)' => conn'[d].exists
    BY <1>2, <1>3, <1>7
  <2> QED
    BY <1>1, <1>3, <2>1, <2>2 DEF Gone, Route
<1>9. Locks'
  <2>1. ~LoggingIn'
    BY <1>1, <1>3 DEF Locks, AppHoldsSendMutex, LoggingIn, Route
  <2>2. \A d \in Route : ~conn'[d].attached => BeingStopped(d)'
    BY <1>3, <1>4, <1>5 DEF Locks
  <2> QED
    BY <2>1, <2>2 DEF Locks
<1>10. LogsInOnce'
  BY <1>3 DEF LogsInOnce, HasPacket, Route
<1> QED
  BY <1>6, <1>8, <1>9, <1>10

(* A connection of the plan is gone, and the plan goes on.                 *)
LEMMA NextOfPlanKeeps ==
    ASSUME TypeOK, Plans, Gone, Locks, LogsInOnce, NEW c \in Route,
           SkipConnection(c) \/ Join(c)
    PROVE  Plans' /\ Gone' /\ Locks' /\ LogsInOnce'
<1>1. /\ AppHoldsSendMutex /\ app' = "stop" /\ Stopping(c) /\ todo' = Tail(todo)
      /\ running' = running /\ connects' = connects
  BY DEF SkipConnection, Join, AppMoves, AppHoldsSendMutex
<1>2. /\ ~conn'[c].exists /\ conn'[c].pc = "done" /\ conn'[c].attached
      /\ \A d \in Route : d # c => conn'[d] = conn[d]
  <2>1. CASE SkipConnection(c)
    BY <2>1 DEF SkipConnection, Gone, Locks, BeingStopped, At
  <2>2. CASE Join(c)
    BY <2>2 DEF Join, NoConnection, FreshConnection, TypeOK
  <2> QED
    BY <2>1, <2>2
<1>3. \A d \in Route : BeingStopped(d) => d = c
  BY DEF BeingStopped, Stopping, SkipConnection, Join
<1>4. \A d \in Route : conn'[d].attached
  BY <1>2, <1>3 DEF Locks
<1>5. \A d \in Route : ~conn'[d].exists => conn'[d].pc = "done"
  BY <1>2 DEF Gone, At
<1>6. ~LoggingIn'
  <2>1. ~LoggingIn
    BY <1>1 DEF Locks
  <2> QED
    BY <1>2, <2>1 DEF LoggingIn, Route
<1>7. Locks'
  BY <1>4, <1>6 DEF Locks
<1>8. Plans' /\ (todo' \in {<<"udp", "connect">>, <<"connect">>, <<"return">>}
                   => ~conn'["tcp"].exists)
      /\ (todo' = <<"connect">> => ~conn'["udp"].exists) /\ todo' # <<>>
  <2>1. CASE c = "tcp"
    BY <1>1, <1>2, <2>1, PlanSteps, PlansDiffer
       DEF Plans, ReconnectPlans, StopPlans, AppHoldsSendMutex
  <2>2. CASE c = "udp"
    <3>1. CASE todo = <<"udp", "connect">> /\ todo' = <<"connect">>
      <4>1. ~conn["tcp"].exists /\ running /\ connects < MaxConnects
        BY <3>1 DEF Gone, Plans, ReconnectPlans
      <4> QED
        BY <1>1, <1>2, <2>2, <3>1, <4>1, PlansDiffer
           DEF Plans, ReconnectPlans, StopPlans, AppHoldsSendMutex, Route
    <3>2. CASE todo = <<"udp", "tcp", "return">> /\ todo' = <<"tcp", "return">>
      <4>1. ~running
        BY <3>2 DEF Plans, StopPlans
      <4> QED
        BY <1>1, <1>2, <2>2, <3>2, <4>1, PlansDiffer
           DEF Plans, ReconnectPlans, StopPlans, AppHoldsSendMutex
    <3> QED
      BY <1>1, <2>2, <3>1, <3>2, PlanSteps
  <2> QED
    BY <2>1, <2>2 DEF Route
<1>9. Gone'
  BY <1>1, <1>5, <1>8 DEF Gone, BeingStopped, At
<1>10. LogsInOnce'
  BY <1>2, <1>5 DEF LogsInOnce, HasPacket, Route
<1> QED
  BY <1>7, <1>8, <1>9, <1>10

(* The plan ends.                                                          *)
LEMMA EndOfPlanKeeps ==
    ASSUME TypeOK, Plans, Gone, Locks, LogsInOnce, Stopped \/ ConnectReliable
    PROVE  Plans' /\ Gone' /\ Locks' /\ LogsInOnce'
<1>1. /\ app = "stop" /\ app' \in {"idle", "execute"} /\ todo' = <<>>
      /\ running' = running
  BY DEF Stopped, ConnectReliable, AppMoves
<1>2. Plans'
  BY <1>1, PlansDiffer DEF Plans, AppHoldsSendMutex, ReconnectPlans, StopPlans
<1>3. <<>> \notin {<<"udp", "connect">>, <<"connect">>, <<"return">>}
  BY PlansDiffer
<1>4. CASE Stopped
  <2>1. conn' = conn /\ ~conn["tcp"].exists
    BY <1>4 DEF Stopped, Gone
  <2>2. Gone'
    BY <1>1, <1>3, <2>1 DEF Gone, BeingStopped, At
  <2>3. Locks' /\ LogsInOnce'
    BY <1>1, <2>1 DEF Locks, LogsInOnce, HasPacket, At, LoggingIn, AppHoldsSendMutex,
                      BeingStopped
  <2> QED
    BY <1>2, <2>2, <2>3
<1>5. CASE ConnectReliable
  <2>1. todo = <<"connect">> /\ conn' = [conn EXCEPT !["tcp"] = FreshConnection]
    BY <1>5 DEF ConnectReliable
  <2>2. running /\ ~conn["udp"].exists
    BY <2>1 DEF Plans, ReconnectPlans, Gone
  <2>3. /\ conn'["tcp"].exists /\ conn'["tcp"].attached
        /\ conn'["tcp"].pc = "connect" /\ conn'["udp"] = conn["udp"]
    BY <2>1 DEF FreshConnection, TypeOK, Route
  <2>4. Gone'
    BY <1>1, <1>3, <2>2, <2>3 DEF Gone, BeingStopped, At, Route
  <2>5. Locks'
    BY <1>1, <2>3 DEF Locks, LoggingIn, AppHoldsSendMutex, BeingStopped, Route
  <2>6. LogsInOnce'
    BY <2>2, <2>3 DEF LogsInOnce, HasPacket, Route
  <2> QED
    BY <1>2, <2>4, <2>5, <2>6
<1> QED
  BY <1>4, <1>5

-----------------------------------------------------------------------------
(* Theorems                                                                *)

(* The invariant is inductive.                                             *)
LEMMA InvStep == Inv /\ [Next]_vars => Inv'
<1> SUFFICES ASSUME Inv, [Next]_vars PROVE Inv'
  OBVIOUS
<1>1. CASE UNCHANGED vars
  <2>1. TypeOK' /\ Counted' /\ ReadyMeansFast'
    BY <1>1 DEF Inv, TypeOK, Counted, ReadyMeansFast, vars, appVars, sessionVars,
                packetVars
  <2>2. Plans' /\ Gone' /\ Locks' /\ LogsInOnce'
    BY <1>1 DEF Inv, Plans, Gone, Locks, LogsInOnce, HasPacket, vars, appVars, BeingStopped,
                Stopping, At, LoggingIn, AppHoldsSendMutex
  <2> QED
    BY <2>1, <2>2 DEF Inv
<1>2. CASE Next
  <2>0. TypeOK /\ Plans /\ Gone /\ Locks /\ LogsInOnce
    BY DEF Inv
  <2>1. TypeOK' /\ Counted'
    BY <1>2, TypeStep, CountsStep DEF Inv, CountsKept
  <2>2. ReadyMeansFast'
    BY <1>2, <2>1, SessionStep
       DEF Inv, TypeOK, ReadyMeansFast, SessionRises, ConnectState, Disconnected,
           ReliableOnly, ReliableAndFastSend, ReliableAndFast
  <2>3. ASSUME Application
        PROVE  Plans' /\ Gone' /\ Locks' /\ LogsInOnce'
    <3>1. CASE \E c \in Route : StopConnection(c) \/ StopInternal(c) \/ Teardown(c)
      BY <2>0, <3>1, WorkKeeps
    <3>2. CASE \E c \in Route : SkipConnection(c) \/ Join(c)
      BY <2>0, <3>2, NextOfPlanKeeps
    <3>3. CASE UpdateBegin \/ CheckPasses \/ Execute \/ NothingToExecute \/ Poll
                 \/ SendBegin \/ Send
      BY <2>0, <3>3, FreeKeeps
    <3>4. CASE CheckFails \/ Stop
      BY <2>0, <3>4, PlanKeeps
    <3>5. CASE Lock
      BY <2>0, <3>5, LockKeeps
    <3>6. CASE Stopped \/ ConnectReliable
      BY <2>0, <3>6, EndOfPlanKeeps
    <3> QED
      BY <2>3, <3>1, <3>2, <3>3, <3>4, <3>5, <3>6 DEF Application, InCall
  <2>4. ASSUME TcpThread \/ UdpThread
        PROVE  Plans' /\ Gone' /\ Locks' /\ LogsInOnce'
    <3> PICK c \in Route : ThreadMoves(c) \/ LogsIn(c)
      BY <2>0, <2>4, ThreadStep DEF Route
    <3> QED
      BY <2>0, MovesKeep, LoginKeeps
  <2> QED
    BY <1>2, <2>1, <2>2, <2>3, <2>4 DEF Next, Inv
<1> QED
  BY <1>1, <1>2

(* Every part of the session, its connections and their threads has its    *)
(* type in every reachable state, and no packet is executed that was not   *)
(* received.                                                               *)
THEOREM TypeCorrect == Spec => []TypeOK
<1>1. Inv => TypeOK
  BY DEF Inv
<1> QED
  BY <1>1, InvInit, InvStep, PTL DEF Spec

(* Every data packet that a connection's thread read is handed to the      *)
(* listener by the Updates of the application at most once, and those of a *)
(* route in the order in which they were read, whatever packets of the     *)
(* other route and actions of the session are queued in between.           *)
THEOREM PacketsInOrder == Spec => []InOrder
<1>1. Init => InOrder
  <2> SUFFICES ASSUME Init, NEW r \in Route
               PROVE  OrderOf(queue, r, executed[r], received[r])
    BY InOrderOf
  <2>1. Len(queue) = 0 /\ executed[r] = 0 /\ received[r] = 0
    BY DEF Init
  <2>2. 1..Len(queue) = {} /\ executed[r] + 1 .. received[r] = {}
    BY <2>1
  <2> QED
    BY <2>2 DEF OrderOf
<1>2. Inv /\ InOrder /\ [Next]_vars => InOrder'
  BY OrderStep DEF Inv
<1> QED
  BY <1>1, <1>2, InvInit, InvStep, PTL DEF Spec

(* A session is ready only when the server knows the player by both        *)
(* routes: nothing the application stops or connects again, and no failure *)
(* of a thread, takes the state back that OnReady(true) rested on.         *)
THEOREM ReadyStaysFast == Spec => []ReadyMeansFast
<1>1. Inv => ReadyMeansFast
  BY DEF Inv
<1> QED
  BY <1>1, InvInit, InvStep, PTL DEF Spec

(* ConnectFast, called by the thread of the reliable connection without    *)
(* sendMutex, never replaces, and so never joins, a FastConnection: one    *)
(* LoginResult comes by each ReliableConnection, and a new one is made     *)
(* only when both connections are gone.                                    *)
THEOREM NoneReplaced == Spec => []FastIsReplacedByNone
<1>1. Inv => FastIsReplacedByNone
  BY LoginFindsNone DEF Inv, FastIsReplacedByNone, HasPacket, At, Route
<1> QED
  BY <1>1, InvInit, InvStep, PTL DEF Spec

(* After Stop has returned there is no reliable connection and no thread   *)
(* of one, whatever Updates follow.                                        *)
THEOREM StopHolds == Spec => []StopIsFinal
<1>1. Inv => StopIsFinal
  <2> SUFFICES ASSUME Inv, ~running,
                      app \in {"idle", "check", "execute", "poll", "send"}
               PROVE  ~conn["tcp"].exists /\ conn["tcp"].pc = "done"
    BY DEF StopIsFinal
  <2>1. todo = <<>>
    BY DEF Inv, Plans, AppHoldsSendMutex
  <2> QED
    BY <2>1 DEF Inv, Gone, At, Route
<1> QED
  BY <1>1, InvInit, InvStep, PTL DEF Spec

LEMMA GotoGoes ==
    ASSUME TypeOK, NEW c \in Route, NEW p, Goto(c, p)
    PROVE  conn'[c].pc = p
BY DEF TypeOK, Connection, Goto

LEMMA NextReadCases == \A c : NextRead(c) \in {"done", "read"}
BY DEF NextRead

(* A thread that has handled a packet, or goes on from where it waited,    *)
(* has taken no other session pointer.                                     *)
LEMMA HandledGoes ==
    ASSUME TypeOK, NEW c \in Route, OnPacketReceived(c)
    PROVE  conn'[c].pc \notin {"execute", "report"}
<1>1. conn \in [Route -> Connection]
  BY DEF TypeOK
<1>2. CASE Goto(c, NextRead(c)) \/ Goto(c, "answer")
  BY <1>2, GotoGoes, NextReadCases
<1>3. CASE ReceiveLoginResult(c)
  BY <1>1, <1>3, NextReadCases DEF ReceiveLoginResult, FreshConnection, TypeOK, Connection
<1> QED
  BY <1>2, <1>3, PacketCases
     DEF ReceiveData, ReceiveFastLoginResult, ReceiveUDPConnectMessage

LEMMA ReceiveGoes ==
    ASSUME TypeOK, NEW c \in Route, Receive(c)
    PROVE  conn'[c].pc \notin {"execute", "report"}
<1>1. conn \in [Route -> Connection]
  BY DEF TypeOK
<1>2. CASE ConnectFails(c) \/ Answer(c)
  BY <1>2, GotoGoes, NextReadCases DEF ConnectFails, Answer
<1>3. CASE Connects(c)
  BY <1>1, <1>3 DEF Connects, Connection
<1>4. CASE \E packet \in Packet : Reads(c, packet)
  BY <1>1, <1>4 DEF Reads, Connection
<1> QED
  BY <1>2, <1>3, <1>4 DEF Receive

(* The application ends and makes connections, and moves no thread.        *)
LEMMA AppRestarts ==
    ASSUME TypeOK, Application, NEW c \in Route, conn'[c].pc # conn[c].pc
    PROVE  conn'[c].pc \in {"done", "connect"}
<1>1. conn \in [Route -> Connection] /\ "tcp" \in Route
  BY DEF TypeOK, Route
<1>2. CASE ConnectReliable
  BY <1>1, <1>2 DEF ConnectReliable, FreshConnection
<1>3. CASE \E d \in Route : Join(d)
  BY <1>1, <1>3 DEF Join, NoConnection
<1>4. ASSUME NEW d \in Route, StopConnection(d) \/ StopInternal(d) \/ Teardown(d)
      PROVE  conn'[c].pc = conn[c].pc
  BY <1>1, <1>4 DEF StopConnection, StopInternal, Teardown, Connection
<1>5. CASE conn' = conn
  BY <1>5
<1> QED
  BY <1>2, <1>3, <1>4, <1>5
     DEF Application, InCall, UpdateBegin, CheckPasses, CheckFails, Execute,
         NothingToExecute, Poll, SendBegin, Send, Stop, Lock, Stopped, SkipConnection

(* The thread of a connection without a session begins nothing with the    *)
(* session any more, and leaves it alone but for what the thread of the    *)
(* reliable connection had begun: that one took the pointer before it was  *)
(* null.  A session pointer is null only while the application holds       *)
(* sendMutex, so that an answer cannot be under way.                       *)
THEOREM DetachedStaysSilent == Spec => DetachedIsSilent
<1> DEFINE Ends(c) == c = "tcp" /\ conn[c].pc \in {"execute", "report"}
<1>1. ASSUME Inv, Next, NEW c \in Route, ~conn[c].attached, conn'[c].pc # conn[c].pc
      PROVE  /\ conn'[c].pc \notin {"execute", "report"}
             /\ UNCHANGED sessionVars \/ Ends(c)
  <2>1. /\ AppHoldsSendMutex /\ ~LoggingIn /\ conn[c].exists
        /\ "tcp" \in Route /\ "udp" \in Route /\ conn \in [Route -> Connection]
    BY <1>1 DEF Inv, TypeOK, Locks, Gone, BeingStopped, AppHoldsSendMutex, Route
  <2>2. CASE Application
    <3>1. CASE Execute \/ Stop \/ Send
      BY <1>1, <3>1 DEF Execute, Stop, Send
    <3>2. ASSUME ~(Execute \/ Stop \/ Send) PROVE UNCHANGED sessionVars
      BY <2>2, <3>2
         DEF Application, InCall, UpdateBegin, CheckPasses, CheckFails,
             NothingToExecute, Poll, SendBegin, Lock, Stopped, ConnectReliable,
             SkipConnection, StopConnection, StopInternal, Teardown, Join
    <3>3. conn'[c].pc \in {"done", "connect"}
      BY <1>1, <2>2, AppRestarts DEF Inv
    <3> QED
      BY <3>1, <3>2, <3>3
  <2>3. ASSUME NEW d \in Route, ThreadMoves(d) \/ LogsIn(d) PROVE c = d
    <3>1. CASE ThreadMoves(d)
      BY <1>1, <3>1 DEF ThreadMoves
    <3>2. CASE LogsIn(d)
      <4>1. d = "tcp" /\ conn["udp"].attached
        BY <1>1, <3>2, LoginFindsNone DEF LogsIn, Inv
      <4> QED
        BY <1>1, <4>1 DEF Route
    <3> QED
      BY <2>3, <3>1, <3>2
  <2>4. ASSUME NEW d \in Route, Receive(d)
        PROVE  UNCHANGED sessionVars /\ conn'[d].pc \notin {"execute", "report"}
    <3>1. conn'[d].pc \notin {"execute", "report"}
      BY <1>1, <2>4, ReceiveGoes DEF Inv
    <3> QED
      BY <2>1, <2>4, <3>1
         DEF Receive, ConnectFails, Connects, Answer, Reads, SendMutexFree
  <2>5. CASE TcpThread
    <3>1. c = "tcp"
      BY <1>1, <2>1, <2>3, <2>5, ThreadStep DEF Inv
    <3>2. CASE LogIn \/ TcpPacket
      BY <1>1, <3>1, <3>2 DEF LogIn, TcpPacket, Crashes
    <3>3. CASE TcpFails
      BY <1>1, <3>1, <3>3, GotoGoes DEF TcpFails, Inv
    <3>4. CASE Report
      <4>1. Ends(c) /\ ~Crashes
        BY <1>1, <3>1, <3>4 DEF Report, RunsAt, At, Crashes
      <4>2. conn'[c].pc \in {"done", "read"}
        BY <1>1, <3>1, <3>4, <4>1, GotoGoes, NextReadCases DEF Report, Inv
      <4> QED
        BY <4>1, <4>2
    <3>5. CASE TcpExecute
      <4>1. Ends(c) /\ TypeOK
        BY <1>1, <3>1, <3>5 DEF TcpExecute, RunsAt, At, Inv
      <4>2. conn'[c].pc \notin {"execute", "report"}
        BY <2>1, <3>1, <3>5, <4>1, HandledGoes DEF TcpExecute
      <4> QED
        BY <4>1, <4>2
    <3> QED
      BY <2>4, <2>5, <3>1, <3>2, <3>3, <3>4, <3>5 DEF TcpThread
  <2>6. CASE UdpThread
    <3>1. c = "udp"
      BY <1>1, <2>1, <2>3, <2>6, ThreadStep DEF Inv
    <3>2. CASE ~Receive("udp")
      <4>1. UNCHANGED sessionVars
        BY <1>1, <2>1, <2>6, <3>1, <3>2
           DEF UdpThread, BeginLogin, EndLogin, FailLogin, BeginReceiveEnds, ReadBuffer,
               UdpFails, RunsAt, At, LoggingIn
      <4>2. conn'[c].pc \notin {"execute", "report"}
        <5>1. CASE BeginLogin
          BY <1>1, <2>1, <3>1, <5>1 DEF BeginLogin, Connection
        <5>2. CASE UdpThread /\ ~BeginLogin
          BY <1>1, <2>1, <3>1, <3>2, <5>2, GotoGoes
             DEF UdpThread, EndLogin, FailLogin, BeginReceiveEnds, ReadBuffer,
                 UdpFails, RunsAt, At, LoggingIn, Inv
        <5> QED
          BY <2>6, <5>1, <5>2
      <4> QED
        BY <4>1, <4>2
    <3> QED
      BY <2>1, <2>4, <3>1, <3>2
  <2> QED
    BY <1>1, <2>2, <2>5, <2>6 DEF Next
<1>2. Inv /\ [Next]_vars =>
        [\A c \in Route : ~conn[c].attached /\ conn'[c].pc # conn[c].pc
                            => /\ conn'[c].pc \notin {"execute", "report"}
                               /\ UNCHANGED sessionVars \/ Ends(c)]_vars
  BY <1>1 DEF vars
<1>3. Inv /\ [Next]_vars =>
        [\A c \in Route :
            ~conn[c].attached /\ conn'[c].pc # conn[c].pc
               => /\ conn'[c].pc \notin {"execute", "report"}
                  /\ \/ UNCHANGED sessionVars
                     \/ c = "tcp" /\ conn[c].pc \in {"execute", "report"}]_vars
  BY <1>2
<1> QED
  BY <1>3, InvInit, InvStep, PTL DEF Spec, DetachedIsSilent
=============================================================================
