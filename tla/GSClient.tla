------------------------------- MODULE GSClient -------------------------------
(***************************************************************************)
(* The request path of GameSparks::Core::GS and its GSConnections: the     *)
(* connections and their handshake, the send queue, the table of pending   *)
(* requests of each connection, their time-outs, and the availability flag *)
(* the application reads.  Durable requests are the subject of module      *)
(* DurableQueue.                                                           *)
(*                                                                         *)
(* The client is single threaded.  It moves only inside GS::Update, whose  *)
(* loops are modelled one iteration at a time: pc names the part of Update *)
(* that runs next and cursor the connection a loop is at.  The application *)
(* calls the client between two Updates (pc = "idle").  The websocket and  *)
(* the server are external: each poll and each dispatched frame has any of *)
(* the outcomes GSConnection and GS can be called with.                    *)
(***************************************************************************)
EXTENDS Integers, FiniteSets, SequencesExt

CONSTANTS
    Request,     \* the calls of GSRequest::Send, each a request of its own
    Timeouts,    \* values of timeoutSeconds, in ticks
    Deltas,      \* values of deltaTimeInSeconds, in ticks
    MaxDeadline  \* longest m_mustBeConnectedIn a new connection is given

ASSUME TimeoutsAssumption == Timeouts \subseteq Nat \ {0}
ASSUME DeltasAssumption == Deltas \subseteq Nat \ {0}
ASSUME DeadlineAssumption == MaxDeadline \in Nat \ {0}

VARIABLES
    conns,       \* GS::m_Connections, newest first
    sendQueue,   \* GS::m_SendQueue
    timer,       \* GSRequest::m_expiresInSeconds
    submitted,   \* requests handed to GS::Send so far
    callbacks,   \* how often GSRequest::Complete ran for a request
    dangling,    \* ProcessSendQueue has used a reference to a popped request
    ready,       \* GS::m_Ready
    paused,      \* GS::m_Paused
    running,     \* GS::m_Initialized
    deadline,    \* GS::m_mustBeConnectedIn
    pc, cursor, dt

links == <<conns, ready, deadline>>
requests == <<sendQueue, timer, submitted, callbacks, dangling>>
flags == <<paused, running>>
vars == <<links, requests, flags, pc, cursor, dt>>

WSState == {"none", "connecting", "open", "closing", "closed"}

(* A GSConnection: the state of its websocket ("none" when m_WebSocket is  *)
(* NULL), m_Stopped, whether the handshake request is on its way,          *)
(* m_Initialized, m_PendingRequests, and the requests the server has got   *)
(* on it and not yet answered.                                             *)
Connection == [ws : WSState, stopped : BOOLEAN, greeted : BOOLEAN,
               handshaken : BOOLEAN, pending : SUBSET Request,
               sent : SUBSET Request]

FreshConnection == [ws |-> "connecting", stopped |-> FALSE, greeted |-> FALSE,
                    handshaken |-> FALSE, pending |-> {}, sent |-> {}]

Phase == {"idle", "poll", "dispatch", "redirected", "connect", "trim", "send",
          "expire", "crashed"}

Deadlines == 1..MaxDeadline

(* m_mustBeConnectedIn keeps falling; the code only asks for its sign.     *)
Floored(t) == IF t < -1 THEN -1 ELSE t

(* The state after GS::Initialise: one connection on its way.              *)
Init ==
    /\ conns = <<FreshConnection>>
    /\ sendQueue = <<>>
    /\ timer = [r \in Request |-> 0]
    /\ submitted = {}
    /\ callbacks = [r \in Request |-> 0]
    /\ dangling = FALSE
    /\ ready = FALSE
    /\ paused = FALSE
    /\ running = TRUE
    /\ deadline \in Deadlines
    /\ pc = "idle" /\ cursor = 1 /\ dt = 0

-----------------------------------------------------------------------------
(* Helpers                                                                 *)

GetReady(c) == c.ws = "open" /\ c.handshaken

FrontReady == conns # <<>> /\ GetReady(conns[1])

(* GS::Stop(false)                                                         *)
StopAll == [i \in 1..Len(conns) |-> [conns[i] EXCEPT !.stopped = TRUE]]

(* Mutant: the old connections are left running.                           *)
NewConnection_NoStop(isPaused) ==
    IF isPaused
      THEN UNCHANGED links
      ELSE /\ conns' = <<FreshConnection>> \o conns
           /\ ready' = FALSE
           /\ deadline' \in Deadlines

(* Mutant: m_Paused is not looked at.                                      *)
NewConnection_Paused(isPaused) ==
    /\ conns' = <<FreshConnection>> \o StopAll
    /\ ready' = FALSE
    /\ deadline' \in Deadlines

(* GS::NewConnection, unless paused: every connection is stopped, the      *)
(* service is unavailable, and a new connection becomes the front.         *)
NewConnection(isPaused) ==
    IF isPaused
      THEN UNCHANGED links
      ELSE /\ conns' = <<FreshConnection>> \o StopAll
           /\ ready' = FALSE
           /\ deadline' \in Deadlines

(* Mutant: whether there is a connection at all is not looked at.          *)
ConnectionRequired_Front == deadline <= 0 /\ conns # <<>> /\ conns[1].stopped

ConnectionRequired ==
    /\ deadline <= 0
    /\ conns = <<>> \/ conns[1].stopped

(* GSConnection::SendImmediate of r on the front, whose websocket is open. *)
SendImmediate(r) ==
    conns' = [conns EXCEPT ![1].pending = @ \cup {r}, ![1].sent = @ \cup {r}]

(* GSRequest::Complete for every request of S.                             *)
Complete(S) ==
    callbacks' = [r \in Request |-> callbacks[r] + IF r \in S THEN 1 ELSE 0]

(* Mutant: the loops start before the first connection.                    *)
Goto_Zero(phase) == pc' = phase /\ cursor' = 0 /\ UNCHANGED dt

Goto(phase) == pc' = phase /\ cursor' = 1 /\ UNCHANGED dt

(* The rest of GSConnection::Update and of the loop of UpdateConnections,  *)
(* for a connection that is (not) stopped by now: a stopped one ends the   *)
(* loop.                                                                   *)
NextConnection(isStopped) ==
    IF isStopped THEN Goto("connect")
                 ELSE pc' = "poll" /\ cursor' = cursor + 1 /\ UNCHANGED dt

-----------------------------------------------------------------------------
(* The application, between two Updates                                    *)

Idle == pc = "idle" /\ running

(* GSRequest::Send and GS::Send of a request that is not durable.          *)
Send(r) ==
    /\ Idle
    /\ r \notin submitted
    /\ submitted' = submitted \cup {r}
    /\ \E t \in Timeouts : timer' = [timer EXCEPT ![r] = t]
    /\ IF FrontReady
         THEN SendImmediate(r) /\ UNCHANGED <<sendQueue, ready, deadline>>
         ELSE /\ IF conns = <<>> THEN NewConnection(paused)
                                 ELSE UNCHANGED links
              /\ sendQueue' = Append(sendQueue, r)
    /\ UNCHANGED <<callbacks, dangling, flags, pc, cursor, dt>>

Disconnect ==
    /\ Idle
    /\ paused' = TRUE
    /\ conns' = StopAll
    /\ ready' = FALSE
    /\ UNCHANGED <<deadline, running, requests, pc, cursor, dt>>

Reconnect ==
    /\ Idle
    /\ paused' = FALSE
    /\ IF ConnectionRequired THEN NewConnection(FALSE) ELSE UNCHANGED links
    /\ UNCHANGED <<running, requests, pc, cursor, dt>>

(* GS::Reset: Disconnect, then Reconnect, which finds the front stopped.   *)
Reset ==
    /\ Idle
    /\ paused' = FALSE
    /\ IF deadline <= 0
         THEN NewConnection(FALSE)
         ELSE conns' = StopAll /\ ready' = FALSE /\ UNCHANGED deadline
    /\ UNCHANGED <<running, requests, pc, cursor, dt>>

(* GS::ShutDown terminates every connection; "you cannot call any other    *)
(* member function after this call" (GS.h), and Update then does nothing.  *)
ShutDown ==
    /\ Idle
    /\ running' = FALSE
    /\ paused' = TRUE
    /\ conns' = [i \in 1..Len(conns) |->
                   [conns[i] EXCEPT !.stopped = TRUE, !.ws = "none"]]
    /\ ready' = FALSE
    /\ UNCHANGED <<deadline, requests, pc, cursor, dt>>

-----------------------------------------------------------------------------
(* GS::UpdateConnections: poll a connection, then dispatch one frame       *)

UpdateBegin ==
    /\ Idle
    /\ dt' \in Deltas
    /\ deadline' = Floored(deadline - dt')
    /\ pc' = "poll" /\ cursor' = 1
    /\ UNCHANGED <<conns, ready, requests, flags>>

At(phase) == pc = phase /\ cursor <= Len(conns)
AtEnd(phase) == pc = phase /\ cursor > Len(conns)

Current == conns[cursor]

(* IsWebSocketConnectionAlive                                              *)
Alive(c) == c.ws \in {"connecting", "open", "closing"}

EndConnections ==
    /\ AtEnd("poll")
    /\ Goto("connect")
    /\ UNCHANGED <<links, requests, flags>>

PollSkip ==
    /\ At("poll")
    /\ ~Alive(Current)
    /\ NextConnection(FALSE)
    /\ UNCHANGED <<links, requests, flags>>

(* A socket that is still connecting, or has become open in this very      *)
(* poll, has no frame to dispatch.                                         *)
PollConnecting ==
    /\ At("poll")
    /\ Current.ws = "connecting"
    /\ \E s \in {"connecting", "open"} : conns' = [conns EXCEPT ![cursor].ws = s]
    /\ NextConnection(Current.stopped)
    /\ UNCHANGED <<ready, deadline, requests, flags>>

(* The poll reports nothing; a stopped connection dispatches nothing.      *)
PollQuiet ==
    /\ At("poll")
    /\ Current.ws \in {"open", "closing"}
    /\ IF Current.stopped THEN Goto("connect")
                          ELSE pc' = "dispatch" /\ UNCHANGED <<cursor, dt>>
    /\ UNCHANGED <<links, requests, flags>>

(* Mutant: it is the front that is stopped, whichever connection fails.    *)
OnWebSocketError_Front(orderly, state) ==
    /\ conns' = [conns EXCEPT ![1].stopped = TRUE, ![cursor].ws = state]
    /\ ready' = IF ~orderly /\ cursor = 1 THEN FALSE ELSE ready
    /\ UNCHANGED deadline

(* GSConnection::OnWebSocketError: any error stops the connection, and one *)
(* other than an orderly close of the front makes the service unavailable. *)
OnWebSocketError(orderly, state) ==
    /\ conns' = [conns EXCEPT ![cursor].stopped = TRUE, ![cursor].ws = state]
    /\ ready' = IF ~orderly /\ cursor = 1 THEN FALSE ELSE ready
    /\ UNCHANGED deadline

(* Connecting, reading or writing fails, or the peer closes an open or     *)
(* closing websocket: the poll reports it and the socket is closed.        *)
PollClosed(orderly) ==
    /\ At("poll")
    /\ Alive(Current)
    /\ Current.ws = "connecting" => ~orderly
    /\ OnWebSocketError(orderly, "closed")
    /\ Goto("connect")
    /\ UNCHANGED <<requests, flags>>

(* GS::OnMessageReceived first looks for a connectUrl, which sends the      *)
(* client to another server: a new connection, and this one is stopped.    *)
(* It then handles the rest of the frame all the same, for the connection  *)
(* the frame came by, which is now behind the new one.                     *)
DispatchRedirect ==
    /\ At("dispatch")
    /\ NewConnection(paused)
    /\ pc' = "redirected"
    /\ cursor' = IF paused THEN cursor ELSE cursor + 1
    /\ UNCHANGED <<dt, requests, flags>>

(* The rest of a frame that redirects the client, or a whole frame.        *)
Dispatching == At("dispatch") \/ At("redirected")

(* No complete frame, or one that changes nothing: a ping, a pong, a       *)
(* message for a listener, a handshake answered with an error.             *)
DispatchNothing ==
    /\ Dispatching
    /\ NextConnection(Current.stopped)
    /\ UNCHANGED <<links, requests, flags>>

(* The server's greeting carries a nonce and is answered with a handshake  *)
(* request, which a websocket that is closing swallows.                    *)
DispatchNonce ==
    /\ Dispatching
    /\ ~Current.greeted
    /\ conns' = [conns EXCEPT ![cursor].greeted = (Current.ws = "open")]
    /\ NextConnection(Current.stopped)
    /\ UNCHANGED <<ready, deadline, requests, flags>>

(* The answer to the handshake request carries the session id.             *)
DispatchSession ==
    /\ Dispatching
    /\ Current.greeted
    /\ conns' = [conns EXCEPT ![cursor].handshaken = TRUE]
    /\ ready' = TRUE
    /\ NextConnection(Current.stopped)
    /\ UNCHANGED <<deadline, requests, flags>>

(* Mutant: a late response is completed, too.                              *)
DispatchResponse_Late(r) ==
    /\ Dispatching
    /\ r \in Current.sent
    /\ conns' = [conns EXCEPT ![cursor].sent = @ \ {r},
                              ![cursor].pending = @ \ {r}]
    /\ Complete({r})
    /\ NextConnection(Current.stopped)
    /\ UNCHANGED <<ready, deadline, sendQueue, timer, submitted, dangling, flags>>

(* A response, perhaps late: ProcessReceivedResponse drops one that finds  *)
(* no pending request.                                                     *)
DispatchResponse(r) ==
    /\ Dispatching
    /\ r \in Current.sent
    /\ conns' = [conns EXCEPT ![cursor].sent = @ \ {r},
                              ![cursor].pending = @ \ {r}]
    /\ Complete({r} \cap Current.pending)
    /\ NextConnection(Current.stopped)
    /\ UNCHANGED <<ready, deadline, sendQueue, timer, submitted, dangling, flags>>

(* A close frame is answered in kind.                                      *)
DispatchClose ==
    /\ At("dispatch")
    /\ conns' = [conns EXCEPT ![cursor].ws = "closing"]
    /\ NextConnection(Current.stopped)
    /\ UNCHANGED <<ready, deadline, requests, flags>>

(* A frame of a kind the client does not know is an error, too.            *)
DispatchUnexpected ==
    /\ At("dispatch")
    /\ OnWebSocketError(FALSE, "closing")
    /\ Goto("connect")
    /\ UNCHANGED <<requests, flags>>

-----------------------------------------------------------------------------
(* GS::ProcessQueues                                                       *)

ConnectIfRequired ==
    /\ pc = "connect"
    /\ IF ConnectionRequired THEN NewConnection(paused) ELSE UNCHANGED links
    /\ Goto("trim")
    /\ UNCHANGED <<requests, flags>>

(* Mutants: stopped connections are kept, or are deleted with their        *)
(* pending requests.                                                       *)
ToBeDeleted_Kept(c) == deadline < 0 /\ ~GetReady(c)
ToBeDeleted_Pending(c) == c.stopped \/ (deadline < 0 /\ ~GetReady(c))

ToBeDeleted(c) ==
    \/ deadline < 0 /\ ~GetReady(c)
    \/ c.pending = {} /\ c.stopped

(* TrimOldConnections, one iteration: close, erase, delete.  The pending   *)
(* requests are destroyed with the connection.                             *)
TrimDelete ==
    /\ At("trim")
    /\ ToBeDeleted(Current)
    /\ conns' = RemoveAt(conns, cursor)
    /\ UNCHANGED <<ready, deadline, requests, flags, pc, cursor, dt>>

TrimKeep ==
    /\ At("trim")
    /\ ~ToBeDeleted(Current)
    /\ cursor' = cursor + 1
    /\ UNCHANGED <<links, requests, flags, pc, dt>>

EndTrim ==
    /\ AtEnd("trim")
    /\ Goto("send")
    /\ UNCHANGED <<links, requests, flags>>

(* Mutant: the head of the queue does not age.                             *)
HeadTimer_Frozen == timer[Head(sendQueue)]

(* ProcessSendQueue looks at the head of the queue only.                   *)
HeadTimer == timer[Head(sendQueue)] - dt

AtSendQueue(expired, front) ==
    /\ pc = "send"
    /\ sendQueue # <<>>
    /\ expired = (HeadTimer <= 0)
    /\ front = FrontReady
    /\ timer' = [timer EXCEPT ![Head(sendQueue)] = HeadTimer]

SendQueueEmpty ==
    /\ pc = "send" /\ sendQueue = <<>>
    /\ Goto("expire")
    /\ UNCHANGED <<links, requests, flags>>

SendQueueWaits ==
    /\ AtSendQueue(FALSE, FALSE)
    /\ Goto("expire")
    /\ UNCHANGED <<links, sendQueue, submitted, callbacks, dangling, flags>>

SendQueueSends ==
    /\ AtSendQueue(FALSE, TRUE)
    /\ SendImmediate(Head(sendQueue))
    /\ sendQueue' = Tail(sendQueue)
    /\ Goto("expire")
    /\ UNCHANGED <<ready, deadline, submitted, callbacks, dangling, flags>>

SendQueueExpires ==
    /\ AtSendQueue(TRUE, FALSE)
    /\ Complete({Head(sendQueue)})
    /\ sendQueue' = Tail(sendQueue)
    /\ Goto("expire")
    /\ UNCHANGED <<links, submitted, dangling, flags>>

(* Undefined behaviour.  The head expired and was popped, but the front is *)
(* ready: the code goes on to send through its reference to the popped     *)
(* request and pops the queue again.  Either the process dies, as it does  *)
(* when there is nothing to pop, or the stale request is still readable:   *)
(* it is sent, and the next request is destroyed in its place.             *)
SendQueueDangles ==
    /\ AtSendQueue(TRUE, TRUE)
    /\ Complete({Head(sendQueue)})
    /\ dangling' = TRUE
    /\ \/ /\ Goto("crashed")
          /\ sendQueue' = Tail(sendQueue)
          /\ UNCHANGED conns
       \/ /\ Len(sendQueue) > 1
          /\ SendImmediate(Head(sendQueue))
          /\ sendQueue' = Tail(Tail(sendQueue))
          /\ Goto("expire")
    /\ UNCHANGED <<ready, deadline, submitted, flags>>

(* Mutant: the time-out is tested before it is counted down.               *)
Overdue_Early(c) == {r \in c.pending : timer[r] < 0}

Overdue(c) == {r \in c.pending : timer[r] - dt < 0}

PendingSomewhere(r) == \E i \in 1..Len(conns) : r \in conns[i].pending

(* ProcessPendingQueue, over every connection.                             *)
ExpirePending ==
    /\ pc = "expire"
    /\ timer' = [r \in Request |->
                   timer[r] - IF PendingSomewhere(r) THEN dt ELSE 0]
    /\ Complete(UNION {Overdue(conns[i]) : i \in 1..Len(conns)})
    /\ conns' = [i \in 1..Len(conns) |->
                   [conns[i] EXCEPT !.pending = @ \ Overdue(conns[i])]]
    /\ Goto("idle")
    /\ UNCHANGED <<ready, deadline, sendQueue, submitted, dangling, flags>>

-----------------------------------------------------------------------------
Application ==
    \/ \E r \in Request : Send(r)
    \/ Disconnect \/ Reconnect \/ Reset \/ ShutDown

UpdateConnections ==
    \/ EndConnections \/ PollSkip \/ PollConnecting \/ PollQuiet
    \/ \E orderly \in BOOLEAN : PollClosed(orderly)
    \/ DispatchRedirect \/ DispatchNothing \/ DispatchNonce \/ DispatchSession
    \/ \E r \in Request : DispatchResponse(r)
    \/ DispatchClose \/ DispatchUnexpected

TrimOldConnections == EndTrim \/ TrimDelete \/ TrimKeep

ProcessSendQueue ==
    \/ SendQueueEmpty \/ SendQueueWaits \/ SendQueueSends
    \/ SendQueueExpires \/ SendQueueDangles

Update ==
    \/ UpdateBegin \/ UpdateConnections \/ ConnectIfRequired
    \/ TrimOldConnections \/ ProcessSendQueue \/ ExpirePending

Next == Application \/ Update

Spec == Init /\ [][Next]_vars

(* The application keeps calling Update ("as often as possible", GS.h).    *)
FairSpec == Spec /\ WF_vars(Update)

-----------------------------------------------------------------------------
(* Properties                                                              *)

Held(r) == r \in ToSet(sendQueue) \/ PendingSomewhere(r)

Live == \E i \in 1..Len(conns) : ~conns[i].stopped

(* Every variable holds a value of its type.                               *)
TypeOK ==
    /\ conns \in Seq(Connection)
    /\ sendQueue \in Seq(Request)
    /\ timer \in [Request -> Int]
    /\ submitted \in SUBSET Request
    /\ callbacks \in [Request -> Nat]
    /\ dangling \in BOOLEAN
    /\ ready \in BOOLEAN
    /\ paused \in BOOLEAN
    /\ running \in BOOLEAN
    /\ deadline \in Int
    /\ pc \in Phase
    /\ cursor \in Nat \ {0}
    /\ dt \in Int

(* GS sends on and listens to m_Connections[0] only: whatever sequence of  *)
(* redirects, resets, time-outs and socket errors happened, no connection  *)
(* but the front may still be running.                                     *)
OneLiveConnection == \A i \in 2..Len(conns) : conns[i].stopped

(* After Disconnect every connection stays stopped, and a handshake that   *)
(* was under way can no longer make the service available, until the       *)
(* application reconnects.                                                 *)
DisconnectIsFinal == paused => ~ready /\ ~Live

(* Both of them: what runs is what the application wants to run.           *)
LiveAsWanted == OneLiveConnection /\ DisconnectIsFinal

(* No request is called back twice or is still held after its callback: a  *)
(* response that comes after the time-out, on an old connection or on a    *)
(* new one, finds nothing to complete.  Using the dangling reference in    *)
(* ProcessSendQueue is the one exception.                                  *)
AtMostOneCallback ==
    ~dangling => \A r \in Request :
                   callbacks[r] + (IF Held(r) THEN 1 ELSE 0) <= 1

(* An Update leaves no request pending past its time-out, on whichever     *)
(* connection it waits.                                                    *)
NoOverdueRequest ==
    pc = "idle" => \A i \in 1..Len(conns) :
                     \A r \in conns[i].pending : timer[r] >= 0

(* Old connections do not pile up: those that survive an Update wait for a *)
(* request each, and before the next Update the application can replace    *)
(* the front once and stop it again.                                       *)
ConnectionsBounded == Len(conns) <= Cardinality(Request) + 3

(* A request leaves the client without a callback in two ways only: its    *)
(* connection missed the deadline and is deleted with its pending requests *)
(* (TrimOldConnections), or ProcessSendQueue popped the queue twice.       *)
LostOnlyTwoWays ==
    [][\A r \in Request :
         Held(r) /\ ~Held(r)' /\ callbacks'[r] = callbacks[r] =>
            \/ dangling'
            \/ /\ pc = "trim" /\ deadline < 0
               /\ r \in Current.pending /\ ~GetReady(Current)]_vars

(* What the application is promised of its requests, their callbacks and   *)
(* the availability of the service (GS::Send, GetAvailable, Disconnect,    *)
(* ShutDown), which the connections, the queues and the parts of Update    *)
(* keep together: a request waits, whatever happens to its connection,     *)
(* until it is called back or lost, and a step does one of these at most.  *)
Promise == INSTANCE Service WITH
    available <- ready, waiting <- {r \in Request : Held(r)}, calls <- callbacks
ImplementsService == Promise!Spec

(* The reconnect timer never gives up a connection that is still running.  *)
ReconnectSparesLive == [][pc = "connect" /\ conns' # conns => ~Live]_vars

(* Connected or not, available or not, no request is held forever: it is   *)
(* answered, timed out or lost.                                            *)
NothingHeldForever ==
    \A r \in Request :
        Held(r) ~> (~Held(r) \/ ~running \/ pc = "crashed")

(* A client that is neither paused nor shut down does not stay without a   *)
(* running connection.                                                     *)
Reconnects == ~Live ~> (Live \/ paused \/ ~running \/ pc = "crashed")

(* GS.cpp:414, of CancelRequest: "needs to be called, before it's popped   *)
(* from the queue": a popped request is not used any more.                 *)
NoDanglingUse == ~dangling
=============================================================================
