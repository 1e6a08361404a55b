----------------------------- MODULE DurableQueue -----------------------------
(***************************************************************************)
(* The durable requests of GameSparks::Core::GS: the persistent queue of   *)
(* the current user and its file, the copies of its requests that are in   *)
(* flight on the connections, their retries, and what a change of user, a  *)
(* new connection or a crash of the process does to them.                  *)
(*                                                                         *)
(* The connections are those of module GSClient with everything left out   *)
(* that a durable request does not see: a connection may become ready and  *)
(* stop at any time between two rounds of ProcessPersistentQueue.  That    *)
(* GSClient's connections do no more is shown in Composition.  Nothing     *)
(* of a durable request changes between ProcessPersistentQueue and         *)
(* ProcessPendingQueue of an Update, so that the two are one step.         *)
(* m_durableQueuePaused is true inside SetUserId only and not seen here.   *)
(***************************************************************************)
EXTENDS Integers, FiniteSets, SequencesExt

CONSTANTS
    Request,        \* the durable requests, each with a requestId of its own
    User,           \* the user ids IGSPlatform::GetUserId returns
    Anonymous,      \* the empty user id, of a client nobody has logged in on
    RetryPeriods,   \* requestTimeout + ComputeSleepPeriod, in ticks
    DrainInterval,  \* durableDrainInterval, in ticks
    Limit,          \* durableConcurrentRequests
    Deltas,         \* values of deltaTimeInSeconds, in ticks
    Reattach,       \* whether callbacks are attached to a loaded queue
    MaxConnections  \* bound on the connections at a time

ASSUME UserAssumption == Anonymous \in User
ASSUME PeriodAssumption == RetryPeriods \subseteq Nat \ {0}
ASSUME IntervalAssumption == DrainInterval \in Nat \ {0}
ASSUME LimitAssumption == Limit \in Nat \ {0}
ASSUME DeltasAssumption == Deltas \subseteq Nat \ {0}
ASSUME ReattachAssumption == Reattach \subseteq BOOLEAN
ASSUME ConnectionsAssumption == MaxConnections \in Nat \ {0}

VARIABLES
    user,       \* IGSPlatform::m_UserId, which is also in a file
    store,      \* the files <user>_persistentQueue
    queue,      \* GS::m_PersistentQueue
    conns,      \* GS::m_Connections, newest first
    drain,      \* m_sendNextDurableRequestIn; only its sign is asked for
    enabled,    \* m_durableQueueRunning
    submitted,  \* requests handed to GS::SendDurable so far
    owner,      \* the user at that time
    callbacks,  \* how often the callback of a request ran: 0, 1 or more
    answered,   \* requests the server has answered
    astray,     \* those answered while another user was logged in
    withdrawn,  \* requests the application has removed from the queue
    torn        \* requests lost when a crash cut a write short

vars == <<user, store, queue, conns, drain, enabled, submitted, owner,
          callbacks, answered, astray, withdrawn, torn>>
history == <<submitted, owner, callbacks, answered, astray, withdrawn, torn>>

(* A request of the queue, and its copy in m_PendingRequests: when it is   *)
(* due or times out, and whether it still has the callback it was sent     *)
(* with.  A connection is ready when its GetReady is true.                 *)
Entry == [id : Request, left : Nat, callback : BOOLEAN]
Connection == [ready : BOOLEAN, stopped : BOOLEAN, pending : SUBSET Entry]

FreshConnection == [ready |-> FALSE, stopped |-> FALSE, pending |-> {}]

Ids(q) == [i \in 1..Len(q) |-> q[i].id]

Queued(r) == \E i \in 1..Len(queue) : queue[i].id = r

Stored(r, u) == r \in ToSet(store[u])

(* DeserializeRequestQueue: every request is due.  Its callback is gone,   *)
(* unless OnPersistentQueueLoadedCallback attaches one again.              *)
Loaded(ids, attach) ==
    [i \in 1..Len(ids) |-> [id |-> ids[i], left |-> 0, callback |-> attach]]

Init ==
    /\ user = Anonymous
    /\ store = [u \in User |-> <<>>]
    /\ queue = <<>>
    /\ conns = <<FreshConnection>>
    /\ drain = 0
    /\ enabled = TRUE
    /\ submitted = {}
    /\ owner = [r \in Request |-> Anonymous]
    /\ callbacks = [r \in Request |-> 0]
    /\ answered = {} /\ astray = {} /\ withdrawn = {} /\ torn = {}

-----------------------------------------------------------------------------
(* Helpers                                                                 *)

(* Mutant: the time left is not clamped.                                   *)
Floored_Not(t) == t

Floored(t) == IF t < 0 THEN 0 ELSE t

(* More than once is all a property asks of a count.                       *)
Counted(n) == IF n < 2 THEN n + 1 ELSE n

FrontReady == conns # <<>> /\ conns[1].ready

First(S) == CHOOSE i \in S : \A j \in S : i <= j

Position(r) == First({i \in 1..Len(queue) : queue[i].id = r})

(* Change m_PersistentQueue, then WritePersistentQueue.                    *)
SetQueue(q) ==
    /\ queue' = q
    /\ store' = [store EXCEPT ![user] = Ids(q)]

(* Mutant: the first request of the queue is removed, whichever it is.     *)
RemoveDurableQueueEntry_First(r) ==
    IF queue # <<>> THEN SetQueue(Tail(queue)) ELSE UNCHANGED <<queue, store>>

(* RemoveDurableQueueEntry, of the queue of the current user.              *)
RemoveDurableQueueEntry(r) ==
    IF Queued(r)
      THEN SetQueue(RemoveAt(queue, Position(r)))
      ELSE UNCHANGED <<queue, store>>

(* The copies in flight, on every connection, stopped ones included.       *)
InFlight == UNION {{i} \X conns[i].pending : i \in 1..Len(conns)}

-----------------------------------------------------------------------------
(* The application                                                         *)

(* GS::SendDurable: the newest request goes to the front of the queue.     *)
SendDurable(r) ==
    /\ r \notin submitted
    /\ submitted' = submitted \cup {r}
    /\ owner' = [owner EXCEPT ![r] = user]
    /\ SetQueue(<<[id |-> r, left |-> 0, callback |-> TRUE]>> \o queue)
    /\ UNCHANGED <<user, conns, drain, enabled, callbacks, answered, astray,
                   withdrawn, torn>>

(* The application removes a request it finds in GetDurableQueueEntries.   *)
Withdraw(r) ==
    /\ Queued(r)
    /\ RemoveDurableQueueEntry(r)
    /\ withdrawn' = withdrawn \cup {r}
    /\ UNCHANGED <<user, conns, drain, enabled, submitted, owner, callbacks,
                   answered, astray, torn>>

SetDurableQueueRunning ==
    /\ enabled' = ~enabled
    /\ UNCHANGED <<user, store, queue, conns, drain, history>>

-----------------------------------------------------------------------------
(* The connections, as GSClient has them                                   *)

Unrelated == <<user, store, queue, drain, enabled, history>>

(* The handshake is through.  The connection may be stopped by then, and   *)
(* behind another: a frame that redirects the client may also end the      *)
(* handshake of the connection it came by.                                 *)
ConnectionReady(i) ==
    /\ ~conns[i].ready
    /\ conns' = [conns EXCEPT ![i].ready = TRUE]
    /\ UNCHANGED Unrelated

(* Disconnect stops every connection and closes none.                      *)
Disconnect ==
    /\ conns # <<>> /\ ~conns[1].stopped
    /\ conns' = [conns EXCEPT ![1].stopped = TRUE]
    /\ UNCHANGED Unrelated

(* The websocket of a connection closes, with or without an error.         *)
SocketClosed(i) ==
    /\ conns' = [conns EXCEPT ![i].ready = FALSE, ![i].stopped = TRUE]
    /\ UNCHANGED Unrelated

(* The peer's close frame: the websocket is closing, and dispatches on.    *)
CloseFrame ==
    /\ conns # <<>> /\ conns[1].ready /\ ~conns[1].stopped
    /\ conns' = [conns EXCEPT ![1].ready = FALSE]
    /\ UNCHANGED Unrelated

(* ShutDown stops every connection and takes its websocket away.           *)
ShutDown ==
    /\ conns' = [i \in 1..Len(conns) |->
                   [conns[i] EXCEPT !.ready = FALSE, !.stopped = TRUE]]
    /\ UNCHANGED Unrelated

(* A redirect, a reconnection or a Send without a connection.              *)
NewConnection ==
    /\ Len(conns) < MaxConnections
    /\ conns' = <<FreshConnection>> \o
                [i \in 1..Len(conns) |-> [conns[i] EXCEPT !.stopped = TRUE]]
    /\ UNCHANGED Unrelated

(* TrimOldConnections                                                      *)
DeleteConnection(i) ==
    /\ ~conns[i].ready \/ (conns[i].stopped /\ conns[i].pending = {})
    /\ conns' = RemoveAt(conns, i)
    /\ UNCHANGED Unrelated

-----------------------------------------------------------------------------
(* The server's frames, which only a running connection dispatches         *)

(* Mutant: the pending request is not erased, and a response that comes    *)
(* twice is not dropped.                                                   *)
Respond_Kept(i, e) ==
    /\ ~conns[i].stopped
    /\ RemoveDurableQueueEntry(e.id)
    /\ answered' = answered \cup {e.id}
    /\ astray' = astray \cup {r \in {e.id} : user # owner[r]}
    /\ callbacks' = [callbacks EXCEPT ![e.id] = IF e.callback THEN Counted(@) ELSE @]
    /\ UNCHANGED <<user, conns, drain, enabled, submitted, owner, withdrawn, torn>>

(* ProcessReceivedResponse of a response that finds its pending request.   *)
(* One that finds none is dropped and changes nothing.  A frame that       *)
(* redirects the client as well stops the connection before the response   *)
(* is handled; as the two touch different things, that is this step        *)
(* followed by NewConnection.                                              *)
Respond(i, e) ==
    /\ ~conns[i].stopped
    /\ conns' = [conns EXCEPT ![i].pending = @ \ {e}]
    /\ RemoveDurableQueueEntry(e.id)
    /\ answered' = answered \cup {e.id}
    /\ astray' = astray \cup {r \in {e.id} : user # owner[r]}
    /\ callbacks' = [callbacks EXCEPT ![e.id] = IF e.callback THEN Counted(@) ELSE @]
    /\ UNCHANGED <<user, drain, enabled, submitted, owner, withdrawn, torn>>

Authenticates(u) ==
    /\ \E i \in 1..Len(conns) : ~conns[i].stopped
    /\ u # user

(* Mutant: the queue of the previous user stays in memory.                 *)
SetUserId_NoReload(u) ==
    /\ Authenticates(u)
    /\ user' = u
    /\ UNCHANGED <<store, queue, conns, drain, enabled, history>>

(* SetUserId, on an AuthenticationResponse for another user: the queue is  *)
(* the new user's, the copies in flight stay.                              *)
SetUserId(u) ==
    /\ Authenticates(u)
    /\ user' = u
    /\ \E attach \in Reattach : queue' = Loaded(store[u], attach)
    /\ UNCHANGED <<store, conns, drain, enabled, history>>

-----------------------------------------------------------------------------
(* GS::Update                                                              *)

Aged(q, dt) == [i \in 1..Len(q) |-> [q[i] EXCEPT !.left = Floored(@ - dt)]]

Due(q) == {i \in 1..Len(q) : q[i].left = 0}

(* Mutant: only the copies on the front count.                             *)
MaySend_Front(q) ==
    /\ FrontReady
    /\ Cardinality(conns[1].pending) < Limit
    /\ Due(q) # {}

(* What ProcessPersistentQueue sends: as drain is set to an interval       *)
(* greater than zero by the first request sent, one request at most.       *)
MaySend(q) ==
    /\ Cardinality(InFlight) < Limit
    /\ FrontReady
    /\ Due(q) # {}

(* map::insert: a copy that is still pending is not replaced.              *)
Inserted(pending, e) ==
    IF \E c \in pending : c.id = e.id THEN pending ELSE pending \cup {e}

(* ProcessPendingQueue: a copy that times out gets a ClientError, which    *)
(* removes it and leaves the queue alone.                                  *)
Unexpired(pending, dt) ==
    {[c EXCEPT !.left = @ - dt] : c \in {c \in pending : c.left >= dt}}

(* Mutant: only the copies on the front time out.                          *)
Expired_Front(cs, dt) ==
    [i \in 1..Len(cs) |->
       IF i = 1 THEN [cs[1] EXCEPT !.pending = Unexpired(@, dt)] ELSE cs[i]]

Expired(cs, dt) ==
    [i \in 1..Len(cs) |-> [cs[i] EXCEPT !.pending = Unexpired(@, dt)]]

(* Nothing is sent: the queue is not running, or nothing may be sent.      *)
UpdateQuiet(dt) ==
    LET q == IF enabled THEN Aged(queue, dt) ELSE queue IN
    /\ ~(enabled /\ drain <= dt /\ MaySend(q))
    /\ queue' = q
    /\ drain' = Floored(drain - dt)
    /\ conns' = Expired(conns, dt)
    /\ UNCHANGED <<user, store, enabled, history>>

(* The first request that is due is sent, perhaps once more; it is due     *)
(* again after a time-out and a period that grows with the attempts.       *)
UpdateSends(dt) ==
    LET q == Aged(queue, dt)
        i == First(Due(q)) IN
    /\ enabled
    /\ drain <= dt
    /\ MaySend(q)
    /\ \E p \in RetryPeriods :
         /\ queue' = [q EXCEPT ![i].left = p]
         /\ conns' = Expired([conns EXCEPT
                          ![1].pending = Inserted(@, [q[i] EXCEPT !.left = p])], dt)
    /\ drain' = DrainInterval
    /\ UNCHANGED <<user, store, enabled, history>>

-----------------------------------------------------------------------------
(* The process ends and starts again: Initialise loads the user id and the *)
(* queue from their files.                                                 *)

Initialise(u, files) ==
    /\ user' = u
    /\ store' = files
    /\ \E attach \in Reattach : queue' = Loaded(files[u], attach)
    /\ conns' = <<FreshConnection>>
    /\ drain' = 0
    /\ enabled' = TRUE
    /\ UNCHANGED <<submitted, owner, callbacks, answered, astray>>

Crash == Initialise(user, store) /\ UNCHANGED <<withdrawn, torn>>

(* StoreValue truncates the file before it writes: a crash in the middle   *)
(* of WritePersistentQueue, when r is being sent or removed, leaves no     *)
(* queue that parses, and the other requests are gone with it.             *)
CrashInWrite(r) ==
    /\ r \notin submitted \/ Queued(r)
    /\ Initialise(user, [store EXCEPT ![user] = <<>>])
    /\ withdrawn' = withdrawn \cup ({r} \cap submitted)
    /\ torn' = torn \cup (ToSet(store[user]) \ {r})

(* The same of IGSPlatform::SetUserId: the user id is lost.                *)
CrashInSetUserId ==
    /\ \E u \in User : Authenticates(u)
    /\ Initialise(Anonymous, store)
    /\ UNCHANGED <<withdrawn, torn>>

-----------------------------------------------------------------------------
Application ==
    \/ \E r \in Request : SendDurable(r) \/ Withdraw(r)
    \/ SetDurableQueueRunning

Connections ==
    \/ CloseFrame \/ Disconnect \/ ShutDown \/ NewConnection
    \/ \E i \in 1..Len(conns) :
         ConnectionReady(i) \/ SocketClosed(i) \/ DeleteConnection(i)

Response ==
    \E i \in 1..Len(conns) : \E e \in conns[i].pending : Respond(i, e)

Update == \E dt \in Deltas : UpdateQuiet(dt) \/ UpdateSends(dt)

Next ==
    \/ Application \/ Connections \/ Response \/ Update
    \/ \E u \in User \ {Anonymous} : SetUserId(u)
    \/ Crash \/ CrashInSetUserId
    \/ \E r \in Request : CrashInWrite(r)

Spec == Init /\ [][Next]_vars

(* The application keeps calling Update, and a request that is in flight   *)
(* on a running connection often enough is answered.                       *)
FairSpec == Spec /\ WF_vars(Update) /\ SF_vars(Response)

-----------------------------------------------------------------------------
(* Properties                                                              *)

(* Every variable holds a value of its type.                               *)
TypeOK ==
    /\ user \in User
    /\ store \in [User -> Seq(Request)]
    /\ queue \in Seq(Entry)
    /\ conns \in Seq(Connection)
    /\ drain \in Nat
    /\ enabled \in BOOLEAN
    /\ submitted \in SUBSET Request
    /\ owner \in [Request -> User]
    /\ callbacks \in [Request -> 0..2]
    /\ answered \in SUBSET Request
    /\ astray \in SUBSET answered
    /\ withdrawn \in SUBSET Request
    /\ torn \in SUBSET Request

(* Whatever the users do and wherever the process crashes, a durable       *)
(* request that is neither answered nor withdrawn is in the file of the    *)
(* user who sent it, unless a crash cut the writing of that file short.    *)
NoDurableLost ==
    \A r \in submitted \ (answered \cup withdrawn \cup torn) : Stored(r, owner[r])

(* A request is in one file only, that of the user who sent it, and there  *)
(* once: a change of user mixes no queues, although the copies in flight   *)
(* and their answers outlive it.                                           *)
QueuesSeparate ==
    \A u \in User :
        /\ IsInjective(store[u])
        /\ \A r \in ToSet(store[u]) : owner[r] = u

(* However often a durable request is sent, on however many connections    *)
(* and by however many processes, it is called back once at most and not   *)
(* sent by another process after its answer.  The exception is an answer   *)
(* that comes when another user has logged in.                             *)
DoneOnce ==
    \A r \in Request \ astray :
        /\ callbacks[r] <= 1
        /\ r \in answered => \A u \in User : ~Stored(r, u)

(* No more than durableConcurrentRequests copies are in flight, those on   *)
(* connections given up and those of other users included.                 *)
InFlightBounded == Cardinality(InFlight) <= Limit

(* A request the application has withdrawn is not sent by any later        *)
(* process, either.                                                        *)
WithdrawnIsGone == \A u \in User : \A r \in withdrawn : ~Stored(r, u)

(* Against Outbox, everything DurableQueue adds is invisible: sending,     *)
(* retrying, timing out and crashing never move a request to another box,  *)
(* drop it early or bring an ended one back.                               *)
Promise == INSTANCE Outbox WITH
    box <- [u \in User |-> ToSet(store[u])],
    ended <- answered \cup withdrawn \cup torn

ImplementsOutbox == Promise!Spec

Stable == enabled /\ conns # <<>> /\ conns[1].ready /\ ~conns[1].stopped

(* A client that stays connected works off its queue: neither the drain    *)
(* interval nor copies stuck on old connections nor the order of the       *)
(* queue keep a request from being sent for ever.                          *)
QueueDrains ==
    <>[]Stable /\ <>[][UNCHANGED user]_user => <>[](queue = <<>>)

(* GS.cpp:524, of a response: "remove from persistent queue".              *)
AnsweredIsRemoved == \A u \in User : \A r \in answered : ~Stored(r, u)
=============================================================================
