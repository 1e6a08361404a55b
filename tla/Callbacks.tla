------------------------------- MODULE Callbacks -------------------------------
(***************************************************************************)
(* The calls the application makes from inside a callback of              *)
(* GameSparks::Core::GS.  GSClient lets a handler finish before the        *)
(* application moves; here the C++ stack is part of the state.  Each       *)
(* callback (GameSparksAvailable, GameSparksAuthenticated, OnNonce, the    *)
(* listener of a message, the callback of a request) is a frame on it, and *)
(* below it lie the functions that wait for it to return: NewConnection,   *)
(* the websocket's poll and _dispatch, the loops over m_Connections.       *)
(*                                                                         *)
(* The connections are cut down to what those functions look at.  Time is  *)
(* the sign of m_mustBeConnectedIn.  The send queue and the durable queue, *)
(* whose callbacks run with none of these functions waiting, are left to   *)
(* GSClient and DurableQueue.                                              *)
(***************************************************************************)
EXTENDS Integers, FiniteSets, SequencesExt

CONSTANTS
    MaxDepth,   \* callbacks that may be on the stack when a call is made
    MaxPending  \* connections that may have a request waiting

ASSUME DepthAssumption == MaxDepth \in Nat
ASSUME PendingAssumption == MaxPending \in Nat

VARIABLES
    conns,     \* GS::m_Connections, newest first
    ready,     \* GS::m_Ready
    paused,    \* GS::m_Paused
    running,   \* GS::m_Initialized
    deadline,  \* the sign of GS::m_mustBeConnectedIn
    stack,     \* what is still to be done, innermost first
    fault,     \* a websocket or an iterator was used after its end
    overlaps   \* history: calls made in the middle of something, see Overlap

vars == <<conns, ready, paused, running, deadline, stack, fault, overlaps>>

(* A GSConnection: its websocket ("none" once deleted), m_Stopped, how far *)
(* the handshake is (m_Initialized is "ready"), whether a request waits.   *)
Connection == [ws : {"none", "connecting", "open", "closing", "closed"},
               stopped : BOOLEAN, stage : {"new", "greeted", "ready"},
               pending : BOOLEAN]

Fresh == [ws |-> "connecting", stopped |-> FALSE, stage |-> "new",
          pending |-> FALSE]

(* The functions that work below a callback with a websocket of theirs.    *)
OnSocket == {"failed", "refused", "redirected", "nonce", "session", "dispatched"}

(* The functions that make a connection or make the service available when *)
(* they go on.                                                             *)
Reviving == {"push", "redirected"}

Work == {"connections", "dispatch", "queues", "trim", "expire", "expired",
         "push", "reconnect", "callback"} \cup OnSocket

(* A frame of the stack: the rest of a function, the place in conns of the *)
(* connection it works for, and the index its loop is at.                  *)
Frame(do, c, i) == [do |-> do, c |-> c, i |-> i]

Callback == Frame("callback", 0, 0)

Init ==
    /\ conns = <<Fresh>>
    /\ ready = FALSE /\ paused = FALSE /\ running = TRUE
    /\ deadline = 1
    /\ stack = <<>>
    /\ fault = "none"
    /\ overlaps = {}

-----------------------------------------------------------------------------
(* Helpers.  Those with a parameter rest leave it on the stack, below the  *)
(* callbacks they make.                                                    *)

GetReady(c) == c.ws = "open" /\ c.stage = "ready"

FrontReady == conns # <<>> /\ GetReady(conns[1])

(* The bound on the requests that are sent.                                *)
Room == Cardinality({k \in DOMAIN conns : k # 1 /\ conns[k].pending}) < MaxPending

Alive(c) == c.ws \notin {"none", "closed"}

Below == Tail(stack)

Doing == {stack[k].do : k \in DOMAIN stack}

(* GS::SetAvailability tells the application of a change, after it has     *)
(* made it.                                                                *)
SetAvailability(available, rest) ==
    /\ ready' = available
    /\ stack' = IF ready = available THEN rest ELSE <<Callback>> \o rest

(* Mutant: ShutDown clears the connections.                                *)
Stop_Cleared(terminate, rest) ==
    /\ conns' = IF terminate THEN <<>>
                ELSE [k \in DOMAIN conns |-> [conns[k] EXCEPT !.stopped = TRUE]]
    /\ SetAvailability(FALSE, rest)

(* GS::Stop; a connection that is terminated loses its websocket, too.     *)
Stop(terminate, rest) ==
    /\ conns' = [k \in DOMAIN conns |->
                   [conns[k] EXCEPT !.stopped = TRUE,
                                    !.ws = IF terminate THEN "none" ELSE @]]
    /\ SetAvailability(FALSE, rest)

(* Mutants: the old connections are left running; they are terminated.     *)
NewConnection_NoStop(isPaused, rest) ==
    IF isPaused
      THEN stack' = rest /\ UNCHANGED <<conns, ready>>
      ELSE SetAvailability(FALSE, <<Frame("push", 0, 0)>> \o rest) /\ UNCHANGED conns
NewConnection_Terminates(isPaused, rest) ==
    IF isPaused
      THEN stack' = rest /\ UNCHANGED <<conns, ready>>
      ELSE Stop(TRUE, <<Frame("push", 0, 0)>> \o rest)

(* GS::NewConnection as far as Stop, whose callback runs before the new    *)
(* connection is made.                                                     *)
NewConnection(isPaused, rest) ==
    IF isPaused
      THEN stack' = rest /\ UNCHANGED <<conns, ready>>
      ELSE Stop(FALSE, <<Frame("push", 0, 0)>> \o rest)

ConnectIfRequired(isPaused, rest) ==
    IF deadline <= 0 /\ (conns = <<>> \/ conns[1].stopped)
      THEN NewConnection(isPaused, rest)
      ELSE stack' = rest /\ UNCHANGED <<conns, ready>>

-----------------------------------------------------------------------------
(* Calls of the application, between two Updates or from a callback        *)

(* What a call made in the middle of something runs into: a NewConnection  *)
(* that will put its connection in front of another ("twice"), one, or the *)
(* frame that asked for it, that will go on in a client that was told to   *)
(* stop ("late"), a websocket with a function of its own on the stack      *)
(* ("deleted"), and the loop of ProcessPendingQueue over a vector that     *)
(* grows ("grown").                                                        *)
Overlap(call) ==
    (IF call \in {"Reconnect", "Reset", "Send"} /\ "push" \in Doing
       THEN {"twice"} ELSE {})
    \cup (IF call \in {"Disconnect", "ShutDown"} /\ Doing \cap Reviving # {}
            THEN {"late"} ELSE {})
    \cup (IF call = "ShutDown" /\ Doing \cap OnSocket # {}
            THEN {"deleted"} ELSE {})
    \cup (IF call \in {"Reconnect", "Reset"} /\ "expired" \in Doing
            THEN {"grown"} ELSE {})

(* No function may be called after ShutDown (GS.h:124).  Everything is     *)
(* stopped, and past overlaps mended, by a call between two Updates.       *)
Call(call) ==
    /\ fault = "none" /\ running
    /\ stack # <<>> => Head(stack) = Callback
    /\ Cardinality({k \in DOMAIN stack : stack[k] = Callback}) <= MaxDepth
    /\ overlaps' = IF stack = <<>> /\ call \in {"Disconnect", "Reset", "ShutDown"}
                   THEN {} ELSE overlaps \cup Overlap(call)

Disconnect ==
    /\ Call("Disconnect")
    /\ paused' = TRUE
    /\ Stop(FALSE, stack)
    /\ UNCHANGED <<running, deadline, fault>>

Reconnect ==
    /\ Call("Reconnect")
    /\ paused' = FALSE
    /\ ConnectIfRequired(FALSE, stack)
    /\ UNCHANGED <<running, deadline, fault>>

(* Disconnect, and Reconnect when its callback has returned.               *)
Reset ==
    /\ Call("Reset")
    /\ paused' = TRUE
    /\ Stop(FALSE, <<Frame("reconnect", 0, 0)>> \o stack)
    /\ UNCHANGED <<running, deadline, fault>>

ShutDown ==
    /\ Call("ShutDown")
    /\ running' = FALSE /\ paused' = TRUE
    /\ Stop(TRUE, stack)
    /\ UNCHANGED <<deadline, fault>>

(* GS::Send makes a connection when there is none; a request that cannot   *)
(* go out at once is queued.                                               *)
Send ==
    /\ Call("Send") /\ Room
    /\ CASE conns = <<>> -> NewConnection(paused, stack)
         [] FrontReady -> /\ conns' = [conns EXCEPT ![1].pending = TRUE]
                          /\ UNCHANGED <<ready, stack>>
         [] OTHER -> UNCHANGED <<conns, ready, stack>>
    /\ UNCHANGED <<paused, running, deadline, fault>>

UpdateBegin ==
    /\ fault = "none" /\ running /\ stack = <<>>
    /\ deadline' \in {d \in -1..1 : d <= deadline}
    /\ stack' = <<Frame("connections", 0, 1), Frame("queues", 0, 0)>>
    /\ UNCHANGED <<conns, ready, paused, running, fault, overlaps>>

-----------------------------------------------------------------------------
(* The innermost function goes on                                          *)

At(do) == fault = "none" /\ stack # <<>> /\ Head(stack).do = do

Top == Head(stack)

Mine == conns[Top.c]

Others == UNCHANGED <<paused, running, deadline, fault, overlaps>>

(* A callback returns.                                                     *)
Return ==
    /\ At("callback")
    /\ stack' = Below
    /\ UNCHANGED <<conns, ready>> /\ Others

(* The rest of NewConnection: whatever the callback did, a connection is   *)
(* put in front.  The frames that work for one keep it, their loops keep   *)
(* their index.                                                            *)
Push ==
    /\ At("push")
    /\ conns' = <<Fresh>> \o conns
    /\ deadline' = 1
    /\ stack' = [k \in DOMAIN Below |->
                   [Below[k] EXCEPT !.c = IF @ = 0 THEN 0 ELSE @ + 1]]
    /\ UNCHANGED <<ready, paused, running, fault, overlaps>>

(* The second half of Reset.                                               *)
ResetReconnects ==
    /\ At("reconnect")
    /\ paused' = FALSE
    /\ ConnectIfRequired(FALSE, Below)
    /\ UNCHANGED <<running, deadline, fault, overlaps>>

(* GS::UpdateConnections and GSConnection::Update                          *)

NextOf(i) == <<Frame("connections", 0, i + 1)>> \o Below

EndConnections ==
    /\ At("connections")
    /\ Top.i > Len(conns)
    /\ stack' = Below
    /\ UNCHANGED <<conns, ready>> /\ Others

PollSkips ==
    /\ At("connections")
    /\ Top.i <= Len(conns)
    /\ ~Alive(conns[Top.i])
    /\ stack' = NextOf(Top.i)
    /\ UNCHANGED <<conns, ready>> /\ Others

Polling == At("connections") /\ Top.i <= Len(conns) /\ Alive(conns[Top.i])

(* Mutant: a stopped connection is asked for frames.                       *)
AfterPoll_Dispatch(i) == <<Frame("dispatch", i, i)>> \o Below

(* A stopped connection ends the loop.                                     *)
AfterPoll(i) == IF conns[i].stopped THEN Below ELSE <<Frame("dispatch", i, i)>> \o Below

PollQuiet ==
    /\ Polling
    /\ conns' \in {conns, [conns EXCEPT ![Top.i].ws = IF @ = "connecting" THEN "open" ELSE @]}
    /\ stack' = AfterPoll(Top.i)
    /\ UNCHANGED ready /\ Others

(* The peer closes in an orderly way: no word to GS.                       *)
PollCloses ==
    /\ Polling
    /\ conns[Top.i].ws # "connecting"
    /\ conns' = [conns EXCEPT ![Top.i].ws = "closed", ![Top.i].stopped = TRUE]
    /\ stack' = Below
    /\ UNCHANGED ready /\ Others

(* GS::OnWebSocketClientError for the connection i, then do.               *)
ClientError(i, do) ==
    IF i = 1 THEN SetAvailability(FALSE, <<Frame(do, i, i)>> \o Below)
    ELSE stack' = <<Frame(do, i, i)>> \o Below /\ UNCHANGED ready

PollFails ==
    /\ Polling
    /\ conns' = [conns EXCEPT ![Top.i].ws = "closed"]
    /\ ClientError(Top.i, "failed")
    /\ Others

(* The function of a websocket that returns to it must find it alive.      *)
Uses(c) == fault' = IF conns[c].ws = "none" THEN "socket" ELSE "none"

(* GSConnection::OnWebSocketError stops the connection at last.            *)
Failed ==
    /\ At("failed") \/ At("refused")
    /\ Uses(Top.c)
    /\ conns' = [conns EXCEPT ![Top.c].stopped = TRUE,
                              ![Top.c].ws = IF At("refused") THEN "closing" ELSE @]
    /\ stack' = Below
    /\ UNCHANGED <<ready, paused, running, deadline, overlaps>>

(* GS::OnMessageReceived for each kind of frame                            *)

DispatchNothing ==
    /\ At("dispatch")
    /\ stack' = NextOf(Top.i)
    /\ UNCHANGED <<conns, ready>> /\ Others

(* A connection that has been opened has got a frame.                      *)
Arrived == At("dispatch") /\ Mine.ws # "connecting"

Then(do) == <<Frame(do, Top.c, Top.i)>> \o Below

(* A connectUrl asks for a new connection, which stops this one.           *)
DispatchRedirect ==
    /\ Arrived
    /\ NewConnection(paused, Then("redirected"))
    /\ Others

(* The rest of the frame is handled none the less, for this connection: a  *)
(* frame that redirects the client may be one of the next three as well,   *)
(* or nothing more.                                                        *)
Handling == Arrived \/ At("redirected")

Redirected ==
    /\ At("redirected")
    /\ stack' = Then("dispatched")
    /\ UNCHANGED <<conns, ready>> /\ Others

(* OnNonce computes the answer to the greeting.                            *)
DispatchNonce ==
    /\ Handling
    /\ Mine.stage = "new"
    /\ stack' = <<Callback>> \o Then("nonce")
    /\ UNCHANGED <<conns, ready>> /\ Others

Greet ==
    /\ At("nonce")
    /\ Uses(Top.c)
    /\ conns' = [conns EXCEPT ![Top.c].stage = "greeted"]
    /\ stack' = Then("dispatched")
    /\ UNCHANGED <<ready, paused, running, deadline, overlaps>>

DispatchSession ==
    /\ Handling
    /\ Mine.stage # "new"
    /\ conns' = [conns EXCEPT ![Top.c].stage = "ready"]
    /\ SetAvailability(TRUE, Then("session"))
    /\ Others

(* A new user id is told to GameSparksAuthenticated.                       *)
SessionUser ==
    /\ At("session")
    /\ stack' \in {Then("dispatched"), <<Callback>> \o Then("dispatched")}
    /\ UNCHANGED <<conns, ready>> /\ Others

(* A response to the request that waits, or a message for a listener.      *)
DispatchMessage ==
    /\ Handling
    /\ conns' \in {conns, [conns EXCEPT ![Top.c].pending = FALSE]}
    /\ stack' = <<Callback>> \o Then("dispatched")
    /\ UNCHANGED ready /\ Others

DispatchClose ==
    /\ Arrived
    /\ conns' = [conns EXCEPT ![Top.c].ws = "closing"]
    /\ stack' = Then("dispatched")
    /\ UNCHANGED ready /\ Others

DispatchUnexpected ==
    /\ Arrived
    /\ ClientError(Top.c, "refused")
    /\ UNCHANGED conns /\ Others

Dispatched ==
    /\ At("dispatched")
    /\ Uses(Top.c)
    /\ stack' = IF Mine.stopped THEN Below ELSE NextOf(Top.i)
    /\ UNCHANGED <<conns, ready, paused, running, deadline, overlaps>>

(* GS::ProcessQueues                                                       *)

ProcessQueues ==
    /\ At("queues")
    /\ ConnectIfRequired(paused, <<Frame("trim", 0, 1)>>)
    /\ Others

(* Not ready in time, or stopped with nothing to wait for.                *)
ToDelete(c) ==
    \/ deadline < 0 /\ ~GetReady(c)
    \/ ~c.pending /\ c.stopped

TrimOldConnections ==
    /\ At("trim")
    /\ \/ /\ Top.i > Len(conns)
          /\ stack' = <<Frame("expire", 0, 1)>> /\ UNCHANGED conns
       \/ /\ Top.i <= Len(conns) /\ ToDelete(conns[Top.i])
          /\ conns' = RemoveAt(conns, Top.i) /\ UNCHANGED stack
       \/ /\ Top.i <= Len(conns) /\ ~ToDelete(conns[Top.i])
          /\ stack' = <<Frame("trim", 0, Top.i + 1)>> /\ UNCHANGED conns
    /\ UNCHANGED ready /\ Others

(* A request times out, on the connection the loop is at.                  *)
Expire ==
    /\ At("expire")
    /\ Top.i <= Len(conns) /\ conns[Top.i].pending
    /\ conns' = [conns EXCEPT ![Top.i].pending = FALSE]
    /\ stack' = <<Callback, Frame("expired", Top.i, Top.i)>>
    /\ UNCHANGED ready /\ Others

(* The iterator goes on, if it still stands where it stood.                *)
Expired ==
    /\ At("expired")
    /\ fault' = IF Top.c = Top.i THEN "none" ELSE "iterator"
    /\ stack' = <<Frame("expire", 0, Top.i + 1)>>
    /\ UNCHANGED <<conns, ready, paused, running, deadline, overlaps>>

NothingExpires ==
    /\ At("expire")
    /\ stack' = IF Top.i < Len(conns) THEN <<Frame("expire", 0, Top.i + 1)>> ELSE <<>>
    /\ UNCHANGED <<conns, ready>> /\ Others

-----------------------------------------------------------------------------
Application == Disconnect \/ Reconnect \/ Reset \/ ShutDown \/ Send \/ UpdateBegin

Client ==
    \/ Return \/ Push \/ ResetReconnects
    \/ EndConnections \/ PollSkips \/ PollQuiet \/ PollCloses \/ PollFails \/ Failed
    \/ DispatchNothing \/ DispatchRedirect \/ Redirected \/ DispatchNonce \/ Greet
    \/ DispatchSession \/ SessionUser \/ DispatchMessage \/ DispatchClose
    \/ DispatchUnexpected \/ Dispatched
    \/ ProcessQueues \/ TrimOldConnections \/ Expire \/ Expired \/ NothingExpires

Next == Application \/ Client

Spec == Init /\ [][Next]_vars

-----------------------------------------------------------------------------
(* Type correctness; a frame's connection is there.                        *)
TypeOK ==
    /\ conns \in Seq(Connection)
    /\ ready \in BOOLEAN /\ paused \in BOOLEAN /\ running \in BOOLEAN
    /\ deadline \in -1..1
    /\ stack \in Seq([do : Work, c : Nat, i : Nat])
    /\ \A k \in DOMAIN stack :
         /\ stack[k].c \in 0..Len(conns)
         /\ stack[k].do \in OnSocket \cup {"dispatch", "expired"} => stack[k].c # 0
    /\ fault \in {"none", "socket", "iterator"}
    /\ overlaps \subseteq {"twice", "late", "deleted", "grown"}

(* Whatever the application calls from its callbacks (GS.cpp:383), at most *)
(* the front connection runs, and none from the end of a Disconnect to the *)
(* next Reconnect, when the service is not available, either.  What is     *)
(* called from the callback of a NewConnection is the exception: after a   *)
(* call that makes a connection itself, a Send among them, there are two,  *)
(* and after a Disconnect there is one.                                    *)
LiveAsWanted ==
    /\ "twice" \notin overlaps =>
         \A k \in DOMAIN conns : k # 1 => conns[k].stopped
    /\ paused /\ stack = <<>> /\ "late" \notin overlaps =>
         ~ready /\ \A k \in DOMAIN conns : conns[k].stopped

(* GameSparksAvailable(true) is only ever about the front connection: the  *)
(* one Send uses runs and has its handshake behind it, not another whose   *)
(* answer came late.  The exception is a frame that redirects the client   *)
(* and carries a session id as well: GS.cpp:214 then announces a service   *)
(* whose connection NewConnection has just stopped and replaced.           *)
AvailableIsFront ==
    [][~ready /\ ready' /\ "twice" \notin overlaps /\ ~At("redirected") =>
         conns'[1].stage = "ready" /\ Alive(conns'[1]) /\ ~conns'[1].stopped]_vars

(* Nothing is used after its end when a callback returns: no function of a *)
(* websocket returns into a deleted one (GS.cpp:190), unless ShutDown was  *)
(* called below it, and the loop over the requests of all connections      *)
(* (GS.cpp:428) may go on, unless Reconnect or Reset was called from the   *)
(* callback of a request that timed out.                                   *)
NothingUsedAfterItsEnd ==
    /\ fault = "socket" => "deleted" \in overlaps
    /\ fault = "iterator" => "grown" \in overlaps
=============================================================================
