------------------------------- MODULE Service -------------------------------
(***************************************************************************)
(* What GS promises the application about requests that are not durable,   *)
(* without connections, queues, handshakes or time-outs.  A request that   *)
(* was sent waits until its callback runs or until it is lost; nothing     *)
(* but a response or a time-out runs a callback, and none runs after       *)
(* ShutDown.  The service may become available at any time but between     *)
(* Disconnect and Reconnect.  GSClient implements this specification.      *)
(***************************************************************************)
EXTENDS Naturals

CONSTANT Request    \* the calls of GSRequest::Send

VARIABLES
    running,    \* GS is initialised, and not shut down
    paused,     \* the application has disconnected
    available,  \* what GetAvailable returns
    submitted,  \* the requests that were sent
    waiting,    \* those of them that may still be called back
    calls       \* how often the callback of each has run

switches == <<running, paused>>
account == <<submitted, waiting, calls>>
vars == <<switches, available, account>>

Init ==
    /\ running = TRUE /\ paused = FALSE /\ available = FALSE
    /\ submitted = {} /\ waiting = {}
    /\ calls = [r \in Request |-> 0]

(* A call of the application may make the service unavailable, never the   *)
(* other way round.                                                        *)
NotRaised == available' \in {available, FALSE}

Send(r) ==
    /\ running /\ r \notin submitted
    /\ submitted' = submitted \cup {r}
    /\ waiting' = waiting \cup {r}
    /\ NotRaised
    /\ UNCHANGED <<switches, calls>>

Disconnect ==
    /\ running
    /\ paused' = TRUE /\ available' = FALSE
    /\ UNCHANGED <<running, account>>

(* Reconnect and Reset                                                     *)
Reconnect ==
    /\ running
    /\ paused' = FALSE /\ NotRaised
    /\ UNCHANGED <<running, account>>

ShutDown ==
    /\ running
    /\ running' = FALSE /\ paused' = TRUE /\ available' = FALSE
    /\ UNCHANGED account

BecomeAvailable ==
    /\ running /\ ~paused
    /\ available' = TRUE
    /\ UNCHANGED <<switches, account>>

BecomeUnavailable ==
    /\ running
    /\ available' = FALSE
    /\ UNCHANGED <<switches, account>>

Called(S) == calls' = [r \in Request |-> calls[r] + IF r \in S THEN 1 ELSE 0]

(* Requests are answered or time out.                                      *)
Complete(S) ==
    /\ running /\ S \subseteq waiting
    /\ waiting' = waiting \ S
    /\ Called(S)
    /\ UNCHANGED <<switches, available, submitted>>

(* Their connection was not ready in time, and is deleted with them.       *)
Lose(S) ==
    /\ running /\ S \subseteq waiting
    /\ waiting' = waiting \ S
    /\ UNCHANGED <<switches, available, submitted, calls>>

(* A request that times out at the head of the queue is called back, sent  *)
(* nevertheless, and may be called back again; the next is lost for it.    *)
Overtake(r, s) ==
    /\ running /\ r # s /\ {r, s} \subseteq waiting
    /\ waiting' = waiting \ {s}
    /\ Called({r})
    /\ UNCHANGED <<switches, available, submitted>>

Next ==
    \/ \E r \in Request : Send(r)
    \/ Disconnect \/ Reconnect \/ ShutDown
    \/ BecomeAvailable \/ BecomeUnavailable
    \/ \E S \in SUBSET Request : Complete(S) \/ Lose(S)
    \/ \E r, s \in Request : Overtake(r, s)

Spec == Init /\ [][Next]_vars
=============================================================================
