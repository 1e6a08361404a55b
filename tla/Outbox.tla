-------------------------------- MODULE Outbox --------------------------------
(***************************************************************************)
(* What the durable requests of GameSparks promise, without connections,   *)
(* copies, retries or files: every user has a box of requests.  A request  *)
(* enters the box of the user who sends it once, stays there whoever logs  *)
(* in and however often the process ends, and leaves it for good when it   *)
(* is answered while that user is logged in or withdrawn by them, or when  *)
(* a crash tears the box.  DurableQueue implements this specification.     *)
(***************************************************************************)
CONSTANTS
    Request,    \* the durable requests
    User,       \* the users
    Anonymous   \* nobody is logged in

VARIABLES
    user,       \* who is logged in
    box,        \* the requests each user has left to be answered
    ended       \* requests that are answered, withdrawn or torn

vars == <<user, box, ended>>

Init ==
    /\ user = Anonymous
    /\ box = [u \in User |-> {}]
    /\ ended = {}

Boxed(r) == \E u \in User : r \in box[u]

Submit(r) ==
    /\ ~Boxed(r) /\ r \notin ended
    /\ box' = [box EXCEPT ![user] = @ \cup {r}]
    /\ UNCHANGED <<user, ended>>

(* A request is answered or withdrawn.  Only the box of the user who is    *)
(* logged in is looked at: an answer for somebody else's request leaves it *)
(* where it is, to be sent and answered again.                             *)
End(r) ==
    /\ Boxed(r) \/ r \in ended
    /\ box' = [box EXCEPT ![user] = @ \ {r}]
    /\ ended' = ended \cup {r}
    /\ UNCHANGED user

Login(u) ==
    /\ user' = u
    /\ UNCHANGED <<box, ended>>

(* A crash in the middle of a write: what was in the box is lost.          *)
Tear ==
    /\ box' = [box EXCEPT ![user] = {}]
    /\ ended' = ended \cup box[user]
    /\ UNCHANGED user

Next ==
    \/ \E r \in Request : Submit(r) \/ End(r)
    \/ \E u \in User : Login(u)
    \/ Tear

Spec == Init /\ [][Next]_vars
=============================================================================
