----------------------------- MODULE Composition -----------------------------
(***************************************************************************)
(* GSClient and DurableQueue are two views of GameSparks::Core::GS.  They  *)
(* share m_Connections: GSClient says how it changes, and DurableQueue     *)
(* assumes no more of it than its actions Connections.  This module states *)
(* that the assumption is met.                                             *)
(***************************************************************************)
EXTENDS GSClient

(* A connection, as the durable requests see it.  None of them is pending: *)
(* what Connections does to pending requests is to delete them with their  *)
(* connection, and GSClient deletes a connection for fewer reasons when it *)
(* has more of them.                                                       *)
Seen(c) == [ready |-> GetReady(c), stopped |-> c.stopped, pending |-> {}]

SeenConnections == [i \in 1..Len(conns) |-> Seen(conns[i])]

(* DurableQueue on GSClient's connections.  No user ever logs in and no    *)
(* durable request is sent, so that these values are all constant.         *)
Durable == INSTANCE DurableQueue WITH
    Request <- {}, User <- {0}, Anonymous <- 0, RetryPeriods <- {1},
    DrainInterval <- 1, Limit <- 1, Deltas <- {1}, Reattach <- {FALSE},
    MaxConnections <- Cardinality(Request) + 3,
    user <- 0, store <- [u \in {0} |-> <<>>], queue <- <<>>,
    conns <- SeenConnections, drain <- 0, enabled <- TRUE,
    submitted <- {}, owner <- [r \in {} |-> 0], callbacks <- [r \in {} |-> 0],
    answered <- {}, astray <- {}, withdrawn <- {}, torn <- {}

(* Every step of GSClient is one of DurableQueue's Connections or is not   *)
(* seen by the durable requests: within Update, a redirect, a time-out, a  *)
(* frame or a deletion changes one connection at a time in the way         *)
(* DurableQueue has it.  A connection behind the front never runs again,   *)
(* but the frame that redirected the client may still make it ready.       *)
ConnectionsAsAssumed ==
    Durable!Init /\ [][Durable!Connections]_Durable!vars
=============================================================================
