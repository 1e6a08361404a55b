------------------------------ MODULE RTDelivery ------------------------------
(***************************************************************************)
(* The packets of a real-time session between players: the sequence        *)
(* numbers their sessions give, the two routes to this client, the filter  *)
(* RTSessionImpl::ShouldExecute that both receiving threads pass, and the  *)
(* action queue the application's Updates execute.                         *)
(*                                                                         *)
(* ShouldExecute takes no lock.  It reads peerMaxSequenceNumbers, compares *)
(* and writes; the other thread, and the application's when it executes a  *)
(* PlayerConnectMessage, may come in between.  What comes of inserting a   *)
(* new peer into the map on two threads at once is not modelled.           *)
(*                                                                         *)
(* The other players run the same code; the server passes on what they     *)
(* send, over UDP or in the order it chooses over TCP.                     *)
(***************************************************************************)
EXTENDS Integers, Sequences

CONSTANTS
    Peer,           \* the other players
    Empty,          \* the packets, as <<session, number>>, without a payload
    Fields,         \* those whose payload happens to read as packet fields
    MaxSessions,    \* bound on the sessions of a peer, one after the other
    MaxNumber,      \* bound on the sequence numbers of a session
    MaxTcp,         \* bound on the packets the TCP stream holds
    MaxQueue        \* bound on the actions that wait for an Update

ASSUME BoundAssumption ==
    /\ MaxSessions \in Nat \ {0} /\ MaxNumber \in Nat
    /\ MaxTcp \in Nat /\ MaxQueue \in Nat
ASSUME PayloadAssumption == Empty \cup Fields \subseteq Nat \X Nat

VARIABLES
    session,    \* which of its sessions a peer is in
    next,       \* RTSessionImpl::sequenceNumber of each of its sessions
    tcp,        \* the stream of this client's reliable connection
    thread,     \* the receiving thread of each route
    max,        \* peerMaxSequenceNumbers; 0 also when the peer is not in it
    queue,      \* actionQueue
    epoch,      \* how often max of a peer was reset
    highest,    \* the highest number ShouldExecute has stored since; -1: none
    used,       \* the routes by which it did, for each epoch
    heard       \* the last filtered number the listener got, its epoch, and the
                \* one before it in that epoch, if that was higher

vars == <<session, next, tcp, thread, max, queue, epoch, highest, used, heard>>
history == <<epoch, highest, used, heard>>

Route == {"tcp", "udp"}
Number == 0..MaxNumber
Epoch == 0..MaxSessions

Packet == [kind : {"packet"}, peer : Peer, session : 1..MaxSessions, n : Number]
PlayerConnect == [kind : {"connect"}, peer : Peer]

Nothing == [kind |-> "nothing"]

Filtered(m) == <<m.session, m.n>> \notin Empty

(* A thread with the packet in its hands, which it let pass in an epoch.   *)
Thread == [pc : {"read", "store", "submit", "dead"},
           packet : Packet \cup {Nothing}, epoch : Epoch]

(* An action that waits for Update.                                        *)
Command == [packet : Packet, epoch : Epoch]
             \cup [packet : PlayerConnect, epoch : {0}]

Init ==
    /\ session = [p \in Peer |-> 1]
    /\ next = [p \in Peer |-> [i \in 1..MaxSessions |-> 0]]
    /\ tcp = <<>>
    /\ thread = [c \in Route |-> [pc |-> "read", packet |-> Nothing, epoch |-> 0]]
    /\ max = [p \in Peer |-> 0]
    /\ queue = <<>>
    /\ epoch = [p \in Peer |-> 0]
    /\ highest = [p \in Peer |-> -1]
    /\ used = {}
    /\ heard = [p \in Peer |-> [epoch |-> 0, before |-> 0, n |-> 0]]

-----------------------------------------------------------------------------
(* The other players and the server                                        *)

(* A peer sends a packet UNRELIABLE_SEQUENCED: RTRequest::ToPacket takes   *)
(* the next number, whether the packet can be sent or not.                 *)
SendSequenced(p) ==
    /\ next[p][session[p]] <= MaxNumber
    /\ next' = [next EXCEPT ![p][session[p]] = @ + 1]
    /\ UNCHANGED <<session, tcp, thread, max, queue, history>>

(* A peer connects again: its numbers start from 0, and the server tells   *)
(* this client.                                                            *)
Rejoin(p) ==
    /\ session[p] < MaxSessions /\ Len(tcp) < MaxTcp
    /\ session' = [session EXCEPT ![p] = @ + 1]
    /\ tcp' = Append(tcp, [kind |-> "connect", peer |-> p])
    /\ UNCHANGED <<next, thread, max, queue, history>>

(* What may arrive over UDP, once, repeatedly or never.                    *)
Sent(m) == m.n < next[m.peer][m.session]

(* The server passes a packet on over TCP.                                 *)
Relay(m) ==
    /\ Sent(m)
    /\ Len(tcp) < MaxTcp
    /\ tcp' = Append(tcp, m)
    /\ UNCHANGED <<session, next, thread, max, queue, history>>

-----------------------------------------------------------------------------
(* The receiving threads                                                   *)

At(c, pc) == thread[c].pc = pc

Goto(c, pc) == [thread EXCEPT ![c].pc = pc]

Reading(c) ==
    [thread EXCEPT ![c] = [pc |-> "read", packet |-> Nothing, epoch |-> 0]]

(* The comparison of ShouldExecute.                                        *)
ShouldExecute(m) == m.n >= max[m.peer]

(* Packet::DeserializeLengthDelimited.  A packet without a payload never   *)
(* comes to CommandFactory::GetCommand and so not to ShouldExecute.        *)
Take(c, m) ==
    /\ At(c, "read")
    /\ Filtered(m) => ShouldExecute(m)
    /\ thread' = [thread EXCEPT ![c] =
                    [pc |-> IF Filtered(m) THEN "store" ELSE "submit",
                     packet |-> m, epoch |-> 0]]

(* GetCommand returns nothing for a packet it discards and leaves the      *)
(* payload in the stream, where it is read as fields of the packet.  When  *)
(* that fails the rest of a datagram is dropped, while the thread of the   *)
(* reliable connection ends.                                               *)
Discard(c, m) ==
    /\ At(c, "read")
    /\ Filtered(m) /\ ~ShouldExecute(m)
    /\ thread' = IF c = "tcp" /\ <<m.session, m.n>> \notin Fields
                 THEN Goto(c, "dead") ELSE thread

ReceiveUdp(m) ==
    /\ Sent(m)
    /\ Take("udp", m) \/ Discard("udp", m)
    /\ UNCHANGED <<session, next, tcp, max, queue, history>>

ReceiveTcp(m) ==
    /\ tcp # <<>> /\ Head(tcp) = m
    /\ Take("tcp", m) \/ Discard("tcp", m)
    /\ tcp' = Tail(tcp)
    /\ UNCHANGED <<session, next, max, queue, history>>

(* PlayerConnectMessage is an AbstractResult that is executed in Update.   *)
ReceiveConnect ==
    /\ At("tcp", "read")
    /\ tcp # <<>> /\ Head(tcp).kind = "connect"
    /\ Len(queue) < MaxQueue
    /\ queue' = Append(queue, [packet |-> Head(tcp), epoch |-> 0])
    /\ tcp' = Tail(tcp)
    /\ UNCHANGED <<session, next, thread, max, history>>

(* Mutant: peerMaxSequenceNumbers is not written.                          *)
Store_Forgotten(c) ==
    LET m == thread[c].packet IN
    /\ At(c, "store")
    /\ highest' = [highest EXCEPT ![m.peer] = IF m.n > @ THEN m.n ELSE @]
    /\ used' = used \cup {<<m.peer, epoch[m.peer], c>>}
    /\ thread' = [thread EXCEPT ![c].pc = "submit", ![c].epoch = epoch[m.peer]]
    /\ UNCHANGED <<session, next, tcp, max, queue, epoch, heard>>

(* Mutant: the number expected next is written.                            *)
Store_Next(c) ==
    LET m == thread[c].packet IN
    /\ At(c, "store")
    /\ max' = [max EXCEPT ![m.peer] = m.n + 1]
    /\ highest' = [highest EXCEPT ![m.peer] = IF m.n > @ THEN m.n ELSE @]
    /\ used' = used \cup {<<m.peer, epoch[m.peer], c>>}
    /\ thread' = [thread EXCEPT ![c].pc = "submit", ![c].epoch = epoch[m.peer]]
    /\ UNCHANGED <<session, next, tcp, queue, epoch, heard>>

(* The end of ShouldExecute.                                               *)
Store(c) ==
    LET m == thread[c].packet IN
    /\ At(c, "store")
    /\ max' = [max EXCEPT ![m.peer] = m.n]
    /\ highest' = [highest EXCEPT ![m.peer] = IF m.n > @ THEN m.n ELSE @]
    /\ used' = used \cup {<<m.peer, epoch[m.peer], c>>}
    /\ thread' = [thread EXCEPT ![c].pc = "submit", ![c].epoch = epoch[m.peer]]
    /\ UNCHANGED <<session, next, tcp, queue, epoch, heard>>

(* SubmitAction, of what CustomCommand::Deserialize made of the packet.    *)
Submit(c) ==
    /\ At(c, "submit") /\ Len(queue) < MaxQueue
    /\ queue' = Append(queue, [packet |-> thread[c].packet,
                               epoch |-> thread[c].epoch])
    /\ thread' = Reading(c)
    /\ UNCHANGED <<session, next, tcp, max, history>>

-----------------------------------------------------------------------------
(* RTSessionImpl::Update                                                   *)

(* Mutant: OnPlayerConnect does not call ResetSequenceForPeer.             *)
ExecuteConnect_NoReset ==
    LET p == Head(queue).packet.peer IN
    /\ queue # <<>> /\ Head(queue).packet.kind = "connect"
    /\ queue' = Tail(queue)
    /\ epoch' = [epoch EXCEPT ![p] = @ + 1]
    /\ highest' = [highest EXCEPT ![p] = -1]
    /\ UNCHANGED <<session, next, tcp, thread, max, used, heard>>

(* PlayerConnectMessage::Execute, OnPlayerConnect                          *)
ExecuteConnect ==
    LET p == Head(queue).packet.peer IN
    /\ queue # <<>> /\ Head(queue).packet.kind = "connect"
    /\ queue' = Tail(queue)
    /\ max' = [max EXCEPT ![p] = 0]
    /\ epoch' = [epoch EXCEPT ![p] = @ + 1]
    /\ highest' = [highest EXCEPT ![p] = -1]
    /\ UNCHANGED <<session, next, tcp, thread, used, heard>>

(* CustomCommand::Execute calls the listener.                              *)
ExecutePacket ==
    LET m == Head(queue).packet
        e == Head(queue).epoch IN
    /\ queue # <<>> /\ m.kind = "packet"
    /\ queue' = Tail(queue)
    /\ heard' = IF ~Filtered(m) THEN heard
                ELSE [heard EXCEPT ![m.peer] =
                        [epoch |-> e, n |-> m.n,
                         before |-> IF @.epoch = e /\ @.n > m.n THEN @.n ELSE m.n]]
    /\ UNCHANGED <<session, next, tcp, thread, max, epoch, highest, used>>

-----------------------------------------------------------------------------
Peers ==
    \E p \in Peer : Rejoin(p) \/ SendSequenced(p)

Receive ==
    \/ \E m \in Packet : Relay(m) \/ ReceiveUdp(m) \/ ReceiveTcp(m)
    \/ ReceiveConnect
    \/ \E c \in Route : Store(c) \/ Submit(c)

Update == ExecuteConnect \/ ExecutePacket

Next == Peers \/ Receive \/ Update

Spec == Init /\ [][Next]_vars

-----------------------------------------------------------------------------
(* Properties                                                              *)

(* Every variable holds a value of its type.                               *)
TypeOK ==
    /\ session \in [Peer -> 1..MaxSessions]
    /\ next \in [Peer -> [1..MaxSessions -> 0..MaxNumber + 1]]
    /\ tcp \in Seq(Packet \cup PlayerConnect)
    /\ thread \in [Route -> Thread]
    /\ max \in [Peer -> Number]
    /\ queue \in Seq(Command)
    /\ epoch \in [Peer -> Epoch]
    /\ highest \in [Peer -> Number \cup {-1}]
    /\ used \subseteq Peer \X Epoch \X Route
    /\ heard \in [Peer -> [epoch : Epoch, before : Number, n : Number]]

(* ShouldExecute discards a packet only when one with a higher number of   *)
(* the same peer was let pass since the peer connected last: neither the   *)
(* other thread nor a reset in the middle of it costs any other packet.    *)
DiscardJustified ==
    \A m \in Packet : ~ShouldExecute(m) => highest[m.peer] > m.n

(* Of the packets with a payload the listener gets, between two resets,    *)
(* none with a lower number after one with a higher, unless they came by   *)
(* both routes, whose threads can overtake each other between comparing    *)
(* and storing a number, and on the way to the action queue.               *)
InSequence ==
    \A p \in Peer :
        heard[p].before > heard[p].n =>
            \A c \in Route : <<p, heard[p].epoch, c>> \in used
=============================================================================
