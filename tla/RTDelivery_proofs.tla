-------------------------- MODULE RTDelivery_proofs --------------------------
(***************************************************************************)
(* Proofs about RTDelivery, for any peers, payloads and bounds: what the   *)
(* filter of the receiving threads discards, and in which order the        *)
(* listener gets what it lets pass.                                        *)
(***************************************************************************)
EXTENDS RTDelivery, FiniteSetTheorems, SequenceTheorems, TLAPS

-----------------------------------------------------------------------------
(* The inductive invariant                                                 *)

(* How often a sequence has a member of S.                                 *)
Places(s, S) == {i \in 1..Len(s) : s[i] \in S}
Count(s, S) == Cardinality(Places(s, S))

Connect(p) == [kind |-> "connect", peer |-> p]

InTcp(s, p) == Count(s, {Connect(p)})
InQueue(s, p) == Count(s, {[packet |-> Connect(p), epoch |-> 0]})

(* A peer's sessions after its first are those whose PlayerConnectMessage  *)
(* is on its way, waits for an Update, or has been executed.               *)
ConnectsCounted ==
    \A p \in Peer : session[p] = 1 + epoch[p] + InQueue(queue, p) + InTcp(tcp, p)

(* A thread that has passed the comparison has a packet.                   *)
Loaded ==
    \A c \in Route :
        /\ thread[c].pc \in {"store", "submit"} => thread[c].packet \in Packet
        /\ thread[c].pc = "store" => Filtered(thread[c].packet)

(* The number in the map was let pass since the peer connected last.       *)
MaxWasStored == \A p \in Peer : max[p] > 0 => highest[p] >= max[p]

(* The packet x, of an action or a thread, went through the filter.        *)
Custom(x) == x.packet.kind = "packet" /\ Filtered(x.packet)

OneRoute(u, p, e) == \E c \in Route : <<p, e, c>> \notin u

(* As long as only one thread stored numbers of their peer in their epoch, *)
(* y comes no lower than x.  These three take the values of the variables  *)
(* they speak about, u of used, h of heard, f of epoch and g of max.       *)
NoHigher(u, x, y) ==
    Custom(x) /\ Custom(y) /\ x.packet.peer = y.packet.peer /\ x.epoch = y.epoch
      /\ OneRoute(u, x.packet.peer, x.epoch)
    => x.packet.n <= y.packet.n

NotBelowHeard(u, h, x) ==
    Custom(x) /\ h[x.packet.peer].epoch = x.epoch
      /\ OneRoute(u, x.packet.peer, x.epoch)
    => h[x.packet.peer].n <= x.packet.n

(* What is under way is from this epoch or an earlier one, and of this one *)
(* none is above the number in the map.                                    *)
NotAboveMax(u, f, g, x) ==
    Custom(x) =>
      /\ x.epoch <= f[x.packet.peer]
      /\ x.epoch = f[x.packet.peer] /\ OneRoute(u, x.packet.peer, x.epoch)
           => x.packet.n <= g[x.packet.peer]

Ordered ==
    /\ \A i, j \in 1..Len(queue) : i < j => NoHigher(used, queue[i], queue[j])
    /\ \A i \in 1..Len(queue) : NotBelowHeard(used, heard, queue[i])
    /\ \A i \in 1..Len(queue) : NotAboveMax(used, epoch, max, queue[i])

(* A thread on its way to the queue comes after what waits there.          *)
Submitting ==
    \A c \in Route : thread[c].pc = "submit" =>
        /\ \A i \in 1..Len(queue) : NoHigher(used, queue[i], thread[c])
        /\ NotBelowHeard(used, heard, thread[c])
        /\ NotAboveMax(used, epoch, max, thread[c])
        /\ Custom(thread[c]) =>
             <<thread[c].packet.peer, thread[c].epoch, c>> \in used

(* A thread about to store a number lowers the one in the map only when    *)
(* the other one has stored its own since it looked.                       *)
Storing ==
    \A c \in Route : thread[c].pc = "store" =>
        LET m == thread[c].packet IN
        \/ m.n >= max[m.peer]
        \/ \E d \in Route \ {c} : <<m.peer, epoch[m.peer], d>> \in used

HeardInEpoch ==
    \A p \in Peer :
        /\ heard[p].epoch <= epoch[p]
        /\ heard[p].epoch = epoch[p] /\ OneRoute(used, p, epoch[p])
             => heard[p].n <= max[p]

Inv ==
    /\ TypeOK /\ ConnectsCounted /\ Loaded /\ MaxWasStored
    /\ Ordered /\ Submitting /\ Storing /\ HeardInEpoch /\ InSequence

-----------------------------------------------------------------------------
(* Counting                                                                *)

LEMMA CountFinite ==
    ASSUME NEW T, NEW s \in Seq(T), NEW S
    PROVE  IsFiniteSet(Places(s, S)) /\ Count(s, S) \in Nat
<1>1. IsFiniteSet(1..Len(s))
  BY FS_Interval, LenProperties
<1> QED
  BY <1>1, FS_Subset, FS_CardinalityType DEF Places, Count

LEMMA CountEmpty == \A S : Count(<<>>, S) = 0
<1>1. \A S : Places(<<>>, S) = {}
  BY DEF Places
<1> QED
  BY <1>1, FS_EmptySet DEF Count

LEMMA CountAppend ==
    ASSUME NEW T, NEW s \in Seq(T), NEW x \in T, NEW S
    PROVE  Count(Append(s, x), S) = Count(s, S) + (IF x \in S THEN 1 ELSE 0)
<1>1. Places(Append(s, x), S) = Places(s, S) \cup (IF x \in S THEN {Len(s) + 1} ELSE {})
  BY DEF Places
<1>2. Len(s) + 1 \notin Places(s, S)
  BY DEF Places
<1>3. IsFiniteSet(Places(s, S)) /\ Count(s, S) \in Nat
  BY CountFinite
<1>4. CASE x \in S
  <2>1. Places(Append(s, x), S) = Places(s, S) \cup {Len(s) + 1}
    BY <1>1, <1>4
  <2>2. Cardinality(Places(s, S) \cup {Len(s) + 1}) = Cardinality(Places(s, S)) + 1
    BY <1>2, <1>3, FS_AddElement
  <2> QED
    BY <1>4, <2>1, <2>2 DEF Count
<1>5. CASE x \notin S
  BY <1>1, <1>3, <1>5 DEF Count
<1> QED
  BY <1>4, <1>5

LEMMA CountTail ==
    ASSUME NEW T, NEW s \in Seq(T), s # <<>>, NEW S
    PROVE  Count(s, S) = Count(Tail(s), S) + (IF Head(s) \in S THEN 1 ELSE 0)
<1> DEFINE rest == Places(s, S) \ {1}
           shift == [i \in Places(Tail(s), S) |-> i + 1]
<1>1. IsFiniteSet(Places(s, S)) /\ IsFiniteSet(Places(Tail(s), S)) /\ Tail(s) \in Seq(T)
  BY CountFinite, HeadTailProperties
<1>2. /\ Len(s) \in Nat \ {0} /\ Len(Tail(s)) = Len(s) - 1
      /\ \A i \in 1..Len(s) - 1 : Tail(s)[i] = s[i + 1]
      /\ Head(s) = s[1]
  OBVIOUS
<1>3. shift \in Bijection(Places(Tail(s), S), rest)
  <2>1. \A i \in Places(Tail(s), S) : i + 1 \in rest
    BY <1>2 DEF Places
  <2>2. \A j \in rest : j - 1 \in Places(Tail(s), S) /\ (j - 1) + 1 = j
    BY <1>2 DEF Places
  <2>3. shift \in [Places(Tail(s), S) -> rest]
    BY <2>1
  <2>4. shift \in Injection(Places(Tail(s), S), rest)
    <3>1. \A i, j \in Places(Tail(s), S) : i \in Int /\ j \in Int
      BY DEF Places
    <3>2. \A i, j \in Places(Tail(s), S) : shift[i] = shift[j] => i = j
      BY <3>1
    <3> QED
      BY <2>3, <3>2 DEF Injection, IsInjective
  <2>5. shift \in Surjection(Places(Tail(s), S), rest)
    BY <2>2, <2>3 DEF Surjection
  <2> QED
    BY <2>4, <2>5 DEF Bijection
<1>4. Cardinality(rest) = Count(Tail(s), S)
  BY <1>1, <1>3, FS_Bijection DEF ExistsBijection, Count
<1>5. Cardinality(rest) = IF 1 \in Places(s, S) THEN Count(s, S) - 1 ELSE Count(s, S)
  BY <1>1, FS_RemoveElement DEF Count
<1>6. 1 \in Places(s, S) <=> Head(s) \in S
  BY <1>2 DEF Places
<1>7. Count(s, S) \in Nat /\ Count(Tail(s), S) \in Nat
  BY <1>1, CountFinite
<1> QED
  BY <1>4, <1>5, <1>6, <1>7

-----------------------------------------------------------------------------
(* Types, and the connects on their way                                    *)

Routing == TypeOK /\ ConnectsCounted /\ Loaded

LEMMA Initially == Init => Inv
<1> SUFFICES ASSUME Init PROVE Inv
  OBVIOUS
<1>1. TypeOK /\ Loaded /\ MaxWasStored
  BY BoundAssumption
     DEF Init, TypeOK, Loaded, MaxWasStored, Thread, Number, Epoch, Nothing, Route
<1>2. ConnectsCounted
  <2> SUFFICES ASSUME NEW p \in Peer
               PROVE  session[p] = 1 + epoch[p] + InQueue(queue, p) + InTcp(tcp, p)
    BY DEF ConnectsCounted
  <2>1. InTcp(tcp, p) = 0 /\ InQueue(queue, p) = 0
    BY CountEmpty DEF Init, InTcp, InQueue
  <2>2. session[p] = 1 /\ epoch[p] = 0
    BY DEF Init
  <2> QED
    BY <2>1, <2>2
<1>3. Ordered /\ Submitting /\ Storing /\ HeardInEpoch /\ InSequence
  BY DEF Init, Ordered, Submitting, Storing, HeardInEpoch, InSequence
<1> QED
  BY <1>1, <1>2, <1>3 DEF Inv

(* What a thread does with the packet it has read: it passes the filter,   *)
(* needs none, or is dropped.                                              *)
Accepts(c, m) ==
    /\ thread[c].pc = "read" /\ (Filtered(m) => m.n >= max[m.peer])
    /\ thread' = [thread EXCEPT ![c] =
                    [pc |-> IF Filtered(m) THEN "store" ELSE "submit",
                     packet |-> m, epoch |-> 0]]
Drops(c) ==
    /\ thread[c].pc = "read"
    /\ thread' \in {thread, [thread EXCEPT ![c].pc = "dead"]}

LEMMA TakeOrDiscard ==
    ASSUME NEW c \in Route, NEW m \in Packet, Take(c, m) \/ Discard(c, m)
    PROVE  Accepts(c, m) \/ Drops(c)
BY DEF Take, Discard, At, Goto, ShouldExecute, Accepts, Drops

LEMMA ThreadTyped ==
    ASSUME Routing, NEW c \in Route, NEW m \in Packet, Accepts(c, m) \/ Drops(c)
    PROVE  thread' \in [Route -> Thread] /\ Loaded'
<1>1. CASE Accepts(c, m)
  <2>1. [pc |-> IF Filtered(m) THEN "store" ELSE "submit",
         packet |-> m, epoch |-> 0] \in Thread
    BY BoundAssumption DEF Thread, Epoch
  <2> QED
    BY <1>1, <2>1 DEF Accepts, Routing, TypeOK, Loaded, Filtered
<1>2. CASE Drops(c)
  <2>1. thread \in [Route -> Thread] /\ thread[c] \in Thread /\ Loaded
    BY DEF Routing, TypeOK
  <2>2. [thread[c] EXCEPT !.pc = "dead"] \in Thread
    BY <2>1 DEF Thread
  <2> QED
    BY <1>2, <2>1, <2>2 DEF Drops, Loaded, Thread
<1> QED
  BY <1>1, <1>2

(* A step that leaves the number of connects as it is.                     *)
LEMMA SameCount ==
    ASSUME ConnectsCounted, UNCHANGED <<session, epoch>>,
           \A p \in Peer : /\ InTcp(tcp', p) = InTcp(tcp, p)
                            /\ InQueue(queue', p) = InQueue(queue, p)
    PROVE  ConnectsCounted'
BY DEF ConnectsCounted

LEMMA SequencesTyped ==
    Routing => tcp \in Seq(Packet \cup PlayerConnect) /\ queue \in Seq(Command)
BY DEF Routing, TypeOK

LEMMA CountsTyped ==
    ASSUME Routing, NEW p \in Peer
    PROVE  /\ InTcp(tcp, p) \in Nat /\ InQueue(queue, p) \in Nat
           /\ session[p] \in 1..MaxSessions /\ epoch[p] \in Nat
           /\ session[p] = 1 + epoch[p] + InQueue(queue, p) + InTcp(tcp, p)
<1>1. InTcp(tcp, p) \in Nat /\ InQueue(queue, p) \in Nat
  BY SequencesTyped, CountFinite DEF InTcp, InQueue
<1>2. session[p] \in 1..MaxSessions /\ epoch[p] \in Nat
  BY DEF Routing, TypeOK, Epoch
<1> QED
  BY <1>1, <1>2 DEF Routing, ConnectsCounted

LEMMA RejoinRouting ==
    ASSUME Routing, NEW p \in Peer, Rejoin(p)
    PROVE  Routing'
<1> DEFINE x == Connect(p)
<1>1. x \in Packet \cup PlayerConnect
  BY DEF Connect, PlayerConnect
<1>2. /\ session' = [session EXCEPT ![p] = @ + 1] /\ session[p] < MaxSessions
      /\ tcp' = Append(tcp, x)
      /\ UNCHANGED <<next, thread, max, queue, epoch, highest, used, heard>>
  BY DEF Rejoin, history, Connect
<1>3. TypeOK'
  <2>1. session' \in [Peer -> 1..MaxSessions]
    BY <1>2, BoundAssumption DEF Routing, TypeOK
  <2>2. tcp' \in Seq(Packet \cup PlayerConnect)
    BY <1>1, <1>2, AppendProperties DEF Routing, TypeOK
  <2> QED
    BY <1>2, <2>1, <2>2 DEF Routing, TypeOK
<1>4. \A q \in Peer : InTcp(tcp', q) = InTcp(tcp, q) + (IF q = p THEN 1 ELSE 0)
  <2> TAKE q \in Peer
  <2>1. Count(Append(tcp, x), {Connect(q)})
          = Count(tcp, {Connect(q)}) + (IF x \in {Connect(q)} THEN 1 ELSE 0)
    BY <1>1, CountAppend, SequencesTyped
  <2>2. x \in {Connect(q)} <=> q = p
    BY DEF Connect
  <2> QED
    BY <1>2, <2>1, <2>2 DEF InTcp
<1>5. \A q \in Peer : InQueue(queue', q) = InQueue(queue, q)
  BY <1>2 DEF InQueue
<1>6. ConnectsCounted'
  <2> SUFFICES ASSUME NEW q \in Peer
               PROVE  session'[q] = 1 + epoch'[q] + InQueue(queue', q) + InTcp(tcp', q)
    BY DEF ConnectsCounted
  <2>1. /\ session[q] = 1 + epoch[q] + InQueue(queue, q) + InTcp(tcp, q)
        /\ session[q] \in Int /\ epoch[q] \in Int
        /\ InQueue(queue, q) \in Nat /\ InTcp(tcp, q) \in Nat
    BY CountsTyped
  <2>3. session'[q] = session[q] + (IF q = p THEN 1 ELSE 0)
    BY <1>2 DEF Routing, TypeOK
  <2> HIDE DEF x
  <2> QED
    <3>1. InTcp(tcp', q) = InTcp(tcp, q) + (IF q = p THEN 1 ELSE 0)
      BY <1>4
    <3>2. InQueue(queue', q) = InQueue(queue, q) /\ epoch'[q] = epoch[q]
      BY <1>2, <1>5
    <3>3. CASE q = p
      BY <2>1, <2>3, <3>1, <3>2, <3>3
    <3>4. CASE q # p
      BY <2>1, <2>3, <3>1, <3>2, <3>4
    <3> QED
      BY <3>3, <3>4
<1>7. Loaded'
  BY <1>2 DEF Routing, Loaded, Filtered
<1> QED
  BY <1>3, <1>6, <1>7 DEF Routing

LEMMA RelayRouting ==
    ASSUME Routing, NEW m \in Packet, Relay(m)
    PROVE  Routing'
<1>1. /\ tcp' = Append(tcp, m)
      /\ UNCHANGED <<session, next, thread, max, queue, epoch, highest, used, heard>>
  BY DEF Relay, history
<1>2. tcp' \in Seq(Packet \cup PlayerConnect)
  BY <1>1, AppendProperties DEF Routing, TypeOK
<1>3. \A q \in Peer : InTcp(tcp', q) = InTcp(tcp, q)
  <2> TAKE q \in Peer
  <2>1. m \notin {Connect(q)}
    BY DEF Connect, Packet
  <2>2. Count(Append(tcp, m), {Connect(q)})
          = Count(tcp, {Connect(q)}) + (IF m \in {Connect(q)} THEN 1 ELSE 0)
    BY CountAppend, SequencesTyped
  <2>3. InTcp(tcp, q) \in Nat
    BY CountsTyped
  <2> QED
    BY <1>1, <2>1, <2>2, <2>3 DEF InTcp
<1>4. \A q \in Peer : InQueue(queue', q) = InQueue(queue, q)
  BY <1>1 DEF InQueue
<1>5. ConnectsCounted'
  BY <1>1, <1>3, <1>4, SameCount DEF Routing
<1>6. TypeOK' /\ Loaded'
  BY <1>1, <1>2 DEF Routing, TypeOK, Loaded, Filtered
<1> QED
  BY <1>5, <1>6 DEF Routing

(* Taking the packet at the head of the stream, which is no connect.       *)
LEMMA ReceiveTcpRouting ==
    ASSUME Routing, NEW m \in Packet, ReceiveTcp(m)
    PROVE  Routing'
<1>1. /\ tcp # <<>> /\ Head(tcp) = m /\ tcp' = Tail(tcp)
      /\ UNCHANGED <<session, next, max, queue, epoch, highest, used, heard>>
  BY DEF ReceiveTcp, history
<1>2. thread' \in [Route -> Thread] /\ Loaded'
  BY TakeOrDiscard, ThreadTyped DEF ReceiveTcp, Route
<1>3. tcp' \in Seq(Packet \cup PlayerConnect)
  BY <1>1, HeadTailProperties DEF Routing, TypeOK
<1>4. \A q \in Peer : InTcp(tcp', q) = InTcp(tcp, q)
  <2> TAKE q \in Peer
  <2>1. m \notin {Connect(q)}
    BY DEF Connect, Packet
  <2>2. Count(tcp, {Connect(q)})
          = Count(Tail(tcp), {Connect(q)}) + (IF m \in {Connect(q)} THEN 1 ELSE 0)
    BY <1>1, CountTail, SequencesTyped
  <2>3. Count(Tail(tcp), {Connect(q)}) \in Nat
    BY <1>1, <1>3, CountFinite
  <2> QED
    BY <1>1, <2>1, <2>2, <2>3 DEF InTcp
<1>5. \A q \in Peer : InQueue(queue', q) = InQueue(queue, q)
  BY <1>1 DEF InQueue
<1>6. ConnectsCounted'
  BY <1>1, <1>4, <1>5, SameCount DEF Routing
<1>7. TypeOK'
  BY <1>1, <1>2, <1>3 DEF Routing, TypeOK
<1> QED
  BY <1>2, <1>6, <1>7 DEF Routing

LEMMA ReceiveConnectRouting ==
    ASSUME Routing, ReceiveConnect
    PROVE  Routing'
<1> DEFINE h == Head(tcp)
           x == [packet |-> h, epoch |-> 0]
<1>1. /\ tcp # <<>> /\ h.kind = "connect" /\ tcp' = Tail(tcp)
      /\ queue' = Append(queue, x)
      /\ UNCHANGED <<session, next, thread, max, epoch, highest, used, heard>>
  BY DEF ReceiveConnect, history
<1>2. h \in Packet \cup PlayerConnect
  BY <1>1, HeadTailProperties DEF Routing, TypeOK
<1>3. h \in PlayerConnect /\ \E p \in Peer : h = Connect(p)
  BY <1>1, <1>2 DEF Packet, PlayerConnect, Connect
<1>4. x \in Command
  BY <1>3 DEF Command
<1>5. tcp' \in Seq(Packet \cup PlayerConnect)
  BY <1>1, HeadTailProperties DEF Routing, TypeOK
<1>6. queue' \in Seq(Command)
  BY <1>1, <1>4, AppendProperties DEF Routing, TypeOK
<1>7. TypeOK' /\ Loaded'
  BY <1>1, <1>5, <1>6 DEF Routing, TypeOK, Loaded, Filtered
<1>8. ConnectsCounted'
  <2> SUFFICES ASSUME NEW q \in Peer
               PROVE  session'[q] = 1 + epoch'[q] + InQueue(queue', q) + InTcp(tcp', q)
    BY DEF ConnectsCounted
  <2> DEFINE w == [packet |-> Connect(q), epoch |-> 0]
  <2>1. /\ session[q] = 1 + epoch[q] + InQueue(queue, q) + InTcp(tcp, q)
        /\ session[q] \in Int /\ epoch[q] \in Int
        /\ InQueue(queue, q) \in Nat /\ InTcp(tcp, q) \in Nat
    BY CountsTyped
  <2>3. InTcp(tcp, q) = InTcp(tcp', q) + (IF h \in {Connect(q)} THEN 1 ELSE 0)
    <3>1. Count(tcp, {Connect(q)})
            = Count(Tail(tcp), {Connect(q)}) + (IF h \in {Connect(q)} THEN 1 ELSE 0)
      BY <1>1, CountTail, SequencesTyped
    <3> QED
      BY <1>1, <3>1 DEF InTcp
  <2>4. InQueue(queue', q) = InQueue(queue, q) + (IF x \in {w} THEN 1 ELSE 0)
    <3>1. Count(Append(queue, x), {w}) = Count(queue, {w}) + (IF x \in {w} THEN 1 ELSE 0)
      BY <1>4, CountAppend, SequencesTyped
    <3> QED
      BY <1>1, <3>1 DEF InQueue
  <2>5. x \in {w} <=> h \in {Connect(q)}
    OBVIOUS
  <2>6. InTcp(tcp', q) \in Nat
    BY <1>1, <1>5, CountFinite DEF InTcp
  <2>7. session'[q] = session[q] /\ epoch'[q] = epoch[q]
    BY <1>1
  <2> HIDE DEF x, w, h
  <2>8. CASE h \in {Connect(q)}
    BY <2>1, <2>3, <2>4, <2>5, <2>6, <2>7, <2>8
  <2>9. CASE h \notin {Connect(q)}
    BY <2>1, <2>3, <2>4, <2>5, <2>6, <2>7, <2>9
  <2> QED
    BY <2>8, <2>9
<1> QED
  BY <1>7, <1>8 DEF Routing

LEMMA StoreRouting ==
    ASSUME Routing, NEW c \in Route, Store(c)
    PROVE  Routing'
<1> DEFINE m == thread[c].packet
<1>1. m \in Packet /\ m.peer \in Peer /\ m.n \in Number /\ thread[c] \in Thread
  BY DEF Store, At, Routing, TypeOK, Loaded, Packet
<1>2. /\ thread[c].pc = "store"
      /\ max' = [max EXCEPT ![m.peer] = m.n]
      /\ highest' = [highest EXCEPT ![m.peer] = IF m.n > @ THEN m.n ELSE @]
      /\ used' = used \cup {<<m.peer, epoch[m.peer], c>>}
      /\ thread' = [thread EXCEPT ![c] =
                      [@ EXCEPT !.pc = "submit", !.epoch = epoch[m.peer]]]
      /\ UNCHANGED <<session, next, tcp, queue, epoch, heard>>
  BY DEF Store, At, Routing, TypeOK
<1>3. epoch[m.peer] \in Epoch
  BY <1>1 DEF Routing, TypeOK
<1>4. thread' \in [Route -> Thread] /\ Loaded'
  <2> DEFINE t == [thread[c] EXCEPT !.pc = "submit", !.epoch = epoch[m.peer]]
  <2>1. t \in Thread /\ t.pc = "submit" /\ t.packet = m
    BY <1>1, <1>3 DEF Thread
  <2>2. thread' = [thread EXCEPT ![c] = t]
    BY <1>2
  <2> HIDE DEF t
  <2> QED
    BY <1>1, <2>1, <2>2 DEF Routing, TypeOK, Loaded
<1>5. /\ max' \in [Peer -> Number]
      /\ highest' \in [Peer -> Number \cup {-1}]
      /\ used' \subseteq Peer \X Epoch \X Route
  BY <1>1, <1>2 DEF Routing, TypeOK
<1>6. TypeOK'
  BY <1>2, <1>4, <1>5 DEF Routing, TypeOK
<1>7. ConnectsCounted'
  BY <1>2, SameCount DEF Routing, InTcp, InQueue
<1> QED
  BY <1>4, <1>6, <1>7 DEF Routing

LEMMA SubmitRouting ==
    ASSUME Routing, NEW c \in Route, Submit(c)
    PROVE  Routing'
<1> DEFINE x == [packet |-> thread[c].packet, epoch |-> thread[c].epoch]
<1>1. /\ thread[c].pc = "submit"
      /\ queue' = Append(queue, x)
      /\ thread' = [thread EXCEPT ![c] = [pc |-> "read", packet |-> Nothing, epoch |-> 0]]
      /\ UNCHANGED <<session, next, tcp, max, epoch, highest, used, heard>>
  BY DEF Submit, At, Reading, history
<1>2. thread[c] \in Thread /\ thread[c].packet \in Packet
  BY <1>1 DEF Routing, TypeOK, Loaded
<1>3. x \in Command
  BY <1>2 DEF Command, Thread
<1>4. queue' \in Seq(Command)
  BY <1>1, <1>3, AppendProperties DEF Routing, TypeOK
<1>5. thread' \in [Route -> Thread] /\ Loaded'
  BY <1>1, BoundAssumption DEF Routing, TypeOK, Loaded, Thread, Epoch, Filtered
<1>6. TypeOK'
  BY <1>1, <1>4, <1>5 DEF Routing, TypeOK
<1>7. \A q \in Peer : InQueue(queue', q) = InQueue(queue, q)
  <2> TAKE q \in Peer
  <2> DEFINE w == [packet |-> Connect(q), epoch |-> 0]
  <2>1. x \notin {w}
    BY <1>2 DEF Connect, Packet
  <2>2. Count(Append(queue, x), {w}) = Count(queue, {w}) + (IF x \in {w} THEN 1 ELSE 0)
    BY <1>3, CountAppend, SequencesTyped
  <2>3. InQueue(queue, q) \in Nat
    BY CountsTyped
  <2> QED
    BY <1>1, <2>1, <2>2, <2>3 DEF InQueue
<1>8. ConnectsCounted'
  BY <1>1, <1>7, SameCount DEF Routing, InTcp
<1> QED
  BY <1>5, <1>6, <1>8 DEF Routing

(* The action at the head of the queue.                                    *)
LEMMA HeadCommand ==
    ASSUME Routing, queue # <<>>
    PROVE  /\ Head(queue) \in Command /\ Head(queue) = queue[1]
           /\ Tail(queue) \in Seq(Command)
           /\ Len(queue) \in Nat \ {0} /\ Len(Tail(queue)) = Len(queue) - 1
           /\ \A i \in 1..Len(queue) - 1 : Tail(queue)[i] = queue[i + 1]
BY SequencesTyped, HeadTailProperties

LEMMA ExecuteConnectRouting ==
    ASSUME Routing, ExecuteConnect
    PROVE  Routing'
<1> DEFINE h == Head(queue)
           p == h.packet.peer
<1>1. /\ queue # <<>> /\ h.packet.kind = "connect" /\ queue' = Tail(queue)
      /\ max' = [max EXCEPT ![p] = 0]
      /\ epoch' = [epoch EXCEPT ![p] = @ + 1]
      /\ highest' = [highest EXCEPT ![p] = -1]
      /\ UNCHANGED <<session, next, tcp, thread, used, heard>>
  BY DEF ExecuteConnect
<1>2. h \in Command /\ Tail(queue) \in Seq(Command)
  BY <1>1, HeadCommand
<1>3. p \in Peer /\ h = [packet |-> Connect(p), epoch |-> 0]
  BY <1>1, <1>2 DEF Command, Packet, PlayerConnect, Connect
<1>4. \A q \in Peer : epoch'[q] = epoch[q] + (IF q = p THEN 1 ELSE 0)
  BY SMTT(20), <1>1, <1>3 DEF Routing, TypeOK, Epoch
<1>5. ASSUME NEW q \in Peer
      PROVE  /\ session'[q] = 1 + epoch'[q] + InQueue(queue', q) + InTcp(tcp', q)
             /\ epoch'[q] \in Epoch
  <2> DEFINE w == [packet |-> Connect(q), epoch |-> 0]
  <2>1. /\ session[q] = 1 + epoch[q] + InQueue(queue, q) + InTcp(tcp, q)
        /\ session[q] \in 1..MaxSessions /\ epoch[q] \in Nat
        /\ InQueue(queue, q) \in Nat /\ InTcp(tcp, q) \in Nat
    BY CountsTyped
  <2>2. InQueue(queue, q) = InQueue(queue', q) + (IF h \in {w} THEN 1 ELSE 0)
    <3>1. Count(queue, {w}) = Count(Tail(queue), {w}) + (IF h \in {w} THEN 1 ELSE 0)
      BY <1>1, CountTail, SequencesTyped
    <3> QED
      BY <1>1, <3>1 DEF InQueue
  <2>3. h \in {w} <=> q = p
    BY <1>3 DEF Connect
  <2>4. InQueue(queue', q) \in Nat
    BY <1>1, <1>2, CountFinite DEF InQueue
  <2>5. /\ session'[q] = session[q] /\ InTcp(tcp', q) = InTcp(tcp, q)
        /\ epoch'[q] = epoch[q] + (IF q = p THEN 1 ELSE 0)
    BY <1>1, <1>4
  <2> HIDE DEF w, h, p
  <2>6. session'[q] = 1 + epoch'[q] + InQueue(queue', q) + InTcp(tcp', q)
    <3>1. CASE q = p
      BY <2>1, <2>2, <2>3, <2>4, <2>5, <3>1
    <3>2. CASE q # p
      BY <2>1, <2>2, <2>3, <2>4, <2>5, <3>2
    <3> QED
      BY <3>1, <3>2
  <2>7. epoch'[q] \in Nat
    BY <2>1, <2>5
  <2>8. epoch'[q] \in Epoch
    BY <2>1, <2>4, <2>5, <2>6, <2>7, BoundAssumption DEF Epoch
  <2> QED
    BY <2>6, <2>8
<1>6. ConnectsCounted'
  BY <1>5 DEF ConnectsCounted
<1>7. epoch' \in [Peer -> Epoch]
  <2>1. epoch \in [Peer -> Epoch] /\ p \in Peer
    BY <1>3 DEF Routing, TypeOK
  <2>2. epoch' = [epoch EXCEPT ![p] = epoch[p] + 1]
    BY <1>1
  <2> HIDE DEF p
  <2>3. epoch[p] + 1 \in Epoch
    BY <1>5, <2>1, <2>2
  <2> QED
    BY <2>1, <2>2, <2>3
<1>8. TypeOK'
  <2>1. max' \in [Peer -> Number] /\ highest' \in [Peer -> Number \cup {-1}]
    BY <1>1, <1>3, BoundAssumption DEF Routing, TypeOK, Number
  <2> QED
    BY <1>1, <1>2, <1>7, <2>1 DEF Routing, TypeOK
<1>9. Loaded'
  BY <1>1 DEF Routing, Loaded
<1> QED
  BY <1>6, <1>8, <1>9 DEF Routing

LEMMA ExecutePacketRouting ==
    ASSUME Routing, ExecutePacket
    PROVE  Routing'
<1> DEFINE h == Head(queue)
           m == h.packet
<1>1. /\ queue # <<>> /\ m.kind = "packet" /\ queue' = Tail(queue)
      /\ heard' = IF ~Filtered(m) THEN heard
                  ELSE [heard EXCEPT ![m.peer] =
                          [epoch |-> h.epoch, n |-> m.n,
                           before |-> IF @.epoch = h.epoch /\ @.n > m.n
                                      THEN @.n ELSE m.n]]
      /\ UNCHANGED <<session, next, tcp, thread, max, epoch, highest, used>>
  BY DEF ExecutePacket
<1>2. h \in Command /\ Tail(queue) \in Seq(Command)
  BY <1>1, HeadCommand
<1>3. m \in Packet /\ m.peer \in Peer /\ m.n \in Number /\ h.epoch \in Epoch
  BY <1>1, <1>2 DEF Command, Packet, PlayerConnect
<1>4. heard' \in [Peer -> [epoch : Epoch, before : Number, n : Number]]
  BY <1>1, <1>3 DEF Routing, TypeOK
<1>5. TypeOK' /\ Loaded'
  BY <1>1, <1>2, <1>4 DEF Routing, TypeOK, Loaded
<1>6. ASSUME NEW q \in Peer PROVE InQueue(queue', q) = InQueue(queue, q)
  <2> DEFINE w == [packet |-> Connect(q), epoch |-> 0]
  <2>1. h \notin {w}
    BY <1>3 DEF Connect, Packet
  <2>2. Count(queue, {w}) = Count(Tail(queue), {w}) + (IF h \in {w} THEN 1 ELSE 0)
    BY <1>1, CountTail, SequencesTyped
  <2>3. Count(Tail(queue), {w}) \in Nat
    BY <1>2, CountFinite
  <2> QED
    BY <1>1, <2>1, <2>2, <2>3 DEF InQueue
<1>7. ConnectsCounted'
  BY <1>1, <1>6, SameCount DEF Routing
<1> QED
  BY <1>5, <1>7 DEF Routing

LEMMA RoutingStep ==
    ASSUME Routing, [Next]_vars
    PROVE  Routing'
<1>1. ASSUME NEW p \in Peer, SendSequenced(p) PROVE Routing'
  <2>1. /\ next[p][session[p]] <= MaxNumber
        /\ next' = [next EXCEPT ![p][session[p]] = @ + 1]
        /\ UNCHANGED <<session, tcp, thread, max, queue, epoch, highest, used, heard>>
    BY <1>1 DEF SendSequenced, history
  <2>2. next' \in [Peer -> [1..MaxSessions -> 0..MaxNumber + 1]]
    BY <2>1, BoundAssumption DEF Routing, TypeOK
  <2>3. TypeOK' /\ Loaded'
    BY <2>1, <2>2 DEF Routing, TypeOK, Loaded
  <2>4. ConnectsCounted'
    BY <2>1, SameCount DEF Routing
  <2> QED
    BY <2>3, <2>4 DEF Routing
<1>2. ASSUME NEW m \in Packet, ReceiveUdp(m) PROVE Routing'
  <2>1. UNCHANGED <<session, next, tcp, max, queue, epoch, highest, used, heard>>
    BY <1>2 DEF ReceiveUdp, history
  <2>2. thread' \in [Route -> Thread] /\ Loaded'
    BY <1>2, TakeOrDiscard, ThreadTyped DEF ReceiveUdp, Route
  <2>3. TypeOK'
    BY <2>1, <2>2 DEF Routing, TypeOK
  <2>4. ConnectsCounted'
    BY <2>1, SameCount DEF Routing
  <2> QED
    BY <2>2, <2>3, <2>4 DEF Routing
<1>3. CASE UNCHANGED vars
  <2>1. UNCHANGED <<session, next, tcp, thread, max, queue, epoch, highest, used, heard>>
    BY <1>3 DEF vars
  <2>2. TypeOK' /\ Loaded'
    BY <2>1 DEF Routing, TypeOK, Loaded
  <2>3. ConnectsCounted'
    BY <2>1, SameCount DEF Routing
  <2> QED
    BY <2>2, <2>3 DEF Routing
<1> QED
  BY <1>1, <1>2, <1>3, RejoinRouting, RelayRouting, ReceiveTcpRouting,
     ReceiveConnectRouting, StoreRouting, SubmitRouting, ExecuteConnectRouting,
     ExecutePacketRouting
     DEF Next, Peers, Receive, Update

-----------------------------------------------------------------------------
(* What may change the map and its history                                 *)

(* Everything but storing a number and executing a PlayerConnectMessage    *)
(* leaves the map, and the history of it, alone.                           *)
LEMMA MapMoves ==
    ASSUME [Next]_vars
    PROVE  \/ UNCHANGED <<max, epoch, highest, used>>
           \/ \E c \in Route : Store(c)
           \/ ExecuteConnect
BY DEF Next, vars, history, Peers, Receive, Update, Rejoin, SendSequenced, Relay,
       ReceiveUdp, ReceiveTcp, ReceiveConnect, Submit, ExecutePacket

LEMMA MaxStep ==
    ASSUME Routing, MaxWasStored, [Next]_vars
    PROVE  MaxWasStored'
<1>1. CASE UNCHANGED <<max, epoch, highest, used>>
  BY <1>1 DEF MaxWasStored
<1>2. ASSUME NEW c \in Route, Store(c) PROVE MaxWasStored'
  <2> DEFINE m == thread[c].packet
  <2>1. m \in Packet /\ m.peer \in Peer /\ m.n \in Number
    BY <1>2 DEF Store, At, Routing, Loaded, Packet
  <2>2. /\ max' = [max EXCEPT ![m.peer] = m.n]
        /\ highest' = [highest EXCEPT ![m.peer] = IF m.n > @ THEN m.n ELSE @]
    BY <1>2 DEF Store
  <2>3. /\ max \in [Peer -> Nat] /\ highest \in [Peer -> Int] /\ m.n \in Nat
    BY <2>1, BoundAssumption DEF Routing, TypeOK, Number
  <2> HIDE DEF m
  <2>4. ASSUME NEW p \in Peer, max'[p] > 0 PROVE highest'[p] >= max'[p]
    <3>1. CASE p = m.peer
      BY <2>1, <2>2, <2>3, <3>1
    <3>2. CASE p # m.peer
      BY <2>1, <2>2, <2>3, <2>4, <3>2 DEF MaxWasStored
    <3> QED
      BY <3>1, <3>2
  <2> QED
    BY <2>4 DEF MaxWasStored
<1>3. CASE ExecuteConnect
  <2> DEFINE p == Head(queue).packet.peer
  <2>1. /\ max' = [max EXCEPT ![p] = 0]
        /\ highest' = [highest EXCEPT ![p] = -1]
    BY <1>3 DEF ExecuteConnect
  <2> HIDE DEF p
  <2> QED
    BY <2>1 DEF Routing, TypeOK, MaxWasStored
<1> QED
  BY <1>1, <1>2, <1>3, MapMoves

-----------------------------------------------------------------------------
(* The order of what the filter lets pass                                  *)

Flow == Ordered /\ Submitting /\ Storing /\ HeardInEpoch /\ InSequence

(* What waits or is about to: its peer, number and epoch.                  *)
LEMMA Items ==
    ASSUME Routing
    PROVE  /\ \A i \in 1..Len(queue) :
                /\ queue[i].epoch \in Nat
                /\ queue[i].packet.kind = "packet" =>
                     queue[i].packet.peer \in Peer /\ queue[i].packet.n \in Nat
           /\ \A c \in Route : thread[c].pc \in {"store", "submit"} =>
                /\ thread[c].packet.kind = "packet" /\ thread[c].packet \in Packet
                /\ thread[c].packet.peer \in Peer /\ thread[c].packet.n \in Nat
                /\ thread[c].epoch \in Nat
           /\ \A p \in Peer : /\ epoch[p] \in Nat /\ max[p] \in Nat
                              /\ heard[p].epoch \in Nat /\ heard[p].n \in Nat
<1>1. ASSUME NEW i \in 1..Len(queue)
      PROVE  /\ queue[i].epoch \in Nat
             /\ queue[i].packet.kind = "packet" =>
                  queue[i].packet.peer \in Peer /\ queue[i].packet.n \in Nat
  <2>1. queue[i] \in Command
    BY SequencesTyped, ElementOfSeq
  <2> QED
    BY <2>1, BoundAssumption DEF Command, Packet, PlayerConnect, Number, Epoch
<1>2. ASSUME NEW c \in Route, thread[c].pc \in {"store", "submit"}
      PROVE  /\ thread[c].packet.kind = "packet" /\ thread[c].packet \in Packet
             /\ thread[c].packet.peer \in Peer /\ thread[c].packet.n \in Nat
             /\ thread[c].epoch \in Nat
  <2>1. thread[c] \in Thread /\ thread[c].packet \in Packet
    BY <1>2 DEF Routing, TypeOK, Loaded
  <2> QED
    BY <2>1, BoundAssumption DEF Thread, Packet, Number, Epoch
<1>3. \A p \in Peer : /\ epoch[p] \in Nat /\ max[p] \in Nat
                      /\ heard[p].epoch \in Nat /\ heard[p].n \in Nat
  BY BoundAssumption DEF Routing, TypeOK, Number, Epoch
<1> QED
  BY <1>1, <1>2, <1>3

(* A step that moves none of it.                                           *)
LEMMA FlowQuiet ==
    ASSUME Flow, UNCHANGED <<thread, max, queue, epoch, used, heard>>
    PROVE  Flow'
<1>1. Ordered' /\ HeardInEpoch'
  BY DEF Flow, Ordered, HeardInEpoch, NoHigher, NotBelowHeard, NotAboveMax, Custom,
         OneRoute, Filtered
<1>2. Submitting'
  BY DEF Flow, Submitting, NoHigher, NotBelowHeard, NotAboveMax, Custom, OneRoute,
         Filtered
<1>3. Storing' /\ InSequence'
  BY DEF Flow, Storing, InSequence
<1> QED
  BY <1>1, <1>2, <1>3 DEF Flow

(* A thread takes or drops a packet.                                       *)
LEMMA FlowReceive ==
    ASSUME Routing, Flow, NEW c \in Route, NEW m \in Packet,
           Accepts(c, m) \/ Drops(c),
           UNCHANGED <<max, queue, epoch, used, heard>>
    PROVE  Flow'
<1>1. /\ thread[c].pc = "read"
      /\ \A d \in Route \ {c} : thread'[d] = thread[d]
  BY DEF Accepts, Drops, Routing, TypeOK
<1>2. thread'[c].pc = "submit" => ~Custom(thread'[c])
  BY <1>1 DEF Accepts, Drops, Routing, TypeOK, Custom, Thread
<1>3. thread'[c].pc = "store" => thread'[c].packet.n >= max[thread'[c].packet.peer]
  BY <1>1 DEF Accepts, Drops, Routing, TypeOK, Thread
<1>4. Ordered' /\ HeardInEpoch' /\ InSequence'
  BY DEF Flow, Ordered, HeardInEpoch, InSequence, NoHigher, NotBelowHeard,
         NotAboveMax, Custom, OneRoute, Filtered
<1>5. Submitting'
  <2> SUFFICES ASSUME NEW d \in Route, thread'[d].pc = "submit"
               PROVE  /\ \A i \in 1..Len(queue) : NoHigher(used', queue'[i], thread'[d])
                      /\ NotBelowHeard(used', heard', thread'[d])
                      /\ NotAboveMax(used', epoch', max', thread'[d])
                      /\ Custom(thread[d])' =>
                           <<thread'[d].packet.peer, thread'[d].epoch, d>> \in used
    BY DEF Submitting
  <2>1. CASE d = c
    BY <1>2, <2>1 DEF NoHigher, NotBelowHeard, NotAboveMax, Custom
  <2>2. CASE d # c
    BY <1>1, <2>2 DEF Flow, Submitting, NoHigher, NotBelowHeard, NotAboveMax,
                      Custom, OneRoute
  <2> QED
    BY <2>1, <2>2
<1>6. Storing'
  BY <1>1, <1>3 DEF Flow, Storing
<1> QED
  BY <1>4, <1>5, <1>6 DEF Flow

(* A PlayerConnectMessage joins the queue.                                 *)
LEMMA FlowConnect ==
    ASSUME Routing, Flow, ReceiveConnect
    PROVE  Flow'
<1> DEFINE x == [packet |-> Head(tcp), epoch |-> 0]
<1>1. /\ Head(tcp).kind = "connect" /\ queue' = Append(queue, x)
      /\ UNCHANGED <<thread, max, epoch, used, heard>>
  BY DEF ReceiveConnect, history
<1>2. /\ Len(queue') = Len(queue) + 1 /\ Len(queue) \in Nat
      /\ \A i \in 1..Len(queue) : queue'[i] = queue[i]
      /\ queue'[Len(queue) + 1] = x
  BY <1>1, SequencesTyped
<1>3. ~Custom(x)
  BY <1>1 DEF Custom
<1> HIDE DEF x
<1>4. \A i \in 1..Len(queue') :
        (i \in 1..Len(queue) /\ queue'[i] = queue[i]) \/ ~Custom(queue'[i])
  BY <1>2, <1>3
<1>5. Ordered'
  <2>1. \A i, j \in 1..Len(queue') : i < j => NoHigher(used', queue'[i], queue'[j])
    BY SMTT(20), <1>1, <1>4 DEF Flow, Ordered, NoHigher, OneRoute
  <2>2. \A i \in 1..Len(queue') : /\ NotBelowHeard(used', heard', queue'[i])
                                 /\ NotAboveMax(used', epoch', max', queue'[i])
    BY <1>1, <1>4 DEF Flow, Ordered, NotBelowHeard, NotAboveMax, OneRoute
  <2> QED
    BY <2>1, <2>2 DEF Ordered
<1>6. Submitting'
  <2> SUFFICES ASSUME NEW d \in Route, thread'[d].pc = "submit"
               PROVE  /\ \A i \in 1..Len(queue') : NoHigher(used', queue'[i], thread'[d])
                      /\ NotBelowHeard(used', heard', thread'[d])
                      /\ NotAboveMax(used', epoch', max', thread'[d])
                      /\ Custom(thread[d])' =>
                           <<thread'[d].packet.peer, thread'[d].epoch, d>> \in used'
    BY DEF Submitting
  <2>1. \A i \in 1..Len(queue') : NoHigher(used', queue'[i], thread'[d])
    <3> SUFFICES ASSUME NEW i \in 1..Len(queue')
                 PROVE  NoHigher(used', queue'[i], thread'[d])
      OBVIOUS
    <3>1. CASE i \in 1..Len(queue) /\ queue'[i] = queue[i]
      BY <1>1, <3>1 DEF Flow, Submitting
    <3>2. CASE ~Custom(queue'[i])
      BY <3>2 DEF NoHigher
    <3> QED
      BY <1>4, <3>1, <3>2
  <2>2. /\ NotBelowHeard(used', heard', thread'[d])
        /\ NotAboveMax(used', epoch', max', thread'[d])
        /\ Custom(thread[d])' =>
             <<thread'[d].packet.peer, thread'[d].epoch, d>> \in used'
    BY <1>1 DEF Flow, Submitting, NotBelowHeard, NotAboveMax, OneRoute
  <2> QED
    BY <2>1, <2>2
<1>7. Storing' /\ HeardInEpoch' /\ InSequence'
  BY <1>1 DEF Flow, Storing, HeardInEpoch, InSequence, OneRoute
<1> QED
  BY <1>5, <1>6, <1>7 DEF Flow

(* A number is stored: it is none below the one in the map, unless the     *)
(* other thread has stored one in this epoch, too.                         *)
LEMMA FlowStore ==
    ASSUME Routing, Flow, NEW c \in Route, Store(c)
    PROVE  Flow'
<1> DEFINE m == thread[c].packet
           p == thread[c].packet.peer
           e == epoch[p]
<1>1. /\ p \in Peer /\ m.n \in Nat /\ e \in Nat /\ thread[c].pc = "store"
      /\ m.kind = "packet"
  BY Items DEF Store, At
<1>2. /\ max' = [max EXCEPT ![p] = m.n]
      /\ used' = used \cup {<<p, e, c>>}
      /\ UNCHANGED <<queue, epoch, heard>>
  BY DEF Store
<1>3. /\ thread'[c].pc = "submit" /\ thread'[c].packet = m /\ thread'[c].epoch = e
      /\ \A d \in Route \ {c} : thread'[d] = thread[d]
  <2>1. thread' = [thread EXCEPT ![c] = [@ EXCEPT !.pc = "submit", !.epoch = e]]
    BY DEF Store
  <2>2. thread \in [Route -> Thread] /\ thread[c] \in Thread
    BY DEF Routing, TypeOK
  <2> HIDE DEF e
  <2> QED
    BY <2>1, <2>2 DEF Thread
<1>4. OneRoute(used', p, e) => OneRoute(used, p, e) /\ max[p] <= m.n
  <2>1. OneRoute(used', p, e) => OneRoute(used, p, e)
    BY <1>2 DEF OneRoute
  <2>2. ASSUME ~(m.n >= max[p]) PROVE ~OneRoute(used', p, e)
    <3>1. \E d \in Route \ {c} : <<p, e, d>> \in used
      BY <1>1, <2>2 DEF Flow, Storing
    <3> QED
      BY <1>2, <3>1 DEF OneRoute, Route
  <2>3. max[p] \in Nat
    BY <1>1, Items
  <2> QED
    BY <1>1, <2>1, <2>2, <2>3
<1>5. \A q, f : OneRoute(used', q, f) => OneRoute(used, q, f)
  BY <1>2 DEF OneRoute
<1>6. \A q \in Peer : max'[q] = IF q = p THEN m.n ELSE max[q]
  BY <1>1, <1>2 DEF Routing, TypeOK
<1> HIDE DEF m, p, e
<1>7. Ordered'
  <2>1. \A i, j \in 1..Len(queue') : i < j => NoHigher(used', queue'[i], queue'[j])
    BY <1>2 DEF Flow, Ordered, NoHigher, OneRoute
  <2>2. \A i \in 1..Len(queue') : NotBelowHeard(used', heard', queue'[i])
    BY <1>2 DEF Flow, Ordered, NotBelowHeard, OneRoute
  <2>3. ASSUME NEW i \in 1..Len(queue') PROVE NotAboveMax(used', epoch', max', queue'[i])
    <3>1. NotAboveMax(used, epoch, max, queue[i])
      BY <1>2 DEF Flow, Ordered
    <3>2. i \in 1..Len(queue) /\ queue'[i] = queue[i] /\ epoch' = epoch
      BY <1>2
    <3>3. CASE queue[i].packet.peer = p /\ queue[i].epoch = e
      BY <1>1, <1>4, <1>6, <3>1, <3>2, <3>3, Items DEF NotAboveMax, Custom
    <3>4. CASE ~(queue[i].packet.peer = p /\ queue[i].epoch = e)
      BY <1>1, <1>5, <1>6, <3>1, <3>2, <3>4, Items DEF NotAboveMax, Custom, e
    <3> QED
      BY <3>3, <3>4
  <2> QED
    BY <2>1, <2>2, <2>3 DEF Ordered
<1>8. Submitting'
  <2>1. ASSUME NEW d \in Route \ {c}, thread'[d].pc = "submit"
        PROVE  /\ \A i \in 1..Len(queue') : NoHigher(used', queue'[i], thread'[d])
               /\ NotBelowHeard(used', heard', thread'[d])
               /\ NotAboveMax(used', epoch', max', thread'[d])
               /\ Custom(thread[d])' =>
                    <<thread'[d].packet.peer, thread'[d].epoch, d>> \in used'
    <3>1. thread'[d] = thread[d] /\ thread[d].pc = "submit" /\ d \in Route
      BY <1>3, <2>1
    <3>2. \A i \in 1..Len(queue') : NoHigher(used', queue'[i], thread'[d])
      BY <1>2, <3>1 DEF Flow, Submitting, NoHigher, OneRoute
    <3>3. NotBelowHeard(used', heard', thread'[d])
      BY <1>2, <3>1 DEF Flow, Submitting, NotBelowHeard, OneRoute
    <3>4. NotAboveMax(used, epoch, max, thread[d])
      BY <3>1 DEF Flow, Submitting
    <3>5. thread[d].packet.peer \in Peer /\ thread[d].packet.n \in Nat
      BY <3>1, Items
    <3>6. NotAboveMax(used', epoch', max', thread'[d])
      <4>1. CASE thread[d].packet.peer = p /\ thread[d].epoch = e
        BY <1>1, <1>2, <1>4, <1>6, <3>1, <3>4, <3>5, <4>1, Items DEF NotAboveMax, Custom
      <4>2. CASE ~(thread[d].packet.peer = p /\ thread[d].epoch = e)
        BY ZenonT(40), <1>1, <1>2, <1>5, <1>6, <3>1, <3>4, <3>5, <4>2, Items
           DEF NotAboveMax, Custom, e
      <4> QED
        BY <4>1, <4>2
    <3>7. Custom(thread[d])' => <<thread'[d].packet.peer, thread'[d].epoch, d>> \in used'
      BY <1>2, <3>1 DEF Flow, Submitting
    <3> QED
      BY <3>2, <3>3, <3>6, <3>7
  <2>2. \A i \in 1..Len(queue') : NoHigher(used', queue'[i], thread'[c])
    <3> SUFFICES ASSUME NEW i \in 1..Len(queue'), Custom(queue'[i]),
                        queue'[i].packet.peer = p, queue'[i].epoch = e,
                        OneRoute(used', p, e)
                 PROVE  queue'[i].packet.n <= m.n
      BY <1>3 DEF NoHigher, m, p
    <3>1. i \in 1..Len(queue) /\ queue'[i] = queue[i] /\ NotAboveMax(used, epoch, max, queue[i])
      BY <1>2 DEF Flow, Ordered
    <3>2. queue[i].packet.n <= max[p] /\ max[p] <= m.n
      BY <1>4, <3>1 DEF NotAboveMax, e
    <3>3. queue[i].packet.n \in Nat /\ max[p] \in Nat
      BY <1>1, <3>1, Items DEF Custom
    <3> QED
      BY <1>1, <3>1, <3>2, <3>3
  <2>3. NotBelowHeard(used', heard', thread'[c])
    <3> SUFFICES ASSUME heard[p].epoch = e, OneRoute(used', p, e)
                 PROVE  heard[p].n <= m.n
      BY <1>2, <1>3 DEF NotBelowHeard, m, p
    <3>1. heard[p].n <= max[p]
      BY <1>1, <1>4 DEF Flow, HeardInEpoch, e
    <3> QED
      BY <1>1, <1>4, <3>1, Items
  <2>4. NotAboveMax(used', epoch', max', thread'[c])
    BY <1>1, <1>2, <1>3, <1>6 DEF NotAboveMax, m, p, e
  <2>5. <<thread'[c].packet.peer, thread'[c].epoch, c>> \in used'
    BY <1>2, <1>3 DEF m, p
  <2> QED
    BY <2>1, <2>2, <2>3, <2>4, <2>5 DEF Submitting
<1>9. Storing'
  <2> SUFFICES ASSUME NEW d \in Route, thread'[d].pc = "store"
               PROVE  LET k == thread'[d].packet IN
                      \/ k.n >= max'[k.peer]
                      \/ \E f \in Route \ {d} : <<k.peer, epoch'[k.peer], f>> \in used'
    BY DEF Storing
  <2>1. d # c /\ thread'[d] = thread[d]
    BY <1>3
  <2>2. CASE thread[d].packet.peer = p
    BY <1>2, <2>1, <2>2 DEF e
  <2>3. CASE thread[d].packet.peer # p
    <3>1. thread[d].packet.peer \in Peer
      BY <2>1, Items
    <3>2. max'[thread[d].packet.peer] = max[thread[d].packet.peer]
      BY <1>6, <2>3, <3>1
    <3> QED
      BY <1>2, <2>1, <3>2 DEF Flow, Storing
  <2> QED
    BY <2>2, <2>3
<1>10. HeardInEpoch'
  <2> SUFFICES ASSUME NEW q \in Peer
               PROVE  /\ heard[q].epoch <= epoch[q]
                      /\ heard[q].epoch = epoch[q] /\ OneRoute(used', q, epoch'[q])
                           => heard[q].n <= max'[q]
    BY <1>2 DEF HeardInEpoch
  <2>1. /\ heard[q].epoch <= epoch[q]
        /\ heard[q].epoch = epoch[q] /\ OneRoute(used, q, epoch[q])
             => heard[q].n <= max[q]
    BY DEF Flow, HeardInEpoch
  <2>2. OneRoute(used', q, epoch'[q]) => OneRoute(used, q, epoch[q])
    BY <1>2, <1>5
  <2>3. CASE q = p
    BY <1>1, <1>2, <1>4, <1>6, <2>1, <2>2, <2>3, Items DEF e
  <2>4. CASE q # p
    BY <1>6, <2>1, <2>2, <2>4
  <2> QED
    BY <2>3, <2>4
<1>11. InSequence'
  BY <1>2 DEF Flow, InSequence
<1> QED
  BY <1>7, <1>8, <1>9, <1>10, <1>11 DEF Flow

(* A thread appends what it let pass to the queue.                         *)
LEMMA FlowSubmit ==
    ASSUME Routing, Flow, NEW c \in Route, Submit(c)
    PROVE  Flow'
<1> DEFINE x == [packet |-> thread[c].packet, epoch |-> thread[c].epoch]
<1>1. /\ thread[c].pc = "submit" /\ queue' = Append(queue, x)
      /\ thread' = [thread EXCEPT ![c] = [pc |-> "read", packet |-> Nothing, epoch |-> 0]]
      /\ UNCHANGED <<max, epoch, used, heard>>
  BY DEF Submit, At, Reading, history
<1>2. /\ Len(queue') = Len(queue) + 1 /\ Len(queue) \in Nat
      /\ \A i \in 1..Len(queue) : queue'[i] = queue[i]
      /\ queue'[Len(queue) + 1] = x
  BY <1>1, SequencesTyped
<1>3. /\ thread'[c].pc = "read"
      /\ \A d \in Route \ {c} : thread'[d] = thread[d]
  BY <1>1 DEF Routing, TypeOK
<1>4. /\ \A i \in 1..Len(queue) : NoHigher(used, queue[i], x)
      /\ NotBelowHeard(used, heard, x) /\ NotAboveMax(used, epoch, max, x)
      /\ Custom(x) => <<x.packet.peer, x.epoch, c>> \in used
  BY <1>1 DEF Flow, Submitting, NoHigher, NotBelowHeard, NotAboveMax, Custom
<1> HIDE DEF x
<1>5. Ordered'
  <2>1. ASSUME NEW i \in 1..Len(queue'), NEW j \in 1..Len(queue'), i < j
        PROVE  NoHigher(used', queue'[i], queue'[j])
    <3>1. i \in 1..Len(queue) /\ queue'[i] = queue[i]
      BY <1>2, <2>1
    <3>2. CASE j \in 1..Len(queue)
      BY <1>1, <1>2, <2>1, <3>1, <3>2 DEF Flow, Ordered
    <3>3. CASE j = Len(queue) + 1
      BY <1>1, <1>2, <1>4, <3>1, <3>3
    <3> QED
      BY <1>2, <3>2, <3>3
  <2>2. ASSUME NEW i \in 1..Len(queue')
        PROVE  /\ NotBelowHeard(used', heard', queue'[i])
               /\ NotAboveMax(used', epoch', max', queue'[i])
    <3>1. CASE i \in 1..Len(queue)
      BY <1>1, <1>2, <3>1 DEF Flow, Ordered
    <3>2. CASE i = Len(queue) + 1
      BY <1>1, <1>2, <1>4, <3>2
    <3> QED
      BY <1>2, <3>1, <3>2
  <2> QED
    BY <2>1, <2>2 DEF Ordered
<1>6. Submitting'
  <2> SUFFICES ASSUME NEW d \in Route, thread'[d].pc = "submit"
               PROVE  /\ \A i \in 1..Len(queue') : NoHigher(used', queue'[i], thread'[d])
                      /\ NotBelowHeard(used', heard', thread'[d])
                      /\ NotAboveMax(used', epoch', max', thread'[d])
                      /\ Custom(thread'[d]) =>
                           <<thread'[d].packet.peer, thread'[d].epoch, d>> \in used'
    BY DEF Submitting
  <2>1. d # c /\ thread'[d] = thread[d] /\ thread[d].pc = "submit"
    BY <1>3
  <2>2. /\ \A i \in 1..Len(queue) : NoHigher(used, queue[i], thread[d])
        /\ NotBelowHeard(used, heard, thread[d])
        /\ NotAboveMax(used, epoch, max, thread[d])
        /\ Custom(thread[d]) =>
             <<thread[d].packet.peer, thread[d].epoch, d>> \in used
    BY <2>1 DEF Flow, Submitting
  <2>3. NoHigher(used, x, thread[d])
    BY <1>4, <2>1, <2>2 DEF NoHigher, OneRoute, Route
  <2>4. \A i \in 1..Len(queue') : NoHigher(used, queue'[i], thread[d])
    <3> SUFFICES ASSUME NEW i \in 1..Len(queue')
                 PROVE  NoHigher(used, queue'[i], thread[d])
      OBVIOUS
    <3>1. CASE i \in 1..Len(queue)
      BY <1>2, <2>2, <3>1
    <3>2. CASE i = Len(queue) + 1
      BY <1>2, <2>3, <3>2
    <3> QED
      BY <1>2, <3>1, <3>2
  <2> QED
    BY <1>1, <2>1, <2>2, <2>4
<1>7. Storing'
  <2> SUFFICES ASSUME NEW d \in Route, thread'[d].pc = "store"
               PROVE  LET m == thread'[d].packet IN
                      \/ m.n >= max[m.peer]
                      \/ \E f \in Route \ {d} : <<m.peer, epoch[m.peer], f>> \in used
    BY <1>1 DEF Storing
  <2>1. thread'[d] = thread[d]
    BY <1>3
  <2> QED
    BY <2>1 DEF Flow, Storing
<1>8. HeardInEpoch' /\ InSequence'
  BY <1>1 DEF Flow, HeardInEpoch, InSequence
<1> QED
  BY <1>5, <1>6, <1>7, <1>8 DEF Flow

(* A new epoch of a peer begins, and nothing is of it yet.                 *)
LEMMA FlowExecuteConnect ==
    ASSUME Routing, Flow, ExecuteConnect
    PROVE  Flow'
<1> DEFINE h == Head(queue)
           p == h.packet.peer
<1>1. /\ queue # <<>> /\ h.packet.kind = "connect" /\ queue' = Tail(queue)
      /\ max' = [max EXCEPT ![p] = 0]
      /\ epoch' = [epoch EXCEPT ![p] = @ + 1]
      /\ UNCHANGED <<thread, used, heard>>
  BY DEF ExecuteConnect
<1>2. /\ Len(queue) \in Nat \ {0} /\ Len(queue') = Len(queue) - 1
      /\ \A i \in 1..Len(queue') : i + 1 \in 1..Len(queue) /\ queue'[i] = queue[i + 1]
  BY <1>1, HeadCommand
<1> HIDE DEF h, p
<1>3. \A q \in Peer : /\ epoch'[q] = IF q = p THEN epoch[q] + 1 ELSE epoch[q]
                      /\ max'[q] = IF q = p THEN 0 ELSE max[q]
  BY <1>1 DEF Routing, TypeOK
<1>4. ASSUME NEW x, NotAboveMax(used, epoch, max, x),
             Custom(x) => x.packet.peer \in Peer /\ x.epoch \in Nat
      PROVE  NotAboveMax(used, epoch', max', x)
  <2> SUFFICES ASSUME Custom(x)
               PROVE  /\ x.epoch <= epoch'[x.packet.peer]
                      /\ x.epoch = epoch'[x.packet.peer]
                           /\ OneRoute(used, x.packet.peer, x.epoch)
                         => x.packet.n <= max'[x.packet.peer]
    BY DEF NotAboveMax
  <2>1. /\ x.packet.peer \in Peer /\ x.epoch \in Nat
        /\ x.epoch <= epoch[x.packet.peer] /\ epoch[x.packet.peer] \in Nat
    BY <1>4, Items DEF NotAboveMax
  <2>2. CASE x.packet.peer = p
    BY <1>3, <2>1, <2>2
  <2>3. CASE x.packet.peer # p
    BY <1>3, <1>4, <2>1, <2>3 DEF NotAboveMax
  <2> QED
    BY <2>2, <2>3
<1>5. Ordered'
  <2>1. ASSUME NEW i \in 1..Len(queue'), NEW j \in 1..Len(queue'), i < j
        PROVE  NoHigher(used', queue'[i], queue'[j])
    <3>1. i + 1 < j + 1
      BY <2>1
    <3> QED
      BY <1>1, <1>2, <3>1 DEF Flow, Ordered
  <2>2. ASSUME NEW i \in 1..Len(queue')
        PROVE  /\ NotBelowHeard(used', heard', queue'[i])
               /\ NotAboveMax(used', epoch', max', queue'[i])
    <3>1. /\ NotBelowHeard(used, heard, queue[i + 1])
          /\ NotAboveMax(used, epoch, max, queue[i + 1])
      BY <1>2 DEF Flow, Ordered
    <3>2. Custom(queue[i + 1]) => queue[i + 1].packet.peer \in Peer /\ queue[i + 1].epoch \in Nat
      BY <1>2, Items DEF Custom
    <3> QED
      BY <1>1, <1>2, <1>4, <3>1, <3>2
  <2> QED
    BY <2>1, <2>2 DEF Ordered
<1>6. Submitting'
  <2> SUFFICES ASSUME NEW d \in Route, thread[d].pc = "submit"
               PROVE  /\ \A i \in 1..Len(queue') : NoHigher(used, queue'[i], thread[d])
                      /\ NotBelowHeard(used, heard, thread[d])
                      /\ NotAboveMax(used, epoch', max', thread[d])
                      /\ Custom(thread[d]) =>
                           <<thread[d].packet.peer, thread[d].epoch, d>> \in used
    BY <1>1 DEF Submitting
  <2>1. /\ \A i \in 1..Len(queue) : NoHigher(used, queue[i], thread[d])
        /\ NotBelowHeard(used, heard, thread[d])
        /\ NotAboveMax(used, epoch, max, thread[d])
        /\ Custom(thread[d]) =>
             <<thread[d].packet.peer, thread[d].epoch, d>> \in used
    BY DEF Flow, Submitting
  <2>2. thread[d].packet.peer \in Peer /\ thread[d].epoch \in Nat
    BY Items
  <2> QED
    BY <1>2, <1>4, <2>1, <2>2
<1>7. Storing'
  <2> SUFFICES ASSUME NEW d \in Route, thread[d].pc = "store"
               PROVE  LET m == thread[d].packet IN
                      \/ m.n >= max'[m.peer]
                      \/ \E f \in Route \ {d} : <<m.peer, epoch'[m.peer], f>> \in used
    BY <1>1 DEF Storing
  <2>1. thread[d].packet.peer \in Peer /\ thread[d].packet.n \in Nat
    BY Items
  <2>2. CASE thread[d].packet.peer = p
    BY <1>3, <2>1, <2>2
  <2>3. CASE thread[d].packet.peer # p
    BY <1>3, <2>1, <2>3 DEF Flow, Storing
  <2> QED
    BY <2>2, <2>3
<1>8. HeardInEpoch'
  <2> SUFFICES ASSUME NEW q \in Peer
               PROVE  /\ heard[q].epoch <= epoch'[q]
                      /\ heard[q].epoch = epoch'[q] /\ OneRoute(used, q, epoch'[q])
                           => heard[q].n <= max'[q]
    BY <1>1 DEF HeardInEpoch
  <2>1. heard[q].epoch <= epoch[q] /\ heard[q].epoch \in Nat /\ epoch[q] \in Nat
    BY Items DEF Flow, HeardInEpoch
  <2>2. CASE q = p
    BY <1>3, <2>1, <2>2
  <2>3. CASE q # p
    BY <1>3, <2>1, <2>3 DEF Flow, HeardInEpoch
  <2> QED
    BY <2>2, <2>3
<1>9. InSequence'
  BY <1>1 DEF Flow, InSequence
<1> QED
  BY <1>5, <1>6, <1>7, <1>8, <1>9 DEF Flow

(* The listener gets the first packet of the queue.                        *)
LEMMA FlowExecutePacket ==
    ASSUME Routing, Flow, ExecutePacket
    PROVE  Flow'
<1> DEFINE h == queue[1]
           m == h.packet
           e == h.epoch
<1>1. /\ queue # <<>> /\ m.kind = "packet" /\ queue' = Tail(queue)
      /\ UNCHANGED <<thread, max, epoch, used>>
      /\ heard' = IF ~Filtered(m) THEN heard
                  ELSE [heard EXCEPT ![m.peer] =
                          [epoch |-> e, n |-> m.n,
                           before |-> IF @.epoch = e /\ @.n > m.n THEN @.n ELSE m.n]]
  <2>1. queue # <<>> /\ Head(queue) = h
    BY HeadCommand DEF ExecutePacket
  <2> QED
    BY <2>1 DEF ExecutePacket
<1>2. /\ Len(queue) \in Nat \ {0} /\ Len(queue') = Len(queue) - 1
      /\ \A i \in 1..Len(queue') :
           i + 1 \in 1..Len(queue) /\ 1 < i + 1 /\ queue'[i] = queue[i + 1]
      /\ 1 \in 1..Len(queue)
  BY <1>1, HeadCommand
<1>3. m.peer \in Peer /\ m.n \in Nat /\ e \in Nat
  BY <1>1, <1>2, Items
<1>4. NotBelowHeard(used, heard, h) /\ NotAboveMax(used, epoch, max, h)
  BY <1>2 DEF Flow, Ordered
<1>5. CASE ~Filtered(m)
  <2>1. heard' = heard
    BY <1>1, <1>5
  <2>2. Ordered'
    <3>1. ASSUME NEW i \in 1..Len(queue'), NEW j \in 1..Len(queue'), i < j
          PROVE  NoHigher(used', queue'[i], queue'[j])
      <4>1. i + 1 < j + 1
        BY <3>1
      <4> QED
        BY <1>1, <1>2, <4>1 DEF Flow, Ordered
    <3>2. \A i \in 1..Len(queue') : /\ NotBelowHeard(used', heard', queue'[i])
                                   /\ NotAboveMax(used', epoch', max', queue'[i])
      BY <1>1, <1>2, <2>1 DEF Flow, Ordered
    <3> QED
      BY <3>1, <3>2 DEF Ordered
  <2>3. Submitting'
    BY <1>1, <1>2, <2>1 DEF Flow, Submitting
  <2>4. Storing' /\ HeardInEpoch' /\ InSequence'
    BY <1>1, <2>1 DEF Flow, Storing, HeardInEpoch, InSequence
  <2> QED
    BY <2>2, <2>3, <2>4 DEF Flow
<1>6. CASE Filtered(m)
  <2> DEFINE p == m.peer
  <2>1. Custom(h)
    BY <1>1, <1>6 DEF Custom
  <2>2. /\ heard'[p].epoch = e /\ heard'[p].n = m.n
        /\ heard'[p].before = IF heard[p].epoch = e /\ heard[p].n > m.n
                              THEN heard[p].n ELSE m.n
        /\ \A q \in Peer : q # p => heard'[q] = heard[q]
    BY <1>1, <1>3, <1>6 DEF Routing, TypeOK
  <2>3. ASSUME NEW x, NotBelowHeard(used, heard, x), NoHigher(used, h, x),
               Custom(x) => x.packet.peer \in Peer
        PROVE  NotBelowHeard(used, heard', x)
    BY <2>1, <2>2, <2>3 DEF NotBelowHeard, NoHigher
  <2>4. Ordered'
    <3>1. ASSUME NEW i \in 1..Len(queue'), NEW j \in 1..Len(queue'), i < j
          PROVE  NoHigher(used', queue'[i], queue'[j])
      <4>1. i + 1 < j + 1
        BY <3>1
      <4> QED
        BY <1>1, <1>2, <4>1 DEF Flow, Ordered
    <3>2. ASSUME NEW i \in 1..Len(queue')
          PROVE  /\ NotBelowHeard(used', heard', queue'[i])
                 /\ NotAboveMax(used', epoch', max', queue'[i])
      <4>1. /\ NoHigher(used, h, queue[i + 1])
            /\ NotBelowHeard(used, heard, queue[i + 1])
            /\ NotAboveMax(used, epoch, max, queue[i + 1])
        BY <1>2 DEF Flow, Ordered
      <4>2. Custom(queue[i + 1]) => queue[i + 1].packet.peer \in Peer
        BY <1>2, Items DEF Custom
      <4> QED
        BY <1>1, <1>2, <2>3, <4>1, <4>2
    <3> QED
      BY <3>1, <3>2 DEF Ordered
  <2>5. Submitting'
    <3> SUFFICES ASSUME NEW d \in Route, thread[d].pc = "submit"
                 PROVE  /\ \A i \in 1..Len(queue') : NoHigher(used, queue'[i], thread[d])
                        /\ NotBelowHeard(used, heard', thread[d])
                        /\ NotAboveMax(used, epoch, max, thread[d])
                        /\ Custom(thread[d]) =>
                             <<thread[d].packet.peer, thread[d].epoch, d>> \in used
      BY <1>1 DEF Submitting
    <3>1. /\ \A i \in 1..Len(queue) : NoHigher(used, queue[i], thread[d])
          /\ NotBelowHeard(used, heard, thread[d])
          /\ NotAboveMax(used, epoch, max, thread[d])
          /\ Custom(thread[d]) =>
               <<thread[d].packet.peer, thread[d].epoch, d>> \in used
      BY DEF Flow, Submitting
    <3>2. thread[d].packet.peer \in Peer
      BY Items
    <3> QED
      BY <1>2, <2>3, <3>1, <3>2
  <2>6. Storing'
    BY <1>1 DEF Flow, Storing
  <2>7. HeardInEpoch'
    <3> SUFFICES ASSUME NEW q \in Peer
                 PROVE  /\ heard'[q].epoch <= epoch[q]
                        /\ heard'[q].epoch = epoch[q] /\ OneRoute(used, q, epoch[q])
                             => heard'[q].n <= max[q]
      BY <1>1 DEF HeardInEpoch
    <3>1. CASE q = p
      BY <1>4, <2>1, <2>2, <3>1 DEF NotAboveMax
    <3>2. CASE q # p
      BY <2>2, <3>2 DEF Flow, HeardInEpoch
    <3> QED
      BY <3>1, <3>2
  <2>8. InSequence'
    <3> SUFFICES ASSUME NEW q \in Peer, heard'[q].before > heard'[q].n,
                        NEW c \in Route
                 PROVE  <<q, heard'[q].epoch, c>> \in used
      BY <1>1 DEF InSequence
    <3>1. CASE q = p
      <4>1. heard[p].epoch = e /\ heard[p].n > m.n
        BY <1>3, <2>2, <3>1
      <4>2. ~OneRoute(used, p, e)
        BY <1>3, <1>4, <2>1, <4>1, Items DEF NotBelowHeard
      <4> QED
        BY <2>2, <3>1, <4>2 DEF OneRoute
    <3>2. CASE q # p
      BY <2>2, <3>2 DEF Flow, InSequence
    <3> QED
      BY <3>1, <3>2
  <2> QED
    BY <2>4, <2>5, <2>6, <2>7, <2>8 DEF Flow
<1> QED
  BY <1>5, <1>6

LEMMA FlowStep ==
    ASSUME Routing, Flow, [Next]_vars
    PROVE  Flow'
<1>1. ASSUME NEW p \in Peer, Rejoin(p) \/ SendSequenced(p) PROVE Flow'
  BY <1>1, FlowQuiet DEF Rejoin, SendSequenced, history
<1>2. ASSUME NEW m \in Packet, Relay(m) PROVE Flow'
  BY <1>2, FlowQuiet DEF Relay, history
<1>3. ASSUME NEW m \in Packet, ReceiveUdp(m) \/ ReceiveTcp(m) PROVE Flow'
  BY <1>3, TakeOrDiscard, FlowReceive DEF ReceiveUdp, ReceiveTcp, history, Route
<1>4. CASE UNCHANGED vars
  BY <1>4, FlowQuiet DEF vars
<1> QED
  BY <1>1, <1>2, <1>3, <1>4, FlowConnect, FlowStore, FlowSubmit,
     FlowExecuteConnect, FlowExecutePacket
     DEF Next, Peers, Receive, Update

-----------------------------------------------------------------------------
(* The theorems                                                            *)

LEMMA InvAlways == Spec => []Inv
<1>1. Inv /\ [Next]_vars => Inv'
  <2> SUFFICES ASSUME Inv, [Next]_vars PROVE Inv'
    OBVIOUS
  <2>1. Routing /\ Flow /\ MaxWasStored
    BY DEF Inv, Routing, Flow
  <2>2. Routing' /\ Flow' /\ MaxWasStored'
    BY <2>1, RoutingStep, FlowStep, MaxStep
  <2> QED
    BY <2>2 DEF Inv, Routing, Flow
<1> QED
  BY Initially, <1>1, PTL DEF Spec

(* Every variable of the delivery keeps its type: the epochs of a peer are *)
(* no more than its sessions, as every PlayerConnectMessage is executed    *)
(* once at most.                                                           *)
THEOREM TypeCorrect == Spec => []TypeOK
<1>1. Inv => TypeOK
  BY DEF Inv
<1> QED
  BY InvAlways, <1>1, PTL

(* ShouldExecute costs no packet that is not older than one of its peer it *)
(* has let pass, whatever the two threads and the application do between   *)
(* reading the map and writing it.                                         *)
THEOREM DiscardsJustified == Spec => []DiscardJustified
<1>1. Inv => DiscardJustified
  <2> SUFFICES ASSUME Inv, NEW m \in Packet, ~ShouldExecute(m)
               PROVE  highest[m.peer] > m.n
    BY DEF DiscardJustified
  <2>1. m.peer \in Peer /\ m.n \in Nat
    BY BoundAssumption DEF Packet, Number
  <2>2. max[m.peer] \in Nat /\ highest[m.peer] \in Int
    BY <2>1, BoundAssumption DEF Inv, TypeOK, Number
  <2>3. max[m.peer] > m.n
    BY <2>1, <2>2 DEF ShouldExecute
  <2>4. highest[m.peer] >= max[m.peer]
    BY <2>1, <2>2, <2>3 DEF Inv, MaxWasStored
  <2> QED
    BY <2>1, <2>2, <2>3, <2>4
<1> QED
  BY InvAlways, <1>1, PTL

(* Of what the filter lets pass the listener gets nothing out of sequence, *)
(* unless both threads stored a number of the peer since it connected.     *)
THEOREM DeliveredInSequence == Spec => []InSequence
<1>1. Inv => InSequence
  BY DEF Inv
<1> QED
  BY InvAlways, <1>1, PTL
=============================================================================
