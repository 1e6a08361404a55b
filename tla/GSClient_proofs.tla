---------------------------- MODULE GSClient_proofs ----------------------------
(* Proofs about GSClient, for any set of requests and any time-outs: its   *)
(* invariants, that it implements Service, and its composition with        *)
(* DurableQueue.                                                           *)
EXTENDS Composition, SequenceTheorems, FiniteSetTheorems, TLAPS

-----------------------------------------------------------------------------
(* Sequences                                                               *)

(* Prepending an element to a sequence shifts the others by one.           *)
LEMMA Prepended ==
    ASSUME NEW S, NEW x \in S, NEW s \in Seq(S)
    PROVE  /\ <<x>> \o s \in Seq(S)
           /\ Len(<<x>> \o s) = Len(s) + 1
           /\ (<<x>> \o s)[1] = x
           /\ \A i \in 2..Len(s) + 1 : (<<x>> \o s)[i] = s[i - 1]
BY ConcatProperties, SMT

(* SequencesExt's RemoveAt drops one element and keeps the others' order.  *)
LEMMA Removed ==
    ASSUME NEW S, NEW s \in Seq(S), NEW i \in 1..Len(s)
    PROVE  /\ RemoveAt(s, i) \in Seq(S)
           /\ Len(RemoveAt(s, i)) = Len(s) - 1
           /\ \A j \in 1..Len(s) - 1 :
                RemoveAt(s, i)[j] = IF j < i THEN s[j] ELSE s[j + 1]
<1> DEFINE a == SubSeq(s, 1, i - 1)
           b == SubSeq(s, i + 1, Len(s))
<1>1. a \in Seq(S) /\ Len(a) = i - 1 /\ \A j \in 1..i - 1 : a[j] = s[j]
  BY SMT
<1>2. /\ b \in Seq(S) /\ Len(b) = Len(s) - i
      /\ \A j \in 1..Len(s) - i : b[j] = s[i + j]
  BY SMT
<1> HIDE DEF a, b
<1>3. /\ a \o b \in Seq(S) /\ Len(a \o b) = Len(s) - 1
      /\ \A j \in 1..Len(s) - 1 :
           (a \o b)[j] = IF j <= i - 1 THEN a[j] ELSE b[j - (i - 1)]
  <2>1. Len(a) + Len(b) = Len(s) - 1
    BY <1>1, <1>2
  <2>2. /\ a \o b \in Seq(S)
        /\ Len(a \o b) = Len(a) + Len(b)
        /\ \A j \in 1..Len(a) + Len(b) :
             (a \o b)[j] = IF j <= Len(a) THEN a[j] ELSE b[j - Len(a)]
    <3>1. a \in Seq(S) /\ b \in Seq(S)
      BY <1>1, <1>2
    <3> QED
      BY ONLY <3>1, ConcatProperties, Zenon
  <2>3. Len(a) = i - 1
    BY <1>1
  <2> QED
    BY ONLY <2>1, <2>2, <2>3, Zenon
<1>4. RemoveAt(s, i) = a \o b
  BY DEF RemoveAt, a, b
<1>5. ASSUME NEW j \in 1..Len(s) - 1
      PROVE  (a \o b)[j] = IF j < i THEN s[j] ELSE s[j + 1]
  <2>1. CASE j < i
    <3>1. j \in 1..i - 1
      BY <2>1
    <3>2. (a \o b)[j] = a[j]
      BY <1>3, <3>1
    <3>3. a[j] = s[j]
      BY <1>1, <3>1
    <3> QED
      BY <2>1, <3>2, <3>3
  <2>2. CASE ~(j < i)
    <3>1. j - (i - 1) \in 1..Len(s) - i /\ i + (j - (i - 1)) = j + 1
      BY <2>2
    <3> QED
      BY <1>2, <1>3, <2>2, <3>1
  <2> QED
    BY <2>1, <2>2
<1> QED
  BY <1>3, <1>4, <1>5

(* A function on 1..n is a sequence of length n.                           *)
LEMMA FunctionIsSeq ==
    ASSUME NEW S, NEW n \in Nat, NEW f \in [1..n -> S]
    PROVE  f \in Seq(S) /\ Len(f) = n
<1>1. f \in Seq(S)
  BY SeqDef
<1>2. Len(f) \in Nat /\ DOMAIN f = 1..Len(f)
  BY <1>1, LenProperties
<1> QED
  BY <1>1, <1>2

-----------------------------------------------------------------------------
(* Sequences and records of the model                                      *)

(* What GS::Stop(false) does to the connections.                           *)
LEMMA StopAllStops ==
    ASSUME conns \in Seq(Connection)
    PROVE  /\ StopAll \in Seq(Connection)
           /\ Len(StopAll) = Len(conns)
           /\ \A i \in 1..Len(conns) :
                StopAll[i] = [conns[i] EXCEPT !.stopped = TRUE]
<1>1. \A i \in 1..Len(conns) : [conns[i] EXCEPT !.stopped = TRUE] \in Connection
  <2> TAKE i \in 1..Len(conns)
  <2>1. conns[i] \in Connection
    OBVIOUS
  <2> QED
    BY <2>1 DEF Connection
<1>2. Len(conns) \in Nat /\ StopAll \in [1..Len(conns) -> Connection]
  BY <1>1 DEF StopAll
<1> QED
  BY <1>2, FunctionIsSeq DEF StopAll


(* A new value for one connection.                                         *)
LEMMA OneConnectionChanges ==
    ASSUME conns \in Seq(Connection),
           NEW i \in 1..Len(conns), NEW d \in Connection
    PROVE  /\ [conns EXCEPT ![i] = d] \in Seq(Connection)
           /\ Len([conns EXCEPT ![i] = d]) = Len(conns)
           /\ \A j \in 1..Len(conns) :
                [conns EXCEPT ![i] = d][j] = IF j = i THEN d ELSE conns[j]
BY ExceptSeq

-----------------------------------------------------------------------------
(* The inductive invariant                                                 *)

(* Frames are dispatched on a connection that is running, unless the frame *)
(* itself has just redirected the client, and never while it is paused.    *)
DispatchesRunning ==
    pc \in {"dispatch", "redirected"} =>
        /\ cursor <= Len(conns)
        /\ Current.ws \in {"open", "closing"}
        /\ Current.stopped <=> pc = "redirected"
        /\ ~paused

Running == OneLiveConnection /\ DisconnectIsFinal /\ DispatchesRunning

Inv == TypeOK /\ Running

(* NewConnection keeps the invariant's parts, whatever the phase.          *)
LEMMA NewConnectionIsFront ==
    ASSUME conns \in Seq(Connection), NewConnection(FALSE)
    PROVE  /\ conns' \in Seq(Connection)
           /\ Len(conns') = Len(conns) + 1
           /\ conns'[1] = FreshConnection
           /\ \A i \in 2..Len(conns) + 1 :
                conns'[i] = [conns[i - 1] EXCEPT !.stopped = TRUE]
           /\ ready' = FALSE
           /\ deadline' \in Int
<1>1. FreshConnection \in Connection
  BY DEF FreshConnection, Connection, WSState
<1>2. conns' = <<FreshConnection>> \o StopAll /\ ready' = FALSE
      /\ deadline' \in Deadlines
  BY DEF NewConnection
<1>3. deadline' \in Int
  BY <1>2, DeadlineAssumption DEF Deadlines
<1>4. /\ conns' \in Seq(Connection) /\ Len(conns') = Len(StopAll) + 1
      /\ conns'[1] = FreshConnection
      /\ \A i \in 2..Len(StopAll) + 1 : conns'[i] = StopAll[i - 1]
  <2>1. StopAll \in Seq(Connection)
    BY StopAllStops
  <2> DEFINE new == <<FreshConnection>> \o StopAll
  <2>2. /\ new \in Seq(Connection) /\ Len(new) = Len(StopAll) + 1
        /\ new[1] = FreshConnection
        /\ \A i \in 2..Len(StopAll) + 1 : new[i] = StopAll[i - 1]
    BY <1>1, <2>1, Prepended
  <2> QED
    BY <1>2, <2>2, Zenon
<1>5. \A i \in 2..Len(conns) + 1 : conns'[i] = [conns[i - 1] EXCEPT !.stopped = TRUE]
  <2> TAKE i \in 2..Len(conns) + 1
  <2>1. Len(conns) \in Nat /\ i - 1 \in 1..Len(conns)
    BY LenProperties
  <2> QED
    BY <1>4, <2>1, StopAllStops
<1> QED
  BY <1>2, <1>3, <1>4, <1>5, StopAllStops


(* The invariant holds when the client has been initialised.               *)
LEMMA InvInit == Init => Inv
<1> SUFFICES ASSUME Init PROVE Inv
  OBVIOUS
<1>1. FreshConnection \in Connection
  BY DEF FreshConnection, Connection, WSState
<1>2. TypeOK
  <2>1. conns \in Seq(Connection) /\ sendQueue \in Seq(Request)
    BY <1>1 DEF Init
  <2>2. deadline \in Int
    BY DeadlineAssumption DEF Init, Deadlines
  <2>3. /\ timer \in [Request -> Int] /\ submitted \in SUBSET Request
        /\ callbacks \in [Request -> Nat]
    BY DEF Init
  <2>4. /\ dangling \in BOOLEAN /\ ready \in BOOLEAN /\ paused \in BOOLEAN
        /\ running \in BOOLEAN
    BY DEF Init
  <2>5. pc \in Phase /\ cursor \in Nat \ {0} /\ dt \in Int
    BY DEF Init, Phase
  <2> QED
    BY <2>1, <2>2, <2>3, <2>4, <2>5 DEF TypeOK
<1>3. Len(conns) = 1 /\ ~paused /\ pc = "idle"
  BY DEF Init
<1>4. OneLiveConnection
  BY <1>3 DEF OneLiveConnection
<1> QED
  BY <1>2, <1>3, <1>4 DEF Inv, Running, DisconnectIsFinal, DispatchesRunning

-----------------------------------------------------------------------------
(* Every connection stopped, in any phase but the dispatch of a frame.     *)
LEMMA AllStopped ==
    ASSUME Inv, conns' = StopAll, ready' = FALSE, pc' \notin {"dispatch", "redirected"}
    PROVE  conns' \in Seq(Connection) /\ Running'
<1>1. conns \in Seq(Connection)
  BY DEF Inv, TypeOK
<1>2. /\ conns' \in Seq(Connection)
      /\ Len(conns') = Len(conns)
      /\ \A i \in 1..Len(conns) : conns'[i].stopped
  <2>1. /\ conns' \in Seq(Connection)
        /\ Len(conns') = Len(conns)
        /\ \A i \in 1..Len(conns) : conns'[i] = [conns[i] EXCEPT !.stopped = TRUE]
    BY <1>1, StopAllStops
  <2>2. ASSUME NEW i \in 1..Len(conns) PROVE conns'[i].stopped
    <3>1. conns[i] \in Connection
      BY <1>1
    <3> QED
      BY <2>1, <3>1 DEF Connection
  <2> QED
    BY <2>1, <2>2
<1> QED
  BY <1>1, <1>2 DEF Running, OneLiveConnection, DisconnectIsFinal,
                    DispatchesRunning, Live

(* A new front, in any phase but the handling of a frame, or in its middle *)
(* for the connection it came by.                                          *)
LEMMA NewFront ==
    ASSUME Inv, NewConnection(FALSE), ~paused',
           pc' \notin {"dispatch", "redirected"} \/ (pc = "dispatch" /\ pc' = "redirected"
                                   /\ cursor' = cursor + 1)
    PROVE  conns' \in Seq(Connection) /\ deadline' \in Int /\ ready' = FALSE
           /\ Running'
<1>1. conns \in Seq(Connection)
  BY DEF Inv, TypeOK
<1>2. /\ conns' \in Seq(Connection)
      /\ Len(conns') = Len(conns) + 1
      /\ \A i \in 2..Len(conns) + 1 : conns'[i].stopped
  <2>1. /\ conns' \in Seq(Connection)
        /\ Len(conns') = Len(conns) + 1
        /\ \A i \in 2..Len(conns) + 1 :
             conns'[i] = [conns[i - 1] EXCEPT !.stopped = TRUE]
    BY <1>1, NewConnectionIsFront
  <2>2. ASSUME NEW i \in 2..Len(conns) + 1 PROVE conns'[i].stopped
    <3>1. conns[i - 1] \in Connection
      BY <1>1
    <3> QED
      BY <2>1, <3>1 DEF Connection
  <2> QED
    BY <2>1, <2>2
<1>3. OneLiveConnection'
  BY <1>2 DEF OneLiveConnection
<1>4. CASE pc' \notin {"dispatch", "redirected"}
  BY <1>1, <1>2, <1>3, <1>4, NewConnectionIsFront
     DEF Running, DisconnectIsFinal, DispatchesRunning
<1>5. CASE pc = "dispatch" /\ pc' = "redirected" /\ cursor' = cursor + 1
  <2>1. cursor \in 1..Len(conns) /\ Current.ws \in {"open", "closing"}
    BY <1>5 DEF Inv, TypeOK, Running, DispatchesRunning
  <2>2. /\ Len(conns) \in Nat /\ cursor + 1 \in 2..Len(conns) + 1
        /\ conns[cursor] \in Connection
    BY <1>1, <2>1
  <2>3. conns'[cursor + 1] = [conns[cursor] EXCEPT !.stopped = TRUE]
    <3> DEFINE k == cursor + 1
    <3>1. k \in 2..Len(conns) + 1 /\ k - 1 = cursor
      BY <2>1, <2>2
    <3> HIDE DEF k
    <3>2. conns'[k] = [conns[k - 1] EXCEPT !.stopped = TRUE]
      BY <1>1, <3>1, NewConnectionIsFront
    <3>3. conns'[k] = [conns[cursor] EXCEPT !.stopped = TRUE]
      BY <3>1, <3>2
    <3> QED
      BY <3>3 DEF k
  <2>4. /\ conns'[cursor'].ws \in {"open", "closing"}
        /\ conns'[cursor'].stopped /\ cursor' <= Len(conns')
    BY <1>2, <1>5, <2>1, <2>2, <2>3 DEF Connection, Current
  <2>5. DispatchesRunning'
    BY <1>5, <2>4 DEF DispatchesRunning, Current
  <2> QED
    BY <1>1, <1>2, <1>3, <2>5, NewConnectionIsFront DEF Running, DisconnectIsFinal
<1> QED
  BY <1>4, <1>5

(* One connection changes and none is started.                             *)
LEMMA ConnectionChanges ==
    ASSUME Inv, NEW i \in 1..Len(conns), NEW d \in Connection,
           conns' = [conns EXCEPT ![i] = d],
           conns[i].stopped => d.stopped
    PROVE  /\ conns' \in Seq(Connection)
           /\ Len(conns') = Len(conns)
           /\ \A j \in 1..Len(conns) : conns'[j] = IF j = i THEN d ELSE conns[j]
           /\ OneLiveConnection'
           /\ Live' => Live
<1>1. /\ conns' \in Seq(Connection)
      /\ Len(conns') = Len(conns)
      /\ \A j \in 1..Len(conns) : conns'[j] = IF j = i THEN d ELSE conns[j]
  BY OneConnectionChanges DEF Inv, TypeOK
<1>2. \A j \in 1..Len(conns) : conns[j].stopped => conns'[j].stopped
  BY <1>1
<1> QED
  BY <1>1, <1>2 DEF Inv, Running, OneLiveConnection, Live


(* SendImmediate on a ready front.                                         *)
LEMMA SentOnFront ==
    ASSUME Inv, NEW r \in Request, FrontReady, SendImmediate(r)
    PROVE  /\ conns' \in Seq(Connection)
           /\ OneLiveConnection'
           /\ Live' => Live
<1> DEFINE d == [conns[1] EXCEPT !.pending = @ \cup {r}, !.sent = @ \cup {r}]
<1>1. 1 \in 1..Len(conns) /\ conns[1] \in Connection
  BY DEF FrontReady, Inv, TypeOK
<1>2. d \in Connection /\ d.stopped = conns[1].stopped
  BY <1>1 DEF Connection
<1>3. conns' = [conns EXCEPT ![1] = d]
  BY <1>1 DEF SendImmediate
<1> HIDE DEF d
<1> QED
  BY <1>1, <1>2, <1>3, ConnectionChanges

(* The calls the application makes keep the invariant.                     *)
LEMMA InvApplication == Inv /\ Application => Inv'
<1> SUFFICES ASSUME Inv, Application PROVE Inv'
  OBVIOUS
<1>0. TypeOK
  BY DEF Inv
<1>1. ASSUME NEW r \in Request, Send(r) PROVE Inv'
  <2>1. /\ timer' \in [Request -> Int]
        /\ submitted' \in SUBSET Request
        /\ UNCHANGED <<callbacks, dangling, paused, running, pc, cursor, dt>>
        /\ pc = "idle"
    BY <1>0, <1>1, TimeoutsAssumption DEF Send, TypeOK, Idle, flags
  <2>2. CASE FrontReady
    <3>1. SendImmediate(r) /\ UNCHANGED <<sendQueue, ready, deadline>>
      BY <1>1, <2>2 DEF Send
    <3> QED
      BY <1>0, <2>1, <2>2, <3>1, SentOnFront
         DEF Inv, TypeOK, Running, DisconnectIsFinal, DispatchesRunning
  <2>3. CASE ~FrontReady
    <3>1. sendQueue' \in Seq(Request)
      <4>1. sendQueue' = Append(sendQueue, r)
        BY <1>1, <2>3, Zenon DEF Send
      <4> QED
        BY <1>0, <4>1 DEF TypeOK
    <3>2. CASE conns = <<>> /\ ~paused
      <4>1. NewConnection(FALSE)
        BY <1>1, <2>3, <3>2 DEF Send, NewConnection
      <4>2. conns' \in Seq(Connection) /\ deadline' \in Int /\ ready' = FALSE
            /\ Running'
        BY <2>1, <3>2, <4>1, NewFront
      <4> QED
        BY <1>0, <2>1, <3>1, <4>2 DEF Inv, TypeOK
    <3>3. CASE ~(conns = <<>> /\ ~paused)
      <4>1. UNCHANGED <<conns, ready, deadline>>
        BY <1>1, <2>3, <3>3 DEF Send, NewConnection, links
      <4> QED
        BY <1>0, <2>1, <3>1, <4>1
           DEF Inv, TypeOK, Running, OneLiveConnection, DisconnectIsFinal,
               DispatchesRunning, Live
    <3> QED
      BY <3>2, <3>3
  <2> QED
    BY <2>2, <2>3
<1>2. ASSUME Disconnect PROVE Inv'
  <2>1. conns' = StopAll /\ ready' = FALSE /\ pc' = "idle" /\ paused' = TRUE
        /\ UNCHANGED <<deadline, running, requests, cursor, dt>>
    BY <1>2 DEF Disconnect, Idle
  <2>2. conns' \in Seq(Connection) /\ Running'
    BY <2>1, AllStopped
  <2> QED
    BY <1>0, <2>1, <2>2 DEF Inv, TypeOK, Phase, requests
<1>3. ASSUME Reconnect PROVE Inv'
  <2>1. paused' = FALSE /\ pc' = "idle" /\ UNCHANGED <<running, requests, cursor, dt>>
    BY <1>3 DEF Reconnect, Idle
  <2>2. CASE ConnectionRequired
    <3>1. NewConnection(FALSE)
      BY <1>3, <2>2 DEF Reconnect
    <3>2. conns' \in Seq(Connection) /\ deadline' \in Int /\ ready' = FALSE
          /\ Running'
      BY <2>1, <3>1, NewFront
    <3> QED
      BY <1>0, <2>1, <3>2 DEF Inv, TypeOK, Phase, requests
  <2>3. CASE ~ConnectionRequired
    <3>1. UNCHANGED <<conns, ready, deadline>>
      BY <1>3, <2>3 DEF Reconnect, links
    <3> QED
      BY <1>0, <2>1, <3>1
         DEF Inv, TypeOK, Phase, requests, Running, OneLiveConnection,
             DisconnectIsFinal, DispatchesRunning
  <2> QED
    BY <2>2, <2>3
<1>4. ASSUME Reset PROVE Inv'
  <2>1. paused' = FALSE /\ pc' = "idle" /\ UNCHANGED <<running, requests, cursor, dt>>
    BY <1>4 DEF Reset, Idle
  <2>2. CASE deadline <= 0
    <3>1. NewConnection(FALSE)
      BY <1>4, <2>2 DEF Reset
    <3>2. conns' \in Seq(Connection) /\ deadline' \in Int /\ ready' = FALSE
          /\ Running'
      BY <2>1, <3>1, NewFront
    <3> QED
      BY <1>0, <2>1, <3>2 DEF Inv, TypeOK, Phase, requests
  <2>3. CASE ~(deadline <= 0)
    <3>1. conns' = StopAll /\ ready' = FALSE /\ UNCHANGED deadline
      BY <1>4, <2>3 DEF Reset
    <3>2. conns' \in Seq(Connection) /\ Running'
      BY <2>1, <3>1, AllStopped
    <3> QED
      BY <1>0, <2>1, <3>1, <3>2 DEF Inv, TypeOK, Phase, requests
  <2> QED
    BY <2>2, <2>3
<1>5. ASSUME ShutDown PROVE Inv'
  <2> DEFINE d(i) == [conns[i] EXCEPT !.stopped = TRUE, !.ws = "none"]
  <2>1. /\ conns' = [i \in 1..Len(conns) |-> d(i)]
        /\ ready' = FALSE /\ pc' = "idle" /\ paused' = TRUE /\ running' = FALSE
        /\ UNCHANGED <<deadline, requests, cursor, dt>>
    BY <1>5 DEF ShutDown, Idle
  <2>2. ASSUME NEW i \in 1..Len(conns)
        PROVE  d(i) \in Connection /\ d(i).stopped
    <3>1. conns[i] \in Connection
      BY <1>0 DEF TypeOK
    <3> QED
      BY <3>1 DEF Connection, WSState
  <2> HIDE DEF d
  <2>3. conns' \in Seq(Connection) /\ Len(conns') = Len(conns)
    <3>1. Len(conns) \in Nat
      BY <1>0 DEF TypeOK
    <3>2. conns' \in [1..Len(conns) -> Connection]
      BY <2>1, <2>2
    <3> QED
      BY <3>1, <3>2, FunctionIsSeq
  <2>4. \A i \in 1..Len(conns) : conns'[i].stopped
    BY <2>1, <2>2
  <2>5. Running'
    BY SMTT(20), <1>0, <2>1, <2>3, <2>4
       DEF TypeOK, Running, OneLiveConnection, DisconnectIsFinal,
           DispatchesRunning, Live
  <2> QED
    BY <1>0, <2>1, <2>3, <2>5 DEF Inv, TypeOK, Phase, requests
<1> QED
  BY <1>1, <1>2, <1>3, <1>4, <1>5 DEF Application


(* A step of Update that changes no connection and dispatches nothing.     *)
LEMMA InvSameConnections ==
    ASSUME Inv, UNCHANGED <<conns, ready, paused>>, pc' \notin {"dispatch", "redirected"}
    PROVE  conns' \in Seq(Connection) /\ Running'
BY DEF Inv, TypeOK, Running, OneLiveConnection, DisconnectIsFinal,
       DispatchesRunning, Live

(* A step that gives the connection at the cursor a new state, without     *)
(* starting it, and makes the service available only when not paused.      *)
LEMMA InvConnectionChanges ==
    ASSUME Inv, cursor \in 1..Len(conns), NEW d \in Connection,
           conns' = [conns EXCEPT ![cursor] = d],
           Current.stopped => d.stopped,
           UNCHANGED paused, pc' \notin {"dispatch", "redirected"},
           ready' => ready \/ ~paused
    PROVE  conns' \in Seq(Connection) /\ Running'
<1>1. conns' \in Seq(Connection) /\ OneLiveConnection' /\ (Live' => Live)
  BY ConnectionChanges DEF Current
<1>2. DisconnectIsFinal'
  BY <1>1 DEF Inv, Running, DisconnectIsFinal
<1> QED
  BY <1>1, <1>2 DEF Running, DispatchesRunning

(* The cursor moves to a next connection or to the first one.              *)
LEMMA Moves ==
    ASSUME TypeOK, NEW b \in BOOLEAN, NEW phase \in Phase \ {"dispatch", "redirected"},
           NextConnection(b) \/ Goto(phase)
    PROVE  pc' \in Phase \ {"dispatch", "redirected"} /\ cursor' \in Nat \ {0} /\ dt' = dt
BY DEF NextConnection, Goto, Phase, TypeOK

(* Polling the connections and dispatching their frames.                   *)
LEMMA InvUpdateConnections == Inv /\ UpdateConnections => Inv'
<1> SUFFICES ASSUME Inv, UpdateConnections PROVE Inv'
  OBVIOUS
<1> USE DEF Inv
<1>0. /\ TypeOK
      /\ "connect" \in Phase \ {"dispatch", "redirected"}
  BY DEF Phase
<1>a. \A ph : At(ph) => cursor \in 1..Len(conns) /\ Current \in Connection
  BY <1>0 DEF At, TypeOK, Current
<1>1. ASSUME EndConnections \/ PollSkip PROVE Inv'
  <2>1. UNCHANGED <<links, requests, flags>>
        /\ pc' \in Phase \ {"dispatch", "redirected"} /\ cursor' \in Nat \ {0} /\ dt' = dt
    BY <1>0, <1>1, Moves DEF EndConnections, PollSkip
  <2> QED
    BY <1>0, <2>1, InvSameConnections DEF TypeOK, links, requests, flags
<1>2. ASSUME PollConnecting PROVE Inv'
  <2>1. PICK st \in {"connecting", "open"} : conns' = [conns EXCEPT ![cursor].ws = st]
    BY <1>2 DEF PollConnecting
  <2> DEFINE d == [Current EXCEPT !.ws = st]
  <2>2. cursor \in 1..Len(conns) /\ Current \in Connection
    BY <1>2, <1>a DEF PollConnecting
  <2>3. d \in Connection /\ d.stopped = Current.stopped
    BY <2>2 DEF Connection, WSState
  <2>4. conns' = [conns EXCEPT ![cursor] = d]
    BY <2>1, <2>2 DEF Current
  <2>5. UNCHANGED <<ready, deadline, requests, flags>>
        /\ pc' \in Phase \ {"dispatch", "redirected"} /\ cursor' \in Nat \ {0} /\ dt' = dt
    BY <1>0, <1>2, <2>2, Moves DEF PollConnecting, Connection
  <2> HIDE DEF d
  <2>6. conns' \in Seq(Connection) /\ Running'
    BY <2>2, <2>3, <2>4, <2>5, InvConnectionChanges DEF flags
  <2> QED
    BY <1>0, <2>5, <2>6 DEF TypeOK, requests, flags
<1>3. ASSUME PollQuiet PROVE Inv'
  <2>1. UNCHANGED <<links, requests, flags>> /\ cursor \in 1..Len(conns)
        /\ Current.ws \in {"open", "closing"}
    BY <1>3, <1>a DEF PollQuiet
  <2>2. CASE Current.stopped
    <3>1. pc' \in Phase \ {"dispatch", "redirected"} /\ cursor' \in Nat \ {0} /\ dt' = dt
      BY <1>0, <1>3, <2>2, Moves DEF PollQuiet
    <3> QED
      BY <1>0, <2>1, <3>1, InvSameConnections DEF TypeOK, links, requests, flags
  <2>3. CASE ~Current.stopped
    <3>1. pc' = "dispatch" /\ UNCHANGED <<cursor, dt>>
      BY <1>3, <2>3 DEF PollQuiet
    <3>2. Running'
      BY <2>1, <2>3, <3>1
         DEF Running, OneLiveConnection, DisconnectIsFinal,
             DispatchesRunning, Live, Current, links, flags
    <3> QED
      BY <1>0, <2>1, <3>1, <3>2 DEF TypeOK, links, requests, flags, Phase
  <2> QED
    BY <2>2, <2>3
<1>4. ASSUME NEW orderly \in BOOLEAN, NEW st \in {"closing", "closed"}, NEW ph,
             At(ph), OnWebSocketError(orderly, st), Goto("connect"),
             UNCHANGED <<requests, flags>>
      PROVE  Inv'
  <2> DEFINE d == [Current EXCEPT !.stopped = TRUE, !.ws = st]
  <2>2. cursor \in 1..Len(conns) /\ Current \in Connection
    BY <1>4, <1>a
  <2>3. d \in Connection /\ d.stopped
    BY <2>2 DEF Connection, WSState
  <2>4. conns' = [conns EXCEPT ![cursor] = d]
    BY <1>4, <2>2 DEF Current, OnWebSocketError
  <2>5. UNCHANGED <<deadline, requests, flags>> /\ ready' \in {FALSE, ready}
        /\ pc' \in Phase \ {"dispatch", "redirected"} /\ cursor' \in Nat \ {0} /\ dt' = dt
    BY <1>0, <1>4, Moves DEF OnWebSocketError
  <2> HIDE DEF d
  <2>6. UNCHANGED paused /\ (ready' => ready)
    <3>1. UNCHANGED paused
      BY <1>4 DEF flags
    <3>2. ready' => ready
      BY <1>4, Zenon DEF OnWebSocketError
    <3> QED
      BY <3>1, <3>2
  <2>7. conns' \in Seq(Connection) /\ Running'
    BY <2>2, <2>3, <2>4, <2>5, <2>6, InvConnectionChanges
  <2> QED
    BY <1>0, <2>5, <2>7 DEF TypeOK, requests, flags
<1>5. ASSUME NEW orderly \in BOOLEAN, PollClosed(orderly) PROVE Inv'
  BY <1>4, <1>5 DEF PollClosed
<1>6. ASSUME DispatchUnexpected PROVE Inv'
  BY <1>4, <1>6 DEF DispatchUnexpected
<1>7. ASSUME DispatchNothing PROVE Inv'
  <2>1. UNCHANGED <<links, requests, flags>>
        /\ pc' \in Phase \ {"dispatch", "redirected"} /\ cursor' \in Nat \ {0} /\ dt' = dt
    BY <1>0, <1>7, <1>a, Moves DEF Dispatching, DispatchNothing, Connection
  <2> QED
    BY <1>0, <2>1, InvSameConnections DEF TypeOK, links, requests, flags
<1>8. ASSUME NEW d \in Connection, Dispatching,
             conns' = [conns EXCEPT ![cursor] = d], d.stopped = Current.stopped,
             NextConnection(Current.stopped), ready' \in BOOLEAN,
             UNCHANGED <<deadline, flags>>
      PROVE  /\ conns' \in Seq(Connection) /\ Running'
             /\ pc' \in Phase \ {"dispatch", "redirected"}
             /\ cursor' \in Nat \ {0} /\ dt' = dt
  <2>1. cursor \in 1..Len(conns) /\ Current \in Connection
    BY <1>8, <1>a DEF Dispatching
  <2>2. pc' \in Phase \ {"dispatch", "redirected"} /\ cursor' \in Nat \ {0} /\ dt' = dt
    BY <1>0, <1>8, <2>1, Moves DEF Connection
  <2>3. ~paused
    BY <1>8 DEF Dispatching, At, Running, DispatchesRunning
  <2> QED
    BY <1>8, <2>1, <2>2, <2>3, InvConnectionChanges DEF flags
<1>9. ASSUME DispatchNonce PROVE Inv'
  <2> DEFINE d == [Current EXCEPT !.greeted = (Current.ws = "open")]
  <2>1. cursor \in 1..Len(conns) /\ Current \in Connection
    BY <1>9, <1>a DEF Dispatching, DispatchNonce
  <2>2. d \in Connection /\ d.stopped = Current.stopped
    BY <2>1 DEF Connection
  <2>3. conns' = [conns EXCEPT ![cursor] = d]
        /\ UNCHANGED <<ready, deadline, requests, flags>>
    BY <1>9, <2>1 DEF Current, DispatchNonce
  <2> HIDE DEF d
  <2> QED
    BY <1>0, <1>8, <1>9, <2>1, <2>2, <2>3
       DEF TypeOK, requests, flags, DispatchNonce
<1>10. ASSUME DispatchSession PROVE Inv'
  <2> DEFINE d == [Current EXCEPT !.handshaken = TRUE]
  <2>1. cursor \in 1..Len(conns) /\ Current \in Connection
    BY <1>10, <1>a DEF Dispatching, DispatchSession
  <2>2. d \in Connection /\ d.stopped = Current.stopped
    BY <2>1 DEF Connection
  <2>3. conns' = [conns EXCEPT ![cursor] = d] /\ ready' = TRUE
        /\ UNCHANGED <<deadline, requests, flags>>
    BY <1>10, <2>1 DEF Current, DispatchSession
  <2> HIDE DEF d
  <2> QED
    BY <1>0, <1>8, <1>10, <2>1, <2>2, <2>3
       DEF TypeOK, requests, flags, DispatchSession
<1>11. ASSUME DispatchRedirect PROVE Inv'
  <2>1. /\ pc = "dispatch" /\ pc' = "redirected"
        /\ UNCHANGED <<dt, requests, flags>>
    BY <1>11 DEF DispatchRedirect, At
  <2>2. ~paused /\ paused' = FALSE
    BY <1>0, <2>1 DEF Running, DispatchesRunning, flags, TypeOK
  <2>3. NewConnection(FALSE) /\ cursor' = cursor + 1
    BY <1>11, <2>2 DEF DispatchRedirect, NewConnection
  <2>4. conns' \in Seq(Connection) /\ deadline' \in Int /\ ready' = FALSE
        /\ Running'
    BY <2>1, <2>2, <2>3, NewFront
  <2>5. pc' \in Phase /\ cursor' \in Nat \ {0}
    BY <1>0, <2>1, <2>3 DEF TypeOK, Phase
  <2> QED
    BY <1>0, <2>1, <2>4, <2>5 DEF TypeOK, requests, flags
<1>12. ASSUME NEW r \in Request, DispatchResponse(r) PROVE Inv'
  <2> DEFINE d == [Current EXCEPT !.sent = @ \ {r}, !.pending = @ \ {r}]
  <2>1. cursor \in 1..Len(conns) /\ Current \in Connection
    BY <1>12, <1>a DEF Dispatching, DispatchResponse
  <2>2. d \in Connection /\ d.stopped = Current.stopped
    BY <2>1 DEF Connection
  <2>3. conns' = [conns EXCEPT ![cursor] = d]
    BY <1>12, <2>1 DEF Current, DispatchResponse
  <2>4. UNCHANGED <<ready, deadline, sendQueue, timer, submitted, dangling, flags>>
        /\ callbacks' \in [Request -> Nat]
    BY <1>0, <1>12 DEF DispatchResponse, Complete, TypeOK
  <2> HIDE DEF d
  <2> QED
    BY <1>0, <1>8, <1>12, <2>1, <2>2, <2>3, <2>4
       DEF TypeOK, flags, DispatchResponse
<1>13. ASSUME DispatchClose PROVE Inv'
  <2> DEFINE d == [Current EXCEPT !.ws = "closing"]
  <2>1. cursor \in 1..Len(conns) /\ Current \in Connection
    BY <1>13, <1>a DEF DispatchClose
  <2>2. d \in Connection /\ d.stopped = Current.stopped
    BY <2>1 DEF Connection, WSState
  <2>3. conns' = [conns EXCEPT ![cursor] = d]
        /\ UNCHANGED <<ready, deadline, requests, flags>>
    BY <1>13, <2>1 DEF Current, DispatchClose
  <2> HIDE DEF d
  <2> QED
    BY <1>0, <1>8, <1>13, <2>1, <2>2, <2>3
       DEF TypeOK, requests, flags, Dispatching, DispatchClose
<1> QED
  BY <1>1, <1>2, <1>3, <1>5, <1>6, <1>7, <1>9, <1>10, <1>11, <1>12, <1>13
     DEF UpdateConnections

(* The phases of ProcessQueues keep the invariant.                         *)
LEMMA InvProcessQueues ==
    Inv /\ (ConnectIfRequired \/ TrimOldConnections \/ ProcessSendQueue
            \/ ExpirePending) => Inv'
<1> SUFFICES ASSUME Inv,
                    \/ ConnectIfRequired \/ TrimOldConnections
                    \/ ProcessSendQueue \/ ExpirePending
             PROVE  Inv'
  OBVIOUS
<1>0. TypeOK
  BY DEF Inv
<1>1. ASSUME ConnectIfRequired PROVE Inv'
  <2>1. /\ pc' = "trim" /\ cursor' = 1 /\ dt' = dt
        /\ UNCHANGED <<requests, flags>>
    BY <1>1 DEF ConnectIfRequired, Goto
  <2>2. CASE ConnectionRequired /\ ~paused
    <3>1. NewConnection(FALSE)
      BY <1>1, <2>2 DEF ConnectIfRequired, NewConnection
    <3>2. conns' \in Seq(Connection) /\ deadline' \in Int /\ ready' = FALSE
          /\ Running'
      BY <2>1, <2>2, <3>1, NewFront DEF flags
    <3>3. ready' \in BOOLEAN
      BY <3>2
    <3>4. TypeOK'
      BY <1>0, <2>1, <3>2, <3>3 DEF TypeOK, Phase, requests, flags
    <3> QED
      BY <3>2, <3>4 DEF Inv
  <2>3. CASE ~(ConnectionRequired /\ ~paused)
    <3>1. UNCHANGED <<conns, ready, deadline>>
      BY <1>1, <2>3 DEF ConnectIfRequired, NewConnection, links
    <3>2. conns' \in Seq(Connection) /\ Running'
      BY <2>1, <3>1, InvSameConnections DEF flags
    <3> QED
      BY <1>0, <2>1, <3>1, <3>2 DEF Inv, TypeOK, Phase, requests, flags
  <2> QED
    BY <2>2, <2>3
<1>2. ASSUME TrimDelete PROVE Inv'
  <2>1. /\ cursor \in 1..Len(conns) /\ pc = "trim"
        /\ conns' = RemoveAt(conns, cursor)
        /\ UNCHANGED <<ready, deadline, requests, flags, pc, cursor, dt>>
    BY <1>0, <1>2 DEF TrimDelete, At, TypeOK
  <2>2. /\ conns' \in Seq(Connection)
        /\ Len(conns') = Len(conns) - 1
        /\ \A j \in 1..Len(conns) - 1 :
             conns'[j] = IF j < cursor THEN conns[j] ELSE conns[j + 1]
    BY <1>0, <2>1, Removed DEF TypeOK
  <2>3. \A j \in 1..Len(conns') :
           \E k \in j..Len(conns) : conns'[j] = conns[k]
    <3> TAKE j \in 1..Len(conns')
    <3>1. j \in 1..Len(conns) - 1 /\ Len(conns) \in Nat
      BY <1>0, <2>2 DEF TypeOK
    <3>2. CASE j < cursor
      <4>1. j \in j..Len(conns) /\ conns'[j] = conns[j]
        BY <2>2, <3>1, <3>2
      <4> QED
        BY <4>1
    <3>3. CASE ~(j < cursor)
      <4>1. j + 1 \in j..Len(conns) /\ conns'[j] = conns[j + 1]
        BY <2>2, <3>1, <3>3
      <4> QED
        BY <4>1
    <3> QED
      BY <3>2, <3>3
  <2>4. Running'
    BY <1>0, <2>1, <2>2, <2>3
       DEF Inv, Running, OneLiveConnection, DisconnectIsFinal, Live,
           DispatchesRunning, TypeOK, flags
  <2> QED
    BY <1>0, <2>1, <2>2, <2>4 DEF Inv, TypeOK, requests, flags
<1>3. ASSUME TrimKeep \/ EndTrim PROVE Inv'
  <2>1. /\ UNCHANGED <<links, requests, flags>> /\ dt' = dt
        /\ pc' \in {"trim", "send"} /\ cursor' \in Nat \ {0}
    BY <1>0, <1>3 DEF TrimKeep, EndTrim, At, Goto, TypeOK
  <2>2. conns' \in Seq(Connection) /\ Running'
    BY <2>1, InvSameConnections DEF links, flags
  <2> QED
    BY <1>0, <2>1, <2>2 DEF Inv, TypeOK, Phase, links, requests, flags
<1>4. ASSUME SendQueueEmpty PROVE Inv'
  <2>1. /\ UNCHANGED <<links, requests, flags>> /\ dt' = dt
        /\ pc' = "expire" /\ cursor' = 1
    BY <1>4 DEF SendQueueEmpty, Goto
  <2>2. conns' \in Seq(Connection) /\ Running'
    BY <2>1, InvSameConnections DEF links, flags
  <2> QED
    BY <1>0, <2>1, <2>2 DEF Inv, TypeOK, Phase, links, requests, flags
<1>5. ASSUME NEW e, NEW f, AtSendQueue(e, f)
      PROVE  /\ sendQueue # <<>> /\ Head(sendQueue) \in Request
             /\ Tail(sendQueue) \in Seq(Request)
             /\ timer' \in [Request -> Int] /\ f = FrontReady
  <2>1. sendQueue # <<>> /\ f = FrontReady
        /\ timer' = [timer EXCEPT ![Head(sendQueue)] = HeadTimer]
    BY <1>5 DEF AtSendQueue
  <2>2. Head(sendQueue) \in Request /\ Tail(sendQueue) \in Seq(Request)
    BY <1>0, <2>1, HeadTailProperties DEF TypeOK
  <2>3. HeadTimer \in Int
    BY <1>0, <2>2 DEF HeadTimer, TypeOK
  <2> QED
    BY <1>0, <2>1, <2>2, <2>3 DEF TypeOK
<1>6. ASSUME SendQueueWaits PROVE Inv'
  <2>1. /\ UNCHANGED <<links, sendQueue, submitted, callbacks, dangling, flags>>
        /\ dt' = dt /\ pc' = "expire" /\ cursor' = 1
        /\ timer' \in [Request -> Int]
    BY <1>5, <1>6 DEF SendQueueWaits, Goto
  <2>2. conns' \in Seq(Connection) /\ Running'
    BY <2>1, InvSameConnections DEF links, flags
  <2> QED
    BY <1>0, <2>1, <2>2 DEF Inv, TypeOK, Phase, links, flags
<1>7. ASSUME SendQueueSends PROVE Inv'
  <2>1. /\ UNCHANGED <<ready, deadline, submitted, callbacks, dangling, flags>>
        /\ dt' = dt /\ pc' = "expire" /\ cursor' = 1
        /\ timer' \in [Request -> Int] /\ sendQueue' \in Seq(Request)
        /\ Head(sendQueue) \in Request /\ SendImmediate(Head(sendQueue))
    BY <1>5, <1>7 DEF SendQueueSends, Goto
  <2>0. FrontReady
    BY <1>7, Zenon DEF SendQueueSends, AtSendQueue
  <2>2. conns' \in Seq(Connection) /\ OneLiveConnection' /\ (Live' => Live)
    BY <2>0, <2>1, SentOnFront
  <2> QED
    BY <1>0, <2>1, <2>2
       DEF Inv, TypeOK, Phase, flags, Running, DisconnectIsFinal, DispatchesRunning
<1>8. ASSUME SendQueueExpires PROVE Inv'
  <2>1. /\ UNCHANGED <<links, submitted, dangling, flags>>
        /\ dt' = dt /\ pc' = "expire" /\ cursor' = 1
        /\ timer' \in [Request -> Int] /\ sendQueue' \in Seq(Request)
    BY <1>5, <1>8 DEF SendQueueExpires, Goto
  <2>2. callbacks' \in [Request -> Nat]
    BY <1>0, <1>8 DEF SendQueueExpires, Complete, TypeOK
  <2>3. conns' \in Seq(Connection) /\ Running'
    BY <2>1, InvSameConnections DEF links, flags
  <2> QED
    BY <1>0, <2>1, <2>2, <2>3 DEF Inv, TypeOK, Phase, links, flags
<1>9. ASSUME SendQueueDangles PROVE Inv'
  <2>1. /\ UNCHANGED <<ready, deadline, submitted, flags>>
        /\ dangling' = TRUE
        /\ timer' \in [Request -> Int] /\ Tail(sendQueue) \in Seq(Request)
        /\ Head(sendQueue) \in Request
    BY <1>5, <1>9 DEF SendQueueDangles
  <2>0. FrontReady
    BY <1>9, Zenon DEF SendQueueDangles, AtSendQueue
  <2>2. callbacks' \in [Request -> Nat]
    BY <1>0, <1>9 DEF SendQueueDangles, Complete, TypeOK
  <2>3. CASE UNCHANGED conns /\ Goto("crashed") /\ sendQueue' = Tail(sendQueue)
    <3>1. dt' = dt /\ pc' = "crashed" /\ cursor' = 1
      BY <2>3 DEF Goto
    <3>2. conns' \in Seq(Connection) /\ Running'
      BY <2>1, <2>3, <3>1, InvSameConnections DEF flags
    <3> QED
      BY <1>0, <2>1, <2>2, <2>3, <3>1, <3>2 DEF Inv, TypeOK, Phase, flags
  <2>4. CASE /\ Len(sendQueue) > 1 /\ SendImmediate(Head(sendQueue))
             /\ sendQueue' = Tail(Tail(sendQueue)) /\ Goto("expire")
    <3>1. dt' = dt /\ pc' = "expire" /\ cursor' = 1
      BY <2>4 DEF Goto
    <3>2. sendQueue' \in Seq(Request)
      <4>1. Tail(sendQueue) # <<>>
        <5>1. Len(Tail(sendQueue)) > 0
          BY <1>0, <1>5, <1>9, <2>4, HeadTailProperties
             DEF TypeOK, SendQueueDangles
        <5> QED
          BY <5>1, EmptySeq
      <4> QED
        BY <2>1, <2>4, <4>1, HeadTailProperties
    <3>3. conns' \in Seq(Connection) /\ OneLiveConnection' /\ (Live' => Live)
      BY <2>0, <2>1, <2>4, SentOnFront
    <3> QED
      BY SMTT(20), <1>0, <2>1, <2>2, <3>1, <3>2, <3>3
         DEF Inv, TypeOK, Phase, flags, Running, DisconnectIsFinal,
             DispatchesRunning
  <2> QED
    BY <1>9, <2>3, <2>4 DEF SendQueueDangles
<1>10. ASSUME ExpirePending PROVE Inv'
  <2> DEFINE d(i) == [conns[i] EXCEPT !.pending = @ \ Overdue(conns[i])]
  <2>1. /\ UNCHANGED <<ready, deadline, sendQueue, submitted, dangling, flags>>
        /\ conns' = [i \in 1..Len(conns) |-> d(i)]
        /\ dt' = dt /\ pc' = "idle" /\ cursor' = 1
    BY <1>10 DEF ExpirePending, Goto
  <2>2. timer' \in [Request -> Int] /\ callbacks' \in [Request -> Nat]
    BY <1>0, <1>10 DEF ExpirePending, Complete, TypeOK
  <2>3. ASSUME NEW i \in 1..Len(conns)
        PROVE  d(i) \in Connection /\ d(i).stopped = conns[i].stopped
    <3>1. conns[i] \in Connection
      BY <1>0 DEF TypeOK
    <3> QED
      BY <3>1 DEF Connection
  <2> HIDE DEF d
  <2>4. conns' \in Seq(Connection) /\ Len(conns') = Len(conns)
    <3>1. Len(conns) \in Nat
      BY <1>0 DEF TypeOK
    <3>2. conns' \in [1..Len(conns) -> Connection]
      BY <2>1, <2>3
    <3> QED
      BY <3>1, <3>2, FunctionIsSeq
  <2>5. \A i \in 1..Len(conns) : conns'[i].stopped = conns[i].stopped
    BY <2>1, <2>3
  <2>6. OneLiveConnection' /\ (Live' => Live)
    BY <2>4, <2>5 DEF Inv, Running, OneLiveConnection, Live
  <2>7. Running'
    BY <2>1, <2>6 DEF Inv, Running, DisconnectIsFinal, DispatchesRunning, flags
  <2> QED
    BY <1>0, <2>1, <2>2, <2>4, <2>7 DEF Inv, TypeOK, Phase, flags
<1> QED
  BY <1>1, <1>2, <1>3, <1>4, <1>6, <1>7, <1>8, <1>9, <1>10
     DEF TrimOldConnections, ProcessSendQueue

(* Every step keeps the invariant.                                         *)
LEMMA InvStep == Inv /\ [Next]_vars => Inv'
<1> SUFFICES ASSUME Inv, [Next]_vars PROVE Inv'
  OBVIOUS
<1>1. CASE Application
  BY <1>1, InvApplication
<1>2. CASE UpdateBegin
  <2>1. /\ UNCHANGED <<conns, ready, requests, flags>>
        /\ dt' \in Int /\ deadline' \in Int /\ pc' = "poll" /\ cursor' = 1
    <3>1. dt' \in Int
      BY <1>2, DeltasAssumption DEF UpdateBegin
    <3>2. deadline' \in Int
      <4>1. deadline' = Floored(deadline - dt')
        BY <1>2 DEF UpdateBegin
      <4>2. deadline \in Int
        BY DEF Inv, TypeOK
      <4>3. \A t \in Int : Floored(t) \in Int
        BY DEF Floored
      <4>4. deadline - dt' \in Int
        BY <3>1, <4>2
      <4> QED
        BY <4>1, <4>3, <4>4, Zenon
    <3> QED
      BY <1>2, <3>1, <3>2 DEF UpdateBegin
  <2>2. conns' \in Seq(Connection) /\ Running'
    BY <2>1, InvSameConnections DEF flags
  <2> QED
    BY <2>1, <2>2 DEF Inv, TypeOK, Phase, requests, flags
<1>3. CASE UpdateConnections
  BY <1>3, InvUpdateConnections
<1>4. CASE ConnectIfRequired \/ TrimOldConnections \/ ProcessSendQueue \/ ExpirePending
  BY <1>4, InvProcessQueues
<1>5. CASE UNCHANGED vars
  BY <1>5 DEF vars, links, requests, flags, Inv, TypeOK, Running, OneLiveConnection,
              DisconnectIsFinal, DispatchesRunning, Live, Current
<1> QED
  BY <1>1, <1>2, <1>3, <1>4, <1>5 DEF Next, Update

(* In every reachable state the invariant holds.                           *)
LEMMA InvAlways == Spec => []Inv
BY InvInit, InvStep, PTL DEF Spec

-----------------------------------------------------------------------------
(* Results                                                                 *)

(* Every variable of the client keeps its type: the cursor of Update's     *)
(* loops, the queues and the table of connections stay well formed.        *)
THEOREM TypeCorrect == Spec => []TypeOK
<1>1. Inv => TypeOK
  BY DEF Inv
<1> QED
  BY InvAlways, <1>1, PTL

(* GS::NewConnection and GSConnection's error handling leave no connection *)
(* running but m_Connections[0]; after GS::Disconnect none is running and  *)
(* the service stays unavailable, until the application reconnects.        *)
THEOREM RunsAsWanted == Spec => []LiveAsWanted
<1>1. Inv => LiveAsWanted
  BY DEF Inv, Running, LiveAsWanted
<1> QED
  BY InvAlways, <1>1, PTL

-----------------------------------------------------------------------------
(* The requests: where one waits, how often it is called back, and what    *)
(* the time-outs guarantee.                                                *)

-----------------------------------------------------------------------------
(* No request is overdue between two Updates                               *)

(* Only the application and the end of an Update lead to "idle".           *)
LEMMA IdleAfter ==
    ASSUME Inv, Next, pc' = "idle"
    PROVE  Application \/ ExpirePending
<1>1. ASSUME UpdateBegin \/ ConnectIfRequired \/ TrimOldConnections PROVE FALSE
  BY <1>1 DEF UpdateBegin, ConnectIfRequired, TrimOldConnections, TrimKeep,
              TrimDelete, EndTrim, Goto, At
<1>2. ASSUME ProcessSendQueue PROVE FALSE
  BY <1>2 DEF ProcessSendQueue, SendQueueEmpty, SendQueueWaits, SendQueueSends,
              SendQueueExpires, SendQueueDangles, Goto
<1>3. ASSUME UpdateConnections PROVE FALSE
  <2>1. \A b : ~(NextConnection(b) \/ Goto("connect"))
    BY DEF NextConnection, Goto
  <2> QED
    BY <1>3, <2>1
       DEF UpdateConnections, EndConnections, PollSkip, PollConnecting, PollQuiet,
           PollClosed, Dispatching, DispatchNothing, DispatchNonce, DispatchSession,
           DispatchRedirect, DispatchResponse, DispatchClose, DispatchUnexpected
<1> QED
  BY <1>1, <1>2, <1>3 DEF Next, Update

(* The pending requests of a connection that an action of the application  *)
(* leaves behind were pending before, or have just been given their timer. *)
LEMMA PendingAfterCall ==
    ASSUME Inv, Application,
           NEW k \in 1..Len(conns'), NEW r \in conns'[k].pending
    PROVE  \/ timer'[r] >= 0
           \/ timer'[r] = timer[r] /\ \E i \in 1..Len(conns) : r \in conns[i].pending
<1>0. /\ TypeOK /\ conns \in Seq(Connection) /\ Len(conns) \in Nat
      /\ \A i \in 1..Len(conns) : conns[i] \in Connection
  BY DEF Inv, TypeOK
<1>1. ASSUME NewConnection(FALSE), timer' = timer
      PROVE  \E i \in 1..Len(conns) : r \in conns[i].pending
  <2>1. /\ Len(conns') = Len(conns) + 1
        /\ conns'[1] = FreshConnection
        /\ \A i \in 2..Len(conns) + 1 :
             conns'[i] = [conns[i - 1] EXCEPT !.stopped = TRUE]
    BY <1>0, <1>1, NewConnectionIsFront
  <2>2. k # 1
    BY <2>1 DEF FreshConnection
  <2>3. k - 1 \in 1..Len(conns) /\ conns'[k].pending = conns[k - 1].pending
    <3>1. k - 1 \in 1..Len(conns) /\ k \in 2..Len(conns) + 1
      BY <1>0, <2>1, <2>2
    <3>2. conns[k - 1] \in Connection
      BY <1>0, <3>1
    <3>3. conns'[k] = [conns[k - 1] EXCEPT !.stopped = TRUE]
      BY <2>1, <3>1
    <3> QED
      BY <3>1, <3>2, <3>3 DEF Connection
  <2> QED
    BY <2>3
<1>2. ASSUME conns' = StopAll
      PROVE  \E i \in 1..Len(conns) : r \in conns[i].pending
  <2>1. k \in 1..Len(conns) /\ conns'[k] = [conns[k] EXCEPT !.stopped = TRUE]
    BY <1>0, <1>2, StopAllStops
  <2>2. conns'[k].pending = conns[k].pending
    BY <1>0, <2>1 DEF Connection
  <2> QED
    BY <2>1, <2>2
<1>3. ASSUME UNCHANGED conns
      PROVE  \E i \in 1..Len(conns) : r \in conns[i].pending
  BY <1>3
<1>4. ASSUME Disconnect \/ Reconnect \/ Reset PROVE timer' = timer
  BY <1>4 DEF Disconnect, Reconnect, Reset, requests
<1>5. CASE Disconnect
  BY <1>2, <1>4, <1>5 DEF Disconnect
<1>6. CASE Reconnect
  BY <1>1, <1>3, <1>4, <1>6 DEF Reconnect, links
<1>7. CASE Reset
  BY <1>1, <1>2, <1>4, <1>7 DEF Reset
<1>8. CASE ShutDown
  <2>1. timer' = timer
        /\ conns' = [i \in 1..Len(conns) |->
                       [conns[i] EXCEPT !.stopped = TRUE, !.ws = "none"]]
    BY <1>8 DEF ShutDown, requests
  <2>2. k \in 1..Len(conns)
    <3>1. conns' \in Seq(Connection)
      BY <1>8, InvApplication DEF Application, Inv, TypeOK
    <3> QED
      BY <1>0, <2>1, <3>1, LenProperties
  <2> QED
    BY <1>0, <2>1, <2>2 DEF Connection
<1>9. ASSUME NEW q \in Request, Send(q)
      PROVE  \/ timer'[r] >= 0
             \/ timer'[r] = timer[r] /\ \E i \in 1..Len(conns) : r \in conns[i].pending
  <2>1. PICK t \in Timeouts : timer' = [timer EXCEPT ![q] = t]
    BY <1>9 DEF Send
  <2>2. r \in Request
    <3>1. conns' \in Seq(Connection)
      BY <1>9, InvApplication DEF Application, Inv, TypeOK
    <3>2. conns'[k] \in Connection
      BY <3>1
    <3> QED
      BY <3>2 DEF Connection
  <2>3. CASE r = q
    BY <1>0, <2>1, <2>2, <2>3, TimeoutsAssumption DEF TypeOK
  <2>4. CASE r # q
    <3>1. timer'[r] = timer[r]
      BY <1>0, <2>1, <2>2, <2>4 DEF TypeOK
    <3>2. CASE FrontReady
      <4>1. SendImmediate(q) /\ 1 \in 1..Len(conns)
        BY <1>0, <1>9, <3>2 DEF Send, FrontReady
      <4>2. k \in 1..Len(conns) /\ conns'[k].pending \subseteq conns[k].pending \cup {q}
        BY <1>0, <4>1 DEF SendImmediate, Connection
      <4> QED
        BY <2>4, <3>1, <4>2
    <3>3. CASE ~FrontReady
      <4>1. NewConnection(FALSE) \/ UNCHANGED conns
        BY <1>9, <3>3 DEF Send, NewConnection, links
      <4>2. \E i \in 1..Len(conns) : r \in conns[i].pending
        <5>1. CASE UNCHANGED conns
          BY <5>1
        <5>2. CASE NewConnection(FALSE) /\ conns = <<>>
          <6>1. conns' = <<FreshConnection>> \o StopAll
            BY <5>2 DEF NewConnection
          <6>2. /\ Len(conns') = Len(conns) + 1 /\ conns'[1] = FreshConnection
            BY <1>0, <5>2, NewConnectionIsFront
          <6> QED
            BY <1>0, <5>2, <6>2 DEF FreshConnection
        <5> QED
          BY <1>9, <3>3, <4>1, <5>1, <5>2 DEF Send, NewConnection, links
      <4> QED
        BY <3>1, <4>2
    <3> QED
      BY <3>2, <3>3
  <2> QED
    BY <2>3, <2>4
<1> QED
  BY <1>5, <1>6, <1>7, <1>8, <1>9 DEF Application

(* ProcessPendingQueue leaves no pending request past its time-out.        *)
LEMMA NoOverdueAfterExpiry ==
    ASSUME Inv, ExpirePending PROVE NoOverdueRequest'
<1>0. TypeOK /\ Len(conns) \in Nat
  BY DEF Inv, TypeOK
<1>1. SUFFICES ASSUME NEW i \in 1..Len(conns'), NEW r \in conns'[i].pending
               PROVE  timer'[r] >= 0
  BY DEF NoOverdueRequest
<1>2. /\ conns' = [k \in 1..Len(conns) |->
                     [conns[k] EXCEPT !.pending = @ \ Overdue(conns[k])]]
      /\ timer' = [q \in Request |-> timer[q] - IF PendingSomewhere(q) THEN dt ELSE 0]
  BY DEF ExpirePending
<1>3. i \in 1..Len(conns) /\ conns[i] \in Connection
  <2>1. conns' \in Seq(Connection)
    BY InvProcessQueues DEF Inv, TypeOK
  <2> QED
    BY <1>0, <1>2, <2>1, LenProperties DEF TypeOK
<1>4. r \in conns[i].pending /\ r \notin Overdue(conns[i]) /\ r \in Request
  BY <1>2, <1>3 DEF Connection
<1>5. timer[r] - dt >= 0 /\ timer'[r] = timer[r] - dt
  BY <1>0, <1>2, <1>3, <1>4 DEF Overdue, PendingSomewhere, TypeOK
<1> QED
  BY <1>5

(* Between two Updates no pending request is past its time-out.            *)
THEOREM NoneOverdue == Spec => []NoOverdueRequest
<1>1. Init => NoOverdueRequest
  BY DEF Init, NoOverdueRequest, FreshConnection
<1>2. Inv /\ NoOverdueRequest /\ [Next]_vars => NoOverdueRequest'
  <2> SUFFICES ASSUME Inv, NoOverdueRequest, [Next]_vars, pc' = "idle"
               PROVE  NoOverdueRequest'
    BY DEF NoOverdueRequest
  <2>1. CASE UNCHANGED vars
    BY <2>1 DEF vars, links, requests, NoOverdueRequest
  <2>2. CASE Application
    <3>1. pc = "idle"
      BY <2>2 DEF Application, Send, Disconnect, Reconnect, Reset, ShutDown, Idle
    <3> SUFFICES ASSUME NEW k \in 1..Len(conns'), NEW r \in conns'[k].pending
                 PROVE  timer'[r] >= 0
      BY DEF NoOverdueRequest
    <3> QED
      BY <2>2, <3>1, PendingAfterCall DEF NoOverdueRequest
  <2>3. CASE ExpirePending
    BY <2>3, NoOverdueAfterExpiry
  <2> QED
    BY <2>1, <2>2, <2>3, IdleAfter
<1> QED
  BY <1>1, <1>2, InvAlways, PTL DEF Spec

-----------------------------------------------------------------------------
(* A request waits in one place at most                                    *)

Queued(r) == \E i \in 1..Len(sendQueue) : sendQueue[i] = r

(* The send queue has no request twice, none of its requests is pending,   *)
(* and no request is pending on two connections.                           *)
OnePlace ==
    /\ \A i, j \in 1..Len(sendQueue) : sendQueue[i] = sendQueue[j] => i = j
    /\ \A r : ~(Queued(r) /\ PendingSomewhere(r))
    /\ \A k, l \in 1..Len(conns) :
         conns[k].pending \cap conns[l].pending # {} => k = l

(* A request that waits has been submitted ...                             *)
WaitsOnceSubmitted ==
    \A r \in Request : Queued(r) \/ PendingSomewhere(r) => r \in submitted

(* ... and not been called back; none is called back twice.                *)
Accounted ==
    /\ \A r \in Request : Queued(r) \/ PendingSomewhere(r) => callbacks[r] = 0
    /\ \A r \in Request : callbacks[r] = 0 \/ (callbacks[r] = 1 /\ r \in submitted)

(* Only the accounts suffer when a popped request is used.                 *)
RequestInv ==
    /\ OnePlace /\ WaitsOnceSubmitted
    /\ ~dangling => Accounted

(* ToSet and positions say the same of the queue.                          *)
LEMMA QueuedIsIn ==
    ASSUME sendQueue \in Seq(Request)
    PROVE  \A r : r \in ToSet(sendQueue) <=> Queued(r)
<1>1. DOMAIN sendQueue = 1..Len(sendQueue)
  BY LenProperties
<1> QED
  BY <1>1 DEF ToSet, Queued

(* The connections may come, go and move, and their tables shrink: m gives *)
(* the old place of each connection that has pending requests.             *)
LEMMA TablesShrink ==
    ASSUME RequestInv, TypeOK,
           NEW m \in [1..Len(conns') -> Int],
           \A k, l \in 1..Len(conns') : m[k] = m[l] => k = l,
           \A k \in 1..Len(conns') :
              \/ conns'[k].pending = {}
              \/ /\ m[k] \in 1..Len(conns)
                 /\ conns'[k].pending \subseteq conns[m[k]].pending,
           UNCHANGED <<sendQueue, submitted, callbacks, dangling>>
    PROVE  RequestInv'
<1>1. \A r : \A k \in 1..Len(conns') : r \in conns'[k].pending =>
         m[k] \in 1..Len(conns) /\ r \in conns[m[k]].pending
  OBVIOUS
<1>2. \A r : PendingSomewhere(r)' => PendingSomewhere(r)
  BY <1>1 DEF PendingSomewhere
<1>4. OnePlace /\ WaitsOnceSubmitted
  BY DEF RequestInv
<1>5. \A k, l \in 1..Len(conns') :
        conns'[k].pending \cap conns'[l].pending # {} => k = l
  <2> TAKE k, l \in 1..Len(conns')
  <2> HAVE conns'[k].pending \cap conns'[l].pending # {}
  <2>1. PICK r : r \in conns'[k].pending /\ r \in conns'[l].pending
    OBVIOUS
  <2>2. m[k] \in 1..Len(conns) /\ m[l] \in 1..Len(conns)
        /\ r \in conns[m[k]].pending /\ r \in conns[m[l]].pending
    BY <1>1, <2>1
  <2>3. m[k] = m[l]
    BY <1>4, <2>2 DEF OnePlace
  <2> QED
    BY <2>3
<1>6. OnePlace'
  BY <1>2, <1>4, <1>5 DEF OnePlace, Queued
<1>7. WaitsOnceSubmitted'
  BY <1>2, <1>4 DEF WaitsOnceSubmitted, Queued
<1>8. ~dangling' => Accounted'
  BY <1>2 DEF RequestInv, Accounted, Queued
<1> QED
  BY <1>6, <1>7, <1>8 DEF RequestInv

(* The same connections with no more pending requests than before.         *)
LEMMA SamePlaces ==
    ASSUME RequestInv, TypeOK,
           Len(conns') = Len(conns),
           \A k \in 1..Len(conns) : conns'[k].pending \subseteq conns[k].pending,
           UNCHANGED <<sendQueue, submitted, callbacks, dangling>>
    PROVE  RequestInv'
<1> DEFINE m == [k \in 1..Len(conns') |-> k]
<1>1. m \in [1..Len(conns') -> Int]
  BY DEF TypeOK
<1>2. \A k \in 1..Len(conns') : m[k] = k
  OBVIOUS
<1> HIDE DEF m
<1> QED
  BY <1>1, <1>2, TablesShrink

(* A new front has no pending request yet.                                 *)
LEMMA NewFrontKeepsRequests ==
    ASSUME RequestInv, TypeOK, NewConnection(FALSE),
           UNCHANGED <<sendQueue, submitted, callbacks, dangling>>
    PROVE  RequestInv'
<1>1. /\ Len(conns') = Len(conns) + 1
      /\ conns'[1] = FreshConnection
      /\ \A i \in 2..Len(conns) + 1 :
           conns'[i] = [conns[i - 1] EXCEPT !.stopped = TRUE]
  BY NewConnectionIsFront DEF TypeOK
<1> DEFINE m == [k \in 1..Len(conns') |-> k - 1]
<1>2. Len(conns) \in Nat
  BY DEF TypeOK
<1>3. m \in [1..Len(conns') -> Int] /\ \A k \in 1..Len(conns') : m[k] = k - 1
  BY <1>1, <1>2
<1> HIDE DEF m
<1>4. \A k, l \in 1..Len(conns') : m[k] = m[l] => k = l
  BY <1>1, <1>2, <1>3
<1>5. ASSUME NEW k \in 1..Len(conns')
      PROVE  \/ conns'[k].pending = {}
             \/ /\ m[k] \in 1..Len(conns)
                /\ conns'[k].pending \subseteq conns[m[k]].pending
  <2>1. CASE k = 1
    BY <1>1, <2>1 DEF FreshConnection
  <2>2. CASE k # 1
    <3>1. k \in 2..Len(conns) + 1 /\ k - 1 \in 1..Len(conns)
      BY <1>1, <1>2, <2>2
    <3>2. conns[k - 1] \in Connection
      BY <3>1 DEF TypeOK
    <3>3. conns'[k] = [conns[k - 1] EXCEPT !.stopped = TRUE]
      BY <1>1, <3>1
    <3>4. conns'[k].pending = conns[k - 1].pending
      BY <3>2, <3>3 DEF Connection
    <3> QED
      BY <1>3, <3>1, <3>4
  <2> QED
    BY <2>1, <2>2
<1> QED
  BY <1>3, <1>4, <1>5, TablesShrink

(* Stopping the connections leaves their pending requests alone.           *)
LEMMA StopKeepsRequests ==
    ASSUME RequestInv, TypeOK, conns' = StopAll,
           UNCHANGED <<sendQueue, submitted, callbacks, dangling>>
    PROVE  RequestInv'
<1>1. conns \in Seq(Connection)
  BY DEF TypeOK
<1>2. Len(conns') = Len(conns)
  BY <1>1, StopAllStops
<1>3. ASSUME NEW k \in 1..Len(conns) PROVE conns'[k].pending = conns[k].pending
  <2>1. conns'[k] = [conns[k] EXCEPT !.stopped = TRUE] /\ conns[k] \in Connection
    BY <1>1, StopAllStops
  <2> QED
    BY <2>1 DEF Connection
<1> QED
  BY <1>2, <1>3, SamePlaces

(* A connection that keeps its pending requests, whatever else changes.    *)
LEMMA ConnectionKeepsRequests ==
    ASSUME RequestInv, TypeOK, NEW i \in 1..Len(conns), NEW d,
           conns' = [conns EXCEPT ![i] = d], d.pending \subseteq conns[i].pending,
           UNCHANGED <<sendQueue, submitted, callbacks, dangling>>
    PROVE  RequestInv'
<1>1. Len(conns') = Len(conns)
      /\ \A k \in 1..Len(conns) : conns'[k] = IF k = i THEN d ELSE conns[k]
  BY DEF TypeOK
<1> QED
  BY <1>1, SamePlaces

(* Send on a ready front: the request becomes pending there.               *)
LEMMA SentKeepsRequests ==
    ASSUME RequestInv, TypeOK, NEW r \in Request, FrontReady, SendImmediate(r),
           ~PendingSomewhere(r), r \in submitted', submitted \subseteq submitted',
           ~Queued(r)', \A q : Queued(q)' => Queued(q),
           \A i, j \in 1..Len(sendQueue') : sendQueue'[i] = sendQueue'[j] => i = j,
           ~dangling' => ~dangling /\ callbacks[r] = 0 /\ callbacks' = callbacks
    PROVE  RequestInv'
<1>0. OnePlace /\ WaitsOnceSubmitted
  BY DEF RequestInv
<1>1. 1 \in 1..Len(conns) /\ conns \in Seq(Connection) /\ Len(conns) \in Nat
  BY DEF TypeOK, FrontReady
<1>2. /\ Len(conns') = Len(conns)
      /\ conns'[1].pending = conns[1].pending \cup {r}
      /\ \A k \in 2..Len(conns) : conns'[k].pending = conns[k].pending
  BY <1>1 DEF SendImmediate, Connection
<1>3. \A q : PendingSomewhere(q)' => PendingSomewhere(q) \/ q = r
  BY <1>1, <1>2 DEF PendingSomewhere
<1>5. \A k, l \in 1..Len(conns') :
        conns'[k].pending \cap conns'[l].pending # {} => k = l
  <2> TAKE k, l \in 1..Len(conns')
  <2> HAVE conns'[k].pending \cap conns'[l].pending # {}
  <2>1. PICK q : q \in conns'[k].pending /\ q \in conns'[l].pending
    OBVIOUS
  <2>2. CASE q = r
    <3>1. \A n \in 1..Len(conns') : r \in conns'[n].pending => n = 1
      BY <1>1, <1>2 DEF PendingSomewhere
    <3> QED
      BY <2>1, <2>2, <3>1
  <2>3. CASE q # r
    <3>1. q \in conns[k].pending /\ q \in conns[l].pending
      BY <1>1, <1>2, <2>1, <2>3
    <3> QED
      BY <1>0, <1>2, <3>1 DEF OnePlace
  <2> QED
    BY <2>2, <2>3
<1>6. \A q : ~(Queued(q)' /\ PendingSomewhere(q)')
  BY <1>0, <1>3 DEF OnePlace
<1>7. OnePlace'
  BY <1>5, <1>6 DEF OnePlace
<1>8. WaitsOnceSubmitted'
  BY <1>0, <1>3 DEF WaitsOnceSubmitted
<1>9. ~dangling' => Accounted'
  BY <1>3 DEF RequestInv, Accounted
<1> QED
  BY <1>7, <1>8, <1>9 DEF RequestInv

(* Send without a ready front: the request joins the queue.                *)
LEMMA QueuedKeepsRequests ==
    ASSUME RequestInv, TypeOK, NEW r \in Request, r \notin submitted,
           submitted' = submitted \cup {r}, sendQueue' = Append(sendQueue, r),
           UNCHANGED <<callbacks, dangling>>,
           \/ UNCHANGED conns
           \/ conns = <<>> /\ NewConnection(FALSE)
    PROVE  RequestInv'
<1>0. OnePlace /\ WaitsOnceSubmitted
  BY DEF RequestInv
<1>1. sendQueue \in Seq(Request) /\ Len(sendQueue) \in Nat
  BY DEF TypeOK
<1>2. /\ \A q : PendingSomewhere(q)' => PendingSomewhere(q)
      /\ \A k, l \in 1..Len(conns') :
           conns'[k].pending \cap conns'[l].pending # {} => k = l
  <2>1. CASE UNCHANGED conns
    BY <1>0, <2>1 DEF PendingSomewhere, OnePlace
  <2>2. CASE conns = <<>> /\ NewConnection(FALSE)
    <3>1. Len(conns') = Len(conns) + 1 /\ conns'[1] = FreshConnection
      BY <2>2, NewConnectionIsFront DEF TypeOK
    <3>2. Len(conns') = 1 /\ conns'[1].pending = {}
      BY <2>2, <3>1, EmptySeq DEF FreshConnection
    <3> QED
      BY <3>2 DEF PendingSomewhere
  <2> QED
    BY <2>1, <2>2
<1>3. /\ Len(sendQueue') = Len(sendQueue) + 1
      /\ \A i \in 1..Len(sendQueue) : sendQueue'[i] = sendQueue[i]
      /\ sendQueue'[Len(sendQueue) + 1] = r
  BY <1>1, AppendProperties
<1>4. ~Queued(r) /\ ~PendingSomewhere(r)
  BY <1>0 DEF WaitsOnceSubmitted
<1>5. \A i, j \in 1..Len(sendQueue') : sendQueue'[i] = sendQueue'[j] => i = j
  BY <1>0, <1>1, <1>3, <1>4 DEF OnePlace, Queued
<1>6. \A q : Queued(q)' => Queued(q) \/ q = r
  BY <1>1, <1>3 DEF Queued
<1>7. \A q : ~(Queued(q)' /\ PendingSomewhere(q)')
  BY <1>0, <1>2, <1>4, <1>6 DEF OnePlace
<1>8. OnePlace'
  BY <1>2, <1>5, <1>7 DEF OnePlace
<1>9. WaitsOnceSubmitted'
  BY <1>0, <1>2, <1>6 DEF WaitsOnceSubmitted
<1>10. ASSUME ~dangling' PROVE Accounted'
  <2>0. Accounted
    BY <1>10 DEF RequestInv
  <2>1. callbacks[r] = 0
    BY <2>0 DEF Accounted
  <2> QED
    BY <1>2, <1>6, <2>0, <2>1 DEF Accounted
<1> QED
  BY <1>8, <1>9, <1>10 DEF RequestInv

(* Requests of S are called back once they wait nowhere any more.          *)
LEMMA CompletedKeepsRequests ==
    ASSUME RequestInv, TypeOK, NEW S \in SUBSET Request, Complete(S),
           \A r \in S : Queued(r) \/ PendingSomewhere(r),
           \A r \in S : ~Queued(r)' /\ ~PendingSomewhere(r)',
           \A r : Queued(r)' => Queued(r),
           \A r : PendingSomewhere(r)' => PendingSomewhere(r),
           \A i, j \in 1..Len(sendQueue') : sendQueue'[i] = sendQueue'[j] => i = j,
           \A k, l \in 1..Len(conns') :
              conns'[k].pending \cap conns'[l].pending # {} => k = l,
           UNCHANGED <<submitted, dangling>>
    PROVE  RequestInv'
<1>0. OnePlace /\ WaitsOnceSubmitted
  BY DEF RequestInv
<1>1. \A q : ~(Queued(q)' /\ PendingSomewhere(q)')
  BY <1>0 DEF OnePlace
<1>2. OnePlace'
  BY <1>1 DEF OnePlace
<1>3. ASSUME ~dangling' PROVE Accounted'
  <2>0. Accounted
    BY <1>3 DEF RequestInv
  <2>1. \A r \in Request : callbacks'[r] = callbacks[r] + IF r \in S THEN 1 ELSE 0
    BY DEF Complete
  <2>2. \A r \in S : callbacks[r] = 0 /\ callbacks'[r] = 1 /\ r \in submitted
    BY <1>0, <2>0, <2>1 DEF Accounted, WaitsOnceSubmitted
  <2>3. \A r \in Request \ S : callbacks'[r] = callbacks[r]
    BY <2>1 DEF TypeOK
  <2> QED
    BY <2>0, <2>2, <2>3 DEF Accounted
<1>4. WaitsOnceSubmitted'
  BY <1>0 DEF WaitsOnceSubmitted
<1> QED
  BY <1>2, <1>3, <1>4 DEF RequestInv

(* The application keeps the requests accounted for.                       *)
LEMMA RequestsApplication ==
    ASSUME Inv, RequestInv, Application PROVE RequestInv'
<1>0. TypeOK /\ Len(conns) \in Nat
  BY DEF Inv, TypeOK
<1>1. ASSUME NEW r \in Request, Send(r) PROVE RequestInv'
  <2>1. /\ r \notin submitted /\ submitted' = submitted \cup {r}
        /\ UNCHANGED <<callbacks, dangling>>
    BY <1>1 DEF Send
  <2>3. CASE FrontReady
    <3>1. SendImmediate(r) /\ sendQueue' = sendQueue
      BY <1>1, <2>3 DEF Send
    <3>2. /\ ~Queued(r) /\ ~PendingSomewhere(r) /\ OnePlace
          /\ ~dangling => callbacks[r] = 0
      BY <2>1 DEF RequestInv, Accounted, WaitsOnceSubmitted
    <3>3. /\ \A q : Queued(q)' <=> Queued(q)
          /\ \A i, j \in 1..Len(sendQueue') : sendQueue'[i] = sendQueue'[j] => i = j
      BY <3>1, <3>2 DEF Queued, OnePlace
    <3> QED
      BY <1>0, <2>1, <2>3, <3>1, <3>2, <3>3, SentKeepsRequests
  <2>4. CASE ~FrontReady
    <3>1. sendQueue' = Append(sendQueue, r)
      BY <1>1, <2>4, Zenon DEF Send
    <3>2. UNCHANGED conns \/ (conns = <<>> /\ NewConnection(FALSE))
      BY <1>1, <2>4 DEF Send, NewConnection, links
    <3> QED
      BY <1>0, <2>1, <3>1, <3>2, QueuedKeepsRequests
  <2> QED
    BY <2>3, <2>4
<1>2. ASSUME Disconnect \/ Reconnect \/ Reset PROVE RequestInv'
  <2>1. UNCHANGED <<sendQueue, submitted, callbacks, dangling>>
    BY <1>2 DEF Disconnect, Reconnect, Reset, requests
  <2>2. conns' = StopAll \/ NewConnection(FALSE) \/ UNCHANGED conns
    BY <1>2 DEF Disconnect, Reconnect, Reset, links
  <2>3. UNCHANGED conns => RequestInv'
    BY <1>0, <2>1, SamePlaces
  <2> QED
    BY <1>0, <2>1, <2>2, <2>3, StopKeepsRequests, NewFrontKeepsRequests
<1>3. ASSUME ShutDown PROVE RequestInv'
  <2>1. /\ conns' = [i \in 1..Len(conns) |->
                       [conns[i] EXCEPT !.stopped = TRUE, !.ws = "none"]]
        /\ UNCHANGED <<sendQueue, submitted, callbacks, dangling>>
    BY <1>3 DEF ShutDown, requests
  <2>2. Len(conns') = Len(conns)
    <3>1. conns' \in Seq(Connection)
      BY <1>3, InvApplication DEF Application, Inv, TypeOK
    <3>2. DOMAIN conns' = 1..Len(conns') /\ Len(conns') \in Nat
      BY <3>1, LenProperties
    <3>3. DOMAIN conns' = 1..Len(conns)
      BY <2>1
    <3> QED
      BY <1>0, <3>2, <3>3
  <2>3. ASSUME NEW k \in 1..Len(conns) PROVE conns'[k].pending = conns[k].pending
    <3>1. conns[k] \in Connection
      BY <1>0 DEF TypeOK
    <3> QED
      BY <2>1, <3>1 DEF Connection
  <2> QED
    BY <1>0, <2>1, <2>2, <2>3, SamePlaces
<1> QED
  BY <1>1, <1>2, <1>3 DEF Application

(* A response completes a pending request, once.                           *)
LEMMA RequestsResponse ==
    ASSUME Inv, RequestInv, NEW r \in Request, DispatchResponse(r)
    PROVE  RequestInv'
<1>0. TypeOK /\ Len(conns) \in Nat
  BY DEF Inv, TypeOK
<1>1. /\ cursor \in 1..Len(conns) /\ Current \in Connection
      /\ UNCHANGED <<sendQueue, submitted, dangling>>
      /\ Complete({r} \cap Current.pending)
  BY <1>0 DEF Dispatching, DispatchResponse, At, Current, TypeOK
<1>2. /\ Len(conns') = Len(conns)
      /\ conns'[cursor].pending = conns[cursor].pending \ {r}
      /\ \A k \in 1..Len(conns) : k # cursor => conns'[k].pending = conns[k].pending
  BY <1>0, <1>1 DEF DispatchResponse, Connection, TypeOK, Current
<1>3. \A k \in 1..Len(conns) : conns'[k].pending \subseteq conns[k].pending
  BY <1>1, <1>2
<1>4. OnePlace
  BY DEF RequestInv
<1>5. \A q \in {r} \cap Current.pending : PendingSomewhere(q)
  BY <1>1 DEF PendingSomewhere, Current
<1>6. \A q : Queued(q)' => Queued(q)
  BY <1>1 DEF Queued
<1>7. \A q : PendingSomewhere(q)' => PendingSomewhere(q)
  BY <1>2, <1>3 DEF PendingSomewhere
<1>8. ASSUME NEW q \in {r} \cap Current.pending
      PROVE  ~Queued(q)' /\ ~PendingSomewhere(q)'
  <2>1. ~Queued(q)'
    BY <1>4, <1>5, <1>6 DEF OnePlace
  <2>2. \A k \in 1..Len(conns) : q \in conns[k].pending => k = cursor
    BY <1>1, <1>4 DEF OnePlace, Current
  <2>3. ~PendingSomewhere(q)'
    BY <1>1, <1>2, <2>2 DEF PendingSomewhere
  <2> QED
    BY <2>1, <2>3
<1>9. \A k, l \in 1..Len(conns') :
        conns'[k].pending \cap conns'[l].pending # {} => k = l
  <2> TAKE k, l \in 1..Len(conns')
  <2> HAVE conns'[k].pending \cap conns'[l].pending # {}
  <2>1. conns[k].pending \cap conns[l].pending # {}
    BY <1>2, <1>3
  <2> QED
    BY <1>2, <1>4, <2>1 DEF OnePlace
<1>10. \A i, j \in 1..Len(sendQueue') : sendQueue'[i] = sendQueue'[j] => i = j
  BY <1>1, <1>4 DEF OnePlace
<1>11. {r} \cap Current.pending \in SUBSET Request
  OBVIOUS
<1> QED
  BY <1>0, <1>1, <1>5, <1>6, <1>7, <1>8, <1>9, <1>10, <1>11,
     CompletedKeepsRequests

(* The connections are as they were, one more, or one of them has changed  *)
(* and kept its pending requests.                                          *)
ConnectionsKept ==
    \/ UNCHANGED conns
    \/ NewConnection(FALSE)
    \/ \E i \in 1..Len(conns), d \in Connection :
         conns' = [conns EXCEPT ![i] = d] /\ d.pending = conns[i].pending

(* Polling and dispatching, but for a response, keep the pending requests. *)
LEMMA UpdateConnectionsCases ==
    ASSUME TypeOK, UpdateConnections
    PROVE  \/ \E r \in Request : DispatchResponse(r)
           \/ UNCHANGED requests /\ ConnectionsKept
<1>a. \A ph : At(ph) => cursor \in 1..Len(conns) /\ Current \in Connection
  BY DEF At, TypeOK, Current
<1>1. ASSUME UNCHANGED <<links, requests>> PROVE UNCHANGED requests /\ ConnectionsKept
  BY <1>1 DEF links, ConnectionsKept
<1>2. ASSUME cursor \in 1..Len(conns), NEW d \in Connection,
             conns' = [conns EXCEPT ![cursor] = d], d.pending = Current.pending,
             UNCHANGED requests
      PROVE  UNCHANGED requests /\ ConnectionsKept
  BY <1>a, <1>2 DEF ConnectionsKept, Current
<1>3. CASE EndConnections \/ PollSkip \/ PollQuiet \/ DispatchNothing
  BY <1>1, <1>3 DEF EndConnections, PollSkip, PollQuiet, DispatchNothing
<1>4. CASE PollConnecting
  <2>1. PICK st \in {"connecting", "open"} : conns' = [conns EXCEPT ![cursor].ws = st]
    BY <1>4 DEF PollConnecting
  <2> DEFINE d == [Current EXCEPT !.ws = st]
  <2>2. UNCHANGED requests /\ cursor \in 1..Len(conns) /\ Current \in Connection
    BY <1>4, <1>a DEF PollConnecting
  <2>3. /\ d.pending = Current.pending /\ d \in Connection
        /\ conns' = [conns EXCEPT ![cursor] = d]
    BY <2>1, <2>2 DEF Connection, Current, WSState
  <2> HIDE DEF d
  <2> QED
    BY <1>2, <2>2, <2>3
<1>5. ASSUME NEW orderly, NEW st \in WSState, NEW ph, At(ph), OnWebSocketError(orderly, st),
             UNCHANGED requests
      PROVE  UNCHANGED requests /\ ConnectionsKept
  <2> DEFINE d == [Current EXCEPT !.stopped = TRUE, !.ws = st]
  <2>1. cursor \in 1..Len(conns) /\ Current \in Connection
    BY <1>5, <1>a
  <2>2. d.pending = Current.pending /\ d \in Connection
    BY <1>5, <2>1 DEF Connection
  <2>3. conns' = [conns EXCEPT ![cursor] = d]
    BY <1>5, <2>1 DEF OnWebSocketError, Current
  <2> HIDE DEF d
  <2> QED
    BY <1>2, <1>5, <2>1, <2>2, <2>3
<1>6. ASSUME NEW orderly \in BOOLEAN, PollClosed(orderly)
      PROVE  UNCHANGED requests /\ ConnectionsKept
  BY <1>5, <1>6 DEF PollClosed, WSState
<1>7. CASE DispatchUnexpected
  BY <1>5, <1>7 DEF DispatchUnexpected, WSState
<1>8. CASE DispatchNonce
  <2> DEFINE d == [Current EXCEPT !.greeted = (Current.ws = "open")]
  <2>1. UNCHANGED requests /\ cursor \in 1..Len(conns) /\ Current \in Connection
    BY <1>8, <1>a DEF Dispatching, DispatchNonce
  <2>2. /\ d.pending = Current.pending /\ d \in Connection
        /\ conns' = [conns EXCEPT ![cursor] = d]
    BY <1>8, <2>1 DEF DispatchNonce, Connection, Current, WSState
  <2> HIDE DEF d
  <2> QED
    BY <1>2, <2>1, <2>2
<1>9. CASE DispatchSession
  <2> DEFINE d == [Current EXCEPT !.handshaken = TRUE]
  <2>1. UNCHANGED requests /\ cursor \in 1..Len(conns) /\ Current \in Connection
    BY <1>9, <1>a DEF Dispatching, DispatchSession
  <2>2. /\ d.pending = Current.pending /\ d \in Connection
        /\ conns' = [conns EXCEPT ![cursor] = d]
    BY <1>9, <2>1 DEF DispatchSession, Connection, Current, WSState
  <2> HIDE DEF d
  <2> QED
    BY <1>2, <2>1, <2>2
<1>10. CASE DispatchClose
  <2> DEFINE d == [Current EXCEPT !.ws = "closing"]
  <2>1. UNCHANGED requests /\ cursor \in 1..Len(conns) /\ Current \in Connection
    BY <1>10, <1>a DEF DispatchClose
  <2>2. /\ d.pending = Current.pending /\ d \in Connection
        /\ conns' = [conns EXCEPT ![cursor] = d]
    BY <1>10, <2>1 DEF DispatchClose, Connection, Current, WSState
  <2> HIDE DEF d
  <2> QED
    BY <1>2, <2>1, <2>2
<1>11. CASE DispatchRedirect
  <2>1. NewConnection(FALSE) \/ UNCHANGED links
    BY <1>11 DEF DispatchRedirect, NewConnection
  <2>2. UNCHANGED requests
    BY <1>11 DEF DispatchRedirect
  <2> QED
    BY <2>1, <2>2 DEF ConnectionsKept, links
<1> QED
  BY <1>3, <1>4, <1>6, <1>7, <1>8, <1>9, <1>10, <1>11 DEF UpdateConnections

(* Polling and dispatching keep the requests accounted for.                *)
LEMMA RequestsUpdateConnections ==
    ASSUME Inv, RequestInv, UpdateConnections PROVE RequestInv'
<1>0. TypeOK /\ Len(conns) \in Nat
  BY DEF Inv, TypeOK
<1>1. CASE UNCHANGED requests /\ ConnectionsKept
  <2>1. UNCHANGED <<sendQueue, submitted, callbacks, dangling>>
    BY <1>1 DEF requests
  <2>2. CASE UNCHANGED conns
    BY <1>0, <2>1, <2>2, SamePlaces
  <2>3. CASE NewConnection(FALSE)
    BY <1>0, <2>1, <2>3, NewFrontKeepsRequests
  <2>4. CASE \E i \in 1..Len(conns), d \in Connection :
               conns' = [conns EXCEPT ![i] = d] /\ d.pending = conns[i].pending
    BY <1>0, <2>1, <2>4, ConnectionKeepsRequests
  <2> QED
    BY <1>1, <2>2, <2>3, <2>4 DEF ConnectionsKept
<1> QED
  BY <1>0, <1>1, RequestsResponse, UpdateConnectionsCases

(* Deleting a connection drops its pending requests, and no other.         *)
LEMMA RequestsTrim ==
    ASSUME Inv, RequestInv, TrimOldConnections PROVE RequestInv'
<1>0. TypeOK /\ Len(conns) \in Nat
  BY DEF Inv, TypeOK
<1>1. CASE TrimKeep \/ EndTrim
  <2>1. UNCHANGED <<links, requests>>
    BY <1>1 DEF TrimKeep, EndTrim
  <2> QED
    BY <1>0, <2>1, SamePlaces DEF links, requests
<1>2. CASE TrimDelete
  <2>1. /\ cursor \in 1..Len(conns) /\ conns' = RemoveAt(conns, cursor)
        /\ UNCHANGED <<sendQueue, submitted, callbacks, dangling>>
    BY <1>0, <1>2 DEF TrimDelete, At, TypeOK, requests
  <2>2. /\ Len(conns') = Len(conns) - 1
        /\ \A j \in 1..Len(conns) - 1 :
             conns'[j] = IF j < cursor THEN conns[j] ELSE conns[j + 1]
    BY <1>0, <2>1, Removed DEF TypeOK
  <2> DEFINE m == [j \in 1..Len(conns') |-> IF j < cursor THEN j ELSE j + 1]
  <2>3. /\ m \in [1..Len(conns') -> Int]
        /\ \A j \in 1..Len(conns') : m[j] = IF j < cursor THEN j ELSE j + 1
    OBVIOUS
  <2> HIDE DEF m
  <2>4. \A k, l \in 1..Len(conns') : m[k] = m[l] => k = l
    BY <2>1, <2>3
  <2>5. \A k \in 1..Len(conns') : m[k] \in 1..Len(conns) /\ conns'[k] = conns[m[k]]
    BY <1>0, <2>1, <2>2, <2>3
  <2> QED
    BY <1>0, <2>1, <2>3, <2>4, <2>5, TablesShrink
<1> QED
  BY <1>1, <1>2 DEF TrimOldConnections

(* Facts about the head of a queue without repetitions.                    *)
LEMMA HeadLeaves ==
    ASSUME sendQueue \in Seq(Request), sendQueue # <<>>,
           \A i, j \in 1..Len(sendQueue) : sendQueue[i] = sendQueue[j] => i = j,
           NEW q, q = Tail(sendQueue)
    PROVE  /\ q \in Seq(Request)
           /\ Head(sendQueue) \in Request /\ Queued(Head(sendQueue))
           /\ \A r : (\E i \in 1..Len(q) : q[i] = r) => Queued(r) /\ r # Head(sendQueue)
           /\ \A i, j \in 1..Len(q) : q[i] = q[j] => i = j
<1>1. /\ q \in Seq(Request) /\ Len(sendQueue) \in Nat
      /\ Len(q) = Len(sendQueue) - 1
      /\ \A i \in 1..Len(q) : q[i] = sendQueue[i + 1]
  BY HeadTailProperties, LenProperties
<1>2. Head(sendQueue) = sendQueue[1] /\ 1 \in 1..Len(sendQueue)
      /\ Head(sendQueue) \in Request
  OBVIOUS
<1>3. \A i \in 1..Len(q) : i + 1 \in 1..Len(sendQueue) /\ i + 1 # 1
  BY <1>1
<1> QED
  BY <1>1, <1>2, <1>3 DEF Queued

(* ProcessSendQueue sends or completes the head.                           *)
LEMMA RequestsSendQueue ==
    ASSUME Inv, RequestInv, ProcessSendQueue PROVE RequestInv'
<1>0. TypeOK /\ Len(conns) \in Nat /\ sendQueue \in Seq(Request)
  BY DEF Inv, TypeOK
<1>1. CASE SendQueueEmpty \/ SendQueueWaits
  <2>1. UNCHANGED <<conns, sendQueue, submitted, callbacks, dangling>>
    BY <1>1 DEF SendQueueEmpty, SendQueueWaits, links, requests
  <2> QED
    BY <1>0, <2>1, SamePlaces
<1>2. CASE sendQueue # <<>>
  <2>a. PICK r \in Request : r = Head(sendQueue)
    BY <1>0, <1>2
  <2> DEFINE S == {r}
             q == Tail(sendQueue)
  <2>0. OnePlace /\ WaitsOnceSubmitted
    BY DEF RequestInv
  <2>1. /\ q \in Seq(Request) /\ r \in Request /\ Queued(r)
        /\ \A p : (\E i \in 1..Len(q) : q[i] = p) => Queued(p) /\ p # r
        /\ \A i, j \in 1..Len(q) : q[i] = q[j] => i = j
    BY <1>0, <1>2, <2>a, <2>0, HeadLeaves DEF OnePlace
  <2>2. /\ ~PendingSomewhere(r) /\ r \in submitted
        /\ ~dangling => callbacks[r] = 0
    BY <2>0, <2>1 DEF OnePlace, WaitsOnceSubmitted, RequestInv, Accounted
  <2> HIDE DEF S, q
  <2>3. CASE SendQueueSends
    <3>1. /\ sendQueue' = q /\ SendImmediate(r)
          /\ UNCHANGED <<submitted, callbacks, dangling>>
      BY <2>a, <2>3 DEF SendQueueSends, q
    <3>2. FrontReady
      BY <2>3, Zenon DEF SendQueueSends, AtSendQueue
    <3>3. /\ ~Queued(r)' /\ \A p : Queued(p)' => Queued(p)
          /\ \A i, j \in 1..Len(sendQueue') : sendQueue'[i] = sendQueue'[j] => i = j
      BY <2>1, <3>1 DEF Queued
    <3> QED
      BY <1>0, <2>1, <2>2, <3>1, <3>2, <3>3, SentKeepsRequests
  <2>4. ASSUME sendQueue' = q, Complete(S), UNCHANGED <<conns, submitted, dangling>>
        PROVE  RequestInv'
    <3>1. /\ \A p : Queued(p)' => Queued(p) /\ p # r
          /\ \A i, j \in 1..Len(sendQueue') : sendQueue'[i] = sendQueue'[j] => i = j
      BY <2>1, <2>4 DEF Queued
    <3>2. /\ \A p : PendingSomewhere(p)' <=> PendingSomewhere(p)
          /\ \A k, l \in 1..Len(conns') :
               conns'[k].pending \cap conns'[l].pending # {} => k = l
      BY <2>0, <2>4 DEF PendingSomewhere, OnePlace
    <3>3. /\ \A p \in S : Queued(p) /\ ~Queued(p)' /\ ~PendingSomewhere(p)'
          /\ S \in SUBSET Request
      BY <2>1, <2>2, <3>1, <3>2 DEF S
    <3> QED
      BY <1>0, <2>4, <3>1, <3>2, <3>3, CompletedKeepsRequests
  <2>5. CASE SendQueueExpires
    BY <2>a, <2>4, <2>5 DEF SendQueueExpires, links, S, q
  <2>6. CASE SendQueueDangles
    <3>1. dangling' /\ submitted' = submitted
      BY <2>6 DEF SendQueueDangles
    <3>2. CASE sendQueue' = q /\ UNCHANGED conns
      <4>1. /\ \A p : Queued(p)' => Queued(p)
            /\ \A i, j \in 1..Len(sendQueue') : sendQueue'[i] = sendQueue'[j] => i = j
        BY <2>1, <3>2 DEF Queued
      <4>2. \A p : PendingSomewhere(p)' <=> PendingSomewhere(p)
        BY <3>2 DEF PendingSomewhere
      <4>3. OnePlace'
        BY <2>0, <3>2, <4>1, <4>2 DEF OnePlace
      <4>4. WaitsOnceSubmitted'
        BY <2>0, <3>1, <4>1, <4>2 DEF WaitsOnceSubmitted
      <4> QED
        BY <3>1, <4>3, <4>4 DEF RequestInv
    <3>3. CASE Len(sendQueue) > 1 /\ SendImmediate(r) /\ sendQueue' = Tail(q)
      <4>1. /\ Len(q) = Len(sendQueue) - 1 /\ Len(q) \in Nat
            /\ Len(sendQueue') = Len(q) - 1
            /\ \A i \in 1..Len(sendQueue') :
                 i + 1 \in 1..Len(q) /\ sendQueue'[i] = q[i + 1]
        <5>0. Len(sendQueue) > 1 /\ Len(sendQueue) \in Nat
          BY <1>0, <3>3
        <5>1. Len(q) = Len(sendQueue) - 1 /\ Len(q) \in Nat /\ q # <<>>
          <6>1. Len(Tail(sendQueue)) = Len(sendQueue) - 1
            BY ONLY <1>0, <1>2, HeadTailProperties
          <6>2. Len(q) = Len(sendQueue) - 1 /\ Len(q) \in Nat
            BY <5>0, <6>1 DEF q
          <6>3. Len(q) # 0
            BY <5>0, <6>2
          <6> QED
            BY <6>2, <6>3, EmptySeq
        <5>2. q \in Seq(Request)
          BY <2>1
        <5>3. /\ Len(Tail(q)) = Len(q) - 1
              /\ \A i \in 1..Len(Tail(q)) : Tail(q)[i] = q[i + 1]
          BY <5>1, <5>2, HeadTailProperties
        <5> QED
          BY <3>3, <5>1, <5>3
      <4>2. /\ ~Queued(r)' /\ \A p : Queued(p)' => Queued(p)
            /\ \A i, j \in 1..Len(sendQueue') : sendQueue'[i] = sendQueue'[j] => i = j
        <5>1. \A p : Queued(p)' => \E i \in 1..Len(q) : q[i] = p
          BY <4>1 DEF Queued
        <5>2. \A i, j \in 1..Len(sendQueue') : sendQueue'[i] = sendQueue'[j] => i = j
          <6> TAKE i, j \in 1..Len(sendQueue')
          <6> HAVE sendQueue'[i] = sendQueue'[j]
          <6>1. i + 1 = j + 1
            BY <2>1, <4>1
          <6> QED
            BY <6>1
        <5> QED
          BY <2>1, <5>1, <5>2
      <4>3. FrontReady
        BY <2>6, Zenon DEF SendQueueDangles, AtSendQueue
      <4> QED
        BY <1>0, <2>1, <2>2, <3>1, <3>3, <4>2, <4>3, SentKeepsRequests
    <3> QED
      BY <2>a, <2>6, <3>2, <3>3 DEF SendQueueDangles, q
  <2> QED
    BY <1>1, <2>3, <2>5, <2>6 DEF ProcessSendQueue
<1>3. sendQueue # <<>> \/ SendQueueEmpty
  BY DEF ProcessSendQueue, SendQueueWaits, SendQueueSends, SendQueueExpires,
         SendQueueDangles, AtSendQueue
<1> QED
  BY <1>1, <1>2, <1>3

(* ProcessPendingQueue completes the overdue requests where they wait.     *)
LEMMA RequestsExpire ==
    ASSUME Inv, RequestInv, ExpirePending PROVE RequestInv'
<1>0. TypeOK /\ Len(conns) \in Nat
  BY DEF Inv, TypeOK
<1> DEFINE S == UNION {Overdue(conns[i]) : i \in 1..Len(conns)}
<1>1. /\ conns' = [k \in 1..Len(conns) |->
                     [conns[k] EXCEPT !.pending = @ \ Overdue(conns[k])]]
      /\ Complete(S) /\ UNCHANGED <<sendQueue, submitted, dangling>>
  BY DEF ExpirePending
<1>2. Len(conns') = Len(conns)
  <2>1. conns' \in Seq(Connection)
    BY InvProcessQueues DEF Inv, TypeOK
  <2>2. DOMAIN conns' = 1..Len(conns') /\ Len(conns') \in Nat
    BY <2>1, LenProperties
  <2>3. DOMAIN conns' = 1..Len(conns)
    BY <1>1
  <2> QED
    BY <1>0, <2>2, <2>3
<1>3. \A k \in 1..Len(conns) :
        conns'[k].pending = conns[k].pending \ Overdue(conns[k])
  <2> TAKE k \in 1..Len(conns)
  <2>1. conns[k] \in Connection
    BY <1>0 DEF TypeOK
  <2> QED
    BY <1>1, <2>1 DEF Connection
<1>4. \A k \in 1..Len(conns) : conns[k].pending \subseteq Request
  <2> TAKE k \in 1..Len(conns)
  <2>1. conns[k] \in Connection
    BY <1>0 DEF TypeOK
  <2> QED
    BY <2>1 DEF Connection
<1>5. \A r : r \in S <=> PendingSomewhere(r) /\ timer[r] - dt < 0
  BY DEF Overdue, PendingSomewhere
<1>6. \A r : PendingSomewhere(r)' => PendingSomewhere(r) /\ r \notin S
  <2>1. \A r : \A k \in 1..Len(conns) : r \in conns'[k].pending =>
          r \in conns[k].pending /\ ~(timer[r] - dt < 0)
    BY <1>3 DEF Overdue
  <2> QED
    BY <1>2, <1>5, <2>1 DEF PendingSomewhere
<1>7. S \in SUBSET Request
  BY <1>4 DEF Overdue
<1> HIDE DEF S
<1>8. OnePlace
  BY DEF RequestInv
<1>9. \A r : Queued(r)' <=> Queued(r)
  BY <1>1 DEF Queued
<1>10. \A r \in S : PendingSomewhere(r) /\ ~Queued(r)' /\ ~PendingSomewhere(r)'
  BY <1>5, <1>6, <1>8, <1>9 DEF OnePlace
<1>11. \A k, l \in 1..Len(conns') :
        conns'[k].pending \cap conns'[l].pending # {} => k = l
  <2> TAKE k, l \in 1..Len(conns')
  <2> HAVE conns'[k].pending \cap conns'[l].pending # {}
  <2>1. conns[k].pending \cap conns[l].pending # {}
    BY <1>2, <1>3
  <2> QED
    BY <1>2, <1>8, <2>1 DEF OnePlace
<1>12. \A i, j \in 1..Len(sendQueue') : sendQueue'[i] = sendQueue'[j] => i = j
  BY <1>1, <1>8 DEF OnePlace
<1> QED
  BY <1>0, <1>1, <1>6, <1>7, <1>9, <1>10, <1>11, <1>12,
     CompletedKeepsRequests

(* Every step keeps the requests accounted for.                            *)
LEMMA RequestsStep == Inv /\ RequestInv /\ [Next]_vars => RequestInv'
<1> SUFFICES ASSUME Inv, RequestInv, [Next]_vars PROVE RequestInv'
  OBVIOUS
<1>0. TypeOK
  BY DEF Inv
<1>1. CASE UpdateBegin \/ UNCHANGED vars
  <2>1. UNCHANGED <<conns, sendQueue, submitted, callbacks, dangling>>
    BY <1>1 DEF UpdateBegin, vars, links, requests
  <2> QED
    BY <1>0, <2>1, SamePlaces
<1>2. CASE ConnectIfRequired
  <2>1. UNCHANGED requests /\ (NewConnection(FALSE) \/ UNCHANGED conns)
    BY <1>2 DEF ConnectIfRequired, NewConnection, links
  <2> QED
    BY <1>0, <2>1, NewFrontKeepsRequests, SamePlaces DEF requests
<1> QED
  BY <1>1, <1>2, RequestsApplication, RequestsUpdateConnections, RequestsTrim,
     RequestsSendQueue, RequestsExpire DEF Next, Update

(* The client begins without a request.                                    *)
LEMMA RequestsInit == Init => RequestInv
<1> SUFFICES ASSUME Init PROVE RequestInv
  OBVIOUS
<1>1. Len(sendQueue) = 0 /\ Len(conns) = 1 /\ conns[1].pending = {}
  BY DEF Init, FreshConnection
<1>2. \A r : ~Queued(r) /\ ~PendingSomewhere(r)
  BY <1>1 DEF Queued, PendingSomewhere
<1>3. \A r \in Request : callbacks[r] = 0
  BY DEF Init
<1> QED
  BY <1>1, <1>2, <1>3 DEF RequestInv, OnePlace, Accounted, WaitsOnceSubmitted

(* No request is called back twice, nor waits after its callback: however  *)
(* late a response comes, on whichever connection, as long as              *)
(* ProcessSendQueue has not used a request it had popped.                  *)
THEOREM CalledBackOnce == Spec => []AtMostOneCallback
<1>1. Inv /\ RequestInv => AtMostOneCallback
  <2> SUFFICES ASSUME Inv, RequestInv, ~dangling, NEW r \in Request
               PROVE  callbacks[r] + (IF Held(r) THEN 1 ELSE 0) <= 1
    BY DEF AtMostOneCallback
  <2>1. Held(r) <=> Queued(r) \/ PendingSomewhere(r)
    BY QueuedIsIn DEF Held, Inv, TypeOK
  <2>2. callbacks[r] \in {0, 1} /\ (Held(r) => callbacks[r] = 0)
    BY <2>1 DEF RequestInv, Accounted
  <2> QED
    BY <2>2
<1> QED
  BY <1>1, RequestsInit, RequestsStep, InvAlways, PTL DEF Spec

-----------------------------------------------------------------------------
(* How many connections there are                                          *)

(* The connections that a trim spares, if it spares them for what they are *)
(* and not for the deadline.                                               *)
Spared(c) == c.pending # {} \/ ~c.stopped

(* A bound for each part of Update.  Until the next trim, which leaves at  *)
(* most one connection per request and the front, a connection is added    *)
(* three times at most: the application asks for one, a frame redirects    *)
(* the client, or the deadline passes.  The deadline of a new connection   *)
(* keeps the first and the last of these from happening again.             *)
Crowd ==
    LET n == Len(conns)
        m == Cardinality(Request) IN
    /\ pc = "idle" => n <= m + 1 \/ (n <= m + 2 /\ deadline > 0)
    /\ pc \in {"poll", "dispatch"} => n <= m + 2
    /\ pc \in {"redirected", "connect"} =>
         n <= m + 2 \/ (n <= m + 3 /\ deadline > 0)
    /\ pc = "trim" =>
         /\ n <= m + 3
         /\ \A i \in 1..n : i < cursor => Spared(conns[i])
    /\ pc \in {"send", "expire", "crashed"} => n <= m + 1

(* No more connections are spared than there are requests, and the front:  *)
(* each of the others has a request that no other has.                     *)
LEMMA SparedAreFew ==
    ASSUME IsFiniteSet(Request), TypeOK, OneLiveConnection, OnePlace,
           \A i \in 1..Len(conns) : Spared(conns[i])
    PROVE  Len(conns) <= Cardinality(Request) + 1
<1> DEFINE f == [i \in 2..Len(conns) |-> CHOOSE r \in Request : r \in conns[i].pending]
<1>0. Len(conns) \in Nat /\ Cardinality(Request) \in Nat
  BY FS_CardinalityType DEF TypeOK
<1>1. ASSUME NEW i \in 2..Len(conns)
      PROVE  f[i] \in Request /\ f[i] \in conns[i].pending
  <2>1. i \in 1..Len(conns) /\ conns[i].stopped
    BY <1>0 DEF OneLiveConnection
  <2>2. conns[i] \in Connection /\ conns[i].pending # {}
    BY SMTT(20), <2>1 DEF TypeOK, Spared
  <2>3. \E r \in Request : r \in conns[i].pending
    BY <2>2 DEF Connection
  <2> QED
    BY <2>3
<1>2. ASSUME NEW i \in 2..Len(conns), NEW j \in 2..Len(conns), f[i] = f[j]
      PROVE  i = j
  <2>1. f[i] \in conns[i].pending \cap conns[j].pending
    BY <1>1, <1>2
  <2>2. i \in 1..Len(conns) /\ j \in 1..Len(conns)
    BY <1>0
  <2> HIDE DEF f
  <2> QED
    BY <2>1, <2>2 DEF OnePlace
<1>3. f \in [2..Len(conns) -> Request]
  BY <1>1
<1> HIDE DEF f
<1>4. f \in Injection(2..Len(conns), Request)
  BY <1>2, <1>3 DEF Injection, IsInjective
<1>5. Cardinality(2..Len(conns)) <= Cardinality(Request)
  BY <1>4, FS_Injection
<1>6. Cardinality(2..Len(conns)) = IF 2 > Len(conns) THEN 0 ELSE Len(conns) - 2 + 1
  <2>1. 2 \in Int /\ Len(conns) \in Int
    BY <1>0
  <2> QED
    BY ONLY <2>1, FS_Interval
<1> QED
  BY <1>0, <1>5, <1>6

(* Connections that change in place are as many as before.                 *)
LEMMA AsManyConnections ==
    ASSUME TypeOK, TypeOK', DOMAIN conns' = DOMAIN conns
    PROVE  Len(conns') = Len(conns)
<1>1. /\ DOMAIN conns = 1..Len(conns) /\ Len(conns) \in Nat
      /\ DOMAIN conns' = 1..Len(conns') /\ Len(conns') \in Nat
  BY LenProperties DEF TypeOK
<1> QED
  BY <1>1

(* A new connection is one more, and has a deadline ahead of it.           *)
LEMMA OneMoreConnection ==
    ASSUME TypeOK, NewConnection(FALSE)
    PROVE  Len(conns') = Len(conns) + 1 /\ deadline' > 0
<1>1. deadline' \in Deadlines
  BY DEF NewConnection
<1>2. deadline' > 0
  BY <1>1, DeadlineAssumption DEF Deadlines
<1> QED
  BY <1>2, NewConnectionIsFront DEF TypeOK

(* The application's calls.                                                *)
LEMMA CrowdApplication ==
    ASSUME IsFiniteSet(Request), TypeOK, TypeOK', Crowd, Application
    PROVE  Crowd'
<1>0. Cardinality(Request) \in Nat /\ Len(conns) \in Nat /\ deadline \in Int
  BY FS_CardinalityType DEF TypeOK
<1>1. pc = "idle" /\ pc' = "idle"
  BY DEF Application, Send, Disconnect, Reconnect, Reset, ShutDown, Idle
<1>2. SUFFICES ASSUME TRUE
               PROVE  \/ Len(conns') <= Cardinality(Request) + 1
                      \/ Len(conns') <= Cardinality(Request) + 2 /\ deadline' > 0
  BY <1>1 DEF Crowd
<1>3. \/ Len(conns) <= Cardinality(Request) + 1
      \/ Len(conns) <= Cardinality(Request) + 2 /\ deadline > 0
  BY <1>1 DEF Crowd
<1>4. CASE DOMAIN conns' = DOMAIN conns /\ UNCHANGED deadline
  BY <1>3, <1>4, AsManyConnections
<1>5. CASE NewConnection(FALSE) /\ (deadline <= 0 \/ conns = <<>>)
  <2>1. Len(conns') = Len(conns) + 1 /\ deadline' > 0
    BY <1>5, OneMoreConnection
  <2>2. Len(conns) <= Cardinality(Request) + 1
    BY <1>0, <1>3, <1>5, EmptySeq
  <2> QED
    BY <1>0, <2>1, <2>2
<1>6. \A i \in 1..Len(conns) : i \in DOMAIN conns
  BY LenProperties DEF TypeOK
<1>7. DOMAIN StopAll = DOMAIN conns
  BY LenProperties DEF StopAll, TypeOK
<1>8. CASE \E r \in Request : Send(r)
  <2>1. PICK r \in Request : Send(r)
    BY <1>8
  <2>2. CASE FrontReady
    BY <1>4, <2>1, <2>2 DEF Send, SendImmediate
  <2>3. CASE ~FrontReady
    BY <1>4, <1>5, <2>1, <2>3 DEF Send, NewConnection, links
  <2> QED
    BY <2>2, <2>3
<1>9. CASE Disconnect \/ Reconnect \/ Reset
  BY <1>4, <1>5, <1>7, <1>9
     DEF Disconnect, Reconnect, Reset, ConnectionRequired, links
<1>10. CASE ShutDown
  <2>1. DOMAIN conns' = 1..Len(conns) /\ UNCHANGED deadline
    BY <1>10 DEF ShutDown
  <2> QED
    BY <1>4, <2>1, LenProperties DEF TypeOK
<1> QED
  BY <1>8, <1>9, <1>10 DEF Application

(* One redirect at most is followed while the connections are polled.      *)
LEMMA CrowdUpdateConnections ==
    ASSUME IsFiniteSet(Request), Inv, TypeOK', Crowd, UpdateConnections
    PROVE  Crowd'
<1>0. TypeOK /\ Cardinality(Request) \in Nat /\ Len(conns) \in Nat
  BY FS_CardinalityType DEF Inv, TypeOK
<1>1. pc \in {"poll", "dispatch", "redirected"}
  BY DEF UpdateConnections, EndConnections, PollSkip, PollConnecting, PollQuiet,
         PollClosed, Dispatching, DispatchNothing, DispatchNonce, DispatchSession,
         DispatchRedirect, DispatchResponse, DispatchClose, DispatchUnexpected, At,
         AtEnd
<1>2. CASE DispatchRedirect
  <2>1. /\ pc' = "redirected" /\ Len(conns) <= Cardinality(Request) + 2
        /\ NewConnection(FALSE) \/ UNCHANGED conns
    BY <1>2 DEF DispatchRedirect, At, NewConnection, links, Crowd
  <2>2. CASE NewConnection(FALSE)
    <3>1. Len(conns') <= Cardinality(Request) + 3 /\ deadline' > 0
      BY <1>0, <2>1, <2>2, OneMoreConnection
    <3> QED
      BY <2>1, <3>1 DEF Crowd
  <2>3. CASE UNCHANGED conns
    BY <2>1, <2>3 DEF Crowd
  <2> QED
    BY <2>1, <2>2, <2>3
<1>3. CASE ~DispatchRedirect
  <2>1. DOMAIN conns' = DOMAIN conns
    BY <1>3
       DEF UpdateConnections, EndConnections, PollSkip, PollConnecting, PollQuiet,
           PollClosed, Dispatching, DispatchNothing, DispatchNonce, DispatchSession,
           DispatchResponse, DispatchClose, DispatchUnexpected, OnWebSocketError, links
  <2>2. Len(conns') = Len(conns)
    BY <1>0, <2>1, AsManyConnections
  <2>3. CASE pc = "redirected"
    <3>1. Current.stopped
      BY <2>3 DEF Inv, Running, DispatchesRunning
    <3>2. pc' = "connect" /\ UNCHANGED deadline
      BY <1>3, <2>3, <3>1
         DEF UpdateConnections, EndConnections, PollSkip, PollConnecting, PollQuiet,
             PollClosed, Dispatching, DispatchNothing, DispatchNonce, DispatchSession,
             DispatchResponse, DispatchClose, DispatchUnexpected, NextConnection,
             Goto, At, AtEnd, links
    <3> QED
      BY <2>2, <2>3, <3>2 DEF Crowd
  <2>4. CASE pc # "redirected"
    <3>1. pc' \in {"poll", "dispatch", "connect"}
      BY <1>3
         DEF UpdateConnections, EndConnections, PollSkip, PollConnecting, PollQuiet,
             PollClosed, Dispatching, DispatchNothing, DispatchNonce, DispatchSession,
             DispatchResponse, DispatchClose, DispatchUnexpected, NextConnection, Goto
    <3>2. Len(conns') <= Cardinality(Request) + 2
      BY <1>1, <2>2, <2>4 DEF Crowd
    <3> QED
      BY <3>1, <3>2 DEF Crowd
  <2> QED
    BY <2>3, <2>4
<1> QED
  BY <1>2, <1>3

(* The deadline passes once, and the trim spares what it must.             *)
LEMMA CrowdTrim ==
    ASSUME IsFiniteSet(Request), TypeOK, TypeOK', OneLiveConnection, OnePlace, Crowd,
           ConnectIfRequired \/ TrimOldConnections
    PROVE  Crowd'
<1>0. /\ Cardinality(Request) \in Nat /\ Len(conns) \in Nat /\ cursor \in Nat \ {0}
      /\ deadline \in Int
  BY FS_CardinalityType DEF TypeOK
<1>1. CASE ConnectIfRequired
  <2>1. /\ pc = "connect" /\ pc' = "trim" /\ cursor' = 1
        /\ \/ UNCHANGED conns
           \/ NewConnection(FALSE) /\ deadline <= 0
    BY <1>1 DEF ConnectIfRequired, Goto, NewConnection, ConnectionRequired, links
  <2>2. \/ Len(conns) <= Cardinality(Request) + 2
        \/ Len(conns) <= Cardinality(Request) + 3 /\ deadline > 0
    BY <2>1 DEF Crowd
  <2>3. Len(conns') <= Cardinality(Request) + 3
    <3>1. CASE UNCHANGED conns
      BY <1>0, <2>2, <3>1
    <3>2. CASE NewConnection(FALSE) /\ deadline <= 0
      BY <1>0, <2>2, <3>2, OneMoreConnection
    <3> QED
      BY <2>1, <3>1, <3>2
  <2>4. Len(conns') \in Nat
    BY DEF TypeOK
  <2> QED
    BY <2>1, <2>3, <2>4 DEF Crowd
<1>2. ASSUME pc = "trim"
      PROVE  /\ Len(conns) <= Cardinality(Request) + 3
             /\ \A i \in 1..Len(conns) : i < cursor => Spared(conns[i])
  BY <1>2 DEF Crowd
<1>3. CASE TrimKeep
  <2>1. /\ pc = "trim" /\ pc' = "trim" /\ cursor' = cursor + 1 /\ conns' = conns
        /\ Spared(conns[cursor])
    BY <1>3 DEF TrimKeep, At, links, ToBeDeleted, Spared, Current
  <2>2. \A i \in 1..Len(conns') : i < cursor' => Spared(conns'[i])
    BY <1>0, <1>2, <2>1
  <2> QED
    BY <1>2, <2>1, <2>2 DEF Crowd
<1>4. CASE TrimDelete
  <2>1. /\ pc = "trim" /\ pc' = "trim" /\ cursor' = cursor
        /\ cursor \in 1..Len(conns) /\ conns' = RemoveAt(conns, cursor)
    BY <1>0, <1>4 DEF TrimDelete, At
  <2>2. /\ Len(conns') = Len(conns) - 1
        /\ \A j \in 1..Len(conns) - 1 :
             conns'[j] = IF j < cursor THEN conns[j] ELSE conns[j + 1]
    BY <2>1, Removed DEF TypeOK
  <2>3. \A i \in 1..Len(conns') : i < cursor' => Spared(conns'[i])
    <3> TAKE i \in 1..Len(conns')
    <3> HAVE i < cursor'
    <3>1. i \in 1..Len(conns) /\ i < cursor /\ conns'[i] = conns[i]
      BY <1>0, <2>1, <2>2
    <3> QED
      BY <1>2, <2>1, <3>1
  <2>4. Len(conns') <= Cardinality(Request) + 3
    BY <1>0, <1>2, <2>1, <2>2
  <2> QED
    BY <2>1, <2>3, <2>4 DEF Crowd
<1>5. CASE EndTrim
  <2>1. /\ pc = "trim" /\ pc' = "send" /\ cursor > Len(conns) /\ conns' = conns
    BY <1>5 DEF EndTrim, AtEnd, Goto, links
  <2>2. \A i \in 1..Len(conns) : Spared(conns[i])
    BY <1>0, <1>2, <2>1
  <2>3. Len(conns') <= Cardinality(Request) + 1
    BY <2>1, <2>2, SparedAreFew
  <2> QED
    BY <2>1, <2>3 DEF Crowd
<1> QED
  BY <1>1, <1>3, <1>4, <1>5 DEF TrimOldConnections

(* The rest of an Update neither adds nor deletes a connection.            *)
LEMMA CrowdQueues ==
    ASSUME IsFiniteSet(Request), TypeOK, TypeOK', Crowd,
           UpdateBegin \/ ProcessSendQueue \/ ExpirePending
    PROVE  Crowd'
<1>0. Cardinality(Request) \in Nat /\ Len(conns) \in Nat
  BY FS_CardinalityType DEF TypeOK
<1>1. CASE UpdateBegin
  <2>1. pc = "idle" /\ pc' = "poll" /\ conns' = conns
    BY <1>1 DEF UpdateBegin, Idle
  <2>2. Len(conns') <= Cardinality(Request) + 2
    BY <1>0, <2>1 DEF Crowd
  <2> QED
    BY <2>1, <2>2 DEF Crowd
<1>2. CASE ProcessSendQueue \/ ExpirePending
  <2>1. pc \in {"send", "expire"} /\ pc' \in {"expire", "crashed", "idle"}
    BY <1>2 DEF ProcessSendQueue, SendQueueEmpty, SendQueueWaits, SendQueueSends,
                SendQueueExpires, SendQueueDangles, AtSendQueue, ExpirePending, Goto
  <2>2. DOMAIN conns' = DOMAIN conns
    <3>1. CASE ProcessSendQueue
      BY <3>1 DEF ProcessSendQueue, SendQueueEmpty, SendQueueWaits, SendQueueSends,
                  SendQueueExpires, SendQueueDangles, SendImmediate, links
    <3>2. CASE ExpirePending
      <4>1. DOMAIN conns' = 1..Len(conns)
        BY <3>2 DEF ExpirePending
      <4> QED
        BY <4>1, LenProperties DEF TypeOK
    <3> QED
      BY <1>2, <3>1, <3>2
  <2>3. Len(conns') <= Cardinality(Request) + 1
    BY <2>1, <2>2, AsManyConnections DEF Crowd
  <2> QED
    BY <2>1, <2>3 DEF Crowd
<1> QED
  BY <1>1, <1>2

(* However often the client is redirected, reset, disconnected or loses    *)
(* its socket, it has three connections more than requests at most.        *)
THEOREM FewConnections ==
    ASSUME IsFiniteSet(Request)
    PROVE  Spec => []ConnectionsBounded
<1>0. Cardinality(Request) \in Nat
  BY FS_CardinalityType
<1>1. Init => Crowd
  <2> SUFFICES ASSUME Init PROVE Crowd
    OBVIOUS
  <2>1. pc = "idle" /\ Len(conns) = 1
    BY DEF Init
  <2> QED
    BY <1>0, <2>1 DEF Crowd
<1>2. Inv /\ Inv' /\ RequestInv /\ Crowd /\ [Next]_vars => Crowd'
  <2> SUFFICES ASSUME Inv, Inv', RequestInv, Crowd, [Next]_vars PROVE Crowd'
    OBVIOUS
  <2>0. TypeOK /\ TypeOK' /\ OneLiveConnection /\ OnePlace
    BY DEF Inv, Running, RequestInv
  <2>1. CASE UNCHANGED vars
    BY <2>1 DEF vars, links, Crowd
  <2> QED
    BY <2>0, <2>1, CrowdApplication, CrowdUpdateConnections, CrowdTrim, CrowdQueues
       DEF Next, Update
<1>3. Inv /\ Crowd => ConnectionsBounded
  <2> SUFFICES ASSUME Inv, Crowd PROVE ConnectionsBounded
    OBVIOUS
  <2>1. Len(conns) \in Nat /\ pc \in Phase
    BY DEF Inv, TypeOK
  <2> QED
    BY <1>0, <2>1 DEF Crowd, ConnectionsBounded, Phase
<1> QED
  BY <1>1, <1>2, <1>3, RequestsInit, RequestsStep, InvAlways, PTL DEF Spec

-----------------------------------------------------------------------------
(* What a step may never do                                                *)

(* ConnectIfRequired replaces no connection that is still running.         *)
THEOREM RunningConnectionKept == Spec => ReconnectSparesLive
<1>1. Inv /\ [Next]_vars => (pc = "connect" /\ conns' # conns => ~Live)
  <2> SUFFICES ASSUME Inv, [Next]_vars, pc = "connect", conns' # conns
               PROVE  ~Live
    OBVIOUS
  <2>1. ConnectIfRequired
    BY DEF Next, Update, Application, Send, Disconnect, Reconnect, Reset, ShutDown,
           Idle, UpdateBegin, UpdateConnections, EndConnections, PollSkip,
           PollConnecting, PollQuiet, PollClosed, Dispatching, DispatchNothing,
           DispatchNonce, DispatchSession, DispatchRedirect, DispatchResponse,
           DispatchClose, DispatchUnexpected, At, AtEnd, TrimOldConnections, TrimKeep,
           TrimDelete, EndTrim, ProcessSendQueue, SendQueueEmpty, SendQueueWaits,
           SendQueueSends, SendQueueExpires, SendQueueDangles, AtSendQueue,
           ExpirePending, vars, links
  <2>2. conns = <<>> \/ conns[1].stopped
    BY <2>1 DEF ConnectIfRequired, ConnectionRequired, links
  <2>3. \A i \in 1..Len(conns) : conns[i].stopped
    BY <2>2, EmptySeq DEF Inv, Running, OneLiveConnection, TypeOK
  <2> QED
    BY <2>3 DEF Live
<1> QED
  BY <1>1, InvAlways, PTL DEF Spec, ReconnectSparesLive

(* Connections that keep their pending requests, and others next to them.  *)
LEMMA PendingStays ==
    ASSUME TypeOK,
           \/ UNCHANGED conns
           \/ conns' = StopAll
           \/ NewConnection(FALSE)
           \/ \E i \in 1..Len(conns), d \in Connection :
                conns' = [conns EXCEPT ![i] = d] /\ conns[i].pending \subseteq d.pending
    PROVE  \A r : PendingSomewhere(r) => PendingSomewhere(r)'
<1>0. conns \in Seq(Connection) /\ Len(conns) \in Nat
  BY DEF TypeOK
<1>1. CASE UNCHANGED conns
  BY <1>1 DEF PendingSomewhere
<1>2. CASE conns' = StopAll
  <2>1. Len(conns') = Len(conns)
    BY <1>0, <1>2, StopAllStops
  <2>2. \A i \in 1..Len(conns) : conns'[i].pending = conns[i].pending
    <3> TAKE i \in 1..Len(conns)
    <3>1. conns[i] \in Connection /\ conns'[i] = [conns[i] EXCEPT !.stopped = TRUE]
      BY <1>0, <1>2, StopAllStops
    <3> QED
      BY <3>1 DEF Connection
  <2> QED
    BY <2>1, <2>2 DEF PendingSomewhere
<1>3. CASE NewConnection(FALSE)
  <2>1. Len(conns') = Len(conns) + 1
    BY <1>0, <1>3, NewConnectionIsFront
  <2>2. ASSUME NEW i \in 1..Len(conns)
        PROVE  i + 1 \in 1..Len(conns') /\ conns'[i + 1].pending = conns[i].pending
    <3>1. PICK j \in 2..Len(conns) + 1 : j = i + 1
      BY <1>0
    <3>2. j - 1 = i /\ j \in 1..Len(conns')
      BY <1>0, <2>1, <3>1
    <3>3. conns'[j] = [conns[j - 1] EXCEPT !.stopped = TRUE]
      BY <1>0, <1>3, NewConnectionIsFront
    <3>4. conns[i] \in Connection
      BY <1>0
    <3>5. conns'[j].pending = conns[i].pending
      BY <3>2, <3>3, <3>4 DEF Connection
    <3> QED
      BY <3>1, <3>2, <3>5
  <2> QED
    BY <2>2 DEF PendingSomewhere
<1>4. CASE \E i \in 1..Len(conns), d \in Connection :
             conns' = [conns EXCEPT ![i] = d] /\ conns[i].pending \subseteq d.pending
  <2>1. PICK i \in 1..Len(conns), d \in Connection :
             conns' = [conns EXCEPT ![i] = d] /\ conns[i].pending \subseteq d.pending
    BY <1>4
  <2>2. /\ Len(conns') = Len(conns)
        /\ \A j \in 1..Len(conns) : conns'[j] = IF j = i THEN d ELSE conns[j]
    BY <1>0, <2>1, OneConnectionChanges
  <2>3. \A j \in 1..Len(conns) : conns[j].pending \subseteq conns'[j].pending
    BY <2>1, <2>2
  <2> QED
    BY <2>2, <2>3 DEF PendingSomewhere
<1> QED
  BY <1>1, <1>2, <1>3, <1>4

(* Sending on the front keeps what is pending, and makes one more so.      *)
LEMMA SendKeepsPending ==
    ASSUME TypeOK, NEW r \in Request, FrontReady, SendImmediate(r)
    PROVE  PendingSomewhere(r)' /\ \A q : PendingSomewhere(q) => PendingSomewhere(q)'
<1> DEFINE d == [conns[1] EXCEPT !.pending = @ \cup {r}, !.sent = @ \cup {r}]
<1>1. 1 \in 1..Len(conns) /\ conns[1] \in Connection /\ conns \in Seq(Connection)
  BY DEF FrontReady, TypeOK
<1>2. d \in Connection /\ conns[1].pending \subseteq d.pending /\ r \in d.pending
  BY <1>1 DEF Connection
<1>3. conns' = [conns EXCEPT ![1] = d]
  BY <1>1 DEF SendImmediate
<1> HIDE DEF d
<1>4. 1 \in 1..Len(conns') /\ r \in conns'[1].pending
  BY <1>1, <1>2, <1>3, OneConnectionChanges
<1>5. \E i \in 1..Len(conns), e \in Connection :
        conns' = [conns EXCEPT ![i] = e] /\ conns[i].pending \subseteq e.pending
  BY <1>1, <1>2, <1>3
<1> QED
  BY <1>4, <1>5, PendingStays DEF PendingSomewhere

(* A request that leaves the head of the queue leaves the others there.    *)
LEMMA TailKeepsQueued ==
    ASSUME TypeOK, sendQueue # <<>>, sendQueue' = Tail(sendQueue)
    PROVE  \A r : Queued(r) => Queued(r)' \/ r = Head(sendQueue)
<1>1. /\ Len(sendQueue) \in Nat /\ Len(sendQueue') = Len(sendQueue) - 1
      /\ \A i \in 1..Len(sendQueue') : sendQueue'[i] = sendQueue[i + 1]
      /\ Head(sendQueue) = sendQueue[1]
  BY HeadTailProperties DEF TypeOK
<1>2. ASSUME NEW i \in 1..Len(sendQueue), i # 1
      PROVE  i - 1 \in 1..Len(sendQueue') /\ sendQueue'[i - 1] = sendQueue[i]
  <2>1. i - 1 \in 1..Len(sendQueue') /\ i - 1 + 1 = i
    BY <1>1, <1>2
  <2> QED
    BY <1>1, <2>1
<1> QED
  BY <1>1, <1>2 DEF Queued

Waits(r) == Queued(r) \/ PendingSomewhere(r)

(* How r leaves the client without a callback.                             *)
Dropped(r) ==
    \/ dangling'
    \/ /\ pc = "trim" /\ deadline < 0
       /\ r \in Current.pending /\ ~GetReady(Current)

(* What becomes of a request that waits.                                   *)
Followed(r) == Waits(r) => Waits(r)' \/ callbacks'[r] # callbacks[r] \/ Dropped(r)

(* The application's calls, and UpdateConnections.                         *)
LEMMA CallsFollow ==
    ASSUME Inv, Inv', Application \/ UpdateConnections, NEW r \in Request
    PROVE  Followed(r)
<1>0. TypeOK /\ TypeOK' /\ Len(conns) \in Nat
  BY DEF Inv, TypeOK
<1>1. ASSUME \A q : PendingSomewhere(q) => PendingSomewhere(q)',
             \A q : Queued(q) => Queued(q)'
      PROVE  Followed(r)
  BY <1>1 DEF Followed, Waits
<1>2. ASSUME UNCHANGED sendQueue PROVE \A q : Queued(q) => Queued(q)'
  BY <1>2 DEF Queued
<1>3. ASSUME NEW s \in Request, Send(s) PROVE Followed(r)
  <2>1. CASE FrontReady
    <3>1. SendImmediate(s) /\ UNCHANGED sendQueue
      BY <1>3, <2>1 DEF Send
    <3> QED
      BY <1>0, <1>1, <1>2, <2>1, <3>1, SendKeepsPending
  <2>2. CASE ~FrontReady
    <3>1. sendQueue' = Append(sendQueue, s)
      BY <1>3, <2>2, Zenon DEF Send
    <3>2. /\ Len(sendQueue') = Len(sendQueue) + 1 /\ Len(sendQueue) \in Nat
          /\ \A i \in 1..Len(sendQueue) : sendQueue'[i] = sendQueue[i]
      BY <1>0, <3>1, AppendProperties DEF TypeOK
    <3>3. \A q : Queued(q) => Queued(q)'
      BY <3>2 DEF Queued
    <3>4. UNCHANGED conns \/ NewConnection(FALSE)
      BY <1>3, <2>2 DEF Send, NewConnection, links
    <3> QED
      BY <1>0, <1>1, <3>3, <3>4, PendingStays
  <2> QED
    BY <2>1, <2>2
<1>4. CASE Disconnect \/ Reconnect \/ Reset
  <2>1. conns' = StopAll \/ NewConnection(FALSE) \/ UNCHANGED conns
    BY <1>4 DEF Disconnect, Reconnect, Reset, links
  <2>2. UNCHANGED sendQueue
    BY <1>4 DEF Disconnect, Reconnect, Reset, requests
  <2> QED
    BY <1>0, <1>1, <1>2, <2>1, <2>2, PendingStays
<1>5. CASE ShutDown
  <2>1. /\ conns' = [i \in 1..Len(conns) |->
                       [conns[i] EXCEPT !.stopped = TRUE, !.ws = "none"]]
        /\ UNCHANGED sendQueue
    BY <1>5 DEF ShutDown, requests
  <2>2. Len(conns') = Len(conns)
    <3>1. DOMAIN conns' = DOMAIN conns
      BY <1>0, <2>1, LenProperties DEF TypeOK
    <3> QED
      BY <1>0, <3>1, AsManyConnections
  <2>3. ASSUME NEW k \in 1..Len(conns) PROVE conns'[k].pending = conns[k].pending
    <3>1. conns[k] \in Connection
      BY <1>0 DEF TypeOK
    <3> QED
      BY <2>1, <3>1 DEF Connection
  <2>4. \A q : PendingSomewhere(q) => PendingSomewhere(q)'
    BY <2>2, <2>3 DEF PendingSomewhere
  <2> QED
    BY <1>1, <1>2, <2>1, <2>4
<1>6. ASSUME NEW s \in Request, DispatchResponse(s) PROVE Followed(r)
  <2>1. /\ cursor \in 1..Len(conns) /\ Current \in Connection
        /\ UNCHANGED sendQueue /\ Complete({s} \cap Current.pending)
    BY <1>0, <1>6 DEF Dispatching, DispatchResponse, At, Current, TypeOK
  <2>2. /\ Len(conns') = Len(conns)
        /\ conns'[cursor].pending = conns[cursor].pending \ {s}
        /\ \A k \in 1..Len(conns) : k # cursor => conns'[k].pending = conns[k].pending
    BY SMTT(20), <1>0, <1>6, <2>1 DEF DispatchResponse, Connection, TypeOK, Current
  <2>3. CASE r = s /\ r \in Current.pending
    <3>1. callbacks'[r] = callbacks[r] + 1 /\ callbacks[r] \in Nat
      BY <1>0, <2>1, <2>3 DEF Complete, TypeOK
    <3> QED
      BY <3>1 DEF Followed
  <2>4. CASE ~(r = s /\ r \in Current.pending)
    <3>1. \A k \in 1..Len(conns) : r \in conns[k].pending => r \in conns'[k].pending
      BY <2>1, <2>2, <2>4 DEF Current
    <3>2. PendingSomewhere(r) => PendingSomewhere(r)'
      BY <2>2, <3>1 DEF PendingSomewhere
    <3> QED
      BY <1>2, <2>1, <3>2 DEF Followed, Waits
  <2> QED
    BY <2>3, <2>4
<1>7. CASE UpdateConnections
  <2>1. CASE \E s \in Request : DispatchResponse(s)
    BY <1>6, <2>1
  <2>2. CASE UNCHANGED requests /\ ConnectionsKept
    <3>1. UNCHANGED sendQueue
      BY <2>2 DEF requests
    <3>2. \A q : PendingSomewhere(q) => PendingSomewhere(q)'
      BY <1>0, <2>2, PendingStays DEF ConnectionsKept
    <3> QED
      BY <1>1, <1>2, <3>1, <3>2
  <2> QED
    BY <1>0, <1>7, <2>1, <2>2, UpdateConnectionsCases
<1> QED
  BY <1>3, <1>4, <1>5, <1>7 DEF Application

(* ProcessQueues.                                                          *)
LEMMA QueuesFollow ==
    ASSUME Inv, Inv', NEW r \in Request,
           ConnectIfRequired \/ TrimOldConnections \/ ProcessSendQueue \/ ExpirePending
    PROVE  Followed(r)
<1>0. TypeOK /\ TypeOK' /\ Len(conns) \in Nat /\ callbacks \in [Request -> Nat]
  <2>1. TypeOK /\ TypeOK'
    BY DEF Inv
  <2> QED
    BY <2>1, LenProperties DEF TypeOK
<1>1. CASE UNCHANGED <<conns, sendQueue>>
  BY <1>1 DEF Followed, Waits, Queued, PendingSomewhere
<1>2. CASE ConnectIfRequired
  <2>1. UNCHANGED requests /\ (NewConnection(FALSE) \/ UNCHANGED conns)
    BY <1>2 DEF ConnectIfRequired, NewConnection, links
  <2>2. \A q : PendingSomewhere(q) => PendingSomewhere(q)'
    BY <1>0, <2>1, PendingStays
  <2> QED
    BY <2>1, <2>2 DEF Followed, Waits, Queued, requests
<1>3. CASE TrimDelete
  <2>1. /\ pc = "trim" /\ cursor \in 1..Len(conns) /\ conns' = RemoveAt(conns, cursor)
        /\ UNCHANGED sendQueue
        /\ (deadline < 0 /\ ~GetReady(Current)) \/ Current.pending = {}
    BY <1>0, <1>3 DEF TrimDelete, At, TypeOK, requests, ToBeDeleted
  <2>2. /\ Len(conns') = Len(conns) - 1
        /\ \A j \in 1..Len(conns) - 1 :
             conns'[j] = IF j < cursor THEN conns[j] ELSE conns[j + 1]
    BY <1>0, <2>1, Removed DEF TypeOK
  <2>3. CASE r \in Current.pending
    BY <2>1, <2>3 DEF Followed, Dropped
  <2>4. CASE r \notin Current.pending
    <3>1. ASSUME NEW k \in 1..Len(conns), r \in conns[k].pending
          PROVE  PendingSomewhere(r)'
      <4>1. k # cursor
        BY <2>4, <3>1 DEF Current
      <4>2. CASE k < cursor
        <5>1. k \in 1..Len(conns') /\ conns'[k] = conns[k]
          BY <1>0, <2>1, <2>2, <4>2
        <5> QED
          BY <3>1, <5>1 DEF PendingSomewhere
      <4>3. CASE k > cursor
        <5>1. k - 1 \in 1..Len(conns') /\ k - 1 \in 1..Len(conns) - 1
              /\ ~(k - 1 < cursor) /\ k - 1 + 1 = k
          BY <1>0, <2>1, <2>2, <4>3
        <5>2. conns'[k - 1] = conns[k]
          BY <2>2, <5>1
        <5> QED
          BY <3>1, <5>1, <5>2 DEF PendingSomewhere
      <4> QED
        BY <1>0, <2>1, <4>1, <4>2, <4>3
    <3>2. PendingSomewhere(r) => PendingSomewhere(r)'
      BY <3>1 DEF PendingSomewhere
    <3> QED
      BY <2>1, <3>2 DEF Followed, Waits, Queued
  <2> QED
    BY <2>3, <2>4
<1>4. CASE SendQueueSends
  <2>1. sendQueue # <<>> /\ sendQueue' = Tail(sendQueue)
    BY <1>4 DEF SendQueueSends, AtSendQueue
  <2>2. PICK h \in Request : h = Head(sendQueue)
    <3>1. sendQueue \in Seq(Request)
      BY <1>0 DEF TypeOK
    <3> QED
      BY <2>1, <3>1
  <2>3. SendImmediate(h)
    BY <1>4, <2>2 DEF SendQueueSends
  <2>4. FrontReady
    BY <1>4, Zenon DEF SendQueueSends, AtSendQueue
  <2>5. PendingSomewhere(h)' /\ \A q : PendingSomewhere(q) => PendingSomewhere(q)'
    BY <1>0, <2>3, <2>4, SendKeepsPending
  <2>6. Queued(r) => Queued(r)' \/ r = h
    BY <1>0, <2>1, <2>2, TailKeepsQueued
  <2> QED
    BY <2>5, <2>6 DEF Followed, Waits
<1>5. CASE SendQueueExpires
  <2>1. /\ sendQueue # <<>> /\ sendQueue' = Tail(sendQueue) /\ UNCHANGED conns
        /\ Complete({Head(sendQueue)})
    BY <1>5 DEF SendQueueExpires, AtSendQueue, links
  <2>2. CASE r = Head(sendQueue)
    <3>1. callbacks'[r] = callbacks[r] + 1 /\ callbacks[r] \in Nat
      BY <1>0, <2>1, <2>2 DEF Complete
    <3> QED
      BY <3>1 DEF Followed
  <2>3. CASE r # Head(sendQueue)
    <3>1. Queued(r) => Queued(r)'
      BY <1>0, <2>1, <2>3, TailKeepsQueued
    <3>2. PendingSomewhere(r) => PendingSomewhere(r)'
      BY <2>1 DEF PendingSomewhere
    <3> QED
      BY <3>1, <3>2 DEF Followed, Waits
  <2> QED
    BY <2>2, <2>3
<1>6. CASE SendQueueDangles
  BY <1>6 DEF SendQueueDangles, Followed, Dropped
<1>7. CASE ExpirePending
  <2> DEFINE S == UNION {Overdue(conns[i]) : i \in 1..Len(conns)}
  <2>1. /\ conns' = [k \in 1..Len(conns) |->
                       [conns[k] EXCEPT !.pending = @ \ Overdue(conns[k])]]
        /\ Complete(S) /\ UNCHANGED sendQueue
    BY <1>7 DEF ExpirePending
  <2>2. Len(conns') = Len(conns)
    <3>1. DOMAIN conns' = DOMAIN conns
      BY <1>0, <2>1, LenProperties DEF TypeOK
    <3> QED
      BY <1>0, <3>1, AsManyConnections
  <2>3. \A k \in 1..Len(conns) :
          conns'[k].pending = conns[k].pending \ Overdue(conns[k])
    <3> TAKE k \in 1..Len(conns)
    <3>1. conns[k] \in Connection
      BY <1>0 DEF TypeOK
    <3> QED
      BY <2>1, <3>1 DEF Connection
  <2>4. \A k \in 1..Len(conns) : \A q \in Overdue(conns[k]) : q \in S
    OBVIOUS
  <2> HIDE DEF S
  <2>5. CASE r \in S
    <3>1. callbacks'[r] = callbacks[r] + 1 /\ callbacks[r] \in Nat
      BY <1>0, <2>1, <2>5 DEF Complete
    <3> QED
      BY <3>1 DEF Followed
  <2>6. CASE r \notin S
    <3>1. \A k \in 1..Len(conns) : r \in conns[k].pending => r \in conns'[k].pending
      BY <2>3, <2>4, <2>6
    <3>2. PendingSomewhere(r) => PendingSomewhere(r)'
      BY <2>2, <3>1 DEF PendingSomewhere
    <3> QED
      BY <2>1, <3>2 DEF Followed, Waits, Queued
  <2> QED
    BY <2>5, <2>6
<1>8. CASE TrimKeep \/ EndTrim \/ SendQueueEmpty \/ SendQueueWaits
  BY <1>1, <1>8 DEF TrimKeep, EndTrim, SendQueueEmpty, SendQueueWaits, links, requests
<1> QED
  BY <1>2, <1>3, <1>4, <1>5, <1>6, <1>7, <1>8 DEF TrimOldConnections, ProcessSendQueue

(* A request does not get lost: it leaves the client with a callback, with *)
(* a connection that TrimOldConnections deletes for missing its deadline,  *)
(* or when ProcessSendQueue pops the queue twice, and in no other way.     *)
THEOREM NoOtherLoss == Spec => LostOnlyTwoWays
<1>1. ASSUME Inv, Inv', [Next]_vars, NEW r \in Request,
             Held(r), ~Held(r)', callbacks'[r] = callbacks[r]
      PROVE  Dropped(r)
  <2>1. (Held(r) <=> Waits(r)) /\ (Held(r)' <=> Waits(r)')
    <3>1. Held(r) <=> Waits(r)
      BY <1>1, QueuedIsIn DEF Held, Waits, Inv, TypeOK
    <3>2. sendQueue' \in Seq(Request)
      BY <1>1 DEF Inv, TypeOK
    <3>3. r \in ToSet(sendQueue') <=> Queued(r)'
      <4>1. DOMAIN sendQueue' = 1..Len(sendQueue')
        BY <3>2, LenProperties
      <4> QED
        BY <4>1 DEF ToSet, Queued
    <3> QED
      BY <3>1, <3>3 DEF Held, Waits
  <2>2. CASE UpdateBegin \/ UNCHANGED vars
    <3>1. UNCHANGED <<conns, sendQueue>>
      BY <2>2 DEF UpdateBegin, vars, links, requests
    <3>2. Waits(r) => Waits(r)'
      BY <3>1 DEF Waits, Queued, PendingSomewhere
    <3> QED
      BY <1>1, <2>1, <3>2
  <2>3. CASE ~(UpdateBegin \/ UNCHANGED vars)
    <3>1. Followed(r)
      BY <1>1, <2>3, CallsFollow, QueuesFollow DEF Next, Update
    <3> QED
      BY <1>1, <2>1, <3>1 DEF Followed
  <2> QED
    BY <2>2, <2>3
<1>2. Inv /\ Inv' /\ [Next]_vars
        => [\A r \in Request :
              Held(r) /\ ~Held(r)' /\ callbacks'[r] = callbacks[r] =>
                 \/ dangling'
                 \/ /\ pc = "trim" /\ deadline < 0
                    /\ r \in Current.pending /\ ~GetReady(Current)]_vars
  BY <1>1 DEF Dropped
<1> QED
  BY <1>2, InvAlways, PTL DEF Spec, LostOnlyTwoWays
-----------------------------------------------------------------------------
(* What the application is promised of its requests                        *)

(* GSClient's requests, as the application sees them.                      *)
Waiting == {r \in Request : Held(r)}

ServiceStep == Promise!Next \/ UNCHANGED Promise!vars

(* Only what has not been shut down is in the middle of an Update.         *)
Working == pc # "idle" => running

(* The requests of the application are those that wait somewhere.          *)
LEMMA WaitingWait ==
    ASSUME TypeOK, TypeOK'
    PROVE  /\ \A r \in Request : r \in Waiting <=> Waits(r)
           /\ \A r \in Request : r \in Waiting' <=> Waits(r)'
<1>1. \A r : r \in ToSet(sendQueue) <=> Queued(r)
  BY QueuedIsIn DEF TypeOK
<1>2. DOMAIN sendQueue' = 1..Len(sendQueue')
  BY LenProperties DEF TypeOK
<1>3. \A r : r \in ToSet(sendQueue') <=> Queued(r)'
  BY <1>2 DEF ToSet, Queued
<1> QED
  BY <1>1, <1>3 DEF Waiting, Held, Waits

(* Requests of S are called back and wait no more ...                      *)
LEMMA CompletedPromise ==
    ASSUME TypeOK, TypeOK', running, UNCHANGED <<flags, ready, submitted>>,
           NEW S \in SUBSET Request, Complete(S), \A r \in S : Waits(r),
           \A r \in Request : Waits(r)' <=> Waits(r) /\ r \notin S
    PROVE  ServiceStep
<1>1. S \subseteq Waiting
  BY WaitingWait
<1>2. Waiting' = Waiting \ S
  <2>1. \A r \in Request : r \in Waiting' <=> r \in Waiting \ S
    BY WaitingWait
  <2> QED
    BY <2>1 DEF Waiting
<1>3. callbacks' = [r \in Request |-> callbacks[r] + IF r \in S THEN 1 ELSE 0]
  BY DEF Complete
<1>4. Promise!Complete(S)
  BY <1>1, <1>2, <1>3 DEF Promise!Complete, Promise!Called, Promise!switches, flags, Waiting
<1> QED
  BY <1>4 DEF ServiceStep, Promise!Next

(* ... or are lost.                                                        *)
LEMMA LostPromise ==
    ASSUME TypeOK, TypeOK', running, UNCHANGED <<flags, ready, submitted, callbacks>>,
           NEW S \in SUBSET Request, \A r \in S : Waits(r),
           \A r \in Request : Waits(r)' <=> Waits(r) /\ r \notin S
    PROVE  ServiceStep
<1>1. S \subseteq Waiting
  BY WaitingWait
<1>2. Waiting' = Waiting \ S
  <2>1. \A r \in Request : r \in Waiting' <=> r \in Waiting \ S
    BY WaitingWait
  <2> QED
    BY <2>1 DEF Waiting
<1>3. Promise!Lose(S)
  BY <1>1, <1>2 DEF Promise!Lose, Promise!switches, flags, Waiting
<1> QED
  BY <1>3 DEF ServiceStep, Promise!Next

(* Every request waits that did.                                           *)
LEMMA SameWaiting ==
    ASSUME TypeOK, TypeOK', \A r \in Request : Waits(r)' <=> Waits(r)
    PROVE  Waiting' = Waiting
<1>1. \A r \in Request : r \in Waiting' <=> r \in Waiting
  BY WaitingWait
<1> QED
  BY <1>1 DEF Waiting

(* Nothing happens to the requests inside of Update: the service becomes   *)
(* available or unavailable.                                               *)
LEMMA QuietPromise ==
    ASSUME TypeOK, TypeOK', running, UNCHANGED <<flags, submitted, callbacks>>,
           ready' = TRUE => ready = TRUE \/ ~paused,
           \A r \in Request : Waits(r)' <=> Waits(r)
    PROVE  ServiceStep
<1>1. UNCHANGED <<Promise!switches, Promise!account>>
  BY SameWaiting DEF Promise!switches, Promise!account, flags, Waiting
<1>2. CASE ready' = ready
  BY <1>1, <1>2 DEF ServiceStep, Promise!vars
<1>3. CASE ready' = FALSE
  BY <1>1, <1>3 DEF ServiceStep, Promise!Next, Promise!BecomeUnavailable
<1>4. CASE ready' # ready /\ ready' # FALSE
  <2>1. ready' = TRUE /\ ~paused
    BY <1>4 DEF TypeOK
  <2> QED
    BY <1>1, <2>1 DEF ServiceStep, Promise!Next, Promise!BecomeAvailable
<1> QED
  BY <1>2, <1>3, <1>4

(* Connections that are stopped, or change in what they have not pending,  *)
(* or are next to a new one, have the requests pending that they had.      *)
LEMMA PendingKept ==
    ASSUME TypeOK, ConnectionsKept \/ conns' = StopAll
    PROVE  \A r : PendingSomewhere(r)' <=> PendingSomewhere(r)
<1>0. conns \in Seq(Connection) /\ Len(conns) \in Nat
  BY DEF TypeOK
<1>1. \A r : PendingSomewhere(r) => PendingSomewhere(r)'
  BY PendingStays DEF ConnectionsKept
<1>2. CASE UNCHANGED conns
  BY <1>2 DEF PendingSomewhere
<1>3. CASE conns' = StopAll
  <2>1. Len(conns') = Len(conns)
    BY <1>0, <1>3, StopAllStops
  <2>2. \A i \in 1..Len(conns) : conns'[i].pending = conns[i].pending
    <3> TAKE i \in 1..Len(conns)
    <3>1. conns[i] \in Connection /\ conns'[i] = [conns[i] EXCEPT !.stopped = TRUE]
      BY <1>0, <1>3, StopAllStops
    <3> QED
      BY <3>1 DEF Connection
  <2> QED
    BY <2>1, <2>2 DEF PendingSomewhere
<1>4. CASE NewConnection(FALSE)
  <2>1. Len(conns') = Len(conns) + 1 /\ conns'[1] = FreshConnection
    BY <1>0, <1>4, NewConnectionIsFront
  <2>2. ASSUME NEW j \in 1..Len(conns'), j # 1
        PROVE  j - 1 \in 1..Len(conns) /\ conns'[j].pending = conns[j - 1].pending
    <3>1. j \in 2..Len(conns) + 1 /\ j - 1 \in 1..Len(conns)
      BY <1>0, <2>1, <2>2
    <3>2. conns'[j] = [conns[j - 1] EXCEPT !.stopped = TRUE]
      BY <1>0, <1>4, <3>1, NewConnectionIsFront
    <3>3. conns[j - 1] \in Connection
      BY <1>0, <3>1
    <3> QED
      BY <3>1, <3>2, <3>3 DEF Connection
  <2>3. conns'[1].pending = {}
    BY <2>1 DEF FreshConnection
  <2> QED
    BY <1>1, <2>2, <2>3 DEF PendingSomewhere
<1>5. CASE \E i \in 1..Len(conns), d \in Connection :
             conns' = [conns EXCEPT ![i] = d] /\ d.pending = conns[i].pending
  <2>1. PICK i \in 1..Len(conns), d \in Connection :
             conns' = [conns EXCEPT ![i] = d] /\ d.pending = conns[i].pending
    BY <1>5
  <2>2. /\ Len(conns') = Len(conns)
        /\ \A j \in 1..Len(conns) : conns'[j] = IF j = i THEN d ELSE conns[j]
    BY <1>0, <2>1, OneConnectionChanges
  <2>3. \A j \in 1..Len(conns) : conns[j].pending = conns'[j].pending
    BY <2>1, <2>2
  <2> QED
    BY <2>2, <2>3 DEF PendingSomewhere
<1> QED
  BY <1>2, <1>3, <1>4, <1>5 DEF ConnectionsKept

(* So that, if the send queue stays as it is, the same requests wait.      *)
LEMMA WaitsKept ==
    ASSUME TypeOK, ConnectionsKept \/ conns' = StopAll, UNCHANGED sendQueue
    PROVE  \A r \in Request : Waits(r)' <=> Waits(r)
BY PendingKept DEF Waits, Queued

(* Only Idle, which asks for a client that runs, lets an Update begin.     *)
LEMMA WorkingKept == Working /\ [Next]_vars => Working'
<1> SUFFICES ASSUME Working, [Next]_vars PROVE Working'
  OBVIOUS
<1>1. CASE Application
  BY <1>1 DEF Application, Send, Disconnect, Reconnect, Reset, ShutDown, Idle, Working
<1>2. CASE UpdateBegin
  BY <1>2 DEF UpdateBegin, Idle, Working, flags
<1>3. CASE UpdateConnections
  <2>1. pc # "idle" /\ UNCHANGED flags
    BY <1>3 DEF UpdateConnections, EndConnections, PollSkip, PollConnecting, PollQuiet,
           PollClosed, Dispatching, DispatchNothing, DispatchNonce, DispatchSession,
           DispatchRedirect, DispatchResponse, DispatchClose, DispatchUnexpected, At, AtEnd
  <2> QED
    BY <2>1 DEF Working, flags
<1>4. CASE ConnectIfRequired \/ TrimOldConnections \/ ProcessSendQueue \/ ExpirePending
  <2>1. pc # "idle" /\ UNCHANGED flags
    BY <1>4 DEF ConnectIfRequired, TrimOldConnections, TrimKeep, TrimDelete, EndTrim, At,
           AtEnd, ProcessSendQueue, SendQueueEmpty, SendQueueWaits, SendQueueSends,
           SendQueueExpires, SendQueueDangles, AtSendQueue, ExpirePending
  <2> QED
    BY <2>1 DEF Working, flags
<1>5. CASE UNCHANGED vars
  BY <1>5 DEF vars, flags, Working
<1> QED
  BY <1>1, <1>2, <1>3, <1>4, <1>5 DEF Next, Update

(* SendImmediate makes one request pending.                                *)
LEMMA PendingSent ==
    ASSUME TypeOK, NEW r \in Request, FrontReady, SendImmediate(r)
    PROVE  \A q : PendingSomewhere(q)' <=> PendingSomewhere(q) \/ q = r
<1> DEFINE d == [conns[1] EXCEPT !.pending = @ \cup {r}, !.sent = @ \cup {r}]
<1>1. 1 \in 1..Len(conns) /\ conns[1] \in Connection /\ conns \in Seq(Connection)
  BY DEF FrontReady, TypeOK
<1>2. d \in Connection /\ d.pending = conns[1].pending \cup {r}
  BY <1>1 DEF Connection
<1>3. conns' = [conns EXCEPT ![1] = d]
  BY <1>1 DEF SendImmediate
<1> HIDE DEF d
<1>4. /\ Len(conns') = Len(conns)
      /\ \A j \in 1..Len(conns) : conns'[j] = IF j = 1 THEN d ELSE conns[j]
  BY <1>1, <1>2, <1>3, OneConnectionChanges
<1>5. \A j \in 1..Len(conns) : conns'[j].pending \subseteq conns[j].pending \cup {r}
  BY <1>2, <1>4
<1>6. \A q : PendingSomewhere(q)' => PendingSomewhere(q) \/ q = r
  BY <1>4, <1>5 DEF PendingSomewhere
<1> QED
  BY <1>6, SendKeepsPending

(* GSRequest::Send                                                         *)
LEMMA SendPromise ==
    ASSUME TypeOK, TypeOK', NEW s \in Request, Send(s)
    PROVE  ServiceStep
<1>1. running /\ s \notin submitted /\ submitted' = submitted \cup {s}
      /\ UNCHANGED <<flags, callbacks>>
  BY DEF Send, Idle
<1>2. /\ \A r \in Request : Waits(r)' <=> Waits(r) \/ r = s
      /\ ready' \in {ready, FALSE}
  <2>1. CASE FrontReady
    <3>1. SendImmediate(s) /\ UNCHANGED <<sendQueue, ready>>
      BY <2>1 DEF Send
    <3>2. \A r : PendingSomewhere(r)' <=> PendingSomewhere(r) \/ r = s
      BY <2>1, <3>1, PendingSent
    <3> QED
      BY <3>1, <3>2 DEF Waits, Queued
  <2>2. CASE ~FrontReady
    <3>1. sendQueue' = Append(sendQueue, s)
      BY <2>2, Zenon DEF Send
    <3>2. /\ Len(sendQueue') = Len(sendQueue) + 1 /\ Len(sendQueue) \in Nat
          /\ sendQueue'[Len(sendQueue) + 1] = s
          /\ \A i \in 1..Len(sendQueue) : sendQueue'[i] = sendQueue[i]
      BY <3>1, AppendProperties DEF TypeOK
    <3>3. \A q : Queued(q)' <=> Queued(q) \/ q = s
      BY <3>2 DEF Queued
    <3>4. UNCHANGED links \/ NewConnection(FALSE)
      BY <2>2 DEF Send, NewConnection
    <3>5. ConnectionsKept /\ ready' \in {ready, FALSE}
      BY <3>4 DEF ConnectionsKept, NewConnection, links
    <3>6. \A q : PendingSomewhere(q)' <=> PendingSomewhere(q)
      BY <3>5, PendingKept
    <3> QED
      BY <3>3, <3>5, <3>6 DEF Waits
  <2> QED
    BY <2>1, <2>2
<1>3. Waiting' = Waiting \cup {s}
  <2>1. \A r \in Request : r \in Waiting' <=> r \in Waiting \cup {s}
    BY <1>2, WaitingWait
  <2> QED
    BY <2>1 DEF Waiting
<1>4. Promise!Send(s)
  BY <1>1, <1>2, <1>3 DEF Promise!Send, Promise!NotRaised, Promise!switches, flags, Waiting
<1> QED
  BY <1>4 DEF ServiceStep, Promise!Next

(* The other calls of the application                                      *)
LEMMA ApplicationPromise ==
    ASSUME TypeOK, TypeOK', Application
    PROVE  ServiceStep
<1>0. Len(conns) \in Nat
  BY DEF TypeOK
<1>1. CASE Disconnect \/ Reconnect \/ Reset
  <2>1. conns' = StopAll \/ ConnectionsKept
    BY <1>1 DEF Disconnect, Reconnect, Reset, links, ConnectionsKept
  <2>2. UNCHANGED requests
    BY <1>1 DEF Disconnect, Reconnect, Reset
  <2>3. Waiting' = Waiting
    BY <2>1, <2>2, WaitsKept, SameWaiting DEF requests
  <2>4. UNCHANGED Promise!account
    BY <2>2, <2>3 DEF Promise!account, Waiting, requests
  <2>5. CASE Disconnect
    <3>1. Promise!Disconnect
      BY <2>4, <2>5 DEF Disconnect, Idle, Promise!Disconnect
    <3> QED
      BY <3>1 DEF ServiceStep, Promise!Next
  <2>6. CASE Reconnect \/ Reset
    <3>1. running /\ paused' = FALSE /\ UNCHANGED running /\ ready' \in {ready, FALSE}
      BY <2>6 DEF Reconnect, Reset, Idle, NewConnection, links
    <3>2. Promise!Reconnect
      BY <2>4, <3>1 DEF Promise!Reconnect, Promise!NotRaised
    <3> QED
      BY <3>2 DEF ServiceStep, Promise!Next
  <2> QED
    BY <1>1, <2>5, <2>6
<1>2. CASE ShutDown
  <2>1. /\ conns' = [i \in 1..Len(conns) |->
                       [conns[i] EXCEPT !.stopped = TRUE, !.ws = "none"]]
        /\ UNCHANGED requests
    BY <1>2 DEF ShutDown
  <2>2. Len(conns') = Len(conns)
    <3>1. DOMAIN conns' = DOMAIN conns
      BY <1>0, <2>1, LenProperties DEF TypeOK
    <3> QED
      BY <1>0, <3>1, AsManyConnections
  <2>3. ASSUME NEW k \in 1..Len(conns) PROVE conns'[k].pending = conns[k].pending
    <3>1. conns[k] \in Connection
      BY DEF TypeOK
    <3> QED
      BY <2>1, <3>1 DEF Connection
  <2>4. \A q : PendingSomewhere(q)' <=> PendingSomewhere(q)
    BY <2>2, <2>3 DEF PendingSomewhere
  <2>5. Waiting' = Waiting
    BY <2>1, <2>4, SameWaiting DEF Waits, Queued, requests
  <2>6. Promise!ShutDown
    BY <1>2, <2>1, <2>5 DEF ShutDown, Idle, Promise!ShutDown, Promise!account, Waiting, requests
  <2> QED
    BY <2>6 DEF ServiceStep, Promise!Next
<1> QED
  BY <1>1, <1>2, SendPromise DEF Application

(* A response calls one pending request back, which then waits nowhere.    *)
LEMMA ResponsePromise ==
    ASSUME Inv, TypeOK', OnePlace, running, NEW s \in Request, DispatchResponse(s)
    PROVE  ServiceStep
<1>0. TypeOK /\ Len(conns) \in Nat
  BY DEF Inv, TypeOK
<1>1. /\ cursor \in 1..Len(conns) /\ Current \in Connection
      /\ Complete({s} \cap Current.pending)
      /\ UNCHANGED <<ready, sendQueue, submitted, flags>>
  BY <1>0 DEF Dispatching, DispatchResponse, At, Current, TypeOK
<1>2. /\ Len(conns') = Len(conns)
      /\ conns'[cursor].pending = conns[cursor].pending \ {s}
      /\ \A k \in 1..Len(conns) : k # cursor => conns'[k].pending = conns[k].pending
  BY SMTT(20), <1>0, <1>1 DEF DispatchResponse, Connection, TypeOK, Current
<1> DEFINE S == {s} \cap Current.pending
<1>3. \A r \in S : PendingSomewhere(r)
  BY <1>1 DEF PendingSomewhere, Current
<1>4. \A r : PendingSomewhere(r)' <=> PendingSomewhere(r) /\ r \notin S
  <2> SUFFICES ASSUME NEW r
               PROVE  PendingSomewhere(r)' <=> PendingSomewhere(r) /\ r \notin S
    OBVIOUS
  <2>1. CASE r \in S
    <3>1. \A k \in 1..Len(conns) : r \in conns[k].pending => k = cursor
      BY <1>1, <2>1 DEF OnePlace, Current
    <3>2. \A k \in 1..Len(conns) : r \notin conns'[k].pending
      BY <1>1, <1>2, <2>1, <3>1
    <3> QED
      BY <1>2, <2>1, <3>2 DEF PendingSomewhere
  <2>2. CASE r \notin S
    <3>1. \A k \in 1..Len(conns) : r \in conns'[k].pending <=> r \in conns[k].pending
      BY <1>1, <1>2, <2>2 DEF Current
    <3> QED
      BY <1>2, <2>2, <3>1 DEF PendingSomewhere
  <2> QED
    BY <2>1, <2>2
<1>5. \A r \in S : ~Queued(r)
  BY <1>3 DEF OnePlace
<1>6. Queued(s)' <=> Queued(s)
  BY <1>1 DEF Queued
<1>7. \A r \in Request : Queued(r)' <=> Queued(r)
  BY <1>1 DEF Queued
<1>8. S \in SUBSET Request
  BY <1>1 DEF Connection
<1> HIDE DEF S
<1>9. \A r \in Request : Waits(r)' <=> Waits(r) /\ r \notin S
  BY <1>4, <1>5, <1>7 DEF Waits
<1>10. \A r \in S : Waits(r)
  BY <1>3 DEF Waits
<1>11. Complete(S)
  BY <1>1 DEF S
<1> QED
  BY <1>0, <1>1, <1>8, <1>9, <1>10, <1>11, CompletedPromise

(* Polling and dispatching                                                 *)
LEMMA UpdateConnectionsPromise ==
    ASSUME Inv, TypeOK', OnePlace, Working, UpdateConnections
    PROVE  ServiceStep
<1>0. TypeOK
  BY DEF Inv
<1>1. running /\ UNCHANGED flags
  BY DEF UpdateConnections, EndConnections, PollSkip, PollConnecting, PollQuiet,
         PollClosed, Dispatching, DispatchNothing, DispatchNonce, DispatchSession,
         DispatchRedirect, DispatchResponse, DispatchClose, DispatchUnexpected, At, AtEnd, Working
<1>2. CASE \E s \in Request : DispatchResponse(s)
  BY <1>1, <1>2, ResponsePromise
<1>3. CASE UNCHANGED requests /\ ConnectionsKept
  <2>1. ready' = TRUE => ready = TRUE \/ ~paused
    <3>1. CASE DispatchSession
      <4>1. pc \in {"dispatch", "redirected"}
        BY <3>1 DEF DispatchSession, Dispatching, At
      <4> QED
        BY <4>1 DEF Inv, Running, DispatchesRunning
    <3>2. CASE ~DispatchSession
      BY <3>2 DEF UpdateConnections, EndConnections, PollSkip, PollConnecting, PollQuiet,
         PollClosed, Dispatching, DispatchNothing, DispatchNonce, DispatchRedirect,
         NewConnection, DispatchResponse, DispatchClose, DispatchUnexpected, OnWebSocketError, links
    <3> QED
      BY <3>1, <3>2
  <2>2. \A r \in Request : Waits(r)' <=> Waits(r)
    BY <1>0, <1>3, WaitsKept DEF requests
  <2>3. UNCHANGED <<submitted, callbacks>>
    BY <1>3 DEF requests
  <2> QED
    BY <1>0, <1>1, <2>1, <2>2, <2>3, QuietPromise
<1> QED
  BY <1>0, <1>2, <1>3, UpdateConnectionsCases

(* A deleted connection takes its pending requests with it.                *)
LEMMA TrimPromise ==
    ASSUME TypeOK, TypeOK', OnePlace, running, TrimDelete
    PROVE  ServiceStep
<1>1. /\ cursor \in 1..Len(conns) /\ conns' = RemoveAt(conns, cursor)
      /\ Len(conns) \in Nat /\ UNCHANGED <<ready, requests, flags>>
  BY DEF TrimDelete, At, TypeOK
<1>2. /\ Len(conns') = Len(conns) - 1
      /\ \A j \in 1..Len(conns) - 1 :
           conns'[j] = IF j < cursor THEN conns[j] ELSE conns[j + 1]
  BY <1>1, Removed DEF TypeOK
<1> DEFINE S == Current.pending
<1>3. ASSUME NEW r PROVE PendingSomewhere(r)' <=> PendingSomewhere(r) /\ r \notin S
  <2>1. ASSUME PendingSomewhere(r), r \notin S PROVE PendingSomewhere(r)'
    <3>1. PICK k \in 1..Len(conns) : r \in conns[k].pending
      BY <2>1 DEF PendingSomewhere
    <3>2. k # cursor
      BY <2>1, <3>1 DEF Current
    <3>3. CASE k < cursor
      <4>1. k \in 1..Len(conns') /\ conns'[k] = conns[k]
        BY <1>1, <1>2, <3>3
      <4> QED
        BY <3>1, <4>1 DEF PendingSomewhere
    <3>4. CASE k > cursor
      <4>1. k - 1 \in 1..Len(conns') /\ k - 1 \in 1..Len(conns) - 1
            /\ ~(k - 1 < cursor) /\ k - 1 + 1 = k
        BY <1>1, <1>2, <3>4
      <4>2. conns'[k - 1] = conns[k]
        BY <1>2, <4>1
      <4> QED
        BY <3>1, <4>1, <4>2 DEF PendingSomewhere
    <3> QED
      BY <1>1, <3>2, <3>3, <3>4
  <2>2. ASSUME PendingSomewhere(r)' PROVE PendingSomewhere(r) /\ r \notin S
    <3>1. PICK j \in 1..Len(conns') : r \in conns'[j].pending
      BY <2>2 DEF PendingSomewhere
    <3>2. PICK k \in 1..Len(conns) : k # cursor /\ r \in conns[k].pending
      <4>1. j \in 1..Len(conns) - 1 /\ j \in 1..Len(conns) /\ j + 1 \in 1..Len(conns)
        BY <1>1, <1>2, <3>1
      <4>2. CASE j < cursor
        BY <1>1, <1>2, <3>1, <4>1, <4>2
      <4>3. CASE ~(j < cursor)
        <5>1. j + 1 # cursor
          BY <1>1, <4>1, <4>3
        <5> QED
          BY <1>2, <3>1, <4>1, <4>3, <5>1
      <4> QED
        BY <4>2, <4>3
    <3>3. r \notin S
      BY <1>1, <3>2 DEF OnePlace, Current
    <3> QED
      BY <3>2, <3>3 DEF PendingSomewhere
  <2> QED
    BY <2>1, <2>2
<1>4. \A r \in S : PendingSomewhere(r)
  BY <1>1 DEF PendingSomewhere, Current
<1>5. \A r \in S : ~Queued(r)
  BY <1>4 DEF OnePlace
<1>6. S \in SUBSET Request
  <2>1. conns[cursor] \in Connection
    BY <1>1 DEF TypeOK
  <2> QED
    BY <2>1 DEF Connection, Current
<1> HIDE DEF S
<1>7. \A r \in Request : Queued(r)' <=> Queued(r)
  BY <1>1 DEF Queued, requests
<1>8. \A r \in Request : Waits(r)' <=> Waits(r) /\ r \notin S
  BY <1>3, <1>5, <1>7 DEF Waits
<1>9. \A r \in S : Waits(r)
  BY <1>4 DEF Waits
<1> QED
  BY <1>1, <1>6, <1>8, <1>9, LostPromise DEF requests

(* The head leaves the queue, in which it was once.                        *)
LEMMA HeadQueued ==
    ASSUME TypeOK, OnePlace, sendQueue # <<>>, NEW q, q = Tail(sendQueue)
    PROVE  /\ Head(sendQueue) \in Request /\ Queued(Head(sendQueue))
           /\ ~PendingSomewhere(Head(sendQueue))
           /\ \A r : (\E i \in 1..Len(q) : q[i] = r) <=> Queued(r) /\ r # Head(sendQueue)
<1>1. /\ sendQueue \in Seq(Request)
      /\ \A i, j \in 1..Len(sendQueue) : sendQueue[i] = sendQueue[j] => i = j
  BY DEF TypeOK, OnePlace
<1>2. /\ Head(sendQueue) \in Request /\ Queued(Head(sendQueue))
      /\ \A r : (\E i \in 1..Len(q) : q[i] = r) => Queued(r) /\ r # Head(sendQueue)
  BY <1>1, HeadLeaves
<1>3. /\ Len(sendQueue) \in Nat /\ Len(q) = Len(sendQueue) - 1
      /\ \A i \in 1..Len(q) : q[i] = sendQueue[i + 1]
      /\ Head(sendQueue) = sendQueue[1]
  BY <1>1, HeadTailProperties
<1>4. ASSUME NEW i \in 1..Len(sendQueue), i # 1
      PROVE  i - 1 \in 1..Len(q) /\ q[i - 1] = sendQueue[i]
  <2>1. i - 1 \in 1..Len(q) /\ i - 1 + 1 = i
    BY <1>3, <1>4
  <2> QED
    BY <1>3, <2>1
<1>5. \A r : Queued(r) /\ r # Head(sendQueue) => \E i \in 1..Len(q) : q[i] = r
  BY <1>3, <1>4 DEF Queued
<1> QED
  BY <1>2, <1>5 DEF OnePlace

(* The same, when the head is popped.                                      *)
LEMMA HeadPopped ==
    ASSUME TypeOK, OnePlace, sendQueue # <<>>, sendQueue' = Tail(sendQueue)
    PROVE  /\ Head(sendQueue) \in Request /\ Queued(Head(sendQueue))
           /\ ~PendingSomewhere(Head(sendQueue))
           /\ \A r : Queued(r)' <=> Queued(r) /\ r # Head(sendQueue)
<1> DEFINE h == Head(sendQueue)
<1>1. /\ h \in Request /\ Queued(h) /\ ~PendingSomewhere(h)
      /\ \A r : (\E i \in 1..Len(sendQueue') : sendQueue'[i] = r) <=> Queued(r) /\ r # h
  BY HeadQueued
<1> HIDE DEF h
<1>2. \A r : Queued(r)' <=> \E i \in 1..Len(sendQueue') : sendQueue'[i] = r
  BY DEF Queued
<1>3. \A r : Queued(r)' <=> Queued(r) /\ r # h
  BY <1>1, <1>2
<1> QED
  BY <1>1, <1>3 DEF h

(* ProcessSendQueue                                                        *)
LEMMA SendQueuePromise ==
    ASSUME TypeOK, TypeOK', OnePlace, running, ProcessSendQueue
    PROVE  ServiceStep
<1> DEFINE h == Head(sendQueue)
<1>1. CASE SendQueueEmpty \/ SendQueueWaits
  <2>1. UNCHANGED <<conns, ready, sendQueue, submitted, callbacks, flags>>
    BY <1>1 DEF SendQueueEmpty, SendQueueWaits, links, requests
  <2>2. \A r \in Request : Waits(r)' <=> Waits(r)
    BY <2>1 DEF Waits, Queued, PendingSomewhere
  <2> QED
    BY <2>1, <2>2, QuietPromise
<1>2. CASE SendQueueSends
  <2>1. /\ sendQueue # <<>> /\ sendQueue' = Tail(sendQueue) /\ SendImmediate(h)
        /\ UNCHANGED <<ready, submitted, callbacks, flags>>
    BY <1>2 DEF SendQueueSends, AtSendQueue
  <2>2. FrontReady
    BY <1>2, Zenon DEF SendQueueSends, AtSendQueue
  <2>3. /\ h \in Request /\ Queued(h)
        /\ \A r : Queued(r)' <=> Queued(r) /\ r # h
    BY <2>1, HeadPopped
  <2>4. \A r : PendingSomewhere(r)' <=> PendingSomewhere(r) \/ r = h
    BY <2>1, <2>2, <2>3, PendingSent
  <2>5. \A r \in Request : Waits(r)' <=> Waits(r)
    BY <2>3, <2>4 DEF Waits
  <2> QED
    BY <2>1, <2>5, QuietPromise
<1>3. ASSUME sendQueue # <<>>, sendQueue' = Tail(sendQueue), UNCHANGED conns, Complete({h}),
             UNCHANGED <<ready, submitted, flags>>
      PROVE  ServiceStep
  <2>1. /\ h \in Request /\ Queued(h) /\ ~PendingSomewhere(h)
        /\ \A r : Queued(r)' <=> Queued(r) /\ r # h
    BY <1>3, HeadPopped
  <2> HIDE DEF h
  <2>2. \A r : PendingSomewhere(r)' <=> PendingSomewhere(r)
    BY <1>3 DEF PendingSomewhere
  <2>3. /\ \A r \in Request : Waits(r)' <=> Waits(r) /\ r \notin {h}
        /\ \A r \in {h} : Waits(r)
    BY <2>1, <2>2 DEF Waits
  <2>4. {h} \in SUBSET Request
    BY <2>1
  <2> QED
    BY <1>3, <2>3, <2>4, CompletedPromise
<1>4. CASE SendQueueExpires
  <2>1. /\ sendQueue # <<>> /\ sendQueue' = Tail(sendQueue) /\ UNCHANGED conns
        /\ Complete({h}) /\ UNCHANGED <<ready, submitted, flags>>
    BY <1>4 DEF SendQueueExpires, AtSendQueue, links
  <2> QED
    BY <1>3, <2>1
<1>5. CASE SendQueueDangles
  <2>1. /\ sendQueue # <<>> /\ Complete({h}) /\ UNCHANGED <<ready, submitted, flags>>
    BY <1>5 DEF SendQueueDangles, AtSendQueue
  <2>2. FrontReady
    BY <1>5, Zenon DEF SendQueueDangles, AtSendQueue
  <2>3. CASE sendQueue' = Tail(sendQueue) /\ UNCHANGED conns
    BY <1>3, <2>1, <2>3
  <2>4. CASE Len(sendQueue) > 1 /\ SendImmediate(h) /\ sendQueue' = Tail(Tail(sendQueue))
    <3> DEFINE q == Tail(sendQueue)
               s == Head(q)
    <3>1. /\ h \in Request /\ Queued(h) /\ ~PendingSomewhere(h)
          /\ \A r : (\E i \in 1..Len(q) : q[i] = r) <=> Queued(r) /\ r # h
      BY <2>1, HeadQueued
    <3>2. /\ q \in Seq(Request) /\ q # <<>>
          /\ Len(q) = Len(sendQueue) - 1
          /\ \A i \in 1..Len(q) : q[i] = sendQueue[i + 1]
      <4>1. sendQueue \in Seq(Request) /\ Len(sendQueue) \in Nat
        BY DEF TypeOK
      <4>2. q \in Seq(Request) /\ Len(q) = Len(sendQueue) - 1
            /\ \A i \in 1..Len(q) : q[i] = sendQueue[i + 1]
        BY <2>1, <4>1, HeadTailProperties
      <4> QED
        BY <2>4, <4>1, <4>2, EmptySeq
    <3> HIDE DEF q
    <3>3. /\ s = q[1] /\ s \in Request /\ 1 \in 1..Len(q)
          /\ Len(sendQueue') = Len(q) - 1
          /\ \A i \in 1..Len(sendQueue') : sendQueue'[i] = q[i + 1]
      BY <2>4, <3>2, HeadTailProperties DEF q
    <3>4. /\ \A r : Queued(r)' => \E i \in 1..Len(q) : q[i] = r /\ i # 1
          /\ \A r : (\E i \in 1..Len(q) : q[i] = r) => r = s \/ Queued(r)'
      <4>1. \A i \in 1..Len(sendQueue') : i + 1 \in 1..Len(q) /\ i + 1 # 1
        BY <3>2, <3>3
      <4>2. ASSUME NEW i \in 1..Len(q), i # 1
            PROVE  i - 1 \in 1..Len(sendQueue') /\ sendQueue'[i - 1] = q[i]
        <5>1. i - 1 \in 1..Len(sendQueue') /\ i - 1 + 1 = i
          BY <3>2, <3>3, <4>2
        <5> QED
          BY <3>3, <5>1
      <4> QED
        BY <3>3, <4>1, <4>2 DEF Queued
    <3>5. \A i \in 1..Len(q) : q[i] = s => i = 1
      <4> SUFFICES ASSUME NEW i \in 1..Len(q), q[i] = s PROVE i = 1
        OBVIOUS
      <4>1. Len(sendQueue) \in Nat
        BY DEF TypeOK
      <4>2. i + 1 \in 1..Len(sendQueue) /\ 1 + 1 \in 1..Len(sendQueue)
        BY <3>2, <3>3, <4>1
      <4>3. sendQueue[i + 1] = sendQueue[1 + 1]
        BY <3>2, <3>3
      <4>4. i + 1 = 1 + 1
        BY <4>2, <4>3 DEF OnePlace
      <4> QED
        BY <4>4
    <3>6. Queued(s) /\ s # h
      BY <3>1, <3>3
    <3>7. \A r : Queued(r)' <=> Queued(r) /\ r # h /\ r # s
      BY <3>1, <3>4, <3>5
    <3> HIDE DEF s, h
    <3>8. \A r : PendingSomewhere(r)' <=> PendingSomewhere(r) \/ r = h
      BY <2>2, <2>4, <3>1, PendingSent
    <3>9. \A r \in Request : Waits(r)' <=> Waits(r) /\ r # s
      BY <3>1, <3>6, <3>7, <3>8 DEF Waits, OnePlace
    <3>10. Waiting' = Waiting \ {s} /\ {h, s} \subseteq Waiting
      <4>1. \A r \in Request : r \in Waiting' <=> r \in Waiting \ {s}
        BY <3>9, WaitingWait
      <4>2. h \in Waiting /\ s \in Waiting
        BY <3>1, <3>3, <3>6, WaitingWait DEF Waits
      <4> QED
        BY <4>1, <4>2 DEF Waiting
    <3>11. callbacks' = [r \in Request |-> callbacks[r] + IF r \in {h} THEN 1 ELSE 0]
      BY <2>1 DEF Complete
    <3>12. Promise!Overtake(h, s)
      BY <2>1, <3>6, <3>10, <3>11
         DEF Promise!Overtake, Promise!Called, Promise!switches, flags, Waiting
    <3> QED
      BY <3>1, <3>3, <3>12 DEF ServiceStep, Promise!Next
  <2> QED
    BY <1>5, <2>3, <2>4 DEF SendQueueDangles
<1> QED
  BY <1>1, <1>2, <1>4, <1>5 DEF ProcessSendQueue

(* ProcessPendingQueue                                                     *)
LEMMA ExpirePromise ==
    ASSUME TypeOK, TypeOK', OnePlace, running, ExpirePending
    PROVE  ServiceStep
<1> DEFINE S == UNION {Overdue(conns[i]) : i \in 1..Len(conns)}
<1>0. Len(conns) \in Nat
  BY DEF TypeOK
<1>1. /\ conns' = [k \in 1..Len(conns) |->
                     [conns[k] EXCEPT !.pending = @ \ Overdue(conns[k])]]
      /\ Complete(S) /\ UNCHANGED <<ready, sendQueue, submitted, flags>>
  BY DEF ExpirePending
<1>2. Len(conns') = Len(conns)
  <2>1. DOMAIN conns' = DOMAIN conns
    BY <1>0, <1>1, LenProperties DEF TypeOK
  <2> QED
    BY <1>0, <2>1, AsManyConnections
<1>3. \A k \in 1..Len(conns) :
        /\ conns'[k].pending = conns[k].pending \ Overdue(conns[k])
        /\ conns[k].pending \subseteq Request
  <2> TAKE k \in 1..Len(conns)
  <2>1. conns[k] \in Connection
    BY <1>0 DEF TypeOK
  <2> QED
    BY <1>1, <2>1 DEF Connection
<1>4. \A k \in 1..Len(conns) : Overdue(conns[k]) \subseteq conns[k].pending
  BY DEF Overdue
<1>5. \A r : r \in S <=> \E k \in 1..Len(conns) : r \in Overdue(conns[k])
  OBVIOUS
<1> HIDE DEF S
<1>6. \A r \in S : PendingSomewhere(r) /\ ~Queued(r)
  BY <1>4, <1>5 DEF PendingSomewhere, OnePlace
<1>7. \A r : PendingSomewhere(r)' <=> PendingSomewhere(r) /\ r \notin S
  <2> SUFFICES ASSUME NEW r
               PROVE  PendingSomewhere(r)' <=> PendingSomewhere(r) /\ r \notin S
    OBVIOUS
  <2>1. ASSUME r \in S PROVE ~PendingSomewhere(r)'
    <3>1. PICK k \in 1..Len(conns) : r \in Overdue(conns[k])
      BY <1>5, <2>1
    <3>2. \A l \in 1..Len(conns) : r \in conns[l].pending => l = k
      BY <1>4, <3>1 DEF OnePlace
    <3>3. \A l \in 1..Len(conns) : r \notin conns'[l].pending
      BY <1>3, <3>1, <3>2
    <3> QED
      BY <1>2, <3>3 DEF PendingSomewhere
  <2>2. ASSUME r \notin S PROVE PendingSomewhere(r)' <=> PendingSomewhere(r)
    <3>1. \A k \in 1..Len(conns) : r \in conns'[k].pending <=> r \in conns[k].pending
      BY <1>3, <1>5, <2>2
    <3> QED
      BY <1>2, <3>1 DEF PendingSomewhere
  <2> QED
    BY <2>1, <2>2
<1>8. \A r : Queued(r)' <=> Queued(r)
  BY <1>1 DEF Queued
<1>9. \A r \in Request : Waits(r)' <=> Waits(r) /\ r \notin S
  BY <1>6, <1>7, <1>8 DEF Waits
<1>10. \A r \in S : Waits(r)
  BY <1>6 DEF Waits
<1>11. S \in SUBSET Request
  BY <1>3, <1>4, <1>5
<1> QED
  BY <1>1, <1>9, <1>10, <1>11, CompletedPromise

(* Every step of GSClient is a step of Service, or is not seen in it: with *)
(* all connections, redirects, deadlines, time-outs and late responses,    *)
(* the application's requests wait until they are called back or lost, and *)
(* the service is not available again before it reconnects.                *)
THEOREM ServiceImplemented == Spec => ImplementsService
<1>1. Init => Promise!Init /\ Working
  <2> SUFFICES ASSUME Init PROVE Promise!Init /\ Working
    OBVIOUS
  <2>1. Len(conns) = 1 /\ conns[1] = FreshConnection /\ sendQueue = <<>>
    BY DEF Init
  <2>2. \A r : ~Held(r)
    <3>1. \A r : ~PendingSomewhere(r)
      BY <2>1 DEF PendingSomewhere, FreshConnection
    <3>2. \A r : r \notin ToSet(sendQueue)
      BY <2>1 DEF ToSet
    <3> QED
      BY <3>1, <3>2 DEF Held
  <2> QED
    BY <2>2 DEF Init, Promise!Init, Working
<1>2. Inv /\ Inv' /\ RequestInv /\ Working /\ [Next]_vars => [Promise!Next]_(Promise!vars)
  <2> SUFFICES ASSUME Inv, Inv', RequestInv, Working, [Next]_vars PROVE ServiceStep
    BY DEF ServiceStep
  <2>0. TypeOK /\ TypeOK' /\ OnePlace
    BY DEF Inv, RequestInv
  <2>1. CASE Application
    BY <2>0, <2>1, ApplicationPromise
  <2>2. CASE UpdateBegin \/ UNCHANGED vars
    <3>1. UNCHANGED <<Promise!switches, ready, Promise!account>>
      BY <2>2 DEF UpdateBegin, vars, links, requests, flags, Promise!switches,
                  Promise!account, Held, PendingSomewhere
    <3> QED
      BY <3>1 DEF ServiceStep, Promise!vars
  <2>3. CASE UpdateConnections
    BY <2>0, <2>3, UpdateConnectionsPromise
  <2>4. CASE ConnectIfRequired
    <3>1. running /\ UNCHANGED <<requests, flags>> /\ ConnectionsKept
          /\ ready' \in {ready, FALSE}
      BY <2>4 DEF ConnectIfRequired, NewConnection, links, ConnectionsKept, Working
    <3>2. \A r \in Request : Waits(r)' <=> Waits(r)
      BY <2>0, <3>1, WaitsKept DEF requests
    <3> QED
      BY <2>0, <3>1, <3>2, QuietPromise DEF requests
  <2>5. CASE TrimOldConnections \/ ProcessSendQueue \/ ExpirePending
    <3>1. running
      BY <2>5 DEF TrimOldConnections, TrimKeep, TrimDelete, EndTrim, At, AtEnd, Working,
             ProcessSendQueue, SendQueueEmpty, SendQueueWaits, SendQueueSends,
             SendQueueExpires, SendQueueDangles, AtSendQueue, ExpirePending
    <3>2. CASE TrimKeep \/ EndTrim
      <4>1. UNCHANGED <<links, requests, flags>>
        BY <3>2 DEF TrimKeep, EndTrim
      <4>2. UNCHANGED <<Promise!switches, ready, Promise!account>>
        BY <4>1 DEF links, requests, flags, Promise!switches, Promise!account, Held,
                    PendingSomewhere
      <4> QED
        BY <4>2 DEF ServiceStep, Promise!vars
    <3> QED
      BY <2>0, <2>5, <3>1, <3>2, TrimPromise, SendQueuePromise, ExpirePromise
         DEF TrimOldConnections
  <2> QED
    BY <2>1, <2>2, <2>3, <2>4, <2>5 DEF Next, Update
<1>3. Working /\ [Next]_vars => Working'
  BY WorkingKept
<1>4. Inv /\ RequestInv /\ [Next]_vars => RequestInv'
  BY RequestsStep
<1>5. Init => RequestInv
  BY RequestsInit
<1> QED
  BY <1>1, <1>2, <1>3, <1>4, <1>5, InvAlways, PTL
     DEF Spec, ImplementsService, Promise!Spec

-----------------------------------------------------------------------------
(* The connections as the durable requests see them                        *)

Step == Durable!Connections \/ UNCHANGED Durable!vars

LEMMA SeenFields ==
    ASSUME NEW c \in Connection
    PROVE  /\ Seen(c) \in Durable!Connection
           /\ GetReady(c) \in BOOLEAN
           /\ Seen(c).ready = GetReady(c) /\ Seen(c).stopped = c.stopped
           /\ Seen(c).pending = {}
<1>1. GetReady(c) \in BOOLEAN /\ c.stopped \in BOOLEAN
  BY DEF GetReady, Connection
<1> QED
  BY <1>1 DEF Seen, Durable!Connection

(* Two views that differ where they are said to.                           *)
LEMMA SeenRecords ==
    ASSUME NEW c \in Durable!Connection, NEW d \in Durable!Connection,
           d.pending = c.pending
    PROVE  /\ d.ready = c.ready /\ d.stopped = TRUE => d = [c EXCEPT !.stopped = TRUE]
           /\ d.ready = TRUE /\ d.stopped = c.stopped => d = [c EXCEPT !.ready = TRUE]
           /\ d.ready = FALSE /\ d.stopped = c.stopped => d = [c EXCEPT !.ready = FALSE]
           /\ d.ready = FALSE /\ d.stopped = TRUE
                => d = [c EXCEPT !.ready = FALSE, !.stopped = TRUE]
BY DEF Durable!Connection

(* Nothing but the connections is seen to change.                          *)
LEMMA OnlyConnections ==
    /\ UNCHANGED Durable!Unrelated
    /\ UNCHANGED SeenConnections => UNCHANGED Durable!vars
BY DEF Durable!Unrelated, Durable!history, Durable!vars

LEMMA SeenTypes ==
    ASSUME conns \in Seq(Connection)
    PROVE  /\ SeenConnections \in Seq(Durable!Connection)
           /\ Len(SeenConnections) = Len(conns)
           /\ \A i \in 1..Len(conns) : SeenConnections[i] = Seen(conns[i])
<1>1. ASSUME NEW i \in 1..Len(conns) PROVE Seen(conns[i]) \in Durable!Connection
  <2>1. conns[i] \in Connection
    OBVIOUS
  <2> QED
    BY <2>1, SeenFields
<1>2. SeenConnections \in [1..Len(conns) -> Durable!Connection] /\ Len(conns) \in Nat
  BY <1>1 DEF SeenConnections
<1> QED
  BY <1>2, FunctionIsSeq DEF SeenConnections

(* One connection changes and the others do not.                           *)
LEMMA SeenChanges ==
    ASSUME TypeOK, NEW i \in 1..Len(conns), NEW d \in Connection,
           conns' = [conns EXCEPT ![i] = d]
    PROVE  SeenConnections' = [SeenConnections EXCEPT ![i] = Seen(d)]
<1>1. /\ conns' \in Seq(Connection) /\ Len(conns') = Len(conns)
      /\ \A j \in 1..Len(conns) : conns'[j] = IF j = i THEN d ELSE conns[j]
  BY OneConnectionChanges DEF TypeOK
<1>2. SeenConnections' = [j \in 1..Len(conns) |-> Seen(conns'[j])]
  BY <1>1 DEF SeenConnections, Seen, GetReady
<1>3. \A j \in 1..Len(conns) : Seen(conns'[j]) = IF j = i THEN Seen(d) ELSE Seen(conns[j])
  BY <1>1
<1>4. /\ SeenConnections = [j \in 1..Len(conns) |-> Seen(conns[j])]
      /\ [SeenConnections EXCEPT ![i] = Seen(d)]
           = [j \in 1..Len(conns) |-> IF j = i THEN Seen(d) ELSE Seen(conns[j])]
  BY DEF SeenConnections
<1> QED
  BY ONLY <1>2, <1>3, <1>4

(* The ways in which one connection may change.                            *)
LEMMA OneSeen ==
    ASSUME TypeOK, NEW i \in 1..Len(conns), NEW d \in Connection,
           conns' = [conns EXCEPT ![i] = d],
           \/ Seen(d) = Seen(conns[i])
           \/ ~GetReady(d) /\ d.stopped
           \/ /\ ~GetReady(conns[i]) /\ GetReady(d)
              /\ d.stopped = conns[i].stopped
           \/ /\ i = 1 /\ GetReady(conns[1]) /\ ~GetReady(d)
              /\ ~conns[1].stopped /\ ~d.stopped
    PROVE  Step
<1> DEFINE s == SeenConnections
<1>1. /\ s \in Seq(Durable!Connection) /\ Len(s) = Len(conns) /\ Len(conns) \in Nat
      /\ \A j \in 1..Len(conns) : s[j] = Seen(conns[j])
  BY SeenTypes DEF TypeOK
<1>2. s' = [s EXCEPT ![i] = Seen(d)]
  BY SeenChanges
<1>3. s[i] = Seen(conns[i]) /\ s # <<>>
  BY <1>1
<1>4. conns[i] \in Connection
  BY DEF TypeOK
<1>0. /\ Seen(d) \in Durable!Connection /\ s[i] \in Durable!Connection
      /\ Seen(d).ready = GetReady(d) /\ s[i].ready = GetReady(conns[i])
      /\ Seen(d).stopped = d.stopped /\ s[i].stopped = conns[i].stopped
      /\ Seen(d).pending = s[i].pending
      /\ GetReady(d) \in BOOLEAN /\ d.stopped \in BOOLEAN
      /\ conns[i].stopped \in BOOLEAN
  BY <1>3, <1>4, SeenFields DEF Connection
<1>5. i \in 1..Len(s)
  BY <1>1
<1>6. CASE Seen(d) = Seen(conns[i])
  <2>1. s' = s
    BY <1>1, <1>2, <1>3, <1>5, <1>6
  <2> QED
    BY <2>1, OnlyConnections DEF Step
<1>7. CASE ~GetReady(d) /\ d.stopped
  <2>1. Seen(d) = [s[i] EXCEPT !.ready = FALSE, !.stopped = TRUE]
    <3>1. Seen(d).ready = FALSE /\ Seen(d).stopped = TRUE
      BY <1>0, <1>7
    <3> QED
      BY ONLY <1>0, <3>1, SeenRecords, Zenon
  <2>2. Durable!SocketClosed(i)
    BY <1>2, <2>1, OnlyConnections DEF Durable!SocketClosed
  <2> QED
    BY <1>5, <2>2 DEF Step, Durable!Connections
<1>8. CASE /\ ~GetReady(conns[i]) /\ GetReady(d)
           /\ d.stopped = conns[i].stopped
  <2>1. /\ Seen(d).ready = TRUE /\ Seen(d).stopped = s[i].stopped
        /\ ~s[i].ready
    BY <1>0, <1>8
  <2>2. Seen(d) = [s[i] EXCEPT !.ready = TRUE]
    BY ONLY <1>0, <2>1, SeenRecords, Zenon
  <2>3. Durable!ConnectionReady(i)
    BY <1>2, <2>1, <2>2, OnlyConnections DEF Durable!ConnectionReady
  <2> QED
    BY <1>5, <2>3 DEF Step, Durable!Connections
<1>9. CASE /\ i = 1 /\ GetReady(conns[1]) /\ ~GetReady(d)
           /\ ~conns[1].stopped /\ ~d.stopped
  <2>1. Seen(d) = [s[1] EXCEPT !.ready = FALSE] /\ s[1].ready /\ ~s[1].stopped
    <3>1. /\ Seen(d).ready = FALSE /\ Seen(d).stopped = s[i].stopped
          /\ i = 1 /\ s[i].ready /\ ~s[i].stopped
      BY <1>0, <1>9
    <3>2. Seen(d) = [s[i] EXCEPT !.ready = FALSE]
      BY ONLY <1>0, <3>1, SeenRecords, Zenon
    <3> QED
      BY <3>1, <3>2
  <2>2. Durable!CloseFrame
    BY <1>2, <1>3, <1>9, <2>1, OnlyConnections DEF Durable!CloseFrame
  <2> QED
    BY <2>2 DEF Step, Durable!Connections
<1> QED
  BY <1>6, <1>7, <1>8, <1>9

(* NewConnection: the old connections are stopped and shifted.             *)
LEMMA NewSeen ==
    ASSUME TypeOK, NewConnection(FALSE), Len(conns) < Cardinality(Request) + 3
    PROVE  Step
<1> DEFINE s == SeenConnections
           old == [i \in 1..Len(s) |-> [s[i] EXCEPT !.stopped = TRUE]]
<1>1. /\ s \in Seq(Durable!Connection) /\ Len(s) = Len(conns) /\ Len(conns) \in Nat
      /\ \A j \in 1..Len(conns) : s[j] = Seen(conns[j])
  BY SeenTypes DEF TypeOK
<1>2. /\ conns' \in Seq(Connection) /\ Len(conns') = Len(conns) + 1
      /\ conns'[1] = FreshConnection
      /\ \A i \in 2..Len(conns) + 1 :
           conns'[i] = [conns[i - 1] EXCEPT !.stopped = TRUE]
  BY NewConnectionIsFront DEF TypeOK
<1>3. /\ s' \in Seq(Durable!Connection) /\ Len(s') = Len(conns')
      /\ \A j \in 1..Len(conns') : s'[j] = Seen(conns'[j])
  <2>1. s' = [i \in 1..Len(conns') |-> Seen(conns'[i])]
    BY DEF SeenConnections, Seen, GetReady
  <2>2. ASSUME NEW i \in 1..Len(conns') PROVE Seen(conns'[i]) \in Durable!Connection
    <3>1. conns'[i] \in Connection
      BY <1>2
    <3> QED
      BY <3>1, SeenFields
  <2>3. s' \in [1..Len(conns') -> Durable!Connection] /\ Len(conns') \in Nat
    BY <1>2, <2>1, <2>2
  <2> HIDE DEF s
  <2> QED
    BY <2>1, <2>3, FunctionIsSeq
<1>4. /\ old \in Seq(Durable!Connection) /\ Len(old) = Len(s)
      /\ \A i \in 1..Len(s) : old[i] = [s[i] EXCEPT !.stopped = TRUE]
  <2>1. ASSUME NEW i \in 1..Len(s)
        PROVE  [s[i] EXCEPT !.stopped = TRUE] \in Durable!Connection
    <3>1. s[i] \in Durable!Connection
      BY <1>1
    <3> HIDE DEF s
    <3> QED
      BY <3>1 DEF Durable!Connection
  <2>2. old \in [1..Len(s) -> Durable!Connection]
    BY <2>1
  <2> QED
    BY <1>1, <2>2, FunctionIsSeq
<1>5. Durable!FreshConnection = Seen(FreshConnection)
      /\ Durable!FreshConnection \in Durable!Connection
  BY DEF Durable!FreshConnection, FreshConnection, Seen, GetReady, Durable!Connection
<1> DEFINE new == <<Durable!FreshConnection>> \o old
<1>6. /\ new \in Seq(Durable!Connection) /\ Len(new) = Len(old) + 1
      /\ new[1] = Durable!FreshConnection
      /\ \A i \in 2..Len(old) + 1 : new[i] = old[i - 1]
  <2> HIDE DEF old
  <2> QED
    BY <1>4, <1>5, Prepended
<1>7. ASSUME NEW i \in 1..Len(s) + 1 PROVE s'[i] = new[i]
  <2>1. CASE i = 1
    BY <1>1, <1>2, <1>3, <1>5, <1>6, <2>1
  <2>2. CASE i # 1
    <3>1. /\ i \in 2..Len(conns) + 1 /\ i - 1 \in 1..Len(conns)
          /\ i \in 2..Len(old) + 1 /\ i \in 1..Len(conns')
      BY <1>1, <1>2, <1>4, <2>2
    <3>2. conns[i - 1] \in Connection
      BY <3>1 DEF TypeOK
    <3>3. Seen(conns'[i]) = [Seen(conns[i - 1]) EXCEPT !.stopped = TRUE]
      <4>1. conns'[i] = [conns[i - 1] EXCEPT !.stopped = TRUE]
        BY <1>2, <3>1
      <4>2. /\ conns'[i].ws = conns[i - 1].ws /\ conns'[i].stopped = TRUE
            /\ conns'[i].handshaken = conns[i - 1].handshaken
        BY <3>2, <4>1 DEF Connection
      <4>3. GetReady(conns'[i]) = GetReady(conns[i - 1])
        BY <4>2 DEF GetReady
      <4>4. conns'[i] \in Connection
        BY <1>2, <3>1
      <4>5. /\ Seen(conns'[i]).ready = Seen(conns[i - 1]).ready
            /\ Seen(conns'[i]).stopped = TRUE
            /\ Seen(conns'[i]).pending = Seen(conns[i - 1]).pending
            /\ Seen(conns'[i]) \in Durable!Connection
            /\ Seen(conns[i - 1]) \in Durable!Connection
        BY <3>2, <4>2, <4>3, <4>4, SeenFields
      <4> QED
        BY ONLY <4>5, SeenRecords, Zenon
    <3>4. s'[i] = [s[i - 1] EXCEPT !.stopped = TRUE]
      BY <1>1, <1>3, <3>1, <3>3
    <3>5. new[i] = [s[i - 1] EXCEPT !.stopped = TRUE]
      BY <1>1, <1>4, <1>6, <3>1
    <3> QED
      BY <3>4, <3>5
  <2> QED
    BY <2>1, <2>2
<1>8. s' = new
  <2>1. Len(s') = Len(new) /\ Len(new) = Len(s) + 1
    BY <1>1, <1>2, <1>3, <1>4, <1>6
  <2> HIDE DEF s, new
  <2> QED
    BY <1>3, <1>6, <1>7, <2>1, SeqEqual
<1>9. Durable!NewConnection
  BY <1>1, <1>8, OnlyConnections DEF Durable!NewConnection
<1> QED
  BY <1>9 DEF Step, Durable!Connections

(* Disconnect stops the front; the others are stopped already.             *)
LEMMA StopSeen ==
    ASSUME TypeOK, OneLiveConnection, conns' = StopAll
    PROVE  Step
<1>1. /\ Len(conns) \in Nat
      /\ \A i \in 1..Len(conns) : conns[i] \in Connection
      /\ Len(StopAll) = Len(conns)
      /\ \A i \in 1..Len(conns) : StopAll[i] = [conns[i] EXCEPT !.stopped = TRUE]
  BY StopAllStops DEF TypeOK
<1>2. ASSUME NEW i \in 1..Len(conns), conns[i].stopped PROVE StopAll[i] = conns[i]
  <2>1. conns[i] \in Connection /\ StopAll[i] = [conns[i] EXCEPT !.stopped = TRUE]
    BY <1>1
  <2> QED
    BY <1>2, <2>1 DEF Connection
<1>3. StopAll = [i \in 1..Len(conns) |-> StopAll[i]]
  BY DEF StopAll
<1>4. conns = [i \in 1..Len(conns) |-> conns[i]]
  BY DEF TypeOK
<1>5. CASE conns = <<>> \/ conns[1].stopped
  <2>1. \A i \in 1..Len(conns) : conns[i].stopped
    BY <1>1, <1>5, EmptySeq DEF OneLiveConnection, TypeOK
  <2>2. StopAll = conns
    BY <1>2, <1>3, <1>4, <2>1
  <2>3. SeenConnections' = SeenConnections
    BY <2>2 DEF SeenConnections, Seen, GetReady
  <2> QED
    BY <2>3, OnlyConnections DEF Step
<1>6. CASE conns # <<>> /\ ~conns[1].stopped
  <2> DEFINE d == [conns[1] EXCEPT !.stopped = TRUE]
             s == SeenConnections
  <2>1. 1 \in 1..Len(conns) /\ conns[1] \in Connection
    BY <1>1, <1>6, EmptySeq DEF TypeOK
  <2>2. d \in Connection /\ d.stopped = TRUE /\ GetReady(d) = GetReady(conns[1])
    BY <2>1 DEF Connection, GetReady
  <2>3. \A i \in 1..Len(conns) : StopAll[i] = IF i = 1 THEN d ELSE conns[i]
    BY <1>1, <1>2 DEF OneLiveConnection
  <2>4. [conns EXCEPT ![1] = d] = [i \in 1..Len(conns) |-> IF i = 1 THEN d ELSE conns[i]]
    BY <1>4
  <2> HIDE DEF d
  <2>5. conns' = [conns EXCEPT ![1] = d]
    BY <1>3, <2>3, <2>4
  <2>6. s' = [s EXCEPT ![1] = Seen(d)]
    BY <2>1, <2>2, <2>5, SeenChanges
  <2>7. s[1] = Seen(conns[1]) /\ s # <<>> /\ ~s[1].stopped
    <3>1. Len(s) = Len(conns) /\ s[1] = Seen(conns[1])
      BY <2>1, SeenTypes DEF TypeOK
    <3> QED
      BY <1>6, <2>1, <3>1, SeenFields
  <2>8. Seen(d) = [s[1] EXCEPT !.stopped = TRUE]
    <3>1. /\ Seen(d) \in Durable!Connection /\ s[1] \in Durable!Connection
          /\ Seen(d).ready = s[1].ready /\ Seen(d).stopped = TRUE
          /\ Seen(d).pending = s[1].pending
      BY <2>1, <2>2, <2>7, SeenFields
    <3> QED
      BY ONLY <3>1, SeenRecords, Zenon
  <2>9. Durable!Disconnect
    BY <2>6, <2>7, <2>8, OnlyConnections DEF Durable!Disconnect
  <2> QED
    BY <2>9 DEF Step, Durable!Connections
<1> QED
  BY <1>5, <1>6

(* ShutDown                                                                *)
LEMMA ShutDownSeen ==
    ASSUME TypeOK, ShutDown
    PROVE  Step
<1> DEFINE s == SeenConnections
           d(i) == [conns[i] EXCEPT !.stopped = TRUE, !.ws = "none"]
<1>1. /\ Len(s) = Len(conns) /\ Len(conns) \in Nat
      /\ \A i \in 1..Len(conns) : s[i] = Seen(conns[i]) /\ conns[i] \in Connection
  BY SeenTypes DEF TypeOK
<1>2. ASSUME NEW i \in 1..Len(conns)
      PROVE  /\ d(i) \in Connection
             /\ Seen(d(i)) = [s[i] EXCEPT !.ready = FALSE, !.stopped = TRUE]
  <2>1. d(i) \in Connection /\ d(i).ws = "none" /\ d(i).stopped = TRUE
    BY <1>1 DEF Connection, WSState
  <2>2. GetReady(d(i)) = FALSE
    BY <2>1 DEF GetReady
  <2> HIDE DEF d
  <2>3. /\ Seen(d(i)) \in Durable!Connection /\ s[i] \in Durable!Connection
        /\ Seen(d(i)).ready = FALSE /\ Seen(d(i)).stopped = TRUE
        /\ Seen(d(i)).pending = s[i].pending
    BY <1>1, <2>1, <2>2, SeenFields
  <2>4. Seen(d(i)) = [s[i] EXCEPT !.ready = FALSE, !.stopped = TRUE]
    BY ONLY <2>3, SeenRecords, Zenon
  <2> QED
    BY <2>1, <2>4
<1>3. /\ Len(conns') = Len(conns)
      /\ \A i \in 1..Len(conns) : conns'[i] = d(i)
  <2>1. conns' = [i \in 1..Len(conns) |-> d(i)]
    BY DEF ShutDown
  <2>2. conns' \in [1..Len(conns) -> Connection]
    BY <1>2, <2>1
  <2>3. Len(conns) \in Nat
    BY <1>1
  <2>4. Len(conns') = Len(conns)
    BY <2>2, <2>3, FunctionIsSeq
  <2> QED
    BY <2>1, <2>4
<1>4. s' = [i \in 1..Len(conns') |-> Seen(conns'[i])]
  BY DEF SeenConnections, Seen, GetReady
<1>5. s' = [i \in 1..Len(s) |-> [s[i] EXCEPT !.ready = FALSE, !.stopped = TRUE]]
  <2> HIDE DEF s, d
  <2> QED
    BY <1>1, <1>2, <1>3, <1>4
<1>6. Durable!ShutDown
  BY <1>5, OnlyConnections DEF Durable!ShutDown
<1> QED
  BY <1>6 DEF Step, Durable!Connections

(* TrimDelete                                                              *)
LEMMA DeletedSeen ==
    ASSUME TypeOK, NEW i \in 1..Len(conns), ToBeDeleted(conns[i]),
           conns' = RemoveAt(conns, i)
    PROVE  Step
<1> DEFINE s == SeenConnections
<1>1. /\ s \in Seq(Durable!Connection) /\ Len(s) = Len(conns) /\ Len(conns) \in Nat
      /\ \A j \in 1..Len(conns) : s[j] = Seen(conns[j]) /\ conns[j] \in Connection
  BY SeenTypes DEF TypeOK
<1>2. /\ conns' \in Seq(Connection) /\ Len(conns') = Len(conns) - 1
      /\ \A j \in 1..Len(conns) - 1 :
           conns'[j] = IF j < i THEN conns[j] ELSE conns[j + 1]
  BY Removed DEF TypeOK
<1>3. s' = [j \in 1..Len(conns') |-> Seen(conns'[j])]
  BY DEF SeenConnections, Seen, GetReady
<1> HIDE DEF s
<1> DEFINE cut == RemoveAt(s, i)
<1>4. /\ cut \in Seq(Durable!Connection) /\ Len(cut) = Len(s) - 1
      /\ \A j \in 1..Len(s) - 1 : cut[j] = IF j < i THEN s[j] ELSE s[j + 1]
  <2>1. i \in 1..Len(s)
    BY <1>1
  <2> QED
    BY <1>1, <2>1, Removed
<1> HIDE DEF cut
<1>5. ASSUME NEW j \in 1..Len(conns) - 1 PROVE Seen(conns'[j]) = cut[j]
  <2>1. j \in 1..Len(conns) /\ j + 1 \in 1..Len(conns)
    BY <1>1
  <2> QED
    BY <1>1, <1>2, <1>4, <2>1
<1>6. s' = cut
  <2>1. cut = [j \in 1..Len(conns) - 1 |-> cut[j]]
    BY <1>1, <1>4
  <2> QED
    BY <1>2, <1>3, <1>5, <2>1
<1>7. ~s[i].ready \/ (s[i].stopped /\ s[i].pending = {})
  BY <1>1, SeenFields DEF ToBeDeleted
<1>8. cut = Durable!RemoveAt(s, i)
  BY DEF cut, RemoveAt, Durable!RemoveAt
<1>9. Durable!DeleteConnection(i)
  BY <1>6, <1>7, <1>8, OnlyConnections DEF Durable!DeleteConnection, s
<1>10. i \in 1..Len(s)
  BY <1>1
<1> QED
  BY <1>9, <1>10 DEF Step, Durable!Connections, s

-----------------------------------------------------------------------------
(* Every step of GSClient is one of DurableQueue's Connections, or unseen  *)

(* A connection's handshake is answered after its websocket has opened.    *)
Shaken == \A i \in 1..Len(conns) : conns[i].handshaken => conns[i].ws # "connecting"

LEMMA ShakenInit == Init => Shaken /\ Durable!Init
<1> SUFFICES ASSUME Init PROVE Shaken /\ Durable!Init
  OBVIOUS
<1>1. conns = <<FreshConnection>> /\ Len(conns) = 1 /\ conns[1] = FreshConnection
  BY DEF Init
<1>2. Shaken
  BY <1>1 DEF Shaken, FreshConnection
<1>3. Seen(FreshConnection) = Durable!FreshConnection
  BY DEF Durable!FreshConnection, FreshConnection, Seen, GetReady
<1>4. SeenConnections = <<Durable!FreshConnection>>
  <2>1. SeenConnections = [i \in 1..1 |-> Durable!FreshConnection]
    BY <1>1, <1>3 DEF SeenConnections
  <2> QED
    BY <2>1
<1> QED
  BY <1>2, <1>4 DEF Durable!Init

LEMMA SameSeen == conns' = conns => Step
BY OnlyConnections DEF Step, SeenConnections, Seen, GetReady

(* One connection changes, and is shaken after the step if it was before.  *)
LEMMA OneStep ==
    ASSUME TypeOK, Shaken, NEW i \in 1..Len(conns), NEW d \in Connection,
           conns' = [conns EXCEPT ![i] = d],
           d.handshaken => d.ws # "connecting",
           \/ Seen(d) = Seen(conns[i])
           \/ ~GetReady(d) /\ d.stopped
           \/ /\ ~GetReady(conns[i]) /\ GetReady(d)
              /\ d.stopped = conns[i].stopped
           \/ /\ i = 1 /\ GetReady(conns[1]) /\ ~GetReady(d)
              /\ ~conns[1].stopped /\ ~d.stopped
    PROVE  Step /\ Shaken'
<1>1. Step
  BY OneSeen
<1>2. /\ Len(conns') = Len(conns)
      /\ \A j \in 1..Len(conns) : conns'[j] = IF j = i THEN d ELSE conns[j]
  BY OneConnectionChanges DEF TypeOK
<1>3. Shaken'
  BY <1>2 DEF Shaken
<1> QED
  BY <1>1, <1>3

(* NewConnection, wherever it is called.                                   *)
LEMMA NewStep ==
    ASSUME TypeOK, Shaken, NewConnection(FALSE), IsFiniteSet(Request),
           ConnectionsBounded'
    PROVE  Step /\ Shaken'
<1>1. /\ Len(conns') = Len(conns) + 1 /\ conns'[1] = FreshConnection
      /\ \A i \in 2..Len(conns) + 1 :
           conns'[i] = [conns[i - 1] EXCEPT !.stopped = TRUE]
      /\ Len(conns) \in Nat /\ Cardinality(Request) \in Nat
  <2>1. conns \in Seq(Connection) /\ Len(conns) \in Nat
    BY DEF TypeOK
  <2>2. Cardinality(Request) \in Nat
    BY FS_CardinalityType
  <2> QED
    BY <2>1, <2>2, NewConnectionIsFront
<1>2. Len(conns) < Cardinality(Request) + 3
  BY <1>1 DEF ConnectionsBounded
<1>3. ASSUME NEW i \in 1..Len(conns'), conns'[i].handshaken
      PROVE  conns'[i].ws # "connecting"
  <2>1. i # 1
    BY <1>1, <1>3 DEF FreshConnection
  <2>2. i \in 2..Len(conns) + 1 /\ i - 1 \in 1..Len(conns)
    BY <1>1, <2>1
  <2>3. conns[i - 1] \in Connection /\ conns'[i] = [conns[i - 1] EXCEPT !.stopped = TRUE]
    <3>1. conns[i - 1] \in Connection
      BY <2>2 DEF TypeOK
    <3> QED
      BY <1>1, <2>2, <3>1
  <2>4. conns'[i].handshaken = conns[i - 1].handshaken /\ conns'[i].ws = conns[i - 1].ws
    BY <2>3 DEF Connection
  <2> QED
    BY <1>3, <2>2, <2>4 DEF Shaken
<1> QED
  BY <1>2, <1>3, NewSeen DEF Shaken

LEMMA StopStep ==
    ASSUME TypeOK, OneLiveConnection, Shaken, conns' = StopAll
    PROVE  Step /\ Shaken'
<1>1. /\ Len(conns') = Len(conns)
      /\ \A i \in 1..Len(conns) : conns'[i] = [conns[i] EXCEPT !.stopped = TRUE]
  BY StopAllStops DEF TypeOK
<1>2. ASSUME NEW i \in 1..Len(conns)
      PROVE  conns'[i].handshaken => conns'[i].ws # "connecting"
  <2>1. conns[i] \in Connection
    BY DEF TypeOK
  <2>2. conns'[i].handshaken = conns[i].handshaken /\ conns'[i].ws = conns[i].ws
    BY <1>1, <2>1 DEF Connection
  <2> QED
    BY <2>2 DEF Shaken
<1> QED
  BY <1>1, <1>2, StopSeen DEF Shaken

(* SendImmediate: the requests a connection has pending or sent are not    *)
(* seen.                                                                   *)
LEMMA SendStep ==
    ASSUME TypeOK, Shaken, NEW r \in Request, FrontReady, SendImmediate(r)
    PROVE  Step /\ Shaken'
<1> DEFINE d == [conns[1] EXCEPT !.pending = @ \cup {r}, !.sent = @ \cup {r}]
<1>1. 1 \in 1..Len(conns) /\ conns[1] \in Connection
  BY DEF FrontReady, TypeOK
<1>2. /\ d.ws = conns[1].ws /\ d.handshaken = conns[1].handshaken
      /\ d.stopped = conns[1].stopped /\ d \in Connection
  BY <1>1 DEF Connection
<1>3. conns' = [conns EXCEPT ![1] = d]
  BY <1>1 DEF SendImmediate
<1> HIDE DEF d
<1>4. Seen(d) = Seen(conns[1]) /\ (d.handshaken => d.ws # "connecting")
  BY <1>1, <1>2 DEF Seen, GetReady, Shaken
<1> QED
  BY <1>1, <1>2, <1>3, <1>4, OneStep

LEMMA StepApplication ==
    ASSUME Inv, Shaken, IsFiniteSet(Request), ConnectionsBounded', Application
    PROVE  Step /\ Shaken'
<1>0. TypeOK /\ OneLiveConnection
  BY DEF Inv, Running
<1>1. CASE conns' = conns
  BY <1>1, SameSeen DEF Shaken
<1>2. CASE NewConnection(FALSE)
  BY <1>0, <1>2, NewStep
<1>3. CASE conns' = StopAll
  BY <1>0, <1>3, StopStep
<1>4. CASE \E r \in Request : Send(r)
  <2>1. PICK r \in Request : Send(r)
    BY <1>4
  <2>2. CASE FrontReady
    BY <1>0, <2>1, <2>2, SendStep DEF Send
  <2>3. CASE ~FrontReady
    BY <1>1, <1>2, <2>1, <2>3 DEF Send, NewConnection, links
  <2> QED
    BY <2>2, <2>3
<1>5. CASE Disconnect \/ Reconnect \/ Reset
  BY <1>1, <1>2, <1>3, <1>5 DEF Disconnect, Reconnect, Reset, NewConnection, links
<1>6. CASE ShutDown
  <2>1. Step
    BY <1>0, <1>6, ShutDownSeen
  <2>2. /\ conns' = [i \in 1..Len(conns) |->
                       [conns[i] EXCEPT !.stopped = TRUE, !.ws = "none"]]
        /\ Len(conns) \in Nat
    <3>1. Len(conns) \in Nat
      BY <1>0 DEF TypeOK
    <3> QED
      BY <1>6, <3>1 DEF ShutDown
  <2>3. ASSUME NEW i \in 1..Len(conns)
        PROVE  conns'[i] \in Connection /\ conns'[i].ws = "none"
    <3>1. conns[i] \in Connection
      BY <1>0 DEF TypeOK
    <3> QED
      BY <2>2, <3>1 DEF Connection, WSState
  <2>4. Len(conns') = Len(conns)
    <3>1. conns' \in [1..Len(conns) -> Connection]
      BY <2>2, <2>3
    <3> QED
      BY <2>2, <3>1, FunctionIsSeq
  <2>5. Shaken'
    BY <2>3, <2>4 DEF Shaken
  <2> QED
    BY <2>1, <2>5
<1> QED
  BY <1>4, <1>5, <1>6 DEF Application

(* Polling and dispatching: at the front, at old connections that their    *)
(* sockets close, and at the one a redirecting frame came by.              *)
LEMMA StepUpdateConnections ==
    ASSUME Inv, Shaken, IsFiniteSet(Request), ConnectionsBounded', UpdateConnections
    PROVE  Step /\ Shaken'
<1>0. TypeOK
  BY DEF Inv
<1>a. \A ph : At(ph) => cursor \in 1..Len(conns) /\ Current \in Connection
  BY <1>0 DEF At, TypeOK, Current
<1>b. Dispatching => Current.ws \in {"open", "closing"}
  BY DEF Dispatching, At, Inv, Running, DispatchesRunning
<1>c. At("dispatch") => cursor = 1 /\ ~Current.stopped
  <2> SUFFICES ASSUME At("dispatch") PROVE cursor = 1 /\ ~Current.stopped
    OBVIOUS
  <2>1. ~Current.stopped
    BY DEF At, Inv, Running, DispatchesRunning
  <2>2. cursor \in 1..Len(conns) /\ cursor \notin 2..Len(conns)
    BY <1>a, <2>1 DEF Inv, Running, OneLiveConnection, Current
  <2> QED
    BY <1>0, <2>1, <2>2 DEF TypeOK
<1>1. CASE conns' = conns
  BY <1>1, SameSeen DEF Shaken
<1>2. ASSUME cursor \in 1..Len(conns), NEW d \in Connection,
             conns' = [conns EXCEPT ![cursor] = d],
             d.handshaken => d.ws # "connecting",
             \/ GetReady(d) = GetReady(Current) /\ d.stopped = Current.stopped
             \/ ~GetReady(d) /\ d.stopped
             \/ /\ d.stopped = Current.stopped
                /\ \/ ~GetReady(Current) /\ GetReady(d)
                   \/ /\ GetReady(Current) /\ ~GetReady(d)
                      /\ cursor = 1 /\ ~Current.stopped
      PROVE  Step /\ Shaken'
  BY <1>0, <1>2, OneStep DEF Seen, Current
<1>3. CASE EndConnections \/ PollSkip \/ PollQuiet \/ DispatchNothing
  BY <1>1, <1>3 DEF EndConnections, PollSkip, PollQuiet, DispatchNothing, links
<1>4. CASE PollConnecting
  <2>1. PICK st \in {"connecting", "open"} : conns' = [conns EXCEPT ![cursor].ws = st]
    BY <1>4 DEF PollConnecting
  <2> DEFINE d == [Current EXCEPT !.ws = st]
  <2>2. cursor \in 1..Len(conns) /\ Current \in Connection /\ Current.ws = "connecting"
    BY <1>4, <1>a DEF PollConnecting
  <2>3. ~Current.handshaken
    BY <2>2 DEF Shaken, Current
  <2>4. /\ d \in Connection /\ d.stopped = Current.stopped
        /\ d.handshaken = Current.handshaken
    BY <2>2 DEF Connection, WSState
  <2>5. conns' = [conns EXCEPT ![cursor] = d]
    BY <2>1, <2>2 DEF Current
  <2> HIDE DEF d
  <2>6. GetReady(d) = GetReady(Current)
    BY <2>3, <2>4 DEF GetReady
  <2> QED
    BY <1>2, <2>2, <2>3, <2>4, <2>5, <2>6
<1>5. ASSUME NEW orderly, NEW st \in {"closing", "closed"}, NEW ph, At(ph),
             OnWebSocketError(orderly, st)
      PROVE  Step /\ Shaken'
  <2> DEFINE d == [Current EXCEPT !.stopped = TRUE, !.ws = st]
  <2>1. cursor \in 1..Len(conns) /\ Current \in Connection
    BY <1>5, <1>a
  <2>2. d \in Connection /\ d.stopped /\ d.ws = st
    BY <1>5, <2>1 DEF Connection, WSState
  <2>3. conns' = [conns EXCEPT ![cursor] = d]
    BY <1>5, <2>1 DEF OnWebSocketError, Current
  <2> HIDE DEF d
  <2>4. ~GetReady(d) /\ d.ws # "connecting"
    BY <1>5, <2>2 DEF GetReady
  <2> QED
    BY <1>2, <2>1, <2>2, <2>3, <2>4
<1>6. ASSUME NEW orderly \in BOOLEAN, PollClosed(orderly) PROVE Step /\ Shaken'
  BY <1>5, <1>6 DEF PollClosed
<1>7. CASE DispatchUnexpected
  BY <1>5, <1>7 DEF DispatchUnexpected
<1>8. ASSUME Dispatching, NEW d \in Connection,
             conns' = [conns EXCEPT ![cursor] = d], d.ws = Current.ws,
             Current.handshaken => d.handshaken, d.stopped = Current.stopped
      PROVE  Step /\ Shaken'
  <2>1. cursor \in 1..Len(conns) /\ Current \in Connection /\ d.ws # "connecting"
    BY <1>8, <1>a, <1>b DEF Dispatching
  <2>2. /\ GetReady(d) \in BOOLEAN /\ GetReady(Current) \in BOOLEAN
        /\ GetReady(Current) => GetReady(d)
    BY <1>8, <2>1 DEF GetReady, Connection
  <2> QED
    BY <1>2, <1>8, <2>1, <2>2
<1>9. CASE DispatchNonce
  <2> DEFINE d == [Current EXCEPT !.greeted = (Current.ws = "open")]
  <2>1. Dispatching /\ cursor \in 1..Len(conns) /\ Current \in Connection
    BY <1>9, <1>a DEF Dispatching, DispatchNonce
  <2>2. /\ d.ws = Current.ws /\ d.stopped = Current.stopped /\ d \in Connection
        /\ d.handshaken = Current.handshaken
        /\ conns' = [conns EXCEPT ![cursor] = d]
    BY <1>9, <2>1 DEF DispatchNonce, Connection, Current
  <2> HIDE DEF d
  <2> QED
    BY <1>8, <2>1, <2>2
<1>10. CASE DispatchSession
  <2> DEFINE d == [Current EXCEPT !.handshaken = TRUE]
  <2>1. Dispatching /\ cursor \in 1..Len(conns) /\ Current \in Connection
    BY <1>10, <1>a DEF Dispatching, DispatchSession
  <2>2. /\ d.ws = Current.ws /\ d.stopped = Current.stopped /\ d \in Connection
        /\ d.handshaken
        /\ conns' = [conns EXCEPT ![cursor] = d]
    BY <1>10, <2>1 DEF DispatchSession, Connection, Current
  <2> HIDE DEF d
  <2> QED
    BY <1>8, <2>1, <2>2
<1>11. CASE DispatchClose
  <2> DEFINE d == [Current EXCEPT !.ws = "closing"]
  <2>1. /\ cursor \in 1..Len(conns) /\ Current \in Connection
        /\ cursor = 1 /\ ~Current.stopped
    BY <1>11, <1>a, <1>c DEF DispatchClose
  <2>2. /\ d.ws = "closing" /\ d.stopped = Current.stopped /\ d \in Connection
        /\ conns' = [conns EXCEPT ![cursor] = d]
    BY <1>11, <2>1 DEF DispatchClose, Connection, Current, WSState
  <2> HIDE DEF d
  <2>3. /\ ~GetReady(d) /\ d.ws # "connecting"
        /\ GetReady(d) \in BOOLEAN /\ GetReady(Current) \in BOOLEAN
    BY <2>1, <2>2 DEF GetReady, Connection
  <2> QED
    BY <1>2, <2>1, <2>2, <2>3
<1>12. CASE DispatchRedirect
  <2>1. NewConnection(FALSE) \/ conns' = conns
    BY <1>12 DEF DispatchRedirect, NewConnection, links
  <2> QED
    BY <1>0, <1>1, <2>1, NewStep
<1>13. ASSUME NEW r \in Request, DispatchResponse(r) PROVE Step /\ Shaken'
  <2> DEFINE d == [Current EXCEPT !.sent = @ \ {r}, !.pending = @ \ {r}]
  <2>1. Dispatching /\ cursor \in 1..Len(conns) /\ Current \in Connection
    BY <1>13, <1>a DEF Dispatching, DispatchResponse
  <2>2. /\ d.ws = Current.ws /\ d.stopped = Current.stopped /\ d \in Connection
        /\ d.handshaken = Current.handshaken
        /\ conns' = [conns EXCEPT ![cursor] = d]
    BY <1>13, <2>1 DEF DispatchResponse, Connection, Current
  <2> HIDE DEF d
  <2> QED
    BY <1>8, <2>1, <2>2
<1> QED
  BY <1>3, <1>4, <1>6, <1>7, <1>9, <1>10, <1>11, <1>12, <1>13 DEF UpdateConnections

(* The rest of Update: a connection that was required, the trim, and what  *)
(* the queues do to pending requests.                                      *)
LEMMA StepQueues ==
    ASSUME Inv, Shaken, IsFiniteSet(Request), ConnectionsBounded',
           \/ UpdateBegin \/ ConnectIfRequired
           \/ TrimOldConnections \/ ProcessSendQueue \/ ExpirePending
    PROVE  Step /\ Shaken'
<1>0. TypeOK /\ Len(conns) \in Nat
  BY DEF Inv, TypeOK
<1>1. CASE conns' = conns
  BY <1>1, SameSeen DEF Shaken
<1>2. CASE \/ UpdateBegin \/ TrimKeep \/ EndTrim \/ SendQueueEmpty
           \/ SendQueueWaits \/ SendQueueExpires
  BY <1>1, <1>2 DEF UpdateBegin, TrimKeep, EndTrim, SendQueueEmpty, SendQueueWaits,
                    SendQueueExpires, links
<1>3. CASE ConnectIfRequired
  <2>1. NewConnection(FALSE) \/ conns' = conns
    BY <1>3 DEF ConnectIfRequired, NewConnection, links
  <2> QED
    BY <1>0, <1>1, <2>1, NewStep
<1>4. CASE TrimDelete
  <2>1. /\ cursor \in 1..Len(conns) /\ conns' = RemoveAt(conns, cursor)
        /\ ToBeDeleted(conns[cursor])
    BY <1>0, <1>4 DEF TrimDelete, At, Current, TypeOK
  <2>2. Step
    BY <1>0, <2>1, DeletedSeen
  <2>3. /\ Len(conns') = Len(conns) - 1
        /\ \A j \in 1..Len(conns) - 1 :
             conns'[j] = IF j < cursor THEN conns[j] ELSE conns[j + 1]
    BY <1>0, <2>1, Removed DEF TypeOK
  <2>4. \A j \in 1..Len(conns') : j \in 1..Len(conns) /\ j + 1 \in 1..Len(conns)
    BY <1>0, <2>3
  <2>5. Shaken'
    BY <2>3, <2>4 DEF Shaken
  <2> QED
    BY <2>2, <2>5
<1>5. CASE SendQueueSends \/ SendQueueDangles
  <2>1. \/ conns' = conns
        \/ FrontReady /\ sendQueue # <<>> /\ SendImmediate(Head(sendQueue))
    BY <1>5 DEF SendQueueSends, SendQueueDangles, AtSendQueue
  <2>2. sendQueue # <<>> => Head(sendQueue) \in Request
    BY <1>0, HeadTailProperties DEF TypeOK
  <2> QED
    BY <1>0, <1>1, <2>1, <2>2, SendStep
<1>6. CASE ExpirePending
  <2> DEFINE d(i) == [conns[i] EXCEPT !.pending = @ \ Overdue(conns[i])]
  <2>1. ASSUME NEW i \in 1..Len(conns)
        PROVE  /\ d(i) \in Connection /\ d(i).ws = conns[i].ws
               /\ d(i).handshaken = conns[i].handshaken
               /\ d(i).stopped = conns[i].stopped
    <3>1. conns[i] \in Connection
      BY <1>0 DEF TypeOK
    <3> QED
      BY <3>1 DEF Connection
  <2>2. conns' = [i \in 1..Len(conns) |-> d(i)]
    BY <1>6 DEF ExpirePending
  <2> HIDE DEF d
  <2>3. Len(conns') = Len(conns)
    <3>1. conns' \in [1..Len(conns) -> Connection]
      BY <2>1, <2>2
    <3> QED
      BY <1>0, <3>1, FunctionIsSeq
  <2>4. ASSUME NEW i \in 1..Len(conns)
        PROVE  /\ Seen(conns'[i]) = Seen(conns[i])
               /\ conns'[i].ws = conns[i].ws
               /\ conns'[i].handshaken = conns[i].handshaken
    BY <2>1, <2>2 DEF Seen, GetReady
  <2>5. Shaken'
    BY <2>3, <2>4 DEF Shaken
  <2>6. SeenConnections' = [i \in 1..Len(conns') |-> Seen(conns'[i])]
    BY DEF SeenConnections, Seen, GetReady
  <2>7. SeenConnections' = SeenConnections
    BY <2>3, <2>4, <2>6 DEF SeenConnections
  <2> QED
    BY <2>5, <2>7, OnlyConnections DEF Step
<1> QED
  BY <1>2, <1>3, <1>4, <1>5, <1>6 DEF TrimOldConnections, ProcessSendQueue

(* In every behaviour of GSClient its connections (UpdateConnections,      *)
(* NewConnection, Stop, TrimOldConnections) do what DurableQueue has its   *)
(* connections do and nothing else, so that what is proved of the durable  *)
(* requests there holds of them on these connections.                      *)
THEOREM ConnectionsAssumed ==
    ASSUME IsFiniteSet(Request)
    PROVE  Spec => ConnectionsAsAssumed
<1>1. Init => Shaken /\ Durable!Init
  BY ShakenInit
<1>2. Inv /\ Shaken /\ ConnectionsBounded' /\ [Next]_vars
        => Shaken' /\ [Durable!Connections]_(Durable!vars)
  <2> SUFFICES ASSUME Inv, Shaken, ConnectionsBounded', [Next]_vars
               PROVE  Step /\ Shaken'
    BY DEF Step
  <2>1. CASE UNCHANGED vars
    <3>1. conns' = conns
      BY <2>1 DEF vars, links
    <3> QED
      BY <3>1, SameSeen DEF Shaken
  <2>2. CASE Next
    BY <2>2, StepApplication, StepUpdateConnections, StepQueues DEF Next, Update
  <2> QED
    BY <2>1, <2>2
<1>3. Spec => []ConnectionsBounded
  BY FewConnections
<1> QED
  BY <1>1, <1>2, <1>3, InvAlways, PTL DEF Spec, ConnectionsAsAssumed
=============================================================================
