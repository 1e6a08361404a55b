--------------------------- MODULE WebSocket_proofs ---------------------------
(***************************************************************************)
(* Proofs about WebSocket, for any number of frames and messages: whose    *)
(* the socket is, that every end is reported, and that the buffers neither *)
(* lose nor reorder a frame, wherever recv and send cut them.              *)
(***************************************************************************)
EXTENDS WebSocket, SequenceTheorems, TLAPS

-----------------------------------------------------------------------------
(* Sequences                                                               *)

(* A function on 1..n is a sequence of length n.                           *)
LEMMA FunctionIsSeq ==
    ASSUME NEW S, NEW n \in Nat, NEW f \in [1..n -> S]
    PROVE  f \in Seq(S) /\ Len(f) = n
<1>1. f \in Seq(S)
  BY SeqDef
<1>2. Len(f) \in Nat /\ DOMAIN f = 1..Len(f)
  BY <1>1, LenProperties
<1> QED
  BY <1>1, <1>2

-----------------------------------------------------------------------------
(* The inductive invariant                                                 *)

(* What makes the socket change hands once: it is aborted only when the    *)
(* application is done with it, and read and written only after the thread *)
(* was joined, whose state no one but poll leaves "CONNECTING" for.        *)
Handover ==
    /\ aborted => app \in {"destroying", "gone"}
    /\ freed \/ ~joinable => dns = "done"
    /\ app = "joining" => readyState = "CONNECTING"
    /\ app = "polled" => readyState \in {"OPEN", "CLOSING"}
    /\ readyState \in {"OPEN", "CLOSING"} /\ app \in {"idle", "polled"} => ~joinable
    /\ ClosedIsReported

(* The half of a frame at the place i of a stream.                         *)
Half(i) == <<(i + 1) \div 2, i % 2>>

(* Of the halves of n frames, w are on the wire and t wait in txbuf.       *)
Written(w, t, n) ==
    /\ Len(w) + Len(t) = 2 * n
    /\ \A i \in 1..Len(w) : w[i] = Half(i)
    /\ \A i \in 1..Len(t) : t[i] = Half(Len(w) + i)

(* rxbuf has the last of the n halves that were received, from the start   *)
(* of a frame on.                                                          *)
Buffered(b, n) ==
    /\ Len(b) <= n /\ (n - Len(b)) % 2 = 0
    /\ \A i \in 1..Len(b) : b[i] = Half(n - Len(b) + i)

(* How many frames have been dispatched.                                   *)
Passed(b, n) == (n - Len(b)) \div 2

(* Of the first k frames of s, d has the text frames, in order.            *)
Given(d, s, k) ==
    /\ \A i \in 1..Len(d) : d[i] \in 1..k /\ s[d[i]] = "text"
    /\ \A i, j \in 1..Len(d) : i < j => d[i] < d[j]
    /\ \A f \in 1..k : s[f] = "text" => \E i \in 1..Len(d) : d[i] = f

(* A close frame is the last, and is not there while more may be sent.     *)
CloseIsLast ==
    /\ readyState \in {"CONNECTING", "OPEN"} =>
         \A i \in 1..Len(queued) : queued[i] # "close"
    /\ \A i \in 1..(Len(queued) - 1) : queued[i] # "close"

Inv ==
    /\ TypeOK /\ Handover
    /\ Written(wire, txbuf, Len(queued))
    /\ Buffered(rxbuf, received)
    /\ Given(delivered, stream, Passed(rxbuf, received))
    /\ CloseIsLast

-----------------------------------------------------------------------------
(* The buffers                                                             *)

Bytes == Nat \X {0, 1}

LEMMA HalfTyped == \A i \in Nat : Half(i) \in Bytes
<1> TAKE i \in Nat
<1>1. (i + 1) \div 2 \in Nat /\ i % 2 \in {0, 1}
  OBVIOUS
<1> QED
  BY <1>1 DEF Half, Bytes

LEMMA FrameHalves ==
    ASSUME NEW n \in Nat
    PROVE  Half(2 * n + 1) = <<n + 1, 1>> /\ Half(2 * n + 2) = <<n + 1, 0>>
<1>1. /\ (2 * n + 1 + 1) \div 2 = n + 1 /\ (2 * n + 1) % 2 = 1
      /\ (2 * n + 2 + 1) \div 2 = n + 1 /\ (2 * n + 2) % 2 = 0
  OBVIOUS
<1> QED
  BY <1>1 DEF Half

(* The halves of the frames of a stream.                                   *)
LEMMA HalvesOf ==
    ASSUME NEW T, NEW s \in Seq(T)
    PROVE  /\ Halves(s) \in Seq(Bytes) /\ Len(Halves(s)) = 2 * Len(s)
           /\ \A i \in 1..2 * Len(s) : Halves(s)[i] = Half(i)
<1> DEFINE n == 2 * Len(s)
           f == [i \in 1..n |-> Half(i)]
<1>1. n \in Nat
  OBVIOUS
<1>2. Halves(s) = f
  BY DEF Halves, Half
<1>3. f \in [1..n -> Bytes]
  BY <1>1, HalfTyped
<1> HIDE DEF n
<1>4. f \in Seq(Bytes) /\ Len(f) = n
  BY <1>1, <1>3, FunctionIsSeq
<1> QED
  BY <1>2, <1>4 DEF n

(* A frame is put into txbuf.                                              *)
LEMMA WrittenMore ==
    ASSUME NEW w \in Seq(Bytes), NEW t \in Seq(Bytes), NEW n \in Nat, Written(w, t, n)
    PROVE  LET more == t \o <<<<n + 1, 1>>, <<n + 1, 0>>>>
           IN  more \in Seq(Bytes) /\ Written(w, more, n + 1)
<1>1. PICK u \in Seq(Bytes) : /\ u = <<<<n + 1, 1>>, <<n + 1, 0>>>> /\ Len(u) = 2
                             /\ u[1] = Half(2 * n + 1) /\ u[2] = Half(2 * n + 2)
  <2> DEFINE pair == <<<<n + 1, 1>>, <<n + 1, 0>>>>
  <2>1. pair \in Seq(Bytes) /\ Len(pair) = 2
    BY DEF Bytes
  <2>2. pair[1] = Half(2 * n + 1) /\ pair[2] = Half(2 * n + 2)
    BY FrameHalves
  <2> QED
    BY <2>1, <2>2
<1>2. Len(w) + Len(t) = 2 * n /\ Len(w) \in Nat /\ Len(t) \in Nat
  BY DEF Written
<1> DEFINE all == t \o u
<1>3. /\ all \in Seq(Bytes) /\ Len(all) = Len(t) + 2
      /\ \A i \in 1..Len(t) + 2 : all[i] = IF i <= Len(t) THEN t[i] ELSE u[i - Len(t)]
  BY <1>1, <1>2, ConcatProperties
<1> HIDE DEF all
<1>4. ASSUME NEW i \in 1..Len(t) + 2 PROVE all[i] = Half(Len(w) + i)
  <2>1. CASE i \in 1..Len(t)
    <3>1. all[i] = t[i]
      BY ONLY <1>2, <1>3, <2>1
    <3>2. t[i] = Half(Len(w) + i)
      BY <2>1 DEF Written
    <3> QED
      BY ONLY <3>1, <3>2
  <2>2. CASE i = Len(t) + 1
    <3>1. Len(w) + i = 2 * n + 1 /\ i - Len(t) = 1 /\ ~(i <= Len(t))
      BY ONLY <1>2, <2>2, n \in Nat
    <3>2. all[i] = u[1]
      BY <1>3, <3>1
    <3> QED
      BY <1>1, <3>1, <3>2
  <2>3. CASE i = Len(t) + 2
    <3>1. Len(w) + i = 2 * n + 2 /\ i - Len(t) = 2 /\ ~(i <= Len(t))
      BY ONLY SMTT(20), <1>2, <2>3, n \in Nat
    <3>2. all[i] = u[2]
      BY <1>3, <3>1
    <3> QED
      BY <1>1, <3>1, <3>2
  <2>4. i \in 1..Len(t) \/ i = Len(t) + 1 \/ i = Len(t) + 2
    BY SMTT(20), <1>2
  <2> QED
    BY ONLY <2>1, <2>2, <2>3, <2>4
<1>5. Written(w, all, n + 1)
  <2>1. Len(w) + Len(all) = 2 * (n + 1)
    <3>1. Len(all) = Len(t) + 2
      BY <1>3
    <3> QED
      BY ONLY <1>2, <3>1, n \in Nat
  <2>2. \A i \in 1..Len(all) : all[i] = Half(Len(w) + i)
    BY <1>3, <1>4
  <2> QED
    BY <2>1, <2>2 DEF Written
<1> QED
  BY <1>1, <1>3, <1>5 DEF all

LEMMA DropOf ==
    ASSUME NEW S, NEW t \in Seq(S), NEW k \in 0..Len(t)
    PROVE  /\ Drop(t, k) \in Seq(S) /\ Len(Drop(t, k)) = Len(t) - k
           /\ \A i \in 1..Len(t) - k : Drop(t, k)[i] = t[k + i]
BY DEF Drop

(* A send takes the first k halves that wait.                              *)
LEMMA WrittenSent ==
    ASSUME NEW w \in Seq(Bytes), NEW t \in Seq(Bytes), NEW n \in Nat, Written(w, t, n),
           NEW k \in 0..Len(t)
    PROVE  /\ w \o SubSeq(t, 1, k) \in Seq(Bytes) /\ Drop(t, k) \in Seq(Bytes)
           /\ Written(w \o SubSeq(t, 1, k), Drop(t, k), n)
           /\ Len(Drop(t, k)) = Len(t) - k
<1> DEFINE a == SubSeq(t, 1, k)
           b == Drop(t, k)
           all == w \o a
<1>1. a \in Seq(Bytes) /\ Len(a) = k /\ \A i \in 1..k : a[i] = t[i]
  OBVIOUS
<1>2. /\ b \in Seq(Bytes) /\ Len(b) = Len(t) - k
      /\ \A i \in 1..Len(t) - k : b[i] = t[k + i]
  BY DropOf
<1>3. Len(w) + Len(t) = 2 * n /\ Len(w) \in Nat /\ Len(t) \in Nat /\ k \in Nat
  BY DEF Written
<1> HIDE DEF a, b
<1>4. /\ all \in Seq(Bytes) /\ Len(all) = Len(w) + k
      /\ \A i \in 1..Len(w) + k : all[i] = IF i <= Len(w) THEN w[i] ELSE a[i - Len(w)]
  BY <1>1, <1>3, ConcatProperties
<1> HIDE DEF all
<1>5. ASSUME NEW i \in 1..Len(w) + k PROVE all[i] = Half(i)
  <2>1. CASE i <= Len(w)
    BY <1>3, <1>4, <2>1 DEF Written
  <2>2. CASE i > Len(w)
    <3>1. i - Len(w) \in 1..k /\ i - Len(w) \in 1..Len(t) /\ Len(w) + (i - Len(w)) = i
      BY <1>3, <2>2
    <3>2. all[i] = t[i - Len(w)]
      BY <1>1, <1>3, <1>4, <2>2, <3>1
    <3> QED
      BY <3>1, <3>2 DEF Written
  <2> QED
    BY <1>3, <2>1, <2>2
<1>6. ASSUME NEW i \in 1..Len(t) - k PROVE b[i] = Half(Len(w) + k + i)
  <2>1. k + i \in 1..Len(t) /\ Len(w) + (k + i) = Len(w) + k + i
    BY <1>3
  <2> QED
    BY <1>2, <2>1 DEF Written
<1>7. Written(all, b, n)
  <2>1. Len(all) + Len(b) = 2 * n
    <3>1. Len(all) = Len(w) + k /\ Len(b) = Len(t) - k
      BY <1>2, <1>4
    <3> QED
      BY ONLY SMTT(20), <1>3, <3>1, n \in Nat
  <2>2. \A i \in 1..Len(all) : all[i] = Half(i)
    BY <1>4, <1>5
  <2>3. \A i \in 1..Len(b) : b[i] = Half(Len(all) + i)
    BY <1>2, <1>4, <1>6
  <2> QED
    BY <2>1, <2>2, <2>3 DEF Written
<1> QED
  BY <1>2, <1>4, <1>7 DEF all, a, b

(* recv returns the next k halves.                                         *)
LEMMA BufferedMore ==
    ASSUME NEW T, NEW s \in Seq(T), NEW n \in Nat, NEW b \in Seq(Bytes), Buffered(b, n),
           NEW k \in Nat, n + k <= 2 * Len(s)
    PROVE  LET more == b \o SubSeq(Halves(s), n + 1, n + k)
           IN  /\ more \in Seq(Bytes) /\ Buffered(more, n + k)
               /\ Passed(more, n + k) = Passed(b, n)
<1> DEFINE c == SubSeq(Halves(s), n + 1, n + k)
<1>1. /\ Halves(s) \in Seq(Bytes) /\ Len(Halves(s)) = 2 * Len(s)
      /\ \A i \in 1..2 * Len(s) : Halves(s)[i] = Half(i)
  BY HalvesOf, Zenon
<1>2. /\ c \in Seq(Bytes) /\ Len(c) = k
      /\ \A i \in 1..k : c[i] = Half(n + i)
  <2>1. /\ c \in Seq(Bytes) /\ Len(c) = k
        /\ \A i \in 1..k : c[i] = Halves(s)[n + i] /\ n + i \in 1..2 * Len(s)
    <3> HIDE DEF Halves
    <3> QED
      BY <1>1
  <2> QED
    BY <1>1, <2>1
<1> HIDE DEF c
<1>3. /\ Len(b) \in Nat /\ Len(b) <= n /\ (n - Len(b)) % 2 = 0
      /\ \A i \in 1..Len(b) : b[i] = Half(n - Len(b) + i)
  BY DEF Buffered
<1> DEFINE all == b \o c
<1>4. /\ all \in Seq(Bytes) /\ Len(all) = Len(b) + k
      /\ \A i \in 1..Len(b) + k : all[i] = IF i <= Len(b) THEN b[i] ELSE c[i - Len(b)]
  BY <1>2, <1>3, ConcatProperties
<1> HIDE DEF all
<1>5. n + k - (Len(b) + k) = n - Len(b)
  BY <1>3
<1>6. ASSUME NEW i \in 1..Len(b) + k PROVE all[i] = Half(n - Len(b) + i)
  <2>1. CASE i <= Len(b)
    BY <1>3, <1>4, <2>1
  <2>2. CASE i > Len(b)
    <3>1. i - Len(b) \in 1..k /\ n + (i - Len(b)) = n - Len(b) + i
      BY <1>3, <2>2
    <3> QED
      BY <1>2, <1>3, <1>4, <2>2, <3>1
  <2> QED
    BY <1>3, <2>1, <2>2
<1>7. Buffered(all, n + k) /\ Passed(all, n + k) = Passed(b, n)
  BY <1>3, <1>4, <1>5, <1>6 DEF Buffered, Passed
<1> QED
  BY <1>4, <1>7 DEF all, c

(* A whole frame leaves rxbuf: it is the one after those that have passed. *)
LEMMA BufferedDrop ==
    ASSUME NEW n \in Nat, NEW b \in Seq(Bytes), Buffered(b, n), Len(b) >= 2
    PROVE  /\ Drop(b, 2) \in Seq(Bytes) /\ Buffered(Drop(b, 2), n)
           /\ b[1][1] = Passed(b, n) + 1
           /\ Passed(Drop(b, 2), n) = Passed(b, n) + 1
           /\ Passed(b, n) \in Nat /\ 2 * (Passed(b, n) + 1) <= n
<1> DEFINE c == Drop(b, 2)
<1>1. /\ Len(b) \in Nat /\ Len(b) <= n /\ (n - Len(b)) % 2 = 0
      /\ \A i \in 1..Len(b) : b[i] = Half(n - Len(b) + i)
  BY DEF Buffered
<1>2. /\ c \in Seq(Bytes) /\ Len(c) = Len(b) - 2
      /\ \A i \in 1..Len(b) - 2 : c[i] = b[2 + i]
  BY DropOf
<1> HIDE DEF c
<1>3. PICK k \in Nat : n - Len(b) = 2 * k
  <2>1. (n - Len(b)) \div 2 \in Nat /\ n - Len(b) = 2 * ((n - Len(b)) \div 2)
    BY SMTT(20), <1>1
  <2> QED
    BY <2>1
<1>4. Passed(b, n) = k
  <2>1. (2 * k) \div 2 = k
    OBVIOUS
  <2> QED
    BY <1>3, <2>1 DEF Passed
<1>5. n - Len(c) = 2 * k + 2
  BY <1>1, <1>2, <1>3
<1>6. Passed(c, n) = k + 1 /\ (n - Len(c)) % 2 = 0
  <2>1. (2 * k + 2) \div 2 = k + 1 /\ (2 * k + 2) % 2 = 0
    OBVIOUS
  <2> QED
    BY <1>5, <2>1 DEF Passed
<1>7. b[1] = <<k + 1, 1>>
  BY <1>1, <1>3, FrameHalves
<1>8. ASSUME NEW i \in 1..Len(c) PROVE c[i] = Half(n - Len(c) + i)
  <2>1. 2 + i \in 1..Len(b) /\ n - Len(b) + (2 + i) = n - Len(c) + i
    BY <1>1, <1>2
  <2> QED
    BY <1>1, <1>2, <2>1
<1>9. Buffered(c, n)
  BY <1>1, <1>2, <1>6, <1>8 DEF Buffered
<1> QED
  BY <1>1, <1>2, <1>3, <1>4, <1>6, <1>7, <1>9 DEF c

(* What is buffered is what has come and not passed.                       *)
LEMMA BufferedHalf ==
    ASSUME NEW n \in Nat, NEW b \in Seq(Bytes), Buffered(b, n)
    PROVE  /\ Passed(b, n) \in Nat /\ 2 * Passed(b, n) <= n
           /\ \A f \in Nat : Passed(b, n) < f /\ 2 * f <= n =>
                \E i \in 1..Len(b) : b[i] = <<f, 0>>
<1>1. /\ Len(b) \in Nat /\ Len(b) <= n /\ (n - Len(b)) % 2 = 0
      /\ \A i \in 1..Len(b) : b[i] = Half(n - Len(b) + i)
  BY DEF Buffered
<1>2. /\ Passed(b, n) \in Nat /\ n - Len(b) = 2 * Passed(b, n)
  BY <1>1 DEF Passed
<1>3. ASSUME NEW f \in Nat, Passed(b, n) < f, 2 * f <= n
      PROVE  \E i \in 1..Len(b) : b[i] = <<f, 0>>
  <2>1. PICK k \in Nat : Passed(b, n) = k /\ n - Len(b) = 2 * k
    BY <1>2
  <2> DEFINE i == 2 * f - 2 * k
  <2>3. i \in 1..Len(b) /\ n - Len(b) + i = 2 * f
    BY <1>3, <2>1
  <2>2. Half(2 * f) = <<f, 0>>
    <3>1. (2 * f + 1) \div 2 = f /\ (2 * f) % 2 = 0
      OBVIOUS
    <3> QED
      BY <3>1 DEF Half
  <2> HIDE DEF i
  <2> QED
    BY <1>1, <2>2, <2>3
<1>4. 2 * Passed(b, n) <= n
  BY <1>1, <1>2
<1> QED
  BY <1>2, <1>3, <1>4

-----------------------------------------------------------------------------
(* The control                                                             *)

Controls ==
    /\ readyState \in {"CONNECTING", "OPEN", "CLOSING", "CLOSED"}
    /\ ipLookup \in {"keInprogress", "keComplete", "keFailed"}
    /\ dns \in {"connect", "status", "headers", "published", "done"}
    /\ joinable \in BOOLEAN /\ aborted \in BOOLEAN /\ freed \in BOOLEAN
    /\ stopped \in BOOLEAN /\ misused \in BOOLEAN
    /\ app \in {"idle", "joining", "polled", "destroying", "gone"}
    /\ network \in {"up", "closed", "broken"}

control == <<readyState, ipLookup, dns, joinable, aborted, freed, stopped, app,
             network, misused>>

(* The application's steps end every way a connection can end: with        *)
(* readyState "CLOSED" only when stopped.                                  *)
LEMMA ControlStep ==
    ASSUME Controls, Handover, [Next]_vars
    PROVE  Controls' /\ Handover'
<1>1. CASE UNCHANGED vars
  BY <1>1 DEF vars, thread, peer, tx, Controls, Handover, ClosedIsReported
<1>2. CASE Peer
  BY <1>2 DEF Peer, PeerSends, NetworkFails, thread, peer, tx, Controls, Handover,
              ClosedIsReported
<1>3. CASE ConnectThread
  BY <1>3 DEF ConnectThread, Connect, ReadStatus, BadStatus, ReadHeaders, HeadersEnd,
              ThreadExit, Continue, Publish, thread, peer, tx, Controls, Handover,
              ClosedIsReported
<1>4. CASE PollConnecting \/ DispatchNothing
  BY <1>4 DEF PollConnecting, DispatchNothing, thread, peer, tx, Controls, Handover,
              ClosedIsReported
<1>5. CASE Joined
  BY <1>5 DEF Joined, JoinReturns, AfterPoll, DeletedInside, thread, peer, tx,
              Controls, Handover, ClosedIsReported
<1>6. CASE PollTraffic
  <2>1. PICK n \in Arrived, k \in 0..Len(txbuf), r \in {"want", "closed", "failed"},
             s \in {"want", "closed", "failed"} :
          /\ readyState' = ReadyAfter(r, s, k)
          /\ stopped' = (stopped \/ Reported(r, s, k))
          /\ \/ app' = AfterPoll(stopped') /\ UNCHANGED misused
             \/ DeletedInside
    BY <1>6 DEF PollTraffic
  <2>2. /\ app = "idle" /\ readyState \in {"OPEN", "CLOSING"}
        /\ UNCHANGED <<ipLookup, dns, joinable, aborted, freed, network>>
    BY <1>6 DEF PollTraffic, thread, peer
  <2>3. /\ readyState' \in {readyState, "CLOSED"}
        /\ readyState' = "CLOSED" => stopped'
        /\ stopped' \in BOOLEAN
    BY <2>1, <2>2 DEF ReadyAfter, Reported, Controls
  <2>4. /\ app' \in {"idle", "polled", "gone"}
        /\ app' = "polled" => ~stopped'
        /\ misused' \in BOOLEAN
    BY <2>1 DEF AfterPoll, DeletedInside, Controls
  <2> QED
    BY <2>2, <2>3, <2>4 DEF Controls, Handover, ClosedIsReported
<1>7. CASE Dispatch
  <2>1. /\ app = "polled" /\ app' \in {"idle", "gone"}
        /\ readyState' \in {readyState, "CLOSING"}
        /\ stopped' \in {stopped, TRUE} /\ misused' \in {misused, TRUE}
        /\ UNCHANGED <<ipLookup, dns, joinable, aborted, freed, network>>
    BY <1>7 DEF Dispatch, DispatchText, DispatchPing, DispatchClose, DispatchOther,
                DeletedInside, CloseFrame, thread, peer
  <2> QED
    BY ZenonT(40), <2>1 DEF Controls, Handover, ClosedIsReported
<1>8. CASE Send \/ Stop
  <2>1. /\ readyState' = readyState /\ app' = app /\ stopped' \in BOOLEAN
        /\ stopped => stopped'
        /\ misused' \in BOOLEAN
        /\ UNCHANGED <<ipLookup, dns, joinable, aborted, freed, network>>
    BY <1>8 DEF Send, Stop, thread, peer, Controls
  <2> QED
    BY <2>1 DEF Controls, Handover, ClosedIsReported
<1>9. CASE Close
  BY <1>9 DEF Close, CloseFrame, thread, peer, Controls, Handover, ClosedIsReported
<1>10. CASE Destroyed
  BY <1>10 DEF Destroyed, JoinReturns, thread, peer, tx, Controls, Handover,
               ClosedIsReported
<1> QED
  BY <1>1, <1>2, <1>3, <1>4, <1>5, <1>6, <1>7, <1>8, <1>9, <1>10 DEF Next, Update

-----------------------------------------------------------------------------
(* What is sent                                                            *)

Outgoing ==
    /\ queued \in Seq(OutKind) /\ txbuf \in Seq(Bytes) /\ wire \in Seq(Bytes)
    /\ sends \in 0..MaxSends
    /\ Written(wire, txbuf, Len(queued))
    /\ CloseIsLast

LEMMA OutgoingKept ==
    ASSUME Outgoing, UNCHANGED <<queued, txbuf, wire, sends>>,
           readyState' \in {"CONNECTING", "OPEN"} => readyState \in {"CONNECTING", "OPEN"}
    PROVE  Outgoing'
BY DEF Outgoing, CloseIsLast

(* A frame is queued while the connection is not closing, the close frame  *)
(* as it begins to.                                                        *)
LEMMA OutgoingInsert ==
    ASSUME Outgoing, NEW kind \in OutKind, Insert(kind), wire' = wire,
           sends' \in 0..MaxSends, readyState \in {"CONNECTING", "OPEN"},
           readyState' \in {"CONNECTING", "OPEN"} => kind # "close"
    PROVE  Outgoing'
<1>1. /\ queued' = Append(queued, kind)
      /\ txbuf' = txbuf \o <<<<Len(queued) + 1, 1>>, <<Len(queued) + 1, 0>>>>
  BY DEF Insert
<1>2. /\ queued' \in Seq(OutKind) /\ Len(queued') = Len(queued) + 1
      /\ Len(queued) \in Nat /\ queued'[Len(queued) + 1] = kind
      /\ \A i \in 1..Len(queued) : queued'[i] = queued[i]
  BY <1>1 DEF Outgoing
<1>3. txbuf' \in Seq(Bytes) /\ Written(wire, txbuf', Len(queued) + 1)
  BY <1>1, <1>2, WrittenMore DEF Outgoing
<1>4. \A i \in 1..Len(queued) : queued'[i] # "close"
  BY <1>2 DEF Outgoing, CloseIsLast
<1>5. CloseIsLast'
  <2>1. \A i \in 1..(Len(queued') - 1) : queued'[i] # "close"
    BY <1>2, <1>4
  <2>2. ASSUME readyState' \in {"CONNECTING", "OPEN"}, NEW i \in 1..Len(queued')
        PROVE  queued'[i] # "close"
    <3>1. i \in 1..Len(queued) \/ i = Len(queued) + 1
      BY <1>2
    <3> QED
      BY <1>2, <1>4, <2>2, <3>1
  <2> QED
    BY <2>1, <2>2 DEF CloseIsLast
<1> QED
  BY <1>2, <1>3, <1>5 DEF Outgoing

LEMMA OutgoingEnqueue ==
    ASSUME Controls, Outgoing, NEW kind \in {"text", "pong"}, Enqueue(kind), wire' = wire,
           sends' \in 0..MaxSends, readyState' = readyState
    PROVE  Outgoing'
<1>1. CASE Insert(kind) /\ readyState = "OPEN"
  BY <1>1, OutgoingInsert DEF OutKind
<1>2. CASE UNCHANGED <<txbuf, queued>>
  BY <1>2 DEF Outgoing, CloseIsLast
<1> QED
  BY <1>1, <1>2 DEF Enqueue

LEMMA OutgoingClose ==
    ASSUME Controls, Outgoing, CloseFrame, wire' = wire, sends' \in 0..MaxSends
    PROVE  Outgoing'
<1>1. CASE /\ readyState \in {"CONNECTING", "OPEN"} /\ readyState' = "CLOSING"
           /\ Insert("close")
  BY <1>1, OutgoingInsert DEF OutKind
<1>2. CASE UNCHANGED <<readyState, txbuf, queued>>
  BY <1>2 DEF Outgoing, CloseIsLast
<1> QED
  BY <1>1, <1>2 DEF CloseFrame

LEMMA OutgoingStep ==
    ASSUME Controls, Handover, Outgoing, [Next]_vars
    PROVE  Outgoing'
<1>1. CASE UNCHANGED vars \/ Peer \/ ConnectThread \/ PollConnecting \/ DispatchNothing
            \/ Stop \/ Destroyed
  <2>1. UNCHANGED <<queued, txbuf, wire, sends, readyState>>
    BY <1>1 DEF vars, Peer, PeerSends, NetworkFails, ConnectThread, Connect, ReadStatus,
                BadStatus, ReadHeaders, HeadersEnd, ThreadExit, Continue, Publish,
                PollConnecting, DispatchNothing, Stop, Destroyed, tx, thread, peer
  <2> QED
    BY <2>1, OutgoingKept
<1>2. CASE Joined
  <2>1. UNCHANGED <<queued, txbuf, wire, sends>> /\ readyState = "CONNECTING"
    BY <1>2 DEF Joined, tx, Handover
  <2> QED
    BY <2>1, OutgoingKept
<1>3. CASE Send
  <2>1. Enqueue("text") /\ UNCHANGED <<readyState, wire>> /\ sends' \in 0..MaxSends
    BY <1>3, BoundAssumption DEF Send, Outgoing
  <2> QED
    BY <2>1, OutgoingEnqueue
<1>4. CASE Close
  <2>1. CloseFrame /\ UNCHANGED <<sends, wire>>
    BY <1>4 DEF Close
  <2> QED
    BY <2>1, OutgoingClose DEF Outgoing
<1>5. CASE PollTraffic
  <2>1. PICK n \in Arrived, k \in 0..Len(txbuf), r \in {"want", "closed", "failed"},
             s \in {"want", "closed", "failed"} :
          /\ wire' = wire \o SubSeq(txbuf, 1, k) /\ txbuf' = Drop(txbuf, k)
          /\ readyState' = ReadyAfter(r, s, k)
    BY ZenonT(40), <1>5 DEF PollTraffic
  <2>2. UNCHANGED <<queued, sends>> /\ readyState' \in {readyState, "CLOSED"}
    BY <1>5, <2>1 DEF PollTraffic, ReadyAfter
  <2>3. Len(queued) \in Nat
    BY DEF Outgoing
  <2>4. wire' \in Seq(Bytes) /\ txbuf' \in Seq(Bytes) /\ Written(wire', txbuf', Len(queued))
    BY <2>1, <2>3, WrittenSent DEF Outgoing
  <2> QED
    BY <2>2, <2>4 DEF Outgoing, CloseIsLast
<1>6. CASE Dispatch
  <2>1. wire' = wire /\ (DispatchText \/ DispatchPing \/ DispatchClose \/ DispatchOther)
    BY <1>6 DEF Dispatch
  <2>2. CASE DispatchText
    <3>1. readyState' = readyState
      BY <2>2 DEF DispatchText
    <3>2. CASE UNCHANGED <<txbuf, queued, sends>>
      BY <2>1, <3>1, <3>2, OutgoingKept
    <3>3. CASE sends < MaxSends /\ sends' = sends + 1 /\ Enqueue("text")
      <4>1. sends' \in 0..MaxSends
        BY <3>3, BoundAssumption DEF Outgoing
      <4> QED
        BY <2>1, <3>1, <3>3, <4>1, OutgoingEnqueue
    <3> QED
      BY <2>2, <3>2, <3>3 DEF DispatchText
  <2>3. CASE DispatchPing
    <3>1. Enqueue("pong") /\ UNCHANGED <<readyState, sends>>
      BY <2>3 DEF DispatchPing
    <3> QED
      BY <2>1, <3>1, OutgoingEnqueue DEF Outgoing
  <2>4. CASE DispatchClose \/ DispatchOther
    <3>1. CloseFrame /\ sends' = sends
      BY <2>4 DEF DispatchClose, DispatchOther
    <3> QED
      BY <2>1, <3>1, OutgoingClose DEF Outgoing
  <2> QED
    BY <2>1, <2>2, <2>3, <2>4
<1> QED
  BY <1>1, <1>2, <1>3, <1>4, <1>5, <1>6 DEF Next, Update

-----------------------------------------------------------------------------
(* What is received                                                        *)

Incoming ==
    /\ stream \in Seq(FrameKind) /\ received \in 0..(2 * Len(stream))
    /\ rxbuf \in Seq(Bytes) /\ delivered \in Seq(Nat)
    /\ Buffered(rxbuf, received)
    /\ Given(delivered, stream, Passed(rxbuf, received))

LEMMA IncomingKept ==
    ASSUME Incoming, UNCHANGED <<stream, received, rxbuf, delivered>>
    PROVE  Incoming'
BY DEF Incoming

(* The next frame is a text frame, and given to the callback; or is none.  *)
LEMMA GivenNext ==
    ASSUME NEW d \in Seq(Nat), NEW T, NEW s \in Seq(T), NEW k \in Nat, Given(d, s, k)
    PROVE  /\ s[k + 1] = "text" => Given(Append(d, k + 1), s, k + 1)
           /\ s[k + 1] # "text" => Given(d, s, k + 1)
<1> DEFINE e == Append(d, k + 1)
<1>1. /\ Len(d) \in Nat /\ Len(e) = Len(d) + 1 /\ e[Len(d) + 1] = k + 1
      /\ \A i \in 1..Len(d) : e[i] = d[i] /\ d[i] \in Nat
  OBVIOUS
<1> HIDE DEF e
<1>2. /\ \A i \in 1..Len(d) : d[i] \in 1..k /\ s[d[i]] = "text"
      /\ \A i, j \in 1..Len(d) : i < j => d[i] < d[j]
      /\ \A f \in 1..k : s[f] = "text" => \E i \in 1..Len(d) : d[i] = f
  BY DEF Given
<1>3. ASSUME s[k + 1] = "text" PROVE Given(e, s, k + 1)
  <2>1. ASSUME NEW i \in 1..Len(e) PROVE e[i] \in 1..k + 1 /\ s[e[i]] = "text"
    <3>1. CASE i \in 1..Len(d)
      BY <1>1, <1>2, <3>1
    <3>2. CASE i = Len(d) + 1
      BY <1>1, <1>3, <3>2
    <3> QED
      BY <1>1, <3>1, <3>2
  <2>2. ASSUME NEW i \in 1..Len(e), NEW j \in 1..Len(e), i < j PROVE e[i] < e[j]
    <3>1. i \in 1..Len(d) /\ e[i] = d[i] /\ d[i] \in 1..k
      BY <1>1, <1>2, <2>2
    <3>2. CASE j \in 1..Len(d)
      BY <1>1, <1>2, <2>2, <3>1, <3>2
    <3>3. CASE j = Len(d) + 1
      BY <1>1, <3>1, <3>3
    <3> QED
      BY <1>1, <3>2, <3>3
  <2>3. ASSUME NEW f \in 1..k + 1, s[f] = "text" PROVE \E i \in 1..Len(e) : e[i] = f
    <3>1. CASE f \in 1..k
      BY SMTT(20), <1>1, <1>2, <2>3, <3>1
    <3>2. CASE f = k + 1
      BY <1>1, <3>2
    <3> QED
      BY <3>1, <3>2
  <2> QED
    BY <2>1, <2>2, <2>3 DEF Given
<1>4. ASSUME s[k + 1] # "text" PROVE Given(d, s, k + 1)
  <2>1. \A i \in 1..Len(d) : d[i] \in 1..k + 1
    BY <1>2
  <2>2. \A f \in 1..k + 1 : s[f] = "text" => f \in 1..k
    BY <1>4
  <2> QED
    BY <1>2, <2>1, <2>2 DEF Given
<1> QED
  BY <1>3, <1>4 DEF e

LEMMA IncomingStep ==
    ASSUME Incoming, [Next]_vars
    PROVE  Incoming'
<1>1. CASE \/ UNCHANGED vars \/ ConnectThread \/ PollConnecting \/ Joined
           \/ DispatchNothing \/ Send \/ Stop \/ Close \/ Destroyed
           \/ \E outcome \in {"closed", "broken"} : NetworkFails(outcome)
  <2>1. UNCHANGED <<stream, received, rxbuf, delivered>>
    BY <1>1 DEF vars, ConnectThread, Connect, ReadStatus, BadStatus, ReadHeaders,
                HeadersEnd, ThreadExit, Continue, Publish, PollConnecting, Joined,
                DispatchNothing, Send, Stop, Close, Destroyed, NetworkFails, peer
  <2> QED
    BY <2>1, IncomingKept
<1>2. ASSUME NEW kind \in FrameKind, PeerSends(kind) PROVE Incoming'
  <2>1. stream' = Append(stream, kind) /\ UNCHANGED <<received, rxbuf, delivered>>
    BY <1>2 DEF PeerSends
  <2>2. /\ stream' \in Seq(FrameKind) /\ Len(stream') = Len(stream) + 1
        /\ Len(stream) \in Nat
        /\ \A f \in 1..Len(stream) : stream'[f] = stream[f]
    BY <2>1 DEF Incoming
  <2>3. received' \in 0..(2 * Len(stream'))
    BY <2>1, <2>2 DEF Incoming
  <2>7. received \in Nat /\ received <= 2 * Len(stream) /\ rxbuf \in Seq(Bytes)
        /\ Buffered(rxbuf, received)
    BY <2>2 DEF Incoming
  <2>8. Passed(rxbuf, received) \in Nat /\ 2 * Passed(rxbuf, received) <= received
    BY <2>7, BufferedHalf
  <2>4. PICK k \in Nat : k = Passed(rxbuf, received) /\ k <= Len(stream)
    BY ONLY <2>2, <2>7, <2>8
  <2>5. Given(delivered, stream, k)
    BY <2>4 DEF Incoming
  <2>6. Given(delivered, stream', k)
    <3>1. \A f \in 1..k : f \in 1..Len(stream) /\ stream'[f] = stream[f]
      BY <2>2, <2>4
    <3> QED
      BY <2>5, <3>1 DEF Given
  <2> QED
    BY <2>1, <2>2, <2>3, <2>4, <2>6 DEF Incoming
<1>3. CASE PollTraffic
  <2>1. PICK n \in Arrived :
          /\ rxbuf' = rxbuf \o SubSeq(Halves(stream), received + 1, received + n)
          /\ received' = received + n
    BY <1>3 DEF PollTraffic
  <2>2. UNCHANGED <<stream, delivered>>
    BY <1>3 DEF PollTraffic, peer
  <2>3. n \in Nat /\ received \in Nat /\ received + n <= 2 * Len(stream)
    BY DEF Arrived, Incoming
  <2>4. /\ rxbuf' \in Seq(Bytes) /\ Buffered(rxbuf', received')
        /\ Passed(rxbuf', received') = Passed(rxbuf, received)
    BY <2>1, <2>3, BufferedMore DEF Incoming
  <2>5. received' \in 0..(2 * Len(stream))
    BY <2>1, <2>3
  <2> QED
    BY <2>2, <2>4, <2>5 DEF Incoming
<1>4. CASE Dispatch
  <2>1. /\ Len(rxbuf) >= 2 /\ rxbuf' = Drop(rxbuf, 2) /\ UNCHANGED <<stream, received>>
        /\ \/ stream[Frame] = "text" /\ delivered' = Append(delivered, Frame)
           \/ stream[Frame] # "text" /\ delivered' = delivered
    BY <1>4 DEF Dispatch, Whole, DispatchText, DispatchPing, DispatchClose,
                DispatchOther, peer
  <2>7. received \in Nat /\ rxbuf \in Seq(Bytes) /\ Buffered(rxbuf, received)
    BY DEF Incoming
  <2>8. /\ rxbuf' \in Seq(Bytes) /\ Buffered(rxbuf', received)
        /\ Frame = Passed(rxbuf, received) + 1
        /\ Passed(rxbuf', received) = Passed(rxbuf, received) + 1
        /\ Passed(rxbuf, received) \in Nat
    BY <2>1, <2>7, BufferedDrop DEF Frame
  <2>2. PICK k \in Nat : k = Passed(rxbuf, received)
    BY <2>8
  <2>3. /\ rxbuf' \in Seq(Bytes) /\ Buffered(rxbuf', received)
        /\ Frame = k + 1 /\ Passed(rxbuf', received) = k + 1
    BY <2>2, <2>8
  <2>4. Given(delivered, stream, k)
    BY <2>2 DEF Incoming
  <2>5. Given(delivered', stream, k + 1)
    BY <2>1, <2>3, <2>4, GivenNext DEF Incoming
  <2>9. Frame \in Nat /\ delivered \in Seq(Nat)
    BY <2>3 DEF Incoming
  <2>6. delivered' \in Seq(Nat)
    BY SMTT(20), <2>1, <2>9
  <2> QED
    BY <2>1, <2>3, <2>5, <2>6 DEF Incoming
<1> QED
  BY <1>1, <1>2, <1>3, <1>4 DEF Next, Update, Peer

-----------------------------------------------------------------------------
(* The theorems                                                            *)

LEMMA InvParts == Inv <=> Controls /\ Handover /\ Outgoing /\ Incoming
BY DEF Inv, TypeOK, Controls, Outgoing, Incoming, Bytes

LEMMA InvAlways == Spec => []Inv
<1>1. Init => Inv
  <2> SUFFICES ASSUME Init PROVE Controls /\ Handover /\ Outgoing /\ Incoming
    BY InvParts
  <2>1. Controls /\ Handover
    BY DEF Init, Controls, Handover, ClosedIsReported
  <2>2. Outgoing
    BY BoundAssumption DEF Init, Outgoing, Written, CloseIsLast
  <2>3. Incoming
    <3>1. Passed(<<>>, 0) = 0
      BY DEF Passed
    <3> QED
      BY <3>1 DEF Init, Incoming, Buffered, Given
  <2> QED
    BY <2>1, <2>2, <2>3
<1>2. Inv /\ [Next]_vars => Inv'
  <2> SUFFICES ASSUME Inv, [Next]_vars PROVE Inv'
    OBVIOUS
  <2>1. Controls' /\ Handover' /\ Outgoing' /\ Incoming'
    BY InvParts, ControlStep, OutgoingStep, IncomingStep
  <2> QED
    BY <2>1 DEF Inv, TypeOK, Controls, Outgoing, Incoming, Bytes
<1> QED
  BY <1>1, <1>2, PTL DEF Spec

(* Every variable of the websocket keeps its type.                         *)
THEOREM TypeCorrect == Spec => []TypeOK
<1>1. Inv => TypeOK
  BY DEF Inv
<1> QED
  BY InvAlways, <1>1, PTL

(* Whichever way a connection ends, poll's callbacks have stopped it       *)
(* before anyone sees it closed.                                           *)
THEOREM EndIsReported == Spec => []ClosedIsReported
<1>1. Inv => ClosedIsReported
  BY DEF Inv, Handover
<1> QED
  BY InvAlways, <1>1, PTL

(* The socket is used by one thread at a time, deleted when none is left,  *)
(* and closed only when its connection has stopped.                        *)
THEOREM HandedOver == Spec => []SocketHandedOver
<1>1. Inv => SocketHandedOver
  BY DEF Inv, TypeOK, Handover, SocketHandedOver
<1> QED
  BY InvAlways, <1>1, PTL

(* However the byte streams are cut, frames come out of them whole, once   *)
(* and in order, and nothing follows a close frame.                        *)
THEOREM FramesKeepOrder == Spec => []FramesInOrder
<1>1. ASSUME Inv PROVE FramesInOrder
  <2>1. Incoming /\ Outgoing
    BY <1>1, InvParts
  <2>0. received \in Nat /\ rxbuf \in Seq(Bytes) /\ Buffered(rxbuf, received)
    BY <2>1 DEF Incoming
  <2>2. PICK k \in Nat : k = Passed(rxbuf, received)
    BY <2>0, BufferedHalf
  <2>3. /\ received \in Nat /\ 2 * k <= received
        /\ \A f \in Nat : k < f /\ 2 * f <= received =>
             \E i \in 1..Len(rxbuf) : rxbuf[i] = <<f, 0>>
    BY <2>0, <2>2, BufferedHalf
  <2>4. k <= received \div 2 /\ received \div 2 \in Nat /\ 2 * (received \div 2) <= received
    BY <2>3
  <2>5. Given(delivered, stream, k)
    BY <2>1, <2>2 DEF Incoming
  <2>6. \A i \in 1..Len(delivered) :
          delivered[i] \in 1..(received \div 2) /\ stream[delivered[i]] = "text"
    BY <2>4, <2>5 DEF Given
  <2>7. \A i, j \in 1..Len(delivered) : i < j => delivered[i] < delivered[j]
    BY <2>5 DEF Given
  <2>8. ASSUME NEW f \in 1..(received \div 2), stream[f] = "text"
        PROVE  \/ \E i \in 1..Len(delivered) : delivered[i] = f
               \/ \E i \in 1..Len(rxbuf) : rxbuf[i] = <<f, 0>>
    <3>0. PICK h \in Nat : h = received \div 2 /\ 2 * h <= received
      BY <2>4
    <3>4. f \in Nat /\ f <= h
      BY <3>0
    <3>1. f \in Nat /\ 2 * f <= received
      BY ONLY <3>0, <3>4, <2>3
    <3>2. CASE f <= k
      BY <2>5, <2>8, <3>2 DEF Given
    <3>3. CASE k < f
      BY <2>3, <3>1, <3>3
    <3> QED
      BY <3>1, <3>2, <3>3
  <2>9. wire \o txbuf = Halves(queued)
    <3> DEFINE all == wire \o txbuf
               n == 2 * Len(queued)
    <3>1. /\ Len(wire) \in Nat /\ Len(txbuf) \in Nat /\ Len(queued) \in Nat
          /\ wire \in Seq(Bytes) /\ txbuf \in Seq(Bytes) /\ queued \in Seq(OutKind)
      BY <2>1 DEF Outgoing
    <3>2. /\ Len(wire) + Len(txbuf) = n
          /\ \A i \in 1..Len(wire) : wire[i] = Half(i)
          /\ \A i \in 1..Len(txbuf) : txbuf[i] = Half(Len(wire) + i)
      BY <2>1 DEF Outgoing, Written
    <3>3. /\ all \in Seq(Bytes) /\ Len(all) = Len(wire) + Len(txbuf)
          /\ \A i \in 1..Len(wire) + Len(txbuf) :
               all[i] = IF i <= Len(wire) THEN wire[i] ELSE txbuf[i - Len(wire)]
      BY <3>1, ConcatProperties
    <3>4. /\ Halves(queued) \in Seq(Bytes) /\ Len(Halves(queued)) = n
          /\ \A i \in 1..n : Halves(queued)[i] = Half(i)
      BY <3>1, HalvesOf
    <3> HIDE DEF all, n
    <3>5. Len(all) = n
      BY ONLY <3>2, <3>3
    <3>6. ASSUME NEW i \in 1..n PROVE all[i] = Half(i)
      <4>1. CASE i <= Len(wire)
        BY SMTT(20), <3>1, <3>2, <3>3, <4>1
      <4>2. CASE ~(i <= Len(wire))
        <5>1. i - Len(wire) \in 1..Len(txbuf) /\ Len(wire) + (i - Len(wire)) = i
          BY <3>1, <3>2, <4>2
        <5> QED
          BY <3>2, <3>3, <4>2, <5>1
      <4> QED
        BY <4>1, <4>2
    <3>7. \A i \in 1..Len(all) : all[i] = Halves(queued)[i]
      BY <3>4, <3>5, <3>6
    <3>8. all = Halves(queued)
      BY ONLY <3>3, <3>4, <3>5, <3>7, SeqEqual
    <3> QED
      BY <3>8 DEF all
  <2>10. \A i \in 1..(Len(queued) - 1) : queued[i] # "close"
    BY <2>1 DEF Outgoing, CloseIsLast
  <2> QED
    BY <2>6, <2>7, <2>8, <2>9, <2>10 DEF FramesInOrder
<1> QED
  BY InvAlways, <1>1, PTL
=============================================================================
