-------------------------- MODULE DurableQueue_proofs --------------------------
(* Proofs about DurableQueue, for any requests, users, periods and limits. *)
EXTENDS DurableQueue, SequenceTheorems, WellFoundedInduction, NaturalsInduction,
        FiniteSetTheorems, TLAPS

-----------------------------------------------------------------------------
(* Sequences                                                               *)

(* Prepending an element to a sequence shifts the others by one.           *)
LEMMA Prepended ==
    ASSUME NEW S, NEW x \in S, NEW s \in Seq(S)
    PROVE  /\ <<x>> \o s \in Seq(S)
           /\ Len(<<x>> \o s) = Len(s) + 1
           /\ (<<x>> \o s)[1] = x
           /\ \A i \in 2..Len(s) + 1 : (<<x>> \o s)[i] = s[i - 1]
BY ConcatProperties, SMT

(* SequencesExt's RemoveAt drops one element and keeps the others' order.  *)
LEMMA Removed ==
    ASSUME NEW S, NEW s \in Seq(S), NEW i \in 1..Len(s)
    PROVE  /\ RemoveAt(s, i) \in Seq(S)
           /\ Len(RemoveAt(s, i)) = Len(s) - 1
           /\ \A j \in 1..Len(s) - 1 :
                RemoveAt(s, i)[j] = IF j < i THEN s[j] ELSE s[j + 1]
<1> DEFINE a == SubSeq(s, 1, i - 1)
           b == SubSeq(s, i + 1, Len(s))
<1>1. a \in Seq(S) /\ Len(a) = i - 1 /\ \A j \in 1..i - 1 : a[j] = s[j]
  BY SMT
<1>2. /\ b \in Seq(S) /\ Len(b) = Len(s) - i
      /\ \A j \in 1..Len(s) - i : b[j] = s[i + j]
  BY SMT
<1> HIDE DEF a, b
<1>3. /\ a \o b \in Seq(S) /\ Len(a \o b) = Len(s) - 1
      /\ \A j \in 1..Len(s) - 1 :
           (a \o b)[j] = IF j <= i - 1 THEN a[j] ELSE b[j - (i - 1)]
  <2>1. Len(a) + Len(b) = Len(s) - 1
    BY <1>1, <1>2
  <2>2. /\ a \o b \in Seq(S)
        /\ Len(a \o b) = Len(a) + Len(b)
        /\ \A j \in 1..Len(a) + Len(b) :
             (a \o b)[j] = IF j <= Len(a) THEN a[j] ELSE b[j - Len(a)]
    <3>1. a \in Seq(S) /\ b \in Seq(S)
      BY <1>1, <1>2
    <3> QED
      BY ONLY <3>1, ConcatProperties, Zenon
  <2>3. Len(a) = i - 1
    BY <1>1
  <2> QED
    BY ONLY <2>1, <2>2, <2>3, Zenon
<1>4. RemoveAt(s, i) = a \o b
  BY DEF RemoveAt, a, b
<1>5. ASSUME NEW j \in 1..Len(s) - 1
      PROVE  (a \o b)[j] = IF j < i THEN s[j] ELSE s[j + 1]
  <2>1. CASE j < i
    <3>1. j \in 1..i - 1
      BY <2>1
    <3>2. (a \o b)[j] = a[j]
      BY <1>3, <3>1
    <3>3. a[j] = s[j]
      BY <1>1, <3>1
    <3> QED
      BY <2>1, <3>2, <3>3
  <2>2. CASE ~(j < i)
    <3>1. j - (i - 1) \in 1..Len(s) - i /\ i + (j - (i - 1)) = j + 1
      BY <2>2
    <3> QED
      BY <1>2, <1>3, <2>2, <3>1
  <2> QED
    BY <2>1, <2>2
<1> QED
  BY <1>3, <1>4, <1>5

(* A function on 1..n is a sequence of length n.                           *)
LEMMA FunctionIsSeq ==
    ASSUME NEW S, NEW n \in Nat, NEW f \in [1..n -> S]
    PROVE  f \in Seq(S) /\ Len(f) = n
<1>1. f \in Seq(S)
  BY SeqDef
<1>2. Len(f) \in Nat /\ DOMAIN f = 1..Len(f)
  BY <1>1, LenProperties
<1> QED
  BY <1>1, <1>2

-----------------------------------------------------------------------------
(* The queue and the requestIds in its file                                *)

(* The ids of a queue are a sequence of requests.                          *)
LEMMA IdsOf ==
    ASSUME NEW q \in Seq(Entry)
    PROVE  /\ Ids(q) \in Seq(Request)
           /\ Len(Ids(q)) = Len(q)
           /\ \A i \in 1..Len(q) : Ids(q)[i] = q[i].id
           /\ \A r : r \in ToSet(Ids(q)) <=> \E i \in 1..Len(q) : q[i].id = r
<1>1. \A i \in 1..Len(q) : q[i].id \in Request
  <2>1. \A i \in 1..Len(q) : q[i] \in Entry
    BY ElementOfSeq
  <2> QED
    BY <2>1 DEF Entry
<1>2. Len(q) \in Nat
  BY LenProperties
<1>3. Ids(q) \in [1..Len(q) -> Request]
  BY <1>1 DEF Ids
<1>4. Ids(q) \in Seq(Request) /\ Len(Ids(q)) = Len(q)
  BY <1>2, <1>3, FunctionIsSeq
<1>5. DOMAIN Ids(q) = 1..Len(q)
  BY DEF Ids
<1>6. \A i \in 1..Len(q) : Ids(q)[i] = q[i].id
  BY DEF Ids
<1> QED
  BY <1>4, <1>5, <1>6 DEF ToSet

(* What is loaded is what was written.                                     *)
LEMMA LoadedOf ==
    ASSUME NEW ids \in Seq(Request), NEW attach \in Reattach
    PROVE  Loaded(ids, attach) \in Seq(Entry) /\ Ids(Loaded(ids, attach)) = ids
<1>1. Len(ids) \in Nat /\ DOMAIN ids = 1..Len(ids) /\ \A i \in 1..Len(ids) : ids[i] \in Request
  BY LenProperties, ElementOfSeq
<1>2. Loaded(ids, attach) \in [1..Len(ids) -> Entry]
  BY <1>1, ReattachAssumption DEF Loaded, Entry
<1>3. Loaded(ids, attach) \in Seq(Entry) /\ Len(Loaded(ids, attach)) = Len(ids)
  BY <1>1, <1>2, FunctionIsSeq
<1>4. Ids(Loaded(ids, attach)) \in Seq(Request) /\ Len(Ids(Loaded(ids, attach))) = Len(ids)
  BY <1>3, IdsOf
<1>5. \A i \in 1..Len(ids) : Ids(Loaded(ids, attach))[i] = ids[i]
  BY <1>3 DEF Ids, Loaded
<1> QED
  BY <1>3, <1>4, <1>5, SeqEqual

(* A queue with a request of a new id in front.                            *)
LEMMA PrependedIds ==
    ASSUME NEW q \in Seq(Entry), NEW e \in Entry,
           IsInjective(Ids(q)), e.id \notin ToSet(Ids(q))
    PROVE  /\ <<e>> \o q \in Seq(Entry)
           /\ IsInjective(Ids(<<e>> \o q))
           /\ ToSet(Ids(<<e>> \o q)) = ToSet(Ids(q)) \cup {e.id}
<1> DEFINE p == <<e>> \o q
<1>1. /\ p \in Seq(Entry) /\ Len(p) = Len(q) + 1 /\ p[1] = e
      /\ \A i \in 2..Len(q) + 1 : p[i] = q[i - 1]
  BY Prepended
<1> HIDE DEF p
<1>2. Len(q) \in Nat /\ DOMAIN Ids(p) = 1..Len(p) /\ DOMAIN Ids(q) = 1..Len(q)
  BY LenProperties DEF Ids
<1>3. \A i \in 1..Len(p) : Ids(p)[i] = IF i = 1 THEN e.id ELSE Ids(q)[i - 1]
  <2>1. ASSUME NEW i \in 1..Len(p)
        PROVE  Ids(p)[i] = IF i = 1 THEN e.id ELSE Ids(q)[i - 1]
    <3>1. Ids(p)[i] = p[i].id
      BY <1>1, IdsOf
    <3>2. CASE i = 1
      BY <1>1, <3>1, <3>2
    <3>3. CASE i # 1
      <4>1. i \in 2..Len(q) + 1 /\ i - 1 \in 1..Len(q)
        BY <1>1, <1>2, <3>3
      <4>2. Ids(q)[i - 1] = q[i - 1].id /\ p[i] = q[i - 1]
        BY <1>1, <4>1, IdsOf
      <4> QED
        BY <3>1, <3>3, <4>2
    <3> QED
      BY <3>2, <3>3
  <2> QED
    BY <2>1
<1>4. \A i \in 1..Len(q) : Ids(q)[i] # e.id
  BY IdsOf
<1>5. IsInjective(Ids(p))
  <2>1. \A i, j \in 1..Len(q) : Ids(q)[i] = Ids(q)[j] => i = j
    BY <1>2 DEF IsInjective
  <2>2. ASSUME NEW i \in 1..Len(p), NEW j \in 1..Len(p), Ids(p)[i] = Ids(p)[j]
        PROVE  i = j
    <3>1. i # 1 => i - 1 \in 1..Len(q)
      BY <1>1, <1>2
    <3>2. j # 1 => j - 1 \in 1..Len(q)
      BY <1>1, <1>2
    <3>3. i # 1 /\ j # 1 => i - 1 = j - 1
      BY <1>3, <2>1, <2>2, <3>1, <3>2
    <3> QED
      BY <1>2, <1>3, <1>4, <2>2, <3>1, <3>2, <3>3
  <2> QED
    BY <1>2, <2>2 DEF IsInjective
<1>6. ASSUME NEW r PROVE r \in ToSet(Ids(p)) <=> r \in ToSet(Ids(q)) \cup {e.id}
  <2>1. r \in ToSet(Ids(p)) <=> \E i \in 1..Len(p) : p[i].id = r
    BY <1>1, IdsOf
  <2>2. r \in ToSet(Ids(q)) <=> \E i \in 1..Len(q) : q[i].id = r
    BY IdsOf
  <2>3. ASSUME NEW i \in 1..Len(q), q[i].id = r
        PROVE  i + 1 \in 1..Len(p) /\ p[i + 1].id = r
    <3>1. i + 1 \in 2..Len(q) + 1 /\ (i + 1) - 1 = i /\ i + 1 \in 1..Len(p)
      BY <1>1, <1>2
    <3>2. p[i + 1] = q[(i + 1) - 1]
      BY <1>1, <3>1
    <3> QED
      BY <2>3, <3>1, <3>2
  <2>4. ASSUME NEW i \in 1..Len(p), p[i].id = r
        PROVE  r = e.id \/ (i - 1 \in 1..Len(q) /\ q[i - 1].id = r)
    BY <1>1, <1>2, <2>4
  <2>5. 1 \in 1..Len(p) /\ p[1].id = e.id
    BY <1>1, <1>2
  <2> QED
    BY <2>1, <2>2, <2>3, <2>4, <2>5
<1>7. ToSet(Ids(p)) = ToSet(Ids(q)) \cup {e.id}
  BY <1>6
<1> QED
  BY <1>1, <1>5, <1>7 DEF p

(* A queue without the request at position k.                              *)
LEMMA RemovedIds ==
    ASSUME NEW q \in Seq(Entry), NEW k \in 1..Len(q), IsInjective(Ids(q))
    PROVE  /\ RemoveAt(q, k) \in Seq(Entry)
           /\ IsInjective(Ids(RemoveAt(q, k)))
           /\ ToSet(Ids(RemoveAt(q, k))) = ToSet(Ids(q)) \ {q[k].id}
<1> DEFINE p == RemoveAt(q, k)
<1>1. /\ p \in Seq(Entry) /\ Len(p) = Len(q) - 1
      /\ \A j \in 1..Len(q) - 1 : p[j] = IF j < k THEN q[j] ELSE q[j + 1]
  BY Removed
<1> HIDE DEF p
<1>2. Len(q) \in Nat /\ DOMAIN Ids(p) = 1..Len(p) /\ DOMAIN Ids(q) = 1..Len(q)
  BY LenProperties DEF Ids
<1>3. \A i, j \in 1..Len(q) : q[i].id = q[j].id => i = j
  BY <1>2, IdsOf DEF IsInjective
<1>4. \A j \in 1..Len(p) : Ids(p)[j] = p[j].id
  BY <1>1, IdsOf
<1>5. IsInjective(Ids(p))
  <2>1. ASSUME NEW i \in 1..Len(p), NEW j \in 1..Len(p), p[i].id = p[j].id
        PROVE  i = j
    <3> DEFINE At(m) == IF m < k THEN m ELSE m + 1
    <3>1. At(i) \in 1..Len(q) /\ p[i] = q[At(i)]
      BY <1>1, <1>2
    <3>2. At(j) \in 1..Len(q) /\ p[j] = q[At(j)]
      BY <1>1, <1>2
    <3>3. At(i) = At(j)
      BY <1>3, <2>1, <3>1, <3>2
    <3> QED
      BY <3>3
  <2> QED
    BY <1>2, <1>4, <2>1 DEF IsInjective
<1>6. ASSUME NEW r PROVE r \in ToSet(Ids(p)) <=> r \in ToSet(Ids(q)) \ {q[k].id}
  <2>1. r \in ToSet(Ids(p)) <=> \E i \in 1..Len(p) : p[i].id = r
    BY <1>1, IdsOf
  <2>2. r \in ToSet(Ids(q)) <=> \E i \in 1..Len(q) : q[i].id = r
    BY IdsOf
  <2>3. ASSUME NEW i \in 1..Len(p), p[i].id = r
        PROVE  r # q[k].id /\ \E j \in 1..Len(q) : q[j].id = r
    <3>1. CASE i < k
      BY <1>1, <1>2, <1>3, <2>3, <3>1
    <3>2. CASE ~(i < k)
      <4>1. i + 1 \in 1..Len(q) /\ i + 1 # k /\ q[i + 1].id = r
        BY <1>1, <1>2, <2>3, <3>2
      <4> QED
        BY <1>3, <4>1
    <3> QED
      BY <3>1, <3>2
  <2>4. ASSUME NEW j \in 1..Len(q), q[j].id = r, r # q[k].id
        PROVE  \E i \in 1..Len(p) : p[i].id = r
    <3>1. CASE j < k
      <4>1. j \in 1..Len(p) /\ p[j].id = r
        BY <1>1, <1>2, <2>4, <3>1
      <4> QED
        BY <4>1
    <3>2. CASE ~(j < k)
      <4>1. j - 1 \in 1..Len(p) /\ p[j - 1].id = r
        BY SMTT(20), <1>1, <1>2, <2>4, <3>2
      <4> QED
        BY <4>1
    <3> QED
      BY <3>1, <3>2
  <2> QED
    BY <2>1, <2>2, <2>3, <2>4
<1>7. ToSet(Ids(p)) = ToSet(Ids(q)) \ {q[k].id}
  BY <1>6
<1> QED
  BY <1>1, <1>5, <1>7 DEF p

(* A set of positions that is not empty has a first one.                   *)
LEMMA LeastElement ==
    ASSUME NEW S, S # {}, S \subseteq Nat
    PROVE  First(S) \in S
<1>1. PICK i \in S : \A j \in S : ~(<<j, i>> \in OpToRel(<, Nat))
  BY NatLessThanWellFounded, WFMin
<1>2. \A j \in S : ~(j < i)
  <2>1. OpToRel(<, Nat) = {ss \in Nat \X Nat : ss[1] < ss[2]}
    BY DEF OpToRel
  <2>2. ASSUME NEW j \in S, j < i PROVE FALSE
    <3>1. <<j, i>> \in Nat \X Nat /\ <<j, i>>[1] < <<j, i>>[2]
      BY <2>2
    <3>2. <<j, i>> \in {ss \in Nat \X Nat : ss[1] < ss[2]}
      BY ONLY <3>1, Zenon
    <3> QED
      BY ONLY <1>1, <2>1, <3>2, Zenon
  <2> QED
    BY <2>2
<1>3. \A j \in S : i <= j
  BY <1>2
<1> QED
  BY <1>3 DEF First

(* The first position of a request that is queued.                         *)
LEMMA PositionOf ==
    ASSUME queue \in Seq(Entry), NEW r, Queued(r)
    PROVE  Position(r) \in 1..Len(queue) /\ queue[Position(r)].id = r
<1> DEFINE S == {i \in 1..Len(queue) : queue[i].id = r}
<1>1. S # {} /\ S \subseteq Nat
  BY LenProperties DEF Queued
<1>2. First(S) \in S
  <2> HIDE DEF S
  <2> QED
    BY <1>1, LeastElement
<1> QED
  BY <1>2 DEF Position

-----------------------------------------------------------------------------
(* The inductive invariant                                                 *)

(* The queue in memory is the one in the file of the current user.         *)
Persisted == store[user] = Ids(queue)

(* A file holds requests of its user only, each once.                      *)
Files ==
    \A u \in User : /\ IsInjective(store[u])
                    /\ \A r \in ToSet(store[u]) : r \in submitted /\ owner[r] = u

Past == withdrawn \subseteq submitted /\ NoDurableLost /\ WithdrawnIsGone

Inv == TypeOK /\ Persisted /\ Files /\ Past

(* Nothing is stored to begin with.                                        *)
LEMMA InvInit == Init => Inv
<1> SUFFICES ASSUME Init PROVE Inv
  OBVIOUS
<1>1. <<>> \in Seq(Request) /\ <<>> \in Seq(Entry) /\ Len(<<>>) = 0
  BY EmptySeq
<1>2. FreshConnection \in Connection
  BY DEF FreshConnection, Connection
<1>3. <<FreshConnection>> \in Seq(Connection)
  BY <1>2
<1>4. TypeOK
  BY <1>1, <1>3, UserAssumption DEF Init, TypeOK
<1>5. store[user] = <<>> /\ Ids(queue) = <<>>
  <2>1. Ids(<<>>) \in Seq(Request) /\ Len(Ids(<<>>)) = 0
    BY <1>1, IdsOf
  <2> QED
    BY <1>4, <2>1, EmptySeq DEF Init, TypeOK
<1>6. \A u \in User : store[u] = <<>>
  BY DEF Init
<1>7. IsInjective(<<>>) /\ ToSet(<<>>) = {}
  BY DEF IsInjective, ToSet
<1>8. Files
  BY <1>6, <1>7 DEF Files
<1>9. Past
  BY <1>6, <1>7 DEF Past, NoDurableLost, WithdrawnIsGone, Stored, Init
<1> QED
  BY <1>4, <1>5, <1>8, <1>9 DEF Inv, Persisted

(* A step that changes no file, whoever the user is afterwards.            *)
LEMMA InvSameFiles ==
    ASSUME Inv, TypeOK', Persisted',
           UNCHANGED <<store, submitted, owner, withdrawn, torn>>,
           answered \subseteq answered'
    PROVE  Inv'
<1>1. Files'
  BY DEF Inv, Files
<1>2. Past'
  BY DEF Inv, Past, NoDurableLost, WithdrawnIsGone, Stored
<1> QED
  BY <1>1, <1>2 DEF Inv

(* A request leaves the queue and its file: it was answered or withdrawn.  *)
LEMMA InvRemoved ==
    ASSUME Inv, TypeOK', NEW r \in Request, Queued(r),
           SetQueue(RemoveAt(queue, Position(r))),
           UNCHANGED <<user, submitted, owner, torn>>,
           r \in answered' \cup withdrawn',
           answered \subseteq answered',
           withdrawn \subseteq withdrawn', withdrawn' \subseteq withdrawn \cup {r}
    PROVE  Inv'
<1> DEFINE k == Position(r)
           q == RemoveAt(queue, k)
<1>1. queue \in Seq(Entry) /\ user \in User /\ store \in [User -> Seq(Request)]
  BY DEF Inv, TypeOK
<1>2. k \in 1..Len(queue) /\ queue[k].id = r
  BY <1>1, PositionOf
<1>3. IsInjective(Ids(queue))
  BY <1>1 DEF Inv, Persisted, Files
<1> HIDE DEF k
<1>4. /\ q \in Seq(Entry)
      /\ IsInjective(Ids(q))
      /\ ToSet(Ids(q)) = ToSet(Ids(queue)) \ {r}
  <2>1. /\ RemoveAt(queue, k) \in Seq(Entry)
        /\ IsInjective(Ids(RemoveAt(queue, k)))
        /\ ToSet(Ids(RemoveAt(queue, k))) = ToSet(Ids(queue)) \ {queue[k].id}
    BY ONLY <1>1, <1>2, <1>3, RemovedIds
  <2> QED
    BY <1>2, <2>1
<1>5. queue' = q /\ store' = [store EXCEPT ![user] = Ids(q)]
  BY DEF SetQueue, k
<1> HIDE DEF q
<1>6. store'[user] = Ids(q) /\ \A u \in User \ {user} : store'[u] = store[u]
  BY <1>1, <1>5
<1>7. Persisted'
  BY <1>5, <1>6 DEF Persisted
<1>8. \A u \in User : ToSet(store'[u]) = ToSet(store[u]) \ {r}
  <2>1. ToSet(store'[user]) = ToSet(store[user]) \ {r}
    BY <1>4, <1>6 DEF Inv, Persisted
  <2>2. \E i \in 1..Len(queue) : queue[i].id = r
    BY DEF Queued
  <2>3. r \in ToSet(store[user])
    BY <1>1, <2>2, IdsOf DEF Inv, Persisted
  <2>4. \A u \in User \ {user} : r \notin ToSet(store[u])
    BY <1>1, <2>3 DEF Inv, Files
  <2> QED
    BY <1>6, <2>1, <2>4
<1>9. Files'
  BY <1>4, <1>6, <1>8 DEF Inv, Files
<1>10. withdrawn' \subseteq submitted'
  <2>1. r \in submitted
    <3>1. r \in ToSet(store[user])
      BY <1>1, IdsOf DEF Inv, Persisted, Queued
    <3> QED
      BY <1>1, <3>1 DEF Inv, Files
  <2> QED
    BY <2>1 DEF Inv, Past
<1>11. NoDurableLost'
  <2> SUFFICES ASSUME NEW s \in submitted \ (answered' \cup withdrawn' \cup torn)
               PROVE  s \in ToSet(store'[owner[s]])
    BY DEF NoDurableLost, Stored
  <2>1. s \in ToSet(store[owner[s]]) /\ s # r
    BY DEF Inv, Past, NoDurableLost, Stored
  <2>2. owner[s] \in User
    BY DEF Inv, TypeOK
  <2> QED
    BY <1>8, <2>1, <2>2
<1>12. WithdrawnIsGone'
  BY <1>8 DEF Inv, Past, WithdrawnIsGone, Stored
<1> QED
  BY <1>7, <1>9, <1>10, <1>11, <1>12 DEF Inv, Past

(* A request of a new id enters the queue and its file.                    *)
LEMMA InvSendDurable ==
    ASSUME Inv, TypeOK', NEW r \in Request, SendDurable(r)
    PROVE  Inv'
<1> DEFINE e == [id |-> r, left |-> 0, callback |-> TRUE]
           q == <<e>> \o queue
<1>1. /\ queue \in Seq(Entry) /\ user \in User /\ store \in [User -> Seq(Request)]
      /\ submitted \subseteq Request /\ owner \in [Request -> User]
  BY DEF Inv, TypeOK
<1>2. e \in Entry /\ e.id = r
  BY DEF Entry
<1>3. \A u \in User : r \notin ToSet(store[u])
  BY DEF Inv, Files, SendDurable
<1>4. IsInjective(Ids(queue)) /\ r \notin ToSet(Ids(queue))
  BY <1>1, <1>3 DEF Inv, Persisted, Files
<1>5. queue' = q /\ store' = [store EXCEPT ![user] = Ids(q)]
  BY DEF SendDurable, SetQueue
<1> HIDE DEF e
<1>6. /\ q \in Seq(Entry)
      /\ IsInjective(Ids(q))
      /\ ToSet(Ids(q)) = ToSet(Ids(queue)) \cup {r}
  BY <1>1, <1>2, <1>4, PrependedIds
<1> HIDE DEF q
<1>7. store'[user] = Ids(q) /\ \A u \in User \ {user} : store'[u] = store[u]
  BY <1>1, <1>5
<1>8. /\ submitted' = submitted \cup {r} /\ owner' = [owner EXCEPT ![r] = user]
      /\ r \notin submitted
      /\ UNCHANGED <<user, answered, withdrawn, torn>>
  BY DEF SendDurable
<1>9. owner'[r] = user /\ \A s \in Request \ {r} : owner'[s] = owner[s]
  BY <1>1, <1>8
<1>10. Persisted'
  BY <1>5, <1>7, <1>8 DEF Persisted
<1>11. /\ ToSet(store'[user]) = ToSet(store[user]) \cup {r}
       /\ \A u \in User \ {user} : ToSet(store'[u]) = ToSet(store[u])
  BY <1>6, <1>7 DEF Inv, Persisted
<1>12. Files'
  <2> SUFFICES ASSUME NEW u \in User
               PROVE  /\ IsInjective(store'[u])
                      /\ \A s \in ToSet(store'[u]) : s \in submitted' /\ owner'[s] = u
    BY DEF Files
  <2>1. IsInjective(store'[u])
    BY <1>6, <1>7 DEF Inv, Files
  <2>2. ASSUME NEW s \in ToSet(store'[u]) PROVE s \in submitted' /\ owner'[s] = u
    <3>1. CASE s = r
      BY <1>3, <1>8, <1>9, <1>11, <2>2, <3>1
    <3>2. CASE s # r
      <4>1. s \in ToSet(store[u])
        BY <1>11, <2>2, <3>2
      <4>2. s \in submitted /\ owner[s] = u
        BY <4>1 DEF Inv, Files
      <4> QED
        BY <1>1, <1>8, <1>9, <3>2, <4>2
    <3> QED
      BY <3>1, <3>2
  <2> QED
    BY <2>1, <2>2
<1>13. NoDurableLost'
  <2> SUFFICES ASSUME NEW s \in submitted' \ (answered \cup withdrawn \cup torn)
               PROVE  s \in ToSet(store'[owner'[s]])
    BY <1>8 DEF NoDurableLost, Stored
  <2>1. CASE s = r
    BY <1>9, <1>11, <2>1
  <2>2. CASE s # r
    <3>1. s \in submitted /\ s \in Request /\ owner[s] \in User
      BY <1>1, <1>8, <2>2
    <3>2. s \in ToSet(store[owner[s]])
      BY <3>1 DEF Inv, Past, NoDurableLost, Stored
    <3> QED
      BY <1>9, <1>11, <2>2, <3>1, <3>2
  <2> QED
    BY <2>1, <2>2
<1>14. WithdrawnIsGone'
  <2>1. r \notin withdrawn
    BY <1>8 DEF Inv, Past
  <2> QED
    BY <1>8, <1>11, <2>1 DEF Inv, Past, WithdrawnIsGone, Stored
<1> QED
  BY <1>8, <1>10, <1>12, <1>13, <1>14 DEF Inv, Past

(* A crash in the middle of a write empties the file.                      *)
LEMMA InvCrashInWrite ==
    ASSUME Inv, TypeOK', NEW r \in Request, CrashInWrite(r)
    PROVE  Inv'
<1>1. /\ user \in User /\ store \in [User -> Seq(Request)] /\ queue \in Seq(Entry)
      /\ submitted \subseteq Request /\ owner \in [Request -> User]
  BY DEF Inv, TypeOK
<1>2. /\ store' = [store EXCEPT ![user] = <<>>]
      /\ \E attach \in Reattach : queue' = Loaded(store'[user], attach)
      /\ withdrawn' = withdrawn \cup ({r} \cap submitted)
      /\ torn' = torn \cup (ToSet(store[user]) \ {r})
      /\ UNCHANGED <<user, submitted, owner, answered>>
  BY DEF CrashInWrite, Initialise
<1>3. store'[user] = <<>> /\ \A u \in User \ {user} : store'[u] = store[u]
  BY <1>1, <1>2
<1>4. IsInjective(<<>>) /\ ToSet(<<>>) = {}
  BY DEF IsInjective, ToSet
<1>5. Persisted'
  <2>1. store'[user] \in Seq(Request)
    BY <1>1, <1>2 DEF TypeOK
  <2>2. \A attach \in Reattach : Ids(Loaded(store'[user], attach)) = store'[user]
    BY <2>1, LoadedOf
  <2> QED
    BY <1>2, <2>2 DEF Persisted
<1>6. Files'
  BY <1>2, <1>3, <1>4 DEF Inv, Files
<1>7. NoDurableLost'
  <2> SUFFICES ASSUME NEW s \in submitted \ (answered \cup withdrawn' \cup torn')
               PROVE  s \in ToSet(store'[owner[s]])
    BY <1>2 DEF NoDurableLost, Stored
  <2>1. s \in ToSet(store[owner[s]]) /\ owner[s] \in User
    BY <1>1, <1>2 DEF Inv, Past, NoDurableLost, Stored
  <2>2. s # r
    BY <1>2
  <2>3. owner[s] # user
    BY <1>2, <2>1, <2>2
  <2> QED
    BY <1>3, <2>1, <2>3
<1>8. WithdrawnIsGone'
  <2> SUFFICES ASSUME NEW u \in User, NEW s \in withdrawn', s \in ToSet(store'[u])
               PROVE  FALSE
    BY DEF WithdrawnIsGone, Stored
  <2>1. u # user /\ s \in ToSet(store[u])
    BY <1>3, <1>4
  <2>2. s = r /\ r \in submitted
    BY <1>2, <2>1 DEF Inv, Past, WithdrawnIsGone, Stored
  <2>3. \E i \in 1..Len(queue) : queue[i].id = r
    BY <2>2 DEF CrashInWrite, Queued
  <2>4. r \in ToSet(store[user])
    BY <1>1, <2>3, IdsOf DEF Inv, Persisted
  <2>5. owner[r] = user /\ owner[r] = u
    BY <1>1, <2>1, <2>2, <2>4 DEF Inv, Files
  <2> QED
    BY <2>1, <2>5
<1>9. withdrawn' \subseteq submitted'
  BY <1>2 DEF Inv, Past
<1> QED
  BY <1>5, <1>6, <1>7, <1>8, <1>9 DEF Inv, Past

-----------------------------------------------------------------------------
(* Type correctness                                                        *)

(* Ageing a queue changes neither its ids nor its type.                    *)
LEMMA AgedQueue ==
    ASSUME NEW q \in Seq(Entry), NEW dt \in Deltas
    PROVE  /\ Aged(q, dt) \in Seq(Entry)
           /\ Len(Aged(q, dt)) = Len(q)
           /\ Ids(Aged(q, dt)) = Ids(q)
<1>1. Len(q) \in Nat /\ \A i \in 1..Len(q) : q[i] \in Entry
  BY LenProperties, ElementOfSeq
<1>2. ASSUME NEW i \in 1..Len(q)
      PROVE  /\ [q[i] EXCEPT !.left = Floored(@ - dt)] \in Entry
             /\ [q[i] EXCEPT !.left = Floored(@ - dt)].id = q[i].id
  <2>1. q[i].left \in Nat /\ dt \in Nat
    BY <1>1, DeltasAssumption DEF Entry
  <2>2. Floored(q[i].left - dt) \in Nat
    BY <2>1 DEF Floored
  <2> QED
    BY <1>1, <2>2 DEF Entry
<1>3. Aged(q, dt) \in [1..Len(q) -> Entry]
  BY <1>2 DEF Aged
<1>4. Aged(q, dt) \in Seq(Entry) /\ Len(Aged(q, dt)) = Len(q)
  BY <1>1, <1>3, FunctionIsSeq
<1>5. \A i \in 1..Len(q) : Aged(q, dt)[i].id = q[i].id
  BY <1>2 DEF Aged
<1>6. Ids(Aged(q, dt)) = Ids(q)
  BY <1>4, <1>5 DEF Ids
<1> QED
  BY <1>4, <1>6

(* Timing out copies keeps the connections.                                *)
LEMMA ExpiredConnections ==
    ASSUME NEW cs \in Seq(Connection), NEW dt \in Deltas
    PROVE  Expired(cs, dt) \in Seq(Connection) /\ Len(Expired(cs, dt)) = Len(cs)
<1>1. Len(cs) \in Nat /\ \A i \in 1..Len(cs) : cs[i] \in Connection
  BY LenProperties, ElementOfSeq
<1>2. ASSUME NEW i \in 1..Len(cs)
      PROVE  [cs[i] EXCEPT !.pending = Unexpired(@, dt)] \in Connection
  <2>1. cs[i].pending \subseteq Entry
    BY <1>1 DEF Connection
  <2>2. ASSUME NEW c \in cs[i].pending, c.left >= dt
        PROVE  [c EXCEPT !.left = @ - dt] \in Entry
    BY SMTT(20), <2>1, <2>2, DeltasAssumption DEF Entry
  <2>3. Unexpired(cs[i].pending, dt) \subseteq Entry
    BY <2>2 DEF Unexpired
  <2> QED
    BY <1>1, <2>3 DEF Connection
<1>3. Expired(cs, dt) \in [1..Len(cs) -> Connection]
  BY <1>2 DEF Expired
<1> QED
  BY <1>1, <1>3, FunctionIsSeq

(* Changing one connection keeps the others.                               *)
LEMMA ChangedConnection ==
    ASSUME NEW cs \in Seq(Connection), NEW i \in 1..Len(cs), NEW c \in Connection
    PROVE  /\ [cs EXCEPT ![i] = c] \in Seq(Connection)
           /\ Len([cs EXCEPT ![i] = c]) = Len(cs)
  BY ExceptSeq

(* A queue that becomes q together with its file.                          *)
LEMMA SetQueueType ==
    ASSUME TypeOK, NEW q \in Seq(Entry), SetQueue(q)
    PROVE  queue' \in Seq(Entry) /\ store' \in [User -> Seq(Request)]
<1>1. Ids(q) \in Seq(Request)
  BY IdsOf
<1> QED
  BY <1>1 DEF SetQueue, TypeOK

(* Removing a request from queue and file.                                 *)
LEMMA RemoveType ==
    ASSUME TypeOK, NEW r, RemoveDurableQueueEntry(r)
    PROVE  queue' \in Seq(Entry) /\ store' \in [User -> Seq(Request)]
<1>1. CASE Queued(r)
  <2>1. Position(r) \in 1..Len(queue)
    BY <1>1, PositionOf DEF TypeOK
  <2>2. RemoveAt(queue, Position(r)) \in Seq(Entry)
    BY <2>1, Removed DEF TypeOK
  <2> QED
    BY <1>1, <2>2, SetQueueType DEF RemoveDurableQueueEntry
<1>2. CASE ~Queued(r)
  BY <1>2 DEF RemoveDurableQueueEntry, TypeOK
<1> QED
  BY <1>1, <1>2

(* A process that starts finds its state in the files.                     *)
LEMMA InitialiseType ==
    ASSUME TypeOK, NEW u \in User, NEW files \in [User -> Seq(Request)],
           Initialise(u, files), withdrawn' \subseteq Request, torn' \subseteq Request
    PROVE  TypeOK' /\ Persisted'
<1>1. \A attach \in Reattach : /\ Loaded(files[u], attach) \in Seq(Entry)
                              /\ Ids(Loaded(files[u], attach)) = files[u]
  BY LoadedOf
<1>2. <<FreshConnection>> \in Seq(Connection)
  <2>1. FreshConnection \in Connection
    BY DEF FreshConnection, Connection
  <2> QED
    BY <2>1
<1>3. Persisted'
  BY <1>1 DEF Initialise, Persisted
<1> QED
  BY <1>1, <1>2, <1>3 DEF Initialise, TypeOK

(* The connections change and nothing else does.                           *)
LEMMA TypeConnections ==
    ASSUME TypeOK, Connections
    PROVE  TypeOK'
<1>1. Len(conns) \in Nat /\ \A i \in 1..Len(conns) : conns[i] \in Connection
  BY LenProperties, ElementOfSeq DEF TypeOK
<1> SUFFICES conns' \in Seq(Connection)
  BY DEF Connections, ConnectionReady, CloseFrame, Disconnect, ShutDown,
         NewConnection, SocketClosed, DeleteConnection, Unrelated, history, TypeOK
<1>2. ASSUME NEW i \in 1..Len(conns)
      PROVE  /\ [conns[i] EXCEPT !.ready = TRUE] \in Connection
             /\ [conns[i] EXCEPT !.ready = FALSE] \in Connection
             /\ [conns[i] EXCEPT !.stopped = TRUE] \in Connection
             /\ [conns[i] EXCEPT !.ready = FALSE, !.stopped = TRUE] \in Connection
  BY <1>1 DEF Connection
<1>3. ASSUME NEW i \in 1..Len(conns), ConnectionReady(i)
      PROVE  conns' \in Seq(Connection)
  <2>1. conns' = [conns EXCEPT ![i] = [conns[i] EXCEPT !.ready = TRUE]]
    BY <1>3 DEF ConnectionReady
  <2> QED
    BY <1>2, <2>1, ChangedConnection DEF TypeOK
<1>4. CASE Disconnect
  <2>1. conns # <<>> /\ conns' = [conns EXCEPT ![1] = [conns[1] EXCEPT !.stopped = TRUE]]
    BY <1>4 DEF Disconnect
  <2>2. 1 \in 1..Len(conns)
    BY <1>1, <2>1, EmptySeq DEF TypeOK
  <2> QED
    BY <1>2, <2>1, <2>2, ChangedConnection DEF TypeOK
<1>5. CASE NewConnection
  <2> DEFINE old == [i \in 1..Len(conns) |-> [conns[i] EXCEPT !.stopped = TRUE]]
  <2>1. old \in Seq(Connection)
    <3>1. old \in [1..Len(conns) -> Connection]
      BY <1>2
    <3> HIDE DEF old
    <3> QED
      BY <1>1, <3>1, FunctionIsSeq
  <2>2. FreshConnection \in Connection
    BY DEF FreshConnection, Connection
  <2>3. conns' = <<FreshConnection>> \o old
    BY <1>5 DEF NewConnection
  <2> HIDE DEF old
  <2> QED
    BY <2>1, <2>2, <2>3, Prepended
<1>6. ASSUME NEW i \in 1..Len(conns), SocketClosed(i)
      PROVE  conns' \in Seq(Connection)
  <2>1. conns' = [conns EXCEPT ![i] = [conns[i] EXCEPT !.ready = FALSE, !.stopped = TRUE]]
    BY <1>6 DEF SocketClosed
  <2> QED
    BY <1>2, <2>1, ChangedConnection DEF TypeOK
<1>7. ASSUME NEW i \in 1..Len(conns), DeleteConnection(i)
      PROVE  conns' \in Seq(Connection)
  BY <1>7, Removed DEF DeleteConnection, TypeOK
<1>8. CASE CloseFrame
  <2>1. conns # <<>> /\ conns' = [conns EXCEPT ![1] = [conns[1] EXCEPT !.ready = FALSE]]
    BY <1>8 DEF CloseFrame
  <2>2. 1 \in 1..Len(conns)
    BY <1>1, <2>1, EmptySeq DEF TypeOK
  <2> QED
    BY <1>2, <2>1, <2>2, ChangedConnection DEF TypeOK
<1>9. CASE ShutDown
  <2>1. conns' \in [1..Len(conns) -> Connection]
    BY <1>2, <1>9 DEF ShutDown
  <2> QED
    BY <1>1, <2>1, FunctionIsSeq
<1> QED
  BY <1>3, <1>4, <1>5, <1>6, <1>7, <1>8, <1>9 DEF Connections

(* ProcessPersistentQueue and ProcessPendingQueue: the ids of the queue    *)
(* stay what they are.                                                     *)
LEMMA TypeUpdate ==
    ASSUME TypeOK, NEW dt \in Deltas, UpdateQuiet(dt) \/ UpdateSends(dt)
    PROVE  TypeOK' /\ Ids(queue') = Ids(queue)
<1>1. Len(conns) \in Nat /\ \A i \in 1..Len(conns) : conns[i] \in Connection
  BY LenProperties, ElementOfSeq DEF TypeOK
<1>2. /\ Aged(queue, dt) \in Seq(Entry) /\ Len(Aged(queue, dt)) = Len(queue)
      /\ Ids(Aged(queue, dt)) = Ids(queue)
  BY AgedQueue DEF TypeOK
<1>3. dt \in Nat
  BY DeltasAssumption
<1>4. CASE UpdateQuiet(dt)
  <2>1. queue' \in Seq(Entry) /\ Ids(queue') = Ids(queue)
    BY <1>2, <1>4 DEF UpdateQuiet, TypeOK
  <2>2. drain' \in Nat
    BY <1>3, <1>4 DEF UpdateQuiet, Floored, TypeOK
  <2>3. conns' \in Seq(Connection)
    BY <1>4, ExpiredConnections DEF UpdateQuiet, TypeOK
  <2> QED
    BY <1>4, <2>1, <2>2, <2>3 DEF UpdateQuiet, TypeOK, history
<1>5. CASE UpdateSends(dt)
  <2> DEFINE q == Aged(queue, dt)
             i == First(Due(q))
  <2>1. i \in 1..Len(q)
    <3>1. Due(q) # {} /\ Due(q) \subseteq 1..Len(q)
      BY <1>5 DEF UpdateSends, MaySend, Due
    <3> HIDE DEF q
    <3>2. First(Due(q)) \in Due(q)
      BY <1>2, <3>1, LenProperties, LeastElement DEF q
    <3> QED
      BY <3>1, <3>2
  <2>2. PICK p \in RetryPeriods :
          /\ queue' = [q EXCEPT ![i].left = p]
          /\ conns' = Expired([conns EXCEPT
                ![1].pending = Inserted(@, [q[i] EXCEPT !.left = p])], dt)
    BY <1>5 DEF UpdateSends
  <2> HIDE DEF q, i
  <2>3. /\ q \in Seq(Entry) /\ q[i] \in Entry /\ Len(q) \in Nat
        /\ Ids(q) = Ids(queue)
    BY <1>2, <2>1, ElementOfSeq, LenProperties DEF q
  <2>4. [q[i] EXCEPT !.left = p] \in Entry /\ [q[i] EXCEPT !.left = p].id = q[i].id
    <3>1. p \in Nat
      BY PeriodAssumption
    <3> QED
      BY <2>3, <3>1 DEF Entry
  <2>5. queue' = [q EXCEPT ![i] = [q[i] EXCEPT !.left = p]]
    BY <2>2
  <2>6. queue' \in Seq(Entry) /\ Len(queue') = Len(q)
        /\ \A j \in 1..Len(q) : queue'[j].id = q[j].id
    BY <2>1, <2>3, <2>4, <2>5, ExceptSeq
  <2>7. Ids(queue') = Ids(q)
    BY <2>6 DEF Ids
  <2>8. conns # <<>> /\ 1 \in 1..Len(conns)
    BY <1>1, <1>5, EmptySeq DEF UpdateSends, MaySend, FrontReady, TypeOK
  <2> DEFINE c == [conns[1] EXCEPT !.pending = Inserted(@, [q[i] EXCEPT !.left = p])]
  <2>9. c \in Connection
    <3>1. conns[1].pending \subseteq Entry
      BY <1>1, <2>8 DEF Connection
    <3>2. Inserted(conns[1].pending, [q[i] EXCEPT !.left = p]) \subseteq Entry
      BY <2>4, <3>1 DEF Inserted
    <3> QED
      BY <1>1, <2>8, <3>2 DEF Connection
  <2>10. conns' = Expired([conns EXCEPT ![1] = c], dt)
    BY <2>2
  <2> HIDE DEF c
  <2>11. conns' \in Seq(Connection)
    <3>1. [conns EXCEPT ![1] = c] \in Seq(Connection)
      BY <2>8, <2>9, ChangedConnection DEF TypeOK
    <3> QED
      BY <2>10, <3>1, ExpiredConnections
  <2>12. drain' \in Nat
    BY <1>5, IntervalAssumption DEF UpdateSends
  <2> QED
    BY <1>5, <2>3, <2>6, <2>7, <2>11, <2>12 DEF UpdateSends, TypeOK, history
<1> QED
  BY <1>4, <1>5

-----------------------------------------------------------------------------
(* Every step keeps the invariant                                          *)

(* The application sends, withdraws and switches the queue on and off.     *)
LEMMA InvApplication ==
    ASSUME Inv, Application
    PROVE  Inv'
<1>1. TypeOK
  BY DEF Inv
<1>2. ASSUME NEW r \in Request, SendDurable(r) PROVE Inv'
  <2>1. <<[id |-> r, left |-> 0, callback |-> TRUE]>> \o queue \in Seq(Entry)
    <3>1. [id |-> r, left |-> 0, callback |-> TRUE] \in Entry
      BY DEF Entry
    <3> QED
      BY <1>1, <3>1, Prepended DEF TypeOK
  <2>2. queue' \in Seq(Entry) /\ store' \in [User -> Seq(Request)]
    BY <1>1, <1>2, <2>1, SetQueueType DEF SendDurable
  <2>3. TypeOK'
    BY <1>1, <1>2, <2>2 DEF SendDurable, TypeOK
  <2> QED
    BY <1>2, <2>3, InvSendDurable
<1>3. ASSUME NEW r \in Request, Withdraw(r) PROVE Inv'
  <2>1. queue' \in Seq(Entry) /\ store' \in [User -> Seq(Request)]
    BY <1>1, <1>3, RemoveType DEF Withdraw
  <2>2. TypeOK'
    BY <1>1, <1>3, <2>1 DEF Withdraw, TypeOK
  <2>3. Queued(r) /\ SetQueue(RemoveAt(queue, Position(r)))
    BY <1>3 DEF Withdraw, RemoveDurableQueueEntry
  <2>4. /\ UNCHANGED <<user, submitted, owner, torn, answered>>
        /\ withdrawn' = withdrawn \cup {r}
    BY <1>3 DEF Withdraw
  <2> QED
    BY <2>2, <2>3, <2>4, InvRemoved
<1>4. CASE SetDurableQueueRunning
  <2>1. TypeOK'
    BY <1>1, <1>4 DEF SetDurableQueueRunning, TypeOK, history
  <2>2. Persisted' /\ UNCHANGED <<store, submitted, owner, withdrawn, torn, answered>>
    BY <1>4 DEF SetDurableQueueRunning, Inv, Persisted, history
  <2> QED
    BY <2>1, <2>2, InvSameFiles
<1> QED
  BY <1>2, <1>3, <1>4 DEF Application

(* A response removes its request, if the current user has it.             *)
LEMMA InvResponse ==
    ASSUME Inv, NEW i \in 1..Len(conns), NEW e \in conns[i].pending, Respond(i, e)
    PROVE  Inv'
<1>1. TypeOK /\ conns \in Seq(Connection) /\ conns[i] \in Connection
  BY ElementOfSeq DEF Inv, TypeOK
<1>2. e \in Entry /\ e.id \in Request
  BY <1>1 DEF Connection, Entry
<1>3. queue' \in Seq(Entry) /\ store' \in [User -> Seq(Request)]
  BY <1>1, RemoveType DEF Respond
<1>4. conns' \in Seq(Connection)
  <2> DEFINE c == [conns[i] EXCEPT !.pending = @ \ {e}]
  <2>1. c \in Connection
    BY <1>1 DEF Connection
  <2>2. conns' = [conns EXCEPT ![i] = c]
    BY DEF Respond
  <2> HIDE DEF c
  <2> QED
    BY <1>1, <2>1, <2>2, ChangedConnection
<1>5. callbacks' \in [Request -> 0..2]
  <2>1. callbacks[e.id] \in 0..2 /\ callbacks \in [Request -> 0..2]
    BY <1>1, <1>2 DEF TypeOK
  <2>2. (IF e.callback THEN Counted(callbacks[e.id]) ELSE callbacks[e.id]) \in 0..2
    BY <2>1 DEF Counted
  <2> QED
    BY <2>1, <2>2 DEF Respond
<1>6. TypeOK'
  BY <1>1, <1>2, <1>3, <1>4, <1>5 DEF Respond, TypeOK
<1>7. /\ UNCHANGED <<user, submitted, owner, torn, withdrawn>>
      /\ answered' = answered \cup {e.id}
  BY DEF Respond
<1>8. CASE Queued(e.id)
  <2>1. SetQueue(RemoveAt(queue, Position(e.id)))
    BY <1>8 DEF Respond, RemoveDurableQueueEntry
  <2> QED
    BY <1>2, <1>6, <1>7, <1>8, <2>1, InvRemoved
<1>9. CASE ~Queued(e.id)
  <2>1. UNCHANGED <<queue, store>>
    BY <1>9 DEF Respond, RemoveDurableQueueEntry
  <2>2. Persisted'
    BY <1>7, <2>1 DEF Inv, Persisted
  <2> QED
    BY <1>6, <1>7, <2>1, <2>2, InvSameFiles
<1> QED
  BY <1>8, <1>9

(* Another user logs in.                                                   *)
LEMMA InvSetUserId ==
    ASSUME Inv, NEW u \in User, SetUserId(u)
    PROVE  Inv'
<1>1. store[u] \in Seq(Request)
  BY DEF Inv, TypeOK
<1>2. \A attach \in Reattach : /\ Loaded(store[u], attach) \in Seq(Entry)
                              /\ Ids(Loaded(store[u], attach)) = store[u]
  BY <1>1, LoadedOf
<1>3. TypeOK'
  BY <1>2 DEF SetUserId, Inv, TypeOK, history
<1>4. Persisted' /\ UNCHANGED <<store, submitted, owner, withdrawn, torn, answered>>
  BY <1>2 DEF SetUserId, Persisted, history
<1> QED
  BY <1>3, <1>4, InvSameFiles

(* The process ends and starts again.                                      *)
LEMMA InvCrash ==
    ASSUME Inv, Crash \/ CrashInSetUserId \/ \E r \in Request : CrashInWrite(r)
    PROVE  Inv'
<1>1. TypeOK
  BY DEF Inv
<1>2. ASSUME NEW u \in User, Initialise(u, store), UNCHANGED <<withdrawn, torn>>
      PROVE  Inv'
  <2>1. TypeOK' /\ Persisted'
    BY <1>1, <1>2, InitialiseType DEF TypeOK
  <2>2. UNCHANGED <<store, submitted, owner, withdrawn, torn, answered>>
    BY <1>2 DEF Initialise
  <2> QED
    BY <2>1, <2>2, InvSameFiles
<1>3. CASE Crash
  BY <1>1, <1>2, <1>3 DEF Crash, TypeOK
<1>4. CASE CrashInSetUserId
  BY <1>2, <1>4, UserAssumption DEF CrashInSetUserId
<1>5. ASSUME NEW r \in Request, CrashInWrite(r) PROVE Inv'
  <2>1. [store EXCEPT ![user] = <<>>] \in [User -> Seq(Request)]
    BY <1>1, EmptySeq DEF TypeOK
  <2>2. torn' \subseteq Request /\ withdrawn' \subseteq Request
    <3>1. ToSet(store[user]) \subseteq Request
      <4>1. store[user] \in Seq(Request)
        BY <1>1 DEF TypeOK
      <4> QED
        BY <4>1, LenProperties, ElementOfSeq DEF ToSet
    <3> QED
      BY <1>1, <1>5, <3>1 DEF CrashInWrite, TypeOK
  <2>3. TypeOK'
    BY <1>1, <1>5, <2>1, <2>2, InitialiseType DEF CrashInWrite, TypeOK
  <2> QED
    BY <1>5, <2>3, InvCrashInWrite
<1> QED
  BY <1>3, <1>4, <1>5

(* Every step keeps the invariant.                                         *)
LEMMA InvNext == Inv /\ [Next]_vars => Inv'
<1> SUFFICES ASSUME Inv, [Next]_vars PROVE Inv'
  OBVIOUS
<1>1. CASE Application
  BY <1>1, InvApplication
<1>2. CASE Connections
  <2>1. TypeOK'
    BY <1>2, TypeConnections DEF Inv
  <2>2. UNCHANGED Unrelated
    BY <1>2 DEF Connections, ConnectionReady, CloseFrame, Disconnect, ShutDown,
                NewConnection, SocketClosed, DeleteConnection
  <2>3. Persisted' /\ UNCHANGED <<store, submitted, owner, withdrawn, torn, answered>>
    BY <2>2 DEF Inv, Persisted, Unrelated, history
  <2> QED
    BY <2>1, <2>3, InvSameFiles
<1>3. CASE Response
  BY <1>3, InvResponse DEF Response
<1>4. CASE Update
  <2>1. PICK dt \in Deltas : UpdateQuiet(dt) \/ UpdateSends(dt)
    BY <1>4 DEF Update
  <2>2. TypeOK' /\ Ids(queue') = Ids(queue)
    BY <2>1, TypeUpdate DEF Inv
  <2>3. UNCHANGED <<user, store, submitted, owner, withdrawn, torn, answered>>
    BY <2>1 DEF UpdateQuiet, UpdateSends, history
  <2>4. Persisted'
    BY <2>2, <2>3 DEF Inv, Persisted
  <2> QED
    BY <2>2, <2>3, <2>4, InvSameFiles
<1>5. ASSUME NEW u \in User \ {Anonymous}, SetUserId(u) PROVE Inv'
  BY <1>5, InvSetUserId
<1>6. CASE Crash \/ CrashInSetUserId \/ \E r \in Request : CrashInWrite(r)
  BY <1>6, InvCrash
<1>7. CASE UNCHANGED vars
  BY <1>7 DEF vars, Inv, TypeOK, Persisted, Files, Past, NoDurableLost,
              WithdrawnIsGone, Stored
<1> QED
  BY <1>1, <1>2, <1>3, <1>4, <1>5, <1>6, <1>7 DEF Next

(* The invariant holds in every reachable state.                           *)
LEMMA InvAlways == Spec => []Inv
  BY InvInit, InvNext, PTL DEF Spec

-----------------------------------------------------------------------------
(* Theorems                                                                *)

(* The variables of GS's durable queue always have their types.            *)
THEOREM TypeCorrect == Spec => []TypeOK
<1>1. Inv => TypeOK
  BY DEF Inv
<1> QED
  BY <1>1, InvAlways, PTL

(* No durable request is lost by a change of user, a new connection or a   *)
(* crash between two writes (SendDurable, RemoveDurableQueueEntry).        *)
THEOREM NothingLost == Spec => []NoDurableLost
<1>1. Inv => NoDurableLost
  BY DEF Inv, Past
<1> QED
  BY <1>1, InvAlways, PTL

(* InitialisePersistentQueue and WritePersistentQueue mix no users' queues *)
(* and store no request twice.                                             *)
THEOREM QueuesStaySeparate == Spec => []QueuesSeparate
<1>1. Inv => QueuesSeparate
  BY DEF Inv, Files, QueuesSeparate
<1> QED
  BY <1>1, InvAlways, PTL

(* What RemoveDurableQueueEntry has removed for the application is in no   *)
(* file any more.                                                          *)
THEOREM WithdrawnStaysGone == Spec => []WithdrawnIsGone
<1>1. Inv => WithdrawnIsGone
  BY DEF Inv, Past
<1> QED
  BY <1>1, InvAlways, PTL
-----------------------------------------------------------------------------
(* The copies in flight: they are never more than                          *)
(* durableConcurrentRequests over all connections together, no request is  *)
(* done twice because of them, and none of this is visible to Outbox, the  *)
(* specification the durable queue implements.                             *)

-----------------------------------------------------------------------------
(* Counting copies                                                         *)

Copies(cs) == UNION {{i} \X cs[i].pending : i \in 1..Len(cs)}

Bounded(cs) == IsFiniteSet(Copies(cs)) /\ Cardinality(Copies(cs)) <= Limit

(* f takes copies on cs to every copy on ds.                               *)
Covers(f, cs, ds) ==
    \A i \in 1..Len(ds) : \A c \in ds[i].pending :
        \E x \in Copies(cs) : f[x] = <<i, c>>

(* A set that a function covers is no larger than the function's domain.   *)
LEMMA Covered ==
    ASSUME NEW S, IsFiniteSet(S), NEW T, NEW f,
           \A t \in T : \E s \in S : f[s] = t
    PROVE  IsFiniteSet(T) /\ Cardinality(T) <= Cardinality(S)
<1> DEFINE R == {s \in S : f[s] \in T}
           g == [s \in R |-> f[s]]
<1>1. IsFiniteSet(R) /\ Cardinality(R) <= Cardinality(S)
  BY FS_Subset
<1>2. g \in Surjection(R, T)
  BY DEF Surjection
<1> HIDE DEF R, g
<1>3. IsFiniteSet(T) /\ Cardinality(T) <= Cardinality(R)
  BY <1>1, <1>2, FS_Surjection
<1>4. Cardinality(R) \in Nat /\ Cardinality(S) \in Nat /\ Cardinality(T) \in Nat
  BY <1>1, <1>3, FS_CardinalityType
<1> QED
  BY <1>1, <1>3, <1>4

(* A copy is on a connection.                                              *)
LEMMA CopyOn ==
    ASSUME NEW cs, NEW x
    PROVE  x \in Copies(cs) <=>
             \E i \in 1..Len(cs) : \E c \in cs[i].pending : x = <<i, c>>
BY DEF Copies

(* A bound survives a function that covers the new copies.                 *)
LEMMA CoveredCopies ==
    ASSUME NEW cs, NEW ds, Bounded(cs), NEW f, Covers(f, cs, ds)
    PROVE  Bounded(ds)
<1>1. ASSUME NEW t \in Copies(ds) PROVE \E x \in Copies(cs) : f[x] = t
  <2>1. PICK i \in 1..Len(ds) : \E c \in ds[i].pending : t = <<i, c>>
    BY CopyOn
  <2>2. PICK c \in ds[i].pending : t = <<i, c>>
    BY <2>1
  <2>3. \E x \in Copies(cs) : f[x] = <<i, c>>
    BY DEF Covers
  <2> QED
    BY <2>2, <2>3
<1>2. IsFiniteSet(Copies(ds)) /\ Cardinality(Copies(ds)) <= Cardinality(Copies(cs))
  BY <1>1, Covered DEF Bounded
<1>3. /\ Cardinality(Copies(ds)) \in Nat /\ Cardinality(Copies(cs)) \in Nat
      /\ Limit \in Nat
  BY <1>2, FS_CardinalityType, LimitAssumption DEF Bounded
<1> QED
  BY <1>2, <1>3 DEF Bounded

(* Connections that lose copies at most.                                   *)
LEMMA FewerCopies ==
    ASSUME NEW cs, NEW ds, Bounded(cs), Len(ds) = Len(cs),
           \A i \in 1..Len(cs) : ds[i].pending \subseteq cs[i].pending
    PROVE  Bounded(ds)
<1> DEFINE f == [x \in Copies(cs) |-> x]
<1>1. ASSUME NEW i \in 1..Len(ds), NEW c \in ds[i].pending
      PROVE  \E x \in Copies(cs) : f[x] = <<i, c>>
  <2>1. <<i, c>> \in Copies(cs)
    BY CopyOn
  <2> QED
    BY <2>1
<1> HIDE DEF f
<1>2. Covers(f, cs, ds)
  BY <1>1 DEF Covers
<1> QED
  BY <1>2, CoveredCopies

(* ProcessPendingQueue adds no copy.                                       *)
LEMMA ExpiredFewer ==
    ASSUME NEW cs \in Seq(Connection), NEW dt \in Deltas, Bounded(cs)
    PROVE  Bounded(Expired(cs, dt))
<1> DEFINE f == [x \in Copies(cs) |-> <<x[1], [x[2] EXCEPT !.left = @ - dt]>>]
<1>1. /\ Len(Expired(cs, dt)) = Len(cs)
      /\ \A i \in 1..Len(cs) :
           /\ cs[i] \in Connection
           /\ Expired(cs, dt)[i].pending = Unexpired(cs[i].pending, dt)
  <2>1. \A i \in 1..Len(cs) : cs[i] \in Connection
    BY ElementOfSeq
  <2> QED
    BY <2>1, ExpiredConnections DEF Expired, Connection
<1>2. ASSUME NEW i \in 1..Len(cs), NEW c \in Expired(cs, dt)[i].pending
      PROVE  \E x \in Copies(cs) : f[x] = <<i, c>>
  <2>1. PICK b \in cs[i].pending : c = [b EXCEPT !.left = @ - dt]
    BY <1>1 DEF Unexpired
  <2>2. <<i, b>> \in Copies(cs)
    BY CopyOn
  <2>3. f[<<i, b>>] = <<i, c>>
    BY <2>1, <2>2
  <2> QED
    BY <2>2, <2>3
<1> HIDE DEF f
<1>3. Covers(f, cs, Expired(cs, dt))
  BY <1>1, <1>2 DEF Covers
<1> QED
  BY <1>3, CoveredCopies

-----------------------------------------------------------------------------
(* Every step keeps the bound                                              *)

(* The connections' own events never add a copy.                           *)
LEMMA BoundedConnections ==
    ASSUME TypeOK, Bounded(conns), Connections
    PROVE  Bounded(conns')
<1>1. /\ conns \in Seq(Connection) /\ Len(conns) \in Nat
      /\ \A i \in 1..Len(conns) : conns[i] \in Connection
  BY LenProperties, ElementOfSeq DEF TypeOK
<1>2. ASSUME NEW k \in 1..Len(conns), NEW c \in Connection,
             c.pending \subseteq conns[k].pending,
             conns' = [conns EXCEPT ![k] = c]
      PROVE  Bounded(conns')
  <2>1. Len(conns') = Len(conns)
    BY <1>1, <1>2, ChangedConnection
  <2>2. \A i \in 1..Len(conns) : conns'[i].pending \subseteq conns[i].pending
    BY <1>1, <1>2, ExceptSeq
  <2> QED
    BY <2>1, <2>2, FewerCopies
<1>3. ASSUME NEW i \in 1..Len(conns)
      PROVE  /\ [conns[i] EXCEPT !.ready = TRUE] \in Connection
             /\ [conns[i] EXCEPT !.ready = TRUE].pending = conns[i].pending
             /\ [conns[i] EXCEPT !.ready = FALSE] \in Connection
             /\ [conns[i] EXCEPT !.ready = FALSE].pending = conns[i].pending
             /\ [conns[i] EXCEPT !.stopped = TRUE] \in Connection
             /\ [conns[i] EXCEPT !.stopped = TRUE].pending = conns[i].pending
             /\ [conns[i] EXCEPT !.ready = FALSE, !.stopped = TRUE] \in Connection
             /\ [conns[i] EXCEPT !.ready = FALSE, !.stopped = TRUE].pending
                  = conns[i].pending
  BY <1>1 DEF Connection
<1>4. conns # <<>> => 1 \in 1..Len(conns)
  BY <1>1, EmptySeq
<1>5. ASSUME NEW i \in 1..Len(conns), ConnectionReady(i) PROVE Bounded(conns')
  <2>1. conns' = [conns EXCEPT ![i] = [conns[i] EXCEPT !.ready = TRUE]]
    BY <1>5 DEF ConnectionReady
  <2> QED
    BY <1>2, <1>3, <2>1
<1>6. CASE Disconnect
  <2>1. conns # <<>> /\ conns' = [conns EXCEPT ![1] = [conns[1] EXCEPT !.stopped = TRUE]]
    BY <1>6 DEF Disconnect
  <2> QED
    BY <1>2, <1>3, <1>4, <2>1
<1>7. ASSUME NEW i \in 1..Len(conns), SocketClosed(i) PROVE Bounded(conns')
  <2>1. conns' = [conns EXCEPT ![i] = [conns[i] EXCEPT !.ready = FALSE, !.stopped = TRUE]]
    BY <1>7 DEF SocketClosed
  <2> QED
    BY <1>2, <1>3, <2>1
<1>8. CASE NewConnection
  <2> DEFINE old == [i \in 1..Len(conns) |-> [conns[i] EXCEPT !.stopped = TRUE]]
             f == [x \in Copies(conns) |-> <<x[1] + 1, x[2]>>]
  <2>1. old \in Seq(Connection) /\ Len(old) = Len(conns)
    <3>1. old \in [1..Len(conns) -> Connection]
      BY <1>3
    <3> HIDE DEF old
    <3> QED
      BY <1>1, <3>1, FunctionIsSeq
  <2>2. FreshConnection \in Connection /\ FreshConnection.pending = {}
    BY DEF FreshConnection, Connection
  <2>3. conns' = <<FreshConnection>> \o old
    BY <1>8 DEF NewConnection
  <2>4. \A i \in 1..Len(conns) : old[i].pending = conns[i].pending
    BY <1>3
  <2> HIDE DEF old
  <2>5. /\ Len(conns') = Len(conns) + 1 /\ conns'[1] = FreshConnection
        /\ \A i \in 2..Len(conns) + 1 : conns'[i] = old[i - 1]
    BY <2>1, <2>2, <2>3, Prepended
  <2>6. ASSUME NEW i \in 1..Len(conns'), NEW c \in conns'[i].pending
        PROVE  \E x \in Copies(conns) : f[x] = <<i, c>>
    <3>1. i # 1
      BY <2>2, <2>5
    <3>2. i \in 2..Len(conns) + 1 /\ i - 1 \in 1..Len(conns) /\ (i - 1) + 1 = i
      BY <1>1, <2>5, <3>1
    <3>3. c \in conns[i - 1].pending
      BY <2>4, <2>5, <3>2
    <3>4. <<i - 1, c>> \in Copies(conns)
      BY <3>2, <3>3, CopyOn
    <3>5. f[<<i - 1, c>>] = <<i, c>>
      BY <3>2, <3>4
    <3> QED
      BY <3>4, <3>5
  <2> HIDE DEF f
  <2>7. Covers(f, conns, conns')
    BY <2>6 DEF Covers
  <2> QED
    BY <2>7, CoveredCopies
<1>9. ASSUME NEW k \in 1..Len(conns), DeleteConnection(k) PROVE Bounded(conns')
  <2> DEFINE f == [x \in Copies(conns) |-> <<IF x[1] < k THEN x[1] ELSE x[1] - 1, x[2]>>]
  <2>1. /\ Len(conns') = Len(conns) - 1
        /\ \A j \in 1..Len(conns) - 1 :
             conns'[j] = IF j < k THEN conns[j] ELSE conns[j + 1]
    BY <1>1, <1>9, Removed DEF DeleteConnection
  <2>2. ASSUME NEW i \in 1..Len(conns'), NEW c \in conns'[i].pending
        PROVE  \E x \in Copies(conns) : f[x] = <<i, c>>
    <3>1. CASE i < k
      <4>1. i \in 1..Len(conns) /\ c \in conns[i].pending
        BY <1>1, <2>1, <3>1
      <4>2. <<i, c>> \in Copies(conns)
        BY <4>1, CopyOn
      <4>3. f[<<i, c>>] = <<i, c>>
        BY <3>1, <4>2
      <4> QED
        BY <4>2, <4>3
    <3>2. CASE ~(i < k)
      <4>1. i + 1 \in 1..Len(conns) /\ c \in conns[i + 1].pending
        BY <1>1, <2>1, <3>2
      <4>2. <<i + 1, c>> \in Copies(conns)
        BY <4>1, CopyOn
      <4>3. ~(i + 1 < k) /\ (i + 1) - 1 = i
        BY <1>1, <2>1, <3>2
      <4>4. f[<<i + 1, c>>] = <<i, c>>
        BY <4>2, <4>3
      <4> QED
        BY <4>2, <4>4
    <3> QED
      BY <3>1, <3>2
  <2> HIDE DEF f
  <2>3. Covers(f, conns, conns')
    BY <2>2 DEF Covers
  <2> QED
    BY <2>3, CoveredCopies
<1>10. CASE CloseFrame
  <2>1. conns # <<>> /\ conns' = [conns EXCEPT ![1] = [conns[1] EXCEPT !.ready = FALSE]]
    BY <1>10 DEF CloseFrame
  <2> QED
    BY <1>2, <1>3, <1>4, <2>1
<1>11. CASE ShutDown
  <2>1. /\ Len(conns') = Len(conns)
        /\ \A i \in 1..Len(conns) :
             conns'[i] = [conns[i] EXCEPT !.ready = FALSE, !.stopped = TRUE]
    <3>1. conns' \in [1..Len(conns) -> Connection]
      BY <1>3, <1>11 DEF ShutDown
    <3>2. Len(conns') = Len(conns)
      BY <1>1, <3>1, FunctionIsSeq
    <3> QED
      BY <1>11, <3>2 DEF ShutDown
  <2>2. \A i \in 1..Len(conns) : conns'[i].pending \subseteq conns[i].pending
    BY <1>3, <2>1
  <2> QED
    BY <2>1, <2>2, FewerCopies
<1> QED
  BY <1>5, <1>6, <1>7, <1>8, <1>9, <1>10, <1>11 DEF Connections

(* ProcessPersistentQueue adds one copy, and only below the limit.         *)
LEMMA BoundedUpdate ==
    ASSUME TypeOK, Bounded(conns), NEW dt \in Deltas,
           UpdateQuiet(dt) \/ UpdateSends(dt)
    PROVE  Bounded(conns')
<1>1. conns \in Seq(Connection)
  BY DEF TypeOK
<1>2. CASE UpdateQuiet(dt)
  BY <1>1, <1>2, ExpiredFewer DEF UpdateQuiet
<1>3. CASE UpdateSends(dt)
  <2> DEFINE q == Aged(queue, dt)
             i == First(Due(q))
  <2>1. i \in 1..Len(q) /\ q \in Seq(Entry)
    <3>1. q \in Seq(Entry)
      BY AgedQueue DEF TypeOK
    <3>2. Due(q) # {} /\ Due(q) \subseteq 1..Len(q)
      BY <1>3 DEF UpdateSends, MaySend, Due
    <3> HIDE DEF q
    <3>3. Due(q) \subseteq Nat
      BY <3>1, <3>2, LenProperties
    <3>4. First(Due(q)) \in Due(q)
      BY <3>2, <3>3, LeastElement
    <3> QED
      BY <3>1, <3>2, <3>4
  <2>2. PICK p \in RetryPeriods :
          conns' = Expired([conns EXCEPT
                ![1].pending = Inserted(@, [q[i] EXCEPT !.left = p])], dt)
    BY <1>3 DEF UpdateSends
  <2>3. Cardinality(Copies(conns)) < Limit /\ conns # <<>>
    BY <1>3 DEF UpdateSends, MaySend, FrontReady, InFlight, Copies
  <2> DEFINE e == [q[i] EXCEPT !.left = p]
             c == [conns[1] EXCEPT !.pending = Inserted(@, e)]
             ds == [conns EXCEPT ![1] = c]
  <2> HIDE DEF q, i
  <2>4. 1 \in 1..Len(conns) /\ conns[1] \in Connection
    BY <1>1, <2>3, EmptySeq, LenProperties, ElementOfSeq
  <2>5. e \in Entry
    <3>1. q[i] \in Entry
      BY <2>1, ElementOfSeq
    <3> QED
      BY <3>1, PeriodAssumption DEF Entry
  <2> HIDE DEF e
  <2>6. c \in Connection /\ c.pending \subseteq conns[1].pending \cup {e}
    <3>1. Inserted(conns[1].pending, e) \subseteq conns[1].pending \cup {e}
      BY DEF Inserted
    <3>2. conns[1].pending \subseteq Entry
      BY <2>4 DEF Connection
    <3> QED
      BY <2>4, <2>5, <3>1, <3>2 DEF Connection
  <2> HIDE DEF c
  <2>7. /\ ds \in Seq(Connection) /\ Len(ds) = Len(conns)
        /\ \A j \in 1..Len(conns) : ds[j] = IF j = 1 THEN c ELSE conns[j]
    BY <1>1, <2>4, <2>6, ChangedConnection, ExceptSeq
  <2> HIDE DEF ds
  <2>8. Bounded(ds)
    <3>1. Copies(ds) \subseteq Copies(conns) \cup {<<1, e>>}
      <4> SUFFICES ASSUME NEW x \in Copies(ds)
                   PROVE  x \in Copies(conns) \cup {<<1, e>>}
        OBVIOUS
      <4>1. PICK j \in 1..Len(ds) : \E b \in ds[j].pending : x = <<j, b>>
        BY CopyOn
      <4>2. PICK b \in ds[j].pending : x = <<j, b>>
        BY <4>1
      <4>3. j \in 1..Len(conns) /\ (b \in conns[j].pending \/ (j = 1 /\ b = e))
        BY <2>6, <2>7
      <4>4. b \in conns[j].pending => <<j, b>> \in Copies(conns)
        BY <4>3, CopyOn
      <4> QED
        BY <4>2, <4>3, <4>4
    <3>2. /\ IsFiniteSet(Copies(conns) \cup {<<1, e>>})
          /\ Cardinality(Copies(conns) \cup {<<1, e>>}) <= Limit
      <4>1. IsFiniteSet(Copies(conns)) /\ Cardinality(Copies(conns)) \in Nat
        BY FS_CardinalityType DEF Bounded
      <4>2. /\ IsFiniteSet(Copies(conns) \cup {<<1, e>>})
            /\ \/ Cardinality(Copies(conns) \cup {<<1, e>>}) = Cardinality(Copies(conns))
               \/ Cardinality(Copies(conns) \cup {<<1, e>>}) = Cardinality(Copies(conns)) + 1
        BY <4>1, FS_AddElement
      <4> QED
        BY <2>3, <4>1, <4>2, LimitAssumption
    <3>3. IsFiniteSet(Copies(ds)) /\ Cardinality(Copies(ds))
            <= Cardinality(Copies(conns) \cup {<<1, e>>})
      BY <3>1, <3>2, FS_Subset
    <3> QED
      BY <3>2, <3>3, FS_CardinalityType, LimitAssumption DEF Bounded
  <2>9. conns' = Expired(ds, dt)
    BY <2>2 DEF ds, c, e
  <2> QED
    BY <2>7, <2>8, <2>9, ExpiredFewer
<1> QED
  BY <1>2, <1>3

(* Every step keeps the bound.                                             *)
LEMMA BoundedNext == TypeOK /\ Bounded(conns) /\ [Next]_vars => Bounded(conns')
<1> SUFFICES ASSUME TypeOK, Bounded(conns), [Next]_vars PROVE Bounded(conns')
  OBVIOUS
<1>1. CASE Connections
  BY <1>1, BoundedConnections
<1>2. CASE Update
  BY <1>2, BoundedUpdate DEF Update
<1>3. CASE Response
  <2>1. PICK i \in 1..Len(conns) : \E e \in conns[i].pending : Respond(i, e)
    BY <1>3 DEF Response
  <2>2. PICK e \in conns[i].pending : Respond(i, e)
    BY <2>1
  <2> DEFINE c == [conns[i] EXCEPT !.pending = @ \ {e}]
  <2>3. conns \in Seq(Connection) /\ conns[i] \in Connection
    BY ElementOfSeq DEF TypeOK
  <2>4. c \in Connection /\ c.pending \subseteq conns[i].pending
    BY <2>3 DEF Connection
  <2>5. conns' = [conns EXCEPT ![i] = c]
    BY <2>2 DEF Respond
  <2> HIDE DEF c
  <2>6. Len(conns') = Len(conns)
    BY <2>3, <2>4, <2>5, ChangedConnection
  <2>7. \A j \in 1..Len(conns) : conns'[j].pending \subseteq conns[j].pending
    BY <2>3, <2>4, <2>5, ExceptSeq
  <2> QED
    BY <2>6, <2>7, FewerCopies
<1>4. CASE Crash \/ CrashInSetUserId \/ \E r \in Request : CrashInWrite(r)
  <2>1. conns' = <<FreshConnection>>
    BY <1>4 DEF Crash, CrashInSetUserId, CrashInWrite, Initialise
  <2>2. Len(conns') = 1 /\ conns'[1].pending = {}
    BY <2>1 DEF FreshConnection
  <2>3. Copies(conns') = {}
    BY <2>2 DEF Copies
  <2> QED
    BY <2>3, FS_EmptySet, LimitAssumption DEF Bounded
<1>5. CASE UNCHANGED conns
  BY <1>5
<1>6. Application \/ (\E u \in User : SetUserId(u)) \/ UNCHANGED vars => UNCHANGED conns
  BY DEF Application, SendDurable, Withdraw, SetDurableQueueRunning, SetUserId, vars
<1> QED
  BY <1>1, <1>2, <1>3, <1>4, <1>5, <1>6 DEF Next

(* durableConcurrentRequests bounds the copies in flight on all the        *)
(* connections together, whatever was redirected, stopped or timed out.    *)
THEOREM InFlightStaysBounded == Spec => []InFlightBounded
<1>1. Init => Bounded(conns)
  <2> SUFFICES ASSUME Init PROVE Bounded(conns)
    OBVIOUS
  <2>1. Len(conns) = 1 /\ conns[1].pending = {}
    BY DEF Init, FreshConnection
  <2>2. Copies(conns) = {}
    BY <2>1 DEF Copies
  <2> QED
    BY <2>2, FS_EmptySet, LimitAssumption DEF Bounded
<1>2. TypeOK /\ Bounded(conns) /\ [Next]_vars => Bounded(conns)'
  BY BoundedNext
<1>3. Bounded(conns) => InFlightBounded
  BY DEF Bounded, InFlightBounded, InFlight, Copies
<1> QED
  BY <1>1, <1>2, <1>3, TypeCorrect, PTL DEF Spec

-----------------------------------------------------------------------------
(* Where the copies of a request can be                                    *)

(* The requests that are over: answered while their user was logged in.    *)
Done == answered \ astray

(* A connection holds one copy of a request at most, only of requests in   *)
(* S, and of one in D only if no frame will be dispatched on it any more.  *)
Holds(c, S, D) ==
    /\ \A a \in c.pending : a.id \in S /\ (a.id \in D => c.stopped)
    /\ \A a, b \in c.pending : a.id = b.id => a = b

Held(cs, S, D) ==
    /\ \A i \in 1..Len(cs) : Holds(cs[i], S, D)
    /\ \A i \in 2..Len(cs) : cs[i].stopped

(* Only what was sent is answered or torn, and what is over is in no file. *)
Account ==
    /\ answered \subseteq submitted /\ torn \subseteq submitted
    /\ \A r \in Done : callbacks[r] <= 1 /\ \A u \in User : ~Stored(r, u)
    /\ \A r \in Request \ answered : callbacks[r] = 0

Once == Inv /\ Held(conns, submitted, Done) /\ Account

(* A connection that loses copies or is stopped, and knows of more         *)
(* requests.                                                               *)
LEMMA HoldsLess ==
    ASSUME NEW c, NEW S, NEW D, Holds(c, S, D),
           NEW d, d.pending \subseteq c.pending, c.stopped => d.stopped,
           NEW T, S \subseteq T, NEW E, E \cap S \subseteq D
    PROVE  Holds(d, T, E)
BY DEF Holds

(* Timing out copies leaves one of each request at most.                   *)
LEMMA HeldExpired ==
    ASSUME NEW cs \in Seq(Connection), NEW dt \in Deltas, NEW S, NEW D,
           Held(cs, S, D)
    PROVE  Held(Expired(cs, dt), S, D)
<1> DEFINE ds == Expired(cs, dt)
<1>1. /\ Len(ds) = Len(cs)
      /\ \A i \in 1..Len(cs) : /\ cs[i] \in Connection
                               /\ ds[i].pending = Unexpired(cs[i].pending, dt)
                               /\ ds[i].stopped = cs[i].stopped
  <2>1. \A i \in 1..Len(cs) : cs[i] \in Connection
    BY ElementOfSeq
  <2> QED
    BY <2>1, ExpiredConnections DEF Expired, Connection
<1> HIDE DEF ds
<1>2. ASSUME NEW i \in 1..Len(cs) PROVE Holds(ds[i], S, D)
  <2>1. Holds(cs[i], S, D) /\ cs[i].pending \subseteq Entry
    BY <1>1 DEF Held, Connection
  <2>2. ASSUME NEW a \in ds[i].pending
        PROVE  \E b \in cs[i].pending : a = [b EXCEPT !.left = @ - dt] /\ a.id = b.id
    <3>1. PICK b \in cs[i].pending : a = [b EXCEPT !.left = @ - dt]
      BY <1>1 DEF Unexpired
    <3> QED
      BY <2>1, <3>1 DEF Entry
  <2>3. \A a \in ds[i].pending : a.id \in S /\ (a.id \in D => ds[i].stopped)
    BY <1>1, <2>1, <2>2 DEF Holds
  <2>4. ASSUME NEW a \in ds[i].pending, NEW b \in ds[i].pending, a.id = b.id
        PROVE  a = b
    <3>1. PICK x \in cs[i].pending : a = [x EXCEPT !.left = @ - dt] /\ a.id = x.id
      BY <2>2
    <3>2. PICK y \in cs[i].pending : b = [y EXCEPT !.left = @ - dt] /\ b.id = y.id
      BY <2>2
    <3>3. x = y
      BY <2>1, <2>4, <3>1, <3>2 DEF Holds
    <3> QED
      BY <3>1, <3>2, <3>3
  <2> QED
    BY <2>3, <2>4 DEF Holds
<1>3. \A i \in 2..Len(cs) : ds[i].stopped
  <2>1. \A i \in 2..Len(cs) : i \in 1..Len(cs) /\ cs[i].stopped
    BY LenProperties DEF Held
  <2> QED
    BY <1>1, <2>1
<1> QED
  BY <1>1, <1>2, <1>3 DEF Held, ds

(* One connection changes: it loses copies or stops.                       *)
LEMMA HeldChanged ==
    ASSUME NEW cs \in Seq(Connection), NEW k \in 1..Len(cs), NEW d \in Connection,
           NEW S, NEW D, Held(cs, S, D), Holds(d, S, D), cs[k].stopped => d.stopped
    PROVE  Held([cs EXCEPT ![k] = d], S, D)
<1> DEFINE ds == [cs EXCEPT ![k] = d]
<1>1. Len(ds) = Len(cs) /\ \A i \in 1..Len(cs) : ds[i] = IF i = k THEN d ELSE cs[i]
  BY ChangedConnection, ExceptSeq
<1>2. \A i \in 2..Len(cs) : i \in 1..Len(cs) /\ cs[i].stopped
  BY LenProperties DEF Held
<1> HIDE DEF ds
<1>3. \A i \in 1..Len(ds) : Holds(ds[i], S, D)
  BY <1>1 DEF Held
<1>4. \A i \in 2..Len(ds) : ds[i].stopped
  BY <1>1, <1>2
<1> QED
  BY <1>3, <1>4 DEF Held, ds

(* The connections' own events move no copy to a running connection.       *)
LEMMA HeldConnections ==
    ASSUME TypeOK, NEW S, NEW D, Held(conns, S, D), Connections
    PROVE  Held(conns', S, D)
<1>1. /\ conns \in Seq(Connection) /\ Len(conns) \in Nat
      /\ \A i \in 1..Len(conns) : conns[i] \in Connection /\ Holds(conns[i], S, D)
      /\ \A i \in 2..Len(conns) : conns[i].stopped
  BY LenProperties, ElementOfSeq DEF TypeOK, Held
<1>2. ASSUME NEW k \in 1..Len(conns), NEW d \in Connection,
             d.pending = conns[k].pending, conns[k].stopped => d.stopped,
             conns' = [conns EXCEPT ![k] = d]
      PROVE  Held(conns', S, D)
  <2>1. Holds(d, S, D)
    BY <1>1, <1>2, HoldsLess
  <2> QED
    BY <1>1, <1>2, <2>1, HeldChanged
<1>3. ASSUME NEW i \in 1..Len(conns)
      PROVE  /\ [conns[i] EXCEPT !.ready = TRUE] \in Connection
             /\ [conns[i] EXCEPT !.ready = TRUE].pending = conns[i].pending
             /\ [conns[i] EXCEPT !.ready = TRUE].stopped = conns[i].stopped
             /\ [conns[i] EXCEPT !.ready = FALSE] \in Connection
             /\ [conns[i] EXCEPT !.ready = FALSE].pending = conns[i].pending
             /\ [conns[i] EXCEPT !.ready = FALSE].stopped = conns[i].stopped
             /\ [conns[i] EXCEPT !.stopped = TRUE] \in Connection
             /\ [conns[i] EXCEPT !.stopped = TRUE].pending = conns[i].pending
             /\ [conns[i] EXCEPT !.stopped = TRUE].stopped
             /\ [conns[i] EXCEPT !.ready = FALSE, !.stopped = TRUE] \in Connection
             /\ [conns[i] EXCEPT !.ready = FALSE, !.stopped = TRUE].stopped
             /\ [conns[i] EXCEPT !.ready = FALSE, !.stopped = TRUE].pending
                  = conns[i].pending
  BY <1>1 DEF Connection
<1>4. conns # <<>> => 1 \in 1..Len(conns)
  BY <1>1, EmptySeq
<1>5. ASSUME NEW i \in 1..Len(conns), ConnectionReady(i) PROVE Held(conns', S, D)
  <2>1. conns' = [conns EXCEPT ![i] = [conns[i] EXCEPT !.ready = TRUE]]
    BY <1>5 DEF ConnectionReady
  <2> QED
    BY <1>2, <1>3, <2>1
<1>6. CASE Disconnect
  <2>1. conns # <<>> /\ conns' = [conns EXCEPT ![1] = [conns[1] EXCEPT !.stopped = TRUE]]
    BY <1>6 DEF Disconnect
  <2> QED
    BY <1>2, <1>3, <1>4, <2>1
<1>7. ASSUME NEW i \in 1..Len(conns), SocketClosed(i) PROVE Held(conns', S, D)
  <2>1. conns' = [conns EXCEPT ![i] = [conns[i] EXCEPT !.ready = FALSE, !.stopped = TRUE]]
    BY <1>7 DEF SocketClosed
  <2> QED
    BY <1>2, <1>3, <2>1
<1>8. CASE NewConnection
  <2> DEFINE old == [i \in 1..Len(conns) |-> [conns[i] EXCEPT !.stopped = TRUE]]
  <2>1. old \in Seq(Connection) /\ Len(old) = Len(conns)
    <3>1. old \in [1..Len(conns) -> Connection]
      BY <1>3
    <3> HIDE DEF old
    <3> QED
      BY <1>1, <3>1, FunctionIsSeq
  <2>2. FreshConnection \in Connection /\ FreshConnection.pending = {}
    BY DEF FreshConnection, Connection
  <2>3. conns' = <<FreshConnection>> \o old
    BY <1>8 DEF NewConnection
  <2>4. \A i \in 1..Len(conns) : old[i].pending = conns[i].pending /\ old[i].stopped
    BY <1>3
  <2> HIDE DEF old
  <2>5. /\ Len(conns') = Len(conns) + 1 /\ conns'[1] = FreshConnection
        /\ \A i \in 2..Len(conns) + 1 : conns'[i] = old[i - 1]
    BY <2>1, <2>2, <2>3, Prepended
  <2>6. \A i \in 2..Len(conns) + 1 : i - 1 \in 1..Len(conns)
    BY <1>1
  <2>7. ASSUME NEW i \in 2..Len(conns) + 1
        PROVE  conns'[i].stopped /\ Holds(conns'[i], S, D)
    <3>1. conns'[i].stopped /\ conns'[i].pending = conns[i - 1].pending
      BY <2>4, <2>5, <2>6
    <3>2. Holds(conns[i - 1], S, D)
      BY <1>1, <2>6
    <3> QED
      BY <3>1, <3>2, HoldsLess
  <2>8. Holds(conns'[1], S, D)
    BY <2>2, <2>5 DEF Holds
  <2>9. \A i \in 1..Len(conns') : i = 1 \/ i \in 2..Len(conns) + 1
    BY <1>1, <2>5
  <2> QED
    BY <2>5, <2>7, <2>8, <2>9 DEF Held
<1>9. ASSUME NEW k \in 1..Len(conns), DeleteConnection(k) PROVE Held(conns', S, D)
  <2>1. /\ Len(conns') = Len(conns) - 1
        /\ \A j \in 1..Len(conns) - 1 :
             conns'[j] = IF j < k THEN conns[j] ELSE conns[j + 1]
    BY <1>1, <1>9, Removed DEF DeleteConnection
  <2>2. \A j \in 1..Len(conns') :
           \E i \in 1..Len(conns) : i >= j /\ conns'[j] = conns[i]
    <3>1. \A j \in 1..Len(conns') : j \in 1..Len(conns) /\ j + 1 \in 1..Len(conns)
      BY <1>1, <2>1
    <3> QED
      BY <1>1, <2>1, <3>1
  <2>3. \A j \in 1..Len(conns') : Holds(conns'[j], S, D)
    BY <1>1, <2>2
  <2>4. \A j \in 2..Len(conns') : conns'[j].stopped
    <3> TAKE j \in 2..Len(conns')
    <3>1. PICK i \in 1..Len(conns) : i >= j /\ conns'[j] = conns[i]
      BY <1>1, <2>1, <2>2
    <3>2. i \in 2..Len(conns)
      BY <1>1, <3>1
    <3> QED
      BY <1>1, <3>1, <3>2
  <2> QED
    BY <2>3, <2>4 DEF Held
<1>10. CASE CloseFrame
  <2>1. conns # <<>> /\ conns' = [conns EXCEPT ![1] = [conns[1] EXCEPT !.ready = FALSE]]
    BY <1>10 DEF CloseFrame
  <2> QED
    BY <1>2, <1>3, <1>4, <2>1
<1>11. CASE ShutDown
  <2>1. /\ Len(conns') = Len(conns)
        /\ \A i \in 1..Len(conns) :
             conns'[i] = [conns[i] EXCEPT !.ready = FALSE, !.stopped = TRUE]
    <3>1. conns' \in [1..Len(conns) -> Connection]
      BY <1>3, <1>11 DEF ShutDown
    <3>2. Len(conns') = Len(conns)
      BY <1>1, <3>1, FunctionIsSeq
    <3> QED
      BY <1>11, <3>2 DEF ShutDown
  <2>2. ASSUME NEW i \in 1..Len(conns)
        PROVE  conns'[i].stopped /\ Holds(conns'[i], S, D)
    <3>1. conns'[i].stopped /\ conns'[i].pending = conns[i].pending
      BY <1>3, <2>1
    <3>2. Holds(conns[i], S, D)
      BY <1>1
    <3> QED
      BY <3>1, <3>2, HoldsLess
  <2>3. \A i \in 2..Len(conns) : i \in 1..Len(conns)
    OBVIOUS
  <2> QED
    BY <2>1, <2>2, <2>3 DEF Held
<1> QED
  BY <1>5, <1>6, <1>7, <1>8, <1>9, <1>10, <1>11 DEF Connections

(* ProcessPersistentQueue sends what is queued, so nothing that is over.   *)
LEMMA HeldUpdate ==
    ASSUME TypeOK, NEW S, NEW D, Held(conns, S, D), NEW dt \in Deltas,
           UpdateQuiet(dt) \/ UpdateSends(dt),
           \A r : Queued(r) => r \in S \ D
    PROVE  Held(conns', S, D)
<1>1. conns \in Seq(Connection)
  BY DEF TypeOK
<1>2. CASE UpdateQuiet(dt)
  BY <1>1, <1>2, HeldExpired DEF UpdateQuiet
<1>3. CASE UpdateSends(dt)
  <2> DEFINE q == Aged(queue, dt)
             i == First(Due(q))
  <2>1. i \in 1..Len(q) /\ q \in Seq(Entry) /\ Len(q) = Len(queue) /\ Ids(q) = Ids(queue)
    <3>1. q \in Seq(Entry) /\ Len(q) = Len(queue) /\ Ids(q) = Ids(queue)
      BY AgedQueue DEF TypeOK
    <3>2. Due(q) # {} /\ Due(q) \subseteq 1..Len(q)
      BY <1>3 DEF UpdateSends, MaySend, Due
    <3> HIDE DEF q
    <3>3. Due(q) \subseteq Nat
      BY <3>1, <3>2, LenProperties
    <3>4. First(Due(q)) \in Due(q)
      BY <3>2, <3>3, LeastElement
    <3> QED
      BY <3>1, <3>2, <3>4
  <2>2. PICK p \in RetryPeriods :
          conns' = Expired([conns EXCEPT
                ![1].pending = Inserted(@, [q[i] EXCEPT !.left = p])], dt)
    BY <1>3 DEF UpdateSends
  <2>3. conns # <<>>
    BY <1>3 DEF UpdateSends, MaySend, FrontReady
  <2> DEFINE e == [q[i] EXCEPT !.left = p]
             c == [conns[1] EXCEPT !.pending = Inserted(@, e)]
  <2> HIDE DEF q, i
  <2>4. /\ 1 \in 1..Len(conns) /\ conns[1] \in Connection
        /\ Holds(conns[1], S, D)
    BY <1>1, <2>3, EmptySeq, LenProperties, ElementOfSeq DEF Held
  <2>5. e \in Entry /\ e.id = q[i].id
    <3>1. q[i] \in Entry
      BY <2>1, ElementOfSeq
    <3> QED
      BY <3>1, PeriodAssumption DEF Entry
  <2>6. e.id \in S \ D
    <3>1. Ids(q)[i] = q[i].id /\ Ids(queue)[i] = queue[i].id
      BY <2>1 DEF Ids
    <3>2. Queued(q[i].id)
      BY <2>1, <3>1 DEF Queued
    <3> QED
      BY <2>5, <3>2
  <2> HIDE DEF e
  <2>7. c \in Connection /\ c.stopped = conns[1].stopped
        /\ c.pending = Inserted(conns[1].pending, e)
    <3>1. conns[1].pending \subseteq Entry
      BY <2>4 DEF Connection
    <3>2. Inserted(conns[1].pending, e) \subseteq Entry
      BY <2>5, <3>1 DEF Inserted
    <3> QED
      BY <2>4, <3>2 DEF Connection
  <2> HIDE DEF c
  <2>8. Holds(c, S, D)
    <3>1. CASE \E b \in conns[1].pending : b.id = e.id
      <4>1. c.pending = conns[1].pending
        BY <2>7, <3>1 DEF Inserted
      <4> QED
        BY <2>4, <2>7, <4>1, HoldsLess
    <3>2. CASE ~\E b \in conns[1].pending : b.id = e.id
      <4>1. c.pending = conns[1].pending \cup {e}
        BY <2>7, <3>2 DEF Inserted
      <4> QED
        BY <2>4, <2>6, <2>7, <3>2, <4>1 DEF Holds
    <3> QED
      BY <3>1, <3>2
  <2>9. Held([conns EXCEPT ![1] = c], S, D) /\ [conns EXCEPT ![1] = c] \in Seq(Connection)
    BY <1>1, <2>4, <2>7, <2>8, HeldChanged, ChangedConnection
  <2>10. conns' = Expired([conns EXCEPT ![1] = c], dt)
    BY <2>2 DEF c, e
  <2> QED
    BY <2>9, <2>10, HeldExpired
<1> QED
  BY <1>2, <1>3

-----------------------------------------------------------------------------
(* What the steps do to the files                                          *)

(* SendDurable adds its request to the file of the current user.           *)
LEMMA SentStore ==
    ASSUME Inv, NEW r \in Request, SendDurable(r)
    PROVE  \E ids : /\ store' = [store EXCEPT ![user] = ids]
                    /\ ToSet(ids) = ToSet(store[user]) \cup {r}
<1> DEFINE e == [id |-> r, left |-> 0, callback |-> TRUE]
           ids == Ids(<<e>> \o queue)
<1>1. e \in Entry /\ e.id = r
  BY DEF Entry
<1>2. store' = [store EXCEPT ![user] = ids]
  BY DEF SendDurable, SetQueue
<1> HIDE DEF e
<1>3. /\ queue \in Seq(Entry) /\ IsInjective(Ids(queue)) /\ Ids(queue) = store[user]
      /\ r \notin ToSet(Ids(queue))
  BY DEF Inv, TypeOK, Persisted, Files, SendDurable
<1>4. ToSet(ids) = ToSet(store[user]) \cup {r}
  BY <1>1, <1>3, PrependedIds
<1> QED
  BY <1>2, <1>4

(* RemoveDurableQueueEntry takes it out again, if it is there.             *)
LEMMA RemovedStore ==
    ASSUME Inv, NEW r \in Request, RemoveDurableQueueEntry(r)
    PROVE  \E ids : /\ store' = [store EXCEPT ![user] = ids]
                    /\ ToSet(ids) = ToSet(store[user]) \ {r}
<1>1. /\ queue \in Seq(Entry) /\ IsInjective(Ids(queue)) /\ Ids(queue) = store[user]
      /\ store \in [User -> Seq(Request)] /\ user \in User
  BY DEF Inv, TypeOK, Persisted, Files
<1>2. CASE Queued(r)
  <2> DEFINE ids == Ids(RemoveAt(queue, Position(r)))
  <2>1. Position(r) \in 1..Len(queue) /\ queue[Position(r)].id = r
    BY <1>1, <1>2, PositionOf
  <2>2. ToSet(ids) = ToSet(store[user]) \ {r}
    BY <1>1, <2>1, RemovedIds
  <2>3. store' = [store EXCEPT ![user] = ids]
    BY <1>2 DEF RemoveDurableQueueEntry, SetQueue
  <2> QED
    BY <2>2, <2>3
<1>3. CASE ~Queued(r)
  <2>1. r \notin ToSet(store[user])
    BY <1>1, <1>3, IdsOf DEF Queued
  <2>2. store' = [store EXCEPT ![user] = store[user]]
    BY <1>1, <1>3 DEF RemoveDurableQueueEntry
  <2> QED
    BY <2>1, <2>2
<1> QED
  BY <1>2, <1>3

(* What is queued was sent and is not over.                                *)
LEMMA QueuedIsOpen ==
    ASSUME Inv, Account, NEW r, Queued(r)
    PROVE  r \in submitted \ Done /\ r \in ToSet(store[user]) /\ r \in Request
<1>1. queue \in Seq(Entry) /\ user \in User /\ store[user] = Ids(queue)
      /\ submitted \subseteq Request
  BY DEF Inv, TypeOK, Persisted
<1>2. r \in ToSet(store[user])
  BY <1>1, IdsOf DEF Queued
<1>3. r \in submitted
  BY <1>1, <1>2 DEF Inv, Files
<1> QED
  BY <1>1, <1>2, <1>3 DEF Account, Stored

-----------------------------------------------------------------------------
(* Every step keeps the account                                            *)

(* A step that answers nothing and brings nothing that is over back.       *)
LEMMA AccountKept ==
    ASSUME Account, UNCHANGED <<answered, astray, callbacks>>,
           submitted \subseteq submitted', torn' \subseteq submitted',
           \A r \in Done : \A u \in User :
               r \in ToSet(store'[u]) => r \in ToSet(store[u])
    PROVE  Account' /\ Done' = Done
<1>1. Done' = Done
  BY DEF Done
<1> QED
  BY <1>1 DEF Account, Stored

(* More requests are sent, none is over that was not.                      *)
LEMMA HeldMore ==
    ASSUME NEW cs, NEW S, NEW D, Held(cs, S, D), NEW T, S \subseteq T,
           D \subseteq S
    PROVE  Held(cs, T, D)
<1>1. \A i \in 1..Len(cs) : Holds(cs[i], T, D)
  BY HoldsLess DEF Held
<1> QED
  BY <1>1 DEF Held

(* The answer to a request whose user is logged in ends it.                *)
LEMMA OnceResponse ==
    ASSUME Once, Inv', NEW i \in 1..Len(conns), NEW e \in conns[i].pending,
           Respond(i, e)
    PROVE  Once'
<1> DEFINE c == [conns[i] EXCEPT !.pending = @ \ {e}]
<1>1. /\ conns \in Seq(Connection) /\ conns[i] \in Connection /\ Len(conns) \in Nat
      /\ callbacks \in [Request -> 0..2] /\ owner \in [Request -> User]
      /\ store \in [User -> Seq(Request)] /\ user \in User
      /\ astray \subseteq answered /\ answered \subseteq Request
  BY ElementOfSeq, LenProperties DEF Once, Inv, TypeOK
<1>2. /\ ~conns[i].stopped
      /\ conns' = [conns EXCEPT ![i] = c]
      /\ RemoveDurableQueueEntry(e.id)
      /\ answered' = answered \cup {e.id}
      /\ astray' = astray \cup {r \in {e.id} : user # owner[r]}
      /\ callbacks' = [callbacks EXCEPT
                         ![e.id] = IF e.callback THEN Counted(@) ELSE @]
      /\ UNCHANGED <<user, submitted, owner, torn>>
  BY DEF Respond
<1>3. /\ Holds(conns[i], submitted, Done)
      /\ \A j \in 2..Len(conns) : conns[j].stopped
  BY DEF Once, Held
<1>4. e.id \in Request /\ e.id \in submitted
  BY <1>1, <1>3 DEF Connection, Entry, Holds
<1>5. e.id \notin Done
  BY <1>2, <1>3 DEF Holds
<1>6. c \in Connection /\ c.pending = conns[i].pending \ {e}
      /\ c.stopped = conns[i].stopped
  BY <1>1 DEF Connection
<1> HIDE DEF c
<1>7. Held(conns', submitted', Done')
  <2>1. /\ Len(conns') = Len(conns)
        /\ \A j \in 1..Len(conns) : conns'[j] = IF j = i THEN c ELSE conns[j]
    BY <1>1, <1>2, <1>6, ChangedConnection, ExceptSeq
  <2>2. Done' \subseteq Done \cup {e.id}
    BY <1>2 DEF Done
  <2>3. Holds(c, submitted, Done')
    BY <1>3, <1>6, <2>2 DEF Holds
  <2>4. ASSUME NEW j \in 1..Len(conns), j # i
        PROVE  Holds(conns[j], submitted, Done')
    <3>1. j \in 2..Len(conns)
      BY <1>1, <1>2, <1>3, <2>4
    <3>2. conns[j].stopped /\ Holds(conns[j], submitted, Done)
      BY <1>3, <3>1 DEF Once, Held
    <3> QED
      BY <3>2 DEF Holds
  <2>5. \A j \in 2..Len(conns) : j \in 1..Len(conns) /\ j # i
    BY <1>1, <1>2, <1>3
  <2> QED
    BY <1>2, <1>3, <2>1, <2>3, <2>4, <2>5 DEF Held
<1>8. PICK ids : /\ store' = [store EXCEPT ![user] = ids]
                 /\ ToSet(ids) = ToSet(store[user]) \ {e.id}
  BY <1>2, <1>4, RemovedStore DEF Once
<1>9. ASSUME NEW r \in Done', NEW u \in User
      PROVE  callbacks'[r] <= 1 /\ r \notin ToSet(store'[u])
  <2>1. r \in Request /\ r \in answered'
    BY <1>1, <1>2, <1>4 DEF Done
  <2>2. CASE r = e.id
    <3>1. r \notin answered /\ user = owner[r]
      BY <1>2, <1>5, <2>2 DEF Done
    <3>2. callbacks[r] = 0
      BY <2>1, <3>1 DEF Once, Account
    <3>3. callbacks'[r] <= 1
      BY <1>1, <1>2, <2>1, <2>2, <3>2 DEF Counted
    <3>4. r \in ToSet(store[u]) => u = user
      BY <3>1 DEF Once, Inv, Files
    <3>5. r \notin ToSet(store'[u])
      BY <1>1, <1>8, <2>2, <3>4
    <3> QED
      BY <3>3, <3>5
  <2>3. CASE r # e.id
    <3>1. r \in Done
      BY <1>2, <2>3 DEF Done
    <3>2. callbacks[r] <= 1 /\ r \notin ToSet(store[u])
      BY <3>1 DEF Once, Account, Stored
    <3>3. callbacks'[r] = callbacks[r]
      BY <1>1, <1>2, <2>1, <2>3
    <3>4. r \notin ToSet(store'[u])
      BY <1>1, <1>8, <3>2
    <3> QED
      BY <3>2, <3>3, <3>4
  <2> QED
    BY <2>2, <2>3
<1>10. \A r \in Request \ answered' : callbacks'[r] = 0
  BY <1>1, <1>2 DEF Once, Account
<1>11. answered' \subseteq submitted' /\ torn' \subseteq submitted'
  BY <1>2, <1>4 DEF Once, Account
<1>12. Account'
  <2>1. \A r \in Done' : callbacks'[r] <= 1 /\ \A u \in User : ~Stored(r, u)'
    BY <1>1, <1>9 DEF Stored
  <2> QED
    BY <1>10, <1>11, <2>1 DEF Account, Stored
<1> QED
  BY <1>7, <1>12 DEF Once

(* Every step keeps it.                                                    *)
LEMMA OnceNext == Once /\ [Next]_vars => Once'
<1> SUFFICES ASSUME Once, [Next]_vars PROVE Once'
  OBVIOUS
<1>1. Inv' /\ Inv /\ TypeOK
  BY InvNext DEF Once, Inv
<1>2. Held(conns, submitted, Done) /\ Account /\ Done \subseteq submitted
  BY DEF Once, Account, Done
<1>3. /\ store \in [User -> Seq(Request)] /\ user \in User
      /\ submitted \subseteq Request
  BY <1>1 DEF TypeOK
<1>4. ASSUME NEW r \in Request, SendDurable(r) PROVE Once'
  <2>1. PICK ids : /\ store' = [store EXCEPT ![user] = ids]
                   /\ ToSet(ids) = ToSet(store[user]) \cup {r}
    BY <1>1, <1>4, SentStore
  <2>2. /\ r \notin submitted /\ submitted' = submitted \cup {r}
        /\ UNCHANGED <<answered, astray, callbacks, torn, conns>>
    BY <1>4 DEF SendDurable
  <2>3. r \notin Done
    BY <1>2, <2>2
  <2>4. \A d \in Done : \A u \in User : d \in ToSet(store'[u]) => d \in ToSet(store[u])
    BY <1>3, <2>1, <2>3
  <2>5. submitted \subseteq submitted' /\ torn' \subseteq submitted'
    BY <1>2, <2>2 DEF Account
  <2>6. Account' /\ Done' = Done
    BY <1>2, <2>2, <2>4, <2>5, AccountKept
  <2>7. Held(conns', submitted', Done')
    BY <1>2, <2>2, <2>6, HeldMore
  <2> QED
    BY <1>1, <2>6, <2>7 DEF Once
<1>5. ASSUME NEW r \in Request, Withdraw(r) PROVE Once'
  <2>1. PICK ids : /\ store' = [store EXCEPT ![user] = ids]
                   /\ ToSet(ids) = ToSet(store[user]) \ {r}
    BY <1>1, <1>5, RemovedStore DEF Withdraw
  <2>2. UNCHANGED <<answered, astray, callbacks, torn, conns, submitted>>
    BY <1>5 DEF Withdraw
  <2>3. \A d \in Done : \A u \in User : d \in ToSet(store'[u]) => d \in ToSet(store[u])
    BY <1>3, <2>1
  <2>4. submitted \subseteq submitted' /\ torn' \subseteq submitted'
    BY <1>2, <2>2 DEF Account
  <2>5. Account' /\ Done' = Done
    BY <1>2, <2>2, <2>3, <2>4, AccountKept
  <2> QED
    BY <1>1, <1>2, <2>2, <2>5 DEF Once
<1>6. ASSUME UNCHANGED <<store, answered, astray, callbacks, torn, submitted>>,
             Held(conns', submitted, Done)
      PROVE  Once'
  <2>1. \A d \in Done : \A u \in User : d \in ToSet(store'[u]) => d \in ToSet(store[u])
    BY <1>6
  <2>2. submitted \subseteq submitted' /\ torn' \subseteq submitted'
    BY <1>2, <1>6 DEF Account
  <2>3. Account' /\ Done' = Done
    BY <1>2, <1>6, <2>1, <2>2, AccountKept
  <2> QED
    BY <1>1, <1>6, <2>3 DEF Once
<1>7. CASE Connections
  <2>1. UNCHANGED <<store, answered, astray, callbacks, torn, submitted>>
    BY <1>7 DEF Connections, ConnectionReady, CloseFrame, Disconnect, ShutDown,
                NewConnection, SocketClosed, DeleteConnection, Unrelated, history
  <2>2. Held(conns', submitted, Done)
    BY <1>1, <1>2, <1>7, HeldConnections
  <2> QED
    BY <1>6, <2>1, <2>2
<1>8. CASE Update
  <2>1. PICK dt \in Deltas : UpdateQuiet(dt) \/ UpdateSends(dt)
    BY <1>8 DEF Update
  <2>2. \A r : Queued(r) => r \in submitted \ Done
    BY <1>1, <1>2, QueuedIsOpen
  <2>3. Held(conns', submitted, Done)
    BY <1>1, <1>2, <2>1, <2>2, HeldUpdate
  <2>4. UNCHANGED <<store, answered, astray, callbacks, torn, submitted>>
    BY <2>1 DEF UpdateQuiet, UpdateSends, history
  <2> QED
    BY <1>6, <2>3, <2>4
<1>9. CASE Response
  <2>1. PICK i \in 1..Len(conns) : \E e \in conns[i].pending : Respond(i, e)
    BY <1>9 DEF Response
  <2>2. PICK e \in conns[i].pending : Respond(i, e)
    BY <2>1
  <2> QED
    BY <1>1, <2>2, OnceResponse
<1>10. Held(<<FreshConnection>>, submitted, Done)
       /\ Held(<<FreshConnection>>, submitted', Done)
  BY DEF Held, Holds, FreshConnection
<1>11. CASE Crash \/ CrashInSetUserId
  <2>1. /\ UNCHANGED <<store, answered, astray, callbacks, torn, submitted>>
        /\ conns' = <<FreshConnection>>
    BY <1>11 DEF Crash, CrashInSetUserId, Initialise
  <2> QED
    BY <1>6, <1>10, <2>1
<1>12. ASSUME NEW r \in Request, CrashInWrite(r) PROVE Once'
  <2>1. /\ store' = [store EXCEPT ![user] = <<>>]
        /\ UNCHANGED <<answered, astray, callbacks, submitted>>
        /\ conns' = <<FreshConnection>>
        /\ torn' \subseteq torn \cup ToSet(store[user])
    BY <1>12 DEF CrashInWrite, Initialise
  <2>2. torn' \subseteq submitted'
    BY <1>1, <1>2, <1>3, <2>1 DEF Account, Inv, Files
  <2>3. ToSet(<<>>) = {}
    BY DEF ToSet
  <2>4. \A d \in Done : \A u \in User : d \in ToSet(store'[u]) => d \in ToSet(store[u])
    BY <1>3, <2>1, <2>3
  <2>5. Account' /\ Done' = Done
    BY <1>2, <2>1, <2>2, <2>4, AccountKept
  <2> QED
    BY <1>1, <1>10, <2>1, <2>5 DEF Once
<1>13. ASSUME UNCHANGED <<store, answered, astray, callbacks, torn, submitted, conns>>
       PROVE  Once'
  BY <1>2, <1>6, <1>13
<1>14. CASE SetDurableQueueRunning
  BY <1>13, <1>14 DEF SetDurableQueueRunning, history
<1>15. ASSUME NEW u \in User, SetUserId(u) PROVE Once'
  BY <1>13, <1>15 DEF SetUserId, history
<1>16. CASE UNCHANGED vars
  BY <1>13, <1>16 DEF vars
<1> QED
  BY <1>4, <1>5, <1>7, <1>8, <1>9, <1>11, <1>12, <1>14, <1>15, <1>16
     DEF Next, Application

(* It holds in every reachable state.                                      *)
LEMMA OnceAlways == Spec => []Once
<1>1. Init => Once
  <2> SUFFICES ASSUME Init PROVE Once
    OBVIOUS
  <2>1. Held(conns, submitted, Done)
    BY DEF Init, Held, Holds, FreshConnection
  <2>2. Account
    BY DEF Init, Account, Done
  <2> QED
    BY <2>1, <2>2, InvInit DEF Once
<1> QED
  BY <1>1, OnceNext, PTL DEF Spec

(* A durable request is called back once and not sent again after its      *)
(* answer, by this process or a later one, unless the answer came to       *)
(* another user (ProcessReceivedResponse, RemoveDurableQueueEntry).        *)
THEOREM CalledBackOnce == Spec => []DoneOnce
<1>1. Once => DoneOnce
  <2> SUFFICES ASSUME Once PROVE DoneOnce
    OBVIOUS
  <2>1. \A r \in Done : callbacks[r] <= 1 /\ \A u \in User : ~Stored(r, u)
    BY DEF Once, Account
  <2>2. \A r \in Request \ answered : callbacks[r] = 0
    BY DEF Once, Account
  <2> QED
    BY <2>1, <2>2 DEF DoneOnce, Done
<1> QED
  BY <1>1, OnceAlways, PTL

-----------------------------------------------------------------------------
(* The durable queue implements Outbox                                     *)

Box == [u \in User |-> ToSet(store[u])]

Ended == answered \cup withdrawn \cup torn

(* Writing one file changes one box.                                       *)
LEMMA BoxWritten ==
    ASSUME NEW ids, store' = [store EXCEPT ![user] = ids],
           store \in [User -> Seq(Request)], user \in User
    PROVE  Box' = [Box EXCEPT ![user] = ToSet(ids)]
BY DEF Box

(* A copy in flight is of a request that is still in a box or has ended.   *)
LEMMA CopyBoxed ==
    ASSUME Once, NEW i \in 1..Len(conns), NEW e \in conns[i].pending
    PROVE  (\E u \in User : e.id \in Box[u]) \/ e.id \in Ended
<1>1. e.id \in submitted
  BY DEF Once, Held, Holds
<1>2. e.id \in Ended \/ Stored(e.id, owner[e.id])
  BY <1>1 DEF Once, Inv, Past, NoDurableLost, Ended
<1>3. owner[e.id] \in User
  BY <1>1 DEF Once, Inv, TypeOK
<1> QED
  BY <1>2, <1>3 DEF Stored, Box

(* Every step is a step of Outbox or invisible to it.                      *)
LEMMA OutboxStep == Once /\ [Next]_vars => [Promise!Next]_(Promise!vars)
<1> SUFFICES ASSUME Once, [Next]_vars PROVE [Promise!Next]_(Promise!vars)
  OBVIOUS
<1>1. Inv /\ TypeOK /\ Account
  BY DEF Once, Inv
<1>2. /\ store \in [User -> Seq(Request)] /\ user \in User
      /\ submitted \subseteq Request
      /\ \A u \in User : \A r \in Box[u] : r \in submitted /\ owner[r] = u
      /\ Ended \subseteq submitted
  BY <1>1 DEF TypeOK, Inv, Files, Box, Ended, Account, Past
<1>3. ASSUME UNCHANGED <<user, store, answered, withdrawn, torn>>
      PROVE  [Promise!Next]_(Promise!vars)
  BY <1>3 DEF Promise!vars
<1>4. ASSUME NEW r \in Request, SendDurable(r) PROVE [Promise!Next]_(Promise!vars)
  <2>1. PICK ids : /\ store' = [store EXCEPT ![user] = ids]
                   /\ ToSet(ids) = ToSet(store[user]) \cup {r}
    BY <1>1, <1>4, SentStore
  <2>2. r \notin submitted /\ UNCHANGED <<user, answered, withdrawn, torn>>
    BY <1>4 DEF SendDurable
  <2>3. Box' = [Box EXCEPT ![user] = @ \cup {r}]
    BY <1>2, <2>1, BoxWritten DEF Box
  <2>4. Promise!Submit(r)
    BY <1>2, <2>2, <2>3 DEF Promise!Submit, Promise!Boxed, Box, Ended
  <2> QED
    BY <2>4 DEF Promise!Next
<1>5. ASSUME NEW r \in Request, RemoveDurableQueueEntry(r), UNCHANGED user,
             (\E u \in User : r \in Box[u]) \/ r \in Ended,
             Ended' = Ended \cup {r}
      PROVE  [Promise!Next]_(Promise!vars)
  <2>1. PICK ids : /\ store' = [store EXCEPT ![user] = ids]
                   /\ ToSet(ids) = ToSet(store[user]) \ {r}
    BY <1>1, <1>5, RemovedStore
  <2>2. Box' = [Box EXCEPT ![user] = @ \ {r}]
    BY <1>2, <2>1, BoxWritten DEF Box
  <2>3. Promise!End(r)
    BY <1>5, <2>2 DEF Promise!End, Promise!Boxed, Box, Ended
  <2> QED
    BY <2>3 DEF Promise!Next
<1>6. ASSUME NEW r \in Request, Withdraw(r) PROVE [Promise!Next]_(Promise!vars)
  <2>1. r \in Box[user]
    BY <1>1, <1>2, <1>6, QueuedIsOpen DEF Withdraw, Box
  <2>2. RemoveDurableQueueEntry(r) /\ UNCHANGED user /\ Ended' = Ended \cup {r}
    BY <1>6 DEF Withdraw, Ended
  <2> QED
    BY <1>2, <1>5, <2>1, <2>2
<1>7. CASE Response
  <2>1. PICK i \in 1..Len(conns) : \E e \in conns[i].pending : Respond(i, e)
    BY <1>7 DEF Response
  <2>2. PICK e \in conns[i].pending : Respond(i, e)
    BY <2>1
  <2>3. e.id \in Request
    BY <1>2 DEF Once, Held, Holds
  <2>4. RemoveDurableQueueEntry(e.id) /\ UNCHANGED user /\ Ended' = Ended \cup {e.id}
    BY <2>2 DEF Respond, Ended
  <2> QED
    BY <1>5, <2>3, <2>4, CopyBoxed
<1>8. ASSUME NEW u \in User, user' = u, UNCHANGED <<store, answered, withdrawn, torn>>
      PROVE  [Promise!Next]_(Promise!vars)
  <2>1. Promise!Login(u)
    BY <1>8 DEF Promise!Login
  <2> QED
    BY <2>1 DEF Promise!Next
<1>9. ASSUME NEW u \in User, SetUserId(u) PROVE [Promise!Next]_(Promise!vars)
  BY <1>8, <1>9 DEF SetUserId, history
<1>10. CASE Crash
  BY <1>3, <1>10 DEF Crash, Initialise
<1>11. CASE CrashInSetUserId
  BY <1>8, <1>11, UserAssumption DEF CrashInSetUserId, Initialise
<1>12. ASSUME NEW r \in Request, CrashInWrite(r) PROVE [Promise!Next]_(Promise!vars)
  <2>1. /\ store' = [store EXCEPT ![user] = <<>>]
        /\ UNCHANGED <<user, answered, submitted>>
        /\ withdrawn' = withdrawn \cup ({r} \cap submitted)
        /\ torn' = torn \cup (ToSet(store[user]) \ {r})
        /\ r \notin submitted \/ Queued(r)
    BY <1>12 DEF CrashInWrite, Initialise
  <2>2. Box' = [Box EXCEPT ![user] = {}]
    <3>1. ToSet(<<>>) = {}
      BY DEF ToSet
    <3> QED
      BY <1>2, <2>1, <3>1, BoxWritten
  <2>3. r \in submitted => r \in Box[user]
    BY <1>1, <1>2, <2>1, QueuedIsOpen DEF Box
  <2>4. Box[user] = ToSet(store[user])
    BY <1>2 DEF Box
  <2>5. r \notin submitted => r \notin Box[user]
    BY <1>2
  <2>6. Ended' = Ended \cup Box[user]
    BY <2>1, <2>3, <2>4, <2>5 DEF Ended
  <2>7. Promise!Tear
    BY <2>1, <2>2, <2>6 DEF Promise!Tear, Box, Ended
  <2> QED
    BY <2>7 DEF Promise!Next
<1>13. CASE Connections \/ Update \/ SetDurableQueueRunning \/ UNCHANGED vars
  <2>1. UNCHANGED <<user, store, answered, withdrawn, torn>>
    BY <1>13 DEF Connections, ConnectionReady, CloseFrame, Disconnect, ShutDown,
                 NewConnection, SocketClosed, DeleteConnection, Unrelated, history,
                 Update, UpdateQuiet, UpdateSends, SetDurableQueueRunning, vars
  <2> QED
    BY <1>3, <2>1
<1> QED
  BY <1>4, <1>6, <1>7, <1>9, <1>10, <1>11, <1>12, <1>13 DEF Next, Application

(* Copies, retries, redirects, changes of user and restarts are invisible: *)
(* GS's durable queue does what Outbox promises.                           *)
THEOREM OutboxImplemented == Spec => ImplementsOutbox
<1>1. Init => Promise!Init
  <2>1. ToSet(<<>>) = {}
    BY DEF ToSet
  <2> QED
    BY <2>1 DEF Init, Promise!Init
<1> QED
  BY <1>1, OutboxStep, OnceAlways, PTL DEF Spec, ImplementsOutbox, Promise!Spec
=============================================================================
