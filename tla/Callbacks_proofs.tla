--------------------------- MODULE Callbacks_proofs ---------------------------
(***************************************************************************)
(* Proofs about Callbacks, for any depth of callbacks and any number of    *)
(* requests: what the application may call from its callbacks without      *)
(* harm.  Every step works on the top of the stack, so the invariant says  *)
(* of each frame what it relies on, and of the stack what may be above     *)
(* what.                                                                   *)
(***************************************************************************)
EXTENDS Callbacks, SequenceTheorems, FiniteSetTheorems, TLAPS

-----------------------------------------------------------------------------
(* Sequences                                                               *)

(* Prepending an element to a sequence shifts the others by one.           *)
LEMMA Prepended ==
    ASSUME NEW S, NEW x \in S, NEW s \in Seq(S)
    PROVE  /\ <<x>> \o s \in Seq(S)
           /\ Len(<<x>> \o s) = Len(s) + 1
           /\ (<<x>> \o s)[1] = x
           /\ \A i \in 2..Len(s) + 1 : (<<x>> \o s)[i] = s[i - 1]
BY ConcatProperties, SMT

(* SequencesExt's RemoveAt drops one element and keeps the others' order.  *)
LEMMA Removed ==
    ASSUME NEW S, NEW s \in Seq(S), NEW i \in 1..Len(s)
    PROVE  /\ RemoveAt(s, i) \in Seq(S)
           /\ Len(RemoveAt(s, i)) = Len(s) - 1
           /\ \A j \in 1..Len(s) - 1 :
                RemoveAt(s, i)[j] = IF j < i THEN s[j] ELSE s[j + 1]
<1> DEFINE a == SubSeq(s, 1, i - 1)
           b == SubSeq(s, i + 1, Len(s))
<1>1. a \in Seq(S) /\ Len(a) = i - 1 /\ \A j \in 1..i - 1 : a[j] = s[j]
  BY SMT
<1>2. /\ b \in Seq(S) /\ Len(b) = Len(s) - i
      /\ \A j \in 1..Len(s) - i : b[j] = s[i + j]
  BY SMT
<1> HIDE DEF a, b
<1>3. /\ a \o b \in Seq(S) /\ Len(a \o b) = Len(s) - 1
      /\ \A j \in 1..Len(s) - 1 :
           (a \o b)[j] = IF j <= i - 1 THEN a[j] ELSE b[j - (i - 1)]
  <2>1. Len(a) + Len(b) = Len(s) - 1
    BY <1>1, <1>2
  <2>2. /\ a \o b \in Seq(S)
        /\ Len(a \o b) = Len(a) + Len(b)
        /\ \A j \in 1..Len(a) + Len(b) :
             (a \o b)[j] = IF j <= Len(a) THEN a[j] ELSE b[j - Len(a)]
    <3>1. a \in Seq(S) /\ b \in Seq(S)
      BY <1>1, <1>2
    <3> QED
      BY ONLY <3>1, ConcatProperties, Zenon
  <2>3. Len(a) = i - 1
    BY <1>1
  <2> QED
    BY ONLY <2>1, <2>2, <2>3, Zenon
<1>4. RemoveAt(s, i) = a \o b
  BY DEF RemoveAt, a, b
<1>5. ASSUME NEW j \in 1..Len(s) - 1
      PROVE  (a \o b)[j] = IF j < i THEN s[j] ELSE s[j + 1]
  <2>1. CASE j < i
    <3>1. j \in 1..i - 1
      BY <2>1
    <3>2. (a \o b)[j] = a[j]
      BY <1>3, <3>1
    <3>3. a[j] = s[j]
      BY <1>1, <3>1
    <3> QED
      BY <2>1, <3>2, <3>3
  <2>2. CASE ~(j < i)
    <3>1. j - (i - 1) \in 1..Len(s) - i /\ i + (j - (i - 1)) = j + 1
      BY <2>2
    <3> QED
      BY <1>2, <1>3, <2>2, <3>1
  <2> QED
    BY <2>1, <2>2
<1> QED
  BY <1>3, <1>4, <1>5

(* A function on 1..n is a sequence of length n.                           *)
LEMMA FunctionIsSeq ==
    ASSUME NEW S, NEW n \in Nat, NEW f \in [1..n -> S]
    PROVE  f \in Seq(S) /\ Len(f) = n
<1>1. f \in Seq(S)
  BY SeqDef
<1>2. Len(f) \in Nat /\ DOMAIN f = 1..Len(f)
  BY <1>1, LenProperties
<1> QED
  BY <1>1, <1>2

-----------------------------------------------------------------------------
(* The inductive invariant                                                 *)

FrameRecord == [do : Work, c : Nat, i : Nat]

(* What the calls of the application put on the stack.                     *)
Calls == {"callback", "push", "reconnect"}

(* The functions of ProcessQueues, which Update calls last.                *)
AtBottom == {"queues", "trim", "expire", "expired"}

Stopped(cs) == \A k \in DOMAIN cs : cs[k].stopped

(* What the rest of a function finds when its turn comes.  A connection    *)
(* that is asked for frames was polled just before.  A websocket with a    *)
(* function of its own on the stack is not deleted, unless ShutDown was    *)
(* called below; all connections are stopped when another is put in front. *)
FrameOK(f, cs, ov) ==
    /\ f.c \in 0..Len(cs)
    /\ f.c # 0 <=> f.do \in OnSocket \cup {"dispatch", "expired"}
    /\ f.do \in {"connections", "trim", "expire"} => f.i # 0
    /\ f.do \in OnSocket /\ "deleted" \notin ov => cs[f.c].ws # "none"
    /\ f.do = "dispatch" => Alive(cs[f.c]) /\ ~cs[f.c].stopped
    /\ f.do = "expired" /\ "grown" \notin ov => f.c = f.i
    /\ f.do = "push" /\ "twice" \notin ov => Stopped(cs)

(* What may be on top of f: a function that the application did not call   *)
(* is only ever on top of Update's own; Update's last functions are at the *)
(* bottom; below a NewConnection's callback no other connection is made.   *)
Above(g, f, ov) ==
    /\ g.do \notin Calls => f.do \in {"connections", "queues"}
    /\ g.do \notin AtBottom
    /\ f.do # "dispatch"
    /\ f.do = "push" /\ "twice" \notin ov => g.do = "callback"
    /\ f.do = "expired" /\ "grown" \notin ov => g.do = "callback"

StackOK(s, cs, ov) ==
    /\ s \in Seq(FrameRecord)
    /\ \A k \in 1..Len(s) : FrameOK(s[k], cs, ov)
    /\ \A j, k \in 1..Len(s) : j < k => Above(s[j], s[k], ov)

(* The functions on a stack.                                               *)
Functions(s) == {s[k].do : k \in 1..Len(s)}

(* The front connection alone runs.                                        *)
FrontOnly(cs) == \A k \in DOMAIN cs : k # 1 => cs[k].stopped

(* Something runs, or will.                                                *)
Astir == ready \/ ~Stopped(conns) \/ Functions(stack) \cap Reviving # {}

(* After a Disconnect nothing runs and nothing will, but for the second    *)
(* half of a Reset.                                                        *)
Silent ==
    paused /\ "late" \notin overlaps /\ "reconnect" \notin Functions(stack) => ~Astir

Typed ==
    /\ conns \in Seq(Connection)
    /\ ready \in BOOLEAN /\ paused \in BOOLEAN /\ running \in BOOLEAN
    /\ deadline \in -1..1
    /\ fault \in {"none", "socket", "iterator"}
    /\ overlaps \subseteq {"twice", "late", "deleted", "grown"}

Inv ==
    /\ Typed
    /\ StackOK(stack, conns, overlaps)
    /\ "twice" \notin overlaps => FrontOnly(conns)
    /\ Silent
    /\ NothingUsedAfterItsEnd

-----------------------------------------------------------------------------
(* Stacks                                                                  *)

Own == {"connections", "dispatch"} \cup OnSocket

LEMMA FrameTyped ==
    ASSUME NEW do \in Work, NEW c \in Nat, NEW i \in Nat
    PROVE  /\ Frame(do, c, i) \in FrameRecord
           /\ Frame(do, c, i).do = do /\ Frame(do, c, i).c = c /\ Frame(do, c, i).i = i
BY DEF Frame, FrameRecord

LEMMA CallbackTyped == Callback \in FrameRecord /\ Callback.do = "callback" /\ Callback.c = 0
<1>1. "callback" \in Work
  BY DEF Work
<1> QED
  BY <1>1, FrameTyped DEF Callback

(* The innermost function has ended.                                       *)
LEMMA StackTail ==
    ASSUME NEW s, NEW cs, NEW ov, StackOK(s, cs, ov), s # <<>>
    PROVE  /\ StackOK(Tail(s), cs, ov)
           /\ Head(s) \in FrameRecord /\ FrameOK(Head(s), cs, ov)
           /\ \A k \in 1..Len(Tail(s)) : Above(Head(s), Tail(s)[k], ov)
           /\ Functions(s) = {Head(s).do} \cup Functions(Tail(s))
<1> DEFINE t == Tail(s)
<1>1. /\ s \in Seq(FrameRecord) /\ Len(s) \in Nat /\ Len(s) > 0
      /\ \A k \in 1..Len(s) : FrameOK(s[k], cs, ov)
      /\ \A j, k \in 1..Len(s) : j < k => Above(s[j], s[k], ov)
  BY DEF StackOK
<1>2. /\ t \in Seq(FrameRecord) /\ Len(t) = Len(s) - 1 /\ Head(s) = s[1]
      /\ s[1] \in FrameRecord /\ \A k \in 1..Len(s) - 1 : t[k] = s[k + 1]
  BY <1>1
<1> HIDE DEF t
<1>3. \A k \in 1..Len(t) : k + 1 \in 1..Len(s) /\ 1 < k + 1 /\ t[k] = s[k + 1]
  BY <1>1, <1>2
<1>4. 1 \in 1..Len(s)
  BY <1>1
<1>5. StackOK(t, cs, ov)
  <2>1. \A k \in 1..Len(t) : FrameOK(t[k], cs, ov)
    BY <1>1, <1>3
  <2>2. ASSUME NEW j \in 1..Len(t), NEW k \in 1..Len(t), j < k PROVE Above(t[j], t[k], ov)
    <3>1. j + 1 < k + 1
      BY <2>2
    <3> QED
      BY <1>1, <1>3, <3>1
  <2> QED
    BY <1>2, <2>1, <2>2 DEF StackOK
<1>6. \A k \in 1..Len(t) : Above(s[1], t[k], ov)
  BY <1>1, <1>3, <1>4
<1>7. Functions(s) = {s[1].do} \cup Functions(t)
  <2>1. ASSUME NEW k \in 1..Len(s), k # 1 PROVE \E j \in 1..Len(t) : t[j] = s[k]
    <3>1. k - 1 \in 1..Len(s) - 1 /\ (k - 1) + 1 = k
      BY <1>1, <2>1
    <3> QED
      BY <1>2, <3>1
  <2>2. Functions(s) \subseteq {s[1].do} \cup Functions(t)
    BY <2>1 DEF Functions
  <2>3. {s[1].do} \cup Functions(t) \subseteq Functions(s)
    BY <1>3, <1>4 DEF Functions
  <2> QED
    BY <2>2, <2>3
<1> QED
  BY <1>1, <1>2, <1>4, <1>5, <1>6, <1>7 DEF t

(* A function is called.                                                   *)
LEMMA StackCons ==
    ASSUME NEW s, NEW cs, NEW ov, StackOK(s, cs, ov), NEW f \in FrameRecord,
           FrameOK(f, cs, ov), \A k \in 1..Len(s) : Above(f, s[k], ov)
    PROVE  /\ StackOK(<<f>> \o s, cs, ov)
           /\ Functions(<<f>> \o s) = {f.do} \cup Functions(s)
           /\ \A g : (\A k \in 1..Len(s) : Above(g, s[k], ov)) /\ Above(g, f, ov) =>
                \A k \in 1..Len(<<f>> \o s) : Above(g, (<<f>> \o s)[k], ov)
<1> DEFINE t == <<f>> \o s
<1>1. s \in Seq(FrameRecord) /\ Len(s) \in Nat
  BY DEF StackOK
<1>2. /\ t \in Seq(FrameRecord) /\ Len(t) = Len(s) + 1 /\ t[1] = f
      /\ \A i \in 2..Len(s) + 1 : t[i] = s[i - 1]
  BY <1>1, Prepended
<1> HIDE DEF t
<1>3. \A k \in 1..Len(t) : \/ k = 1 /\ t[k] = f
                           \/ k > 1 /\ k - 1 \in 1..Len(s) /\ t[k] = s[k - 1]
  BY <1>1, <1>2
<1>4. /\ \A k \in 1..Len(s) : FrameOK(s[k], cs, ov)
      /\ \A j, k \in 1..Len(s) : j < k => Above(s[j], s[k], ov)
  BY DEF StackOK
<1>5. StackOK(t, cs, ov)
  <2>1. \A k \in 1..Len(t) : FrameOK(t[k], cs, ov)
    BY <1>3, <1>4
  <2>2. ASSUME NEW j \in 1..Len(t), NEW k \in 1..Len(t), j < k PROVE Above(t[j], t[k], ov)
    <3>1. k > 1 /\ k - 1 \in 1..Len(s) /\ t[k] = s[k - 1]
      BY <1>3, <2>2
    <3>2. CASE j = 1
      BY <1>2, <3>1, <3>2
    <3>3. CASE j > 1 /\ j - 1 \in 1..Len(s) /\ t[j] = s[j - 1]
      <4>1. j - 1 < k - 1
        BY <2>2
      <4> QED
        BY <1>4, <3>1, <3>3, <4>1
    <3> QED
      BY <1>3, <3>2, <3>3
  <2> QED
    BY <1>2, <2>1, <2>2 DEF StackOK
<1>6. Functions(t) = {f.do} \cup Functions(s)
  <2>1. \A k \in 1..Len(s) : k + 1 \in 1..Len(t) /\ t[k + 1] = s[k]
    BY <1>1, <1>2
  <2>2. 1 \in 1..Len(t)
    BY <1>1, <1>2
  <2> QED
    BY SMTT(20), <1>2, <1>3, <2>1, <2>2 DEF Functions
<1>7. ASSUME NEW g, \A k \in 1..Len(s) : Above(g, s[k], ov), Above(g, f, ov)
      PROVE  \A k \in 1..Len(t) : Above(g, t[k], ov)
  BY <1>3, <1>7
<1> QED
  BY <1>5, <1>6, <1>7 DEF t

(* The connections of b are those of a, none of which was started again or *)
(* lost its websocket.                                                     *)
Same(a, b) ==
    /\ Len(b) = Len(a)
    /\ \A k \in 1..Len(a) : /\ a[k].ws # "none" => b[k].ws # "none"
                            /\ a[k].stopped => b[k].stopped

(* What the functions below the innermost rely on stays.                   *)
LEMMA StackKept ==
    ASSUME NEW s, NEW cs \in Seq(Connection), NEW ov, StackOK(s, cs, ov),
           NEW new \in Seq(Connection), Same(cs, new), NEW more, ov \subseteq more,
           "dispatch" \notin Functions(s)
    PROVE  StackOK(s, new, more)
<1>1. Len(new) = Len(cs) /\ Len(cs) \in Nat /\ DOMAIN cs = 1..Len(cs) /\ DOMAIN new = 1..Len(cs)
  BY DEF Same
<1>2. Stopped(cs) => Stopped(new)
  BY <1>1 DEF Stopped, Same
<1>3. ASSUME NEW k \in 1..Len(s) PROVE FrameOK(s[k], new, more)
  <2> DEFINE f == s[k]
  <2>1. FrameOK(f, cs, ov) /\ f \in FrameRecord /\ f.do # "dispatch"
    BY DEF StackOK, Functions
  <2> HIDE DEF f
  <2>2. f.c \in 0..Len(new)
    BY <1>1, <2>1 DEF FrameOK
  <2>3. f.c # 0 => f.c \in 1..Len(cs)
    BY <1>1, <2>1 DEF FrameOK
  <2>4. f.do \in OnSocket /\ "deleted" \notin more => new[f.c].ws # "none"
    BY <2>1, <2>3 DEF FrameOK, Same
  <2>5. /\ f.c # 0 <=> f.do \in OnSocket \cup {"dispatch", "expired"}
        /\ f.do \in {"connections", "trim", "expire"} => f.i # 0
        /\ f.do = "expired" /\ "grown" \notin more => f.c = f.i
        /\ f.do = "push" /\ "twice" \notin more => Stopped(new)
    BY <1>2, <2>1 DEF FrameOK
  <2> QED
    BY <2>1, <2>2, <2>4, <2>5 DEF FrameOK, f
<1>4. \A j, k \in 1..Len(s) : j < k => Above(s[j], s[k], more)
  BY DEF StackOK, Above
<1> QED
  BY <1>3, <1>4 DEF StackOK

-----------------------------------------------------------------------------
(* Steps of the client                                                     *)

(* A step from which the innermost function comes out with no new right.   *)
LEMMA InvKept ==
    ASSUME Inv, StackOK(stack', conns', overlaps'), conns' \in Seq(Connection),
           Same(conns, conns'), UNCHANGED paused,
           overlaps \subseteq overlaps',
           overlaps' \subseteq {"twice", "late", "deleted", "grown"},
           deadline' \in -1..1, running' \in BOOLEAN, ready' \in BOOLEAN,
           ready' => Astir, Functions(stack') \cap Reviving # {} => Astir,
           "reconnect" \in Functions(stack) => "reconnect" \in Functions(stack'),
           fault' \in {"none", "socket", "iterator"},
           fault' = "socket" => "deleted" \in overlaps,
           fault' = "iterator" => "grown" \in overlaps
    PROVE  Inv'
<1>1. /\ DOMAIN conns = 1..Len(conns) /\ DOMAIN conns' = 1..Len(conns)
      /\ \A k \in 1..Len(conns) : conns[k].stopped => conns'[k].stopped
  BY DEF Inv, Typed, Same
<1>2. Typed'
  BY DEF Inv, Typed
<1>3. "twice" \notin overlaps' => FrontOnly(conns')
  BY <1>1 DEF Inv, FrontOnly
<1>4. Stopped(conns) => Stopped(conns')
  BY <1>1 DEF Stopped
<1>5. Silent'
  BY <1>4 DEF Inv, Silent, Astir
<1>6. NothingUsedAfterItsEnd'
  BY DEF NothingUsedAfterItsEnd
<1> QED
  BY <1>2, <1>3, <1>5, <1>6 DEF Inv

(* A function of Update's goes on, below a callback or not.                *)
LEMMA OwnStep ==
    ASSUME Inv, stack # <<>>, Head(stack).do \in Own, conns' \in Seq(Connection),
           Same(conns, conns'), NEW f \in FrameRecord, f.do \in Own \ {"redirected"},
           FrameOK(f, conns', overlaps),
           \/ stack' = Below
           \/ stack' = <<f>> \o Below
           \/ f.do # "dispatch" /\ stack' = <<Callback>> \o (<<f>> \o Below),
           UNCHANGED <<paused, running, deadline, overlaps>>,
           ready' \in BOOLEAN, ready' => Astir,
           fault' \in {"none", "socket"}, fault' = "socket" => "deleted" \in overlaps
    PROVE  Inv'
<1>1. /\ StackOK(Below, conns, overlaps)
      /\ \A k \in 1..Len(Below) : Above(Head(stack), Below[k], overlaps)
      /\ Functions(stack) = {Head(stack).do} \cup Functions(Below)
  BY StackTail DEF Inv, Below
<1>2. Head(stack).do \notin Calls /\ f.do \notin Calls /\ f.do \notin AtBottom
  BY DEF Own, OnSocket, Calls, AtBottom
<1>3. \A k \in 1..Len(Below) : Below[k].do \in {"connections", "queues"}
  BY <1>1, <1>2 DEF Above
<1>4. "dispatch" \notin Functions(Below)
  BY <1>3 DEF Functions
<1>5. conns \in Seq(Connection)
  BY DEF Inv, Typed
<1>6. StackOK(Below, conns', overlaps)
  BY <1>1, <1>4, <1>5, StackKept
<1>7. \A g : g.do \notin AtBottom => \A k \in 1..Len(Below) : Above(g, Below[k], overlaps)
  BY <1>3 DEF Above
<1>8. /\ StackOK(<<f>> \o Below, conns', overlaps)
      /\ Functions(<<f>> \o Below) = {f.do} \cup Functions(Below)
      /\ \A g : g.do \notin AtBottom /\ Above(g, f, overlaps) =>
           \A k \in 1..Len(<<f>> \o Below) : Above(g, (<<f>> \o Below)[k], overlaps)
  <2>1. \A k \in 1..Len(Below) : Above(f, Below[k], overlaps)
    BY <1>2, <1>7
  <2> QED
    BY <1>6, <1>7, <2>1, StackCons
<1>9. f.do # "dispatch" =>
        /\ StackOK(<<Callback>> \o (<<f>> \o Below), conns', overlaps)
        /\ Functions(<<Callback>> \o (<<f>> \o Below)) =
             {"callback", f.do} \cup Functions(Below)
  <2> SUFFICES ASSUME f.do # "dispatch"
               PROVE  /\ StackOK(<<Callback>> \o (<<f>> \o Below), conns', overlaps)
                      /\ Functions(<<Callback>> \o (<<f>> \o Below)) =
                           {"callback", f.do} \cup Functions(Below)
    OBVIOUS
  <2> DEFINE t == <<f>> \o Below
  <2>1. Callback \in FrameRecord /\ Callback.do = "callback" /\ Callback.c = 0
    BY CallbackTyped
  <2>2. FrameOK(Callback, conns', overlaps)
    BY <2>1 DEF FrameOK, OnSocket
  <2>3. Above(Callback, f, overlaps)
    BY <2>1 DEF Above, Calls, AtBottom
  <2>4. Callback.do \notin AtBottom
    BY <2>1 DEF AtBottom
  <2>5. /\ StackOK(t, conns', overlaps) /\ Functions(t) = {f.do} \cup Functions(Below)
        /\ \A k \in 1..Len(t) : Above(Callback, t[k], overlaps)
    BY <1>8, <2>3, <2>4
  <2> HIDE DEF t
  <2>6. /\ StackOK(<<Callback>> \o t, conns', overlaps)
        /\ Functions(<<Callback>> \o t) = {Callback.do} \cup Functions(t)
    BY <2>1, <2>2, <2>5, StackCons
  <2> QED
    BY <2>1, <2>5, <2>6 DEF t
<1>10. /\ StackOK(stack', conns', overlaps)
       /\ Functions(stack') \cap Reviving # {} => Functions(stack) \cap Reviving # {}
       /\ "reconnect" \in Functions(stack) => "reconnect" \in Functions(stack')
  BY <1>1, <1>2, <1>6, <1>8, <1>9 DEF Calls, Reviving
<1>11. Functions(stack') \cap Reviving # {} => Astir
  BY <1>10 DEF Astir
<1> QED
  BY <1>10, <1>11, InvKept DEF Inv, Typed

LEMMA TopTyped ==
    ASSUME Inv, stack # <<>>
    PROVE  /\ Top \in FrameRecord /\ FrameOK(Top, conns, overlaps)
           /\ Top.do \in Work /\ Top.c \in 0..Len(conns) /\ Top.i \in Nat
           /\ conns \in Seq(Connection) /\ Len(conns) \in Nat
<1>1. Top \in FrameRecord /\ FrameOK(Top, conns, overlaps) /\ conns \in Seq(Connection)
  BY StackTail DEF Inv, Typed, Top
<1> QED
  BY <1>1 DEF FrameOK, FrameRecord

(* One connection changes.                                                 *)
LEMMA Changed ==
    ASSUME NEW cs \in Seq(Connection), NEW i \in 1..Len(cs), NEW r \in Connection,
           cs[i].ws # "none" => r.ws # "none", cs[i].stopped => r.stopped
    PROVE  LET new == [cs EXCEPT ![i] = r]
           IN  new \in Seq(Connection) /\ Same(cs, new) /\ new[i] = r
<1> DEFINE new == [cs EXCEPT ![i] = r]
<1>1. /\ new \in Seq(Connection) /\ Len(new) = Len(cs) /\ new[i] = r
      /\ \A k \in 1..Len(cs) : k # i => new[k] = cs[k]
  OBVIOUS
<1> HIDE DEF new
<1>2. \A k \in 1..Len(cs) : /\ cs[k].ws # "none" => new[k].ws # "none"
                            /\ cs[k].stopped => new[k].stopped
  <2> TAKE k \in 1..Len(cs)
  <2>1. CASE k = i
    BY <1>1, <2>1
  <2>2. CASE k # i
    BY <1>1, <2>2
  <2> QED
    BY <2>1, <2>2
<1> QED
  BY <1>1, <1>2 DEF new, Same

LEMMA SameRefl == \A cs \in Seq(Connection) : Same(cs, cs)
BY DEF Same

(* The loop of UpdateConnections can always go on.                         *)
LEMMA LoopFrame ==
    ASSUME NEW cs \in Seq(Connection), NEW ov, NEW i \in Nat \ {0}
    PROVE  LET f == Frame("connections", 0, i)
           IN  /\ f \in FrameRecord /\ f.do \in Own \ {"dispatch", "redirected"}
               /\ FrameOK(f, cs, ov)
<1> DEFINE f == Frame("connections", 0, i)
<1>1. f \in FrameRecord /\ f.do = "connections" /\ f.c = 0 /\ f.i = i
  BY FrameTyped DEF Work
<1> HIDE DEF f
<1>2. Len(cs) \in Nat
  OBVIOUS
<1>3. FrameOK(f, cs, ov)
  BY <1>1, <1>2 DEF FrameOK, OnSocket
<1> QED
  BY <1>1, <1>3 DEF f, Own, OnSocket

(* A function of a websocket has what it needs while the websocket is not  *)
(* deleted.                                                                *)
LEMMA SocketFrame ==
    ASSUME NEW cs \in Seq(Connection), NEW ov, NEW do \in OnSocket,
           NEW c \in 1..Len(cs), NEW i \in Nat, "deleted" \notin ov => cs[c].ws # "none"
    PROVE  LET f == Frame(do, c, i)
           IN  /\ f \in FrameRecord /\ f.do = do /\ f.do \in Own \ {"dispatch"}
               /\ FrameOK(f, cs, ov)
<1> DEFINE f == Frame(do, c, i)
<1>1. do \in Work /\ c \in Nat
  BY DEF Work
<1>2. f \in FrameRecord /\ f.do = do /\ f.c = c /\ f.i = i
  BY <1>1, FrameTyped
<1> HIDE DEF f
<1>3. do \notin {"connections", "dispatch", "trim", "expire", "expired", "push"}
  BY DEF OnSocket
<1>4. FrameOK(f, cs, ov)
  BY <1>2, <1>3 DEF FrameOK
<1> QED
  BY <1>2, <1>3, <1>4 DEF f, Own

(* A loop over the connections ends, or takes the next one.                *)
LEMMA LoopStep ==
    ASSUME Inv, EndConnections \/ PollSkips \/ DispatchNothing
    PROVE  Inv'
<1>1. /\ stack # <<>> /\ Head(stack).do \in Own
      /\ UNCHANGED <<conns, ready, paused, running, deadline, overlaps, fault>>
      /\ fault = "none" /\ (stack' = Below \/ stack' = NextOf(Top.i))
  BY DEF EndConnections, PollSkips, DispatchNothing, At, Own, Others
<1>2. conns \in Seq(Connection) /\ Top.i \in Nat /\ Same(conns, conns')
  BY <1>1, TopTyped, SameRefl
<1> DEFINE f == Frame("connections", 0, Top.i + 1)
<1>3. f \in FrameRecord /\ f.do \in Own \ {"redirected"} /\ FrameOK(f, conns', overlaps)
  <2>1. Top.i + 1 \in Nat \ {0} /\ conns' \in Seq(Connection)
    BY <1>1, <1>2
  <2> QED
    BY <2>1, LoopFrame
<1>4. stack' = Below \/ stack' = <<f>> \o Below
  BY <1>1 DEF NextOf
<1> HIDE DEF f
<1>5. ready' \in BOOLEAN /\ (ready' => Astir)
  BY <1>1 DEF Inv, Typed, Astir
<1>6. fault' = "none"
  BY <1>1 DEF EndConnections, PollSkips, DispatchNothing, At
<1> QED
  BY <1>1, <1>2, <1>3, <1>4, <1>5, <1>6, OwnStep

(* What a poll finds.                                                      *)
LEMMA Polled ==
    ASSUME Inv, Polling
    PROVE  /\ stack # <<>> /\ Head(stack).do \in Own /\ fault = "none"
           /\ Top.i \in 1..Len(conns) /\ conns \in Seq(Connection)
           /\ conns[Top.i] \in Connection /\ Alive(conns[Top.i])
<1>1. /\ stack # <<>> /\ Top.do = "connections" /\ fault = "none"
      /\ Top.i <= Len(conns) /\ Alive(conns[Top.i])
  BY DEF Polling, At, Top
<1>2. Top.i # 0 /\ Top.i \in Nat /\ conns \in Seq(Connection) /\ Len(conns) \in Nat
  BY <1>1, TopTyped DEF FrameOK
<1>3. Top.i \in 1..Len(conns)
  BY <1>1, <1>2
<1> QED
  BY <1>1, <1>2, <1>3 DEF Own, Top

LEMMA PollQuietStep == ASSUME Inv, PollQuiet PROVE Inv'
<1>1. /\ stack # <<>> /\ Head(stack).do \in Own /\ fault = "none"
      /\ Top.i \in 1..Len(conns) /\ conns \in Seq(Connection)
      /\ conns[Top.i] \in Connection /\ Alive(conns[Top.i])
  BY Polled DEF PollQuiet
<1>2. /\ conns' \in {conns, [conns EXCEPT ![Top.i].ws = IF @ = "connecting" THEN "open" ELSE @]}
      /\ stack' = IF conns[Top.i].stopped THEN Below
                  ELSE <<Frame("dispatch", Top.i, Top.i)>> \o Below
      /\ UNCHANGED <<ready, paused, running, deadline, fault, overlaps>>
  BY DEF PollQuiet, AfterPoll, Others
<1>3. PICK i \in 1..Len(conns) : i = Top.i
  BY <1>1
<1>4. /\ conns' \in Seq(Connection) /\ Same(conns, conns')
      /\ Alive(conns'[i]) /\ conns'[i].stopped = conns[i].stopped
  <2>1. CASE conns' = conns
    BY <1>1, <1>3, <2>1, SameRefl
  <2>2. CASE conns' # conns
    <3>1. PICK r \in Connection :
            /\ r = [conns[i] EXCEPT !.ws = IF @ = "connecting" THEN "open" ELSE @]
            /\ Alive(r) /\ r.stopped = conns[i].stopped /\ r.ws # "none"
      <4> DEFINE w == [conns[i] EXCEPT !.ws = IF @ = "connecting" THEN "open" ELSE @]
      <4>1. /\ w \in Connection /\ Alive(w) /\ w.stopped = conns[i].stopped
            /\ w.ws # "none"
        BY <1>1, <1>3 DEF Connection, Alive
      <4>2. w = [conns[i] EXCEPT !.ws = IF @ = "connecting" THEN "open" ELSE @]
        OBVIOUS
      <4> HIDE DEF w
      <4> QED
        BY <4>1, <4>2
    <3>2. conns' = [conns EXCEPT ![i] = r] /\ conns \in Seq(Connection)
      BY <1>1, <1>2, <1>3, <2>2, <3>1
    <3>3. conns[i].ws # "none" => r.ws # "none"
      BY <3>1
    <3>4. conns[i].stopped => r.stopped
      BY <3>1
    <3>5. conns' \in Seq(Connection) /\ Same(conns, conns') /\ conns'[i] = r
      BY ONLY <3>2, <3>3, <3>4, Changed
    <3> QED
      BY <3>1, <3>5
  <2> QED
    BY <2>1, <2>2
<1>5. PICK f \in FrameRecord : /\ f.do \in Own \ {"redirected"}
                               /\ FrameOK(f, conns', overlaps)
                               /\ stack' = Below \/ stack' = <<f>> \o Below
  <2>1. CASE conns[i].stopped
    <3> DEFINE f == Frame("connections", 0, 1)
    <3>1. f \in FrameRecord /\ f.do \in Own \ {"redirected"} /\ FrameOK(f, conns', overlaps)
      BY <1>4, LoopFrame
    <3> QED
      BY <1>2, <1>3, <2>1, <3>1
  <2>2. CASE ~conns[i].stopped
    <3> DEFINE f == Frame("dispatch", i, i)
    <3>1. f \in FrameRecord /\ f.do = "dispatch" /\ f.c = i
      BY FrameTyped DEF Work
    <3>2. stack' = <<f>> \o Below
      BY <1>2, <1>3, <2>2
    <3> HIDE DEF f
    <3>3. i \in 0..Len(conns') /\ i # 0
      BY <1>4 DEF Same
    <3>4. FrameOK(f, conns', overlaps)
      BY <1>4, <2>2, <3>1, <3>3 DEF FrameOK, OnSocket
    <3> QED
      BY <3>1, <3>2, <3>4 DEF Own
  <2> QED
    BY <2>1, <2>2
<1>6. ready' \in BOOLEAN /\ (ready' => Astir)
  BY <1>2 DEF Inv, Typed, Astir
<1> QED
  BY <1>1, <1>2, <1>4, <1>5, <1>6, OwnStep

(* A connection changes, and the loop, or the function of a websocket,     *)
(* goes on.                                                                *)
LEMMA SocketStep ==
    ASSUME Inv, stack # <<>>, Head(stack).do \in Own, fault = "none",
           NEW i \in 1..Len(conns), NEW r \in Connection,
           conns' = [conns EXCEPT ![i] = r],
           conns[i].ws # "none" => r.ws # "none", conns[i].stopped => r.stopped,
           NEW do \in OnSocket \ {"redirected"}, NEW k \in Nat,
           "deleted" \notin overlaps => r.ws # "none",
           \/ stack' = Below
           \/ stack' = <<Frame(do, i, k)>> \o Below
           \/ stack' = <<Callback>> \o (<<Frame(do, i, k)>> \o Below),
           UNCHANGED <<paused, running, deadline, overlaps>>,
           ready' \in BOOLEAN, ready' => Astir,
           fault' \in {"none", "socket"}, fault' = "socket" => "deleted" \in overlaps
    PROVE  Inv'
<1> DEFINE f == Frame(do, i, k)
<1>1. conns \in Seq(Connection)
  BY DEF Inv, Typed
<1>2. conns' \in Seq(Connection) /\ Same(conns, conns') /\ conns'[i] = r
  BY ZenonT(40), <1>1, Changed
<1>3. i \in 1..Len(conns')
  BY <1>2 DEF Same
<1>4. /\ f \in FrameRecord /\ f.do \in Own \ {"dispatch", "redirected"}
      /\ FrameOK(f, conns', overlaps)
  <2>1. do \in OnSocket /\ do # "redirected"
    OBVIOUS
  <2>2. "deleted" \notin overlaps => conns'[i].ws # "none"
    BY <1>2
  <2>3. /\ f \in FrameRecord /\ f.do = do /\ f.do \in Own \ {"dispatch"}
        /\ FrameOK(f, conns', overlaps)
    <3>1. conns' \in Seq(Connection)
      BY <1>2
    <3> QED
      BY ONLY <1>3, <2>1, <2>2, <3>1, k \in Nat, SocketFrame, Zenon
  <2> QED
    BY <2>1, <2>3
<1> HIDE DEF f
<1>5. \/ stack' = Below
      \/ stack' = <<f>> \o Below
      \/ f.do # "dispatch" /\ stack' = <<Callback>> \o (<<f>> \o Below)
  BY <1>4 DEF f
<1> QED
  BY <1>2, <1>4, <1>5, OwnStep

LEMMA ItselfChanged == \A cs \in Seq(Connection) : \A i \in 1..Len(cs) :
                         cs = [cs EXCEPT ![i] = cs[i]] /\ cs[i] \in Connection
OBVIOUS

LEMMA PollEndStep == ASSUME Inv, PollCloses \/ PollFails PROVE Inv'
<1>1. /\ stack # <<>> /\ Head(stack).do \in Own /\ fault = "none"
      /\ Top.i \in 1..Len(conns) /\ conns \in Seq(Connection)
      /\ conns[Top.i] \in Connection /\ Alive(conns[Top.i])
  BY Polled DEF PollCloses, PollFails
<1>2. PICK i \in 1..Len(conns) : i = Top.i
  BY <1>1
<1>3. UNCHANGED <<paused, running, deadline, fault, overlaps>>
  BY DEF PollCloses, PollFails, Others
<1>4. ready \in BOOLEAN /\ i \in Nat
  BY DEF Inv, Typed
<1>5. CASE PollCloses
  <2> DEFINE r == [conns[i] EXCEPT !.ws = "closed", !.stopped = TRUE]
  <2>1. r \in Connection /\ r.ws # "none" /\ r.stopped
    BY <1>1, <1>2 DEF Connection
  <2>2. conns' = [conns EXCEPT ![i] = r]
    BY <1>2, <1>5 DEF PollCloses
  <2>3. stack' = Below /\ ready' = ready
    BY <1>5 DEF PollCloses
  <2> HIDE DEF r
  <2>4. "failed" \in OnSocket \ {"redirected"}
    BY DEF OnSocket
  <2>5. ready' \in BOOLEAN /\ (ready' => Astir)
    BY <1>4, <2>3 DEF Astir
  <2> QED
    BY <1>1, <1>2, <1>3, <1>4, <2>1, <2>2, <2>3, <2>4, <2>5, SocketStep
<1>6. CASE PollFails
  <2> DEFINE r == [conns[i] EXCEPT !.ws = "closed"]
  <2>1. r \in Connection /\ r.ws # "none" /\ (conns[i].stopped => r.stopped)
    BY <1>1, <1>2 DEF Connection
  <2>2. conns' = [conns EXCEPT ![i] = r]
    BY <1>2, <1>6 DEF PollFails
  <2>3. /\ \/ stack' = <<Frame("failed", i, i)>> \o Below
           \/ stack' = <<Callback>> \o (<<Frame("failed", i, i)>> \o Below)
        /\ ready' \in {ready, FALSE}
    BY <1>2, <1>6 DEF PollFails, ClientError, SetAvailability
  <2> HIDE DEF r
  <2>4. "failed" \in OnSocket \ {"redirected"}
    BY DEF OnSocket
  <2>5. ready' \in BOOLEAN /\ (ready' => Astir)
    <3>1. CASE ready' = ready
      BY <1>4, <3>1 DEF Astir
    <3>2. CASE ready' = FALSE
      BY <3>2
    <3> QED
      BY <2>3, <3>1, <3>2
  <2> QED
    BY <1>1, <1>2, <1>3, <1>4, <2>1, <2>2, <2>3, <2>4, <2>5, SocketStep
<1> QED
  BY <1>5, <1>6

(* A frame of OnSocket is on top, and its websocket not deleted.           *)
LEMMA OnSocketTop ==
    ASSUME Inv, stack # <<>>, Top.do \in OnSocket \cup {"dispatch"}
    PROVE  /\ Head(stack).do \in Own /\ Top.c \in 1..Len(conns) /\ Top.i \in Nat
           /\ conns[Top.c] \in Connection
           /\ "deleted" \notin overlaps => conns[Top.c].ws # "none"
           /\ Top.do = "dispatch" => Alive(conns[Top.c]) /\ ~conns[Top.c].stopped
<1>1. /\ FrameOK(Top, conns, overlaps) /\ Top.c \in 0..Len(conns) /\ Top.i \in Nat
      /\ conns \in Seq(Connection) /\ Len(conns) \in Nat
  BY TopTyped
<1>2. Top.c \in 1..Len(conns)
  BY <1>1 DEF FrameOK
<1>3. "deleted" \notin overlaps => conns[Top.c].ws # "none"
  BY <1>1 DEF FrameOK, Alive
<1>4. Top.do = "dispatch" => Alive(conns[Top.c]) /\ ~conns[Top.c].stopped
  BY <1>1 DEF FrameOK
<1> QED
  BY <1>1, <1>2, <1>3, <1>4 DEF Own, Top

(* Uses finds a deleted websocket only after ShutDown was called below.    *)
LEMMA UsesJustified ==
    ASSUME NEW c, Uses(c), "deleted" \notin overlaps => conns[c].ws # "none"
    PROVE  fault' \in {"none", "socket"} /\ (fault' = "socket" => "deleted" \in overlaps)
BY DEF Uses

LEMMA FailedStep == ASSUME Inv, Failed PROVE Inv'
<1>1. /\ stack # <<>> /\ fault = "none" /\ Top.do \in {"failed", "refused"}
      /\ Uses(Top.c) /\ stack' = Below
      /\ UNCHANGED <<ready, paused, running, deadline, overlaps>>
  BY DEF Failed, At, Top
<1>2. /\ Head(stack).do \in Own /\ Top.c \in 1..Len(conns) /\ conns[Top.c] \in Connection
      /\ "deleted" \notin overlaps => conns[Top.c].ws # "none"
  BY <1>1, OnSocketTop DEF OnSocket
<1>3. PICK i \in 1..Len(conns) : i = Top.c
  BY <1>2
<1> DEFINE r == [conns[i] EXCEPT !.stopped = TRUE,
                                 !.ws = IF At("refused") THEN "closing" ELSE @]
<1>4. r \in Connection /\ r.stopped /\ (conns[i].ws # "none" => r.ws # "none")
  BY <1>2, <1>3 DEF Connection
<1>5. conns' = [conns EXCEPT ![i] = r]
  BY <1>3 DEF Failed
<1>6. "deleted" \notin overlaps => r.ws # "none"
  BY <1>2, <1>3, <1>4
<1> HIDE DEF r
<1>7. ready' \in BOOLEAN /\ (ready' => Astir)
  BY <1>1 DEF Inv, Typed, Astir
<1>8. fault' \in {"none", "socket"} /\ (fault' = "socket" => "deleted" \in overlaps)
  BY <1>1, <1>2, UsesJustified
<1>9. "failed" \in OnSocket \ {"redirected"} /\ 0 \in Nat
  BY DEF OnSocket
<1> QED
  BY <1>1, <1>2, <1>3, <1>4, <1>5, <1>6, <1>7, <1>8, <1>9, SocketStep

(* A message is handled; ready may only become true here.                  *)
LEMMA DispatchStep ==
    ASSUME Inv, \/ DispatchNonce \/ DispatchSession \/ DispatchMessage
                \/ DispatchClose \/ DispatchUnexpected
    PROVE  Inv'
<1>1. /\ stack # <<>> /\ fault = "none" /\ Top.do \in {"dispatch", "redirected"}
      /\ UNCHANGED <<paused, running, deadline, fault, overlaps>>
  BY DEF DispatchNonce, DispatchSession, DispatchMessage, DispatchClose,
         DispatchUnexpected, Handling, Arrived, At, Top, Others
<1>2. /\ Head(stack).do \in Own /\ Top.c \in 1..Len(conns) /\ Top.i \in Nat
      /\ conns[Top.c] \in Connection
      /\ "deleted" \notin overlaps => conns[Top.c].ws # "none"
      /\ Top.do = "dispatch" => ~conns[Top.c].stopped
  BY <1>1, OnSocketTop DEF OnSocket
<1>3. PICK i \in 1..Len(conns), k \in Nat : i = Top.c /\ k = Top.i
  BY <1>2
<1>4. /\ ready \in BOOLEAN /\ conns \in Seq(Connection)
      /\ conns = [conns EXCEPT ![i] = conns[i]]
  BY <1>2, <1>3, ItselfChanged DEF Inv, Typed
<1>5. Astir
  <2>1. CASE Top.do = "dispatch"
    BY <1>2, <1>3, <1>4, <2>1 DEF Astir, Stopped
  <2>2. CASE Top.do = "redirected"
    <3>1. Top.do \in Functions(stack)
      BY <1>1, StackTail DEF Inv, Top
    <3> QED
      BY <2>2, <3>1 DEF Astir, Reviving
  <2> QED
    BY <1>1, <2>1, <2>2
<1>6. PICK r \in Connection : /\ conns[i].ws # "none" => r.ws # "none"
                              /\ r.stopped = conns[i].stopped
                              /\ conns' = [conns EXCEPT ![i] = r]
  <2>1. CASE DispatchNonce \/ DispatchUnexpected
    BY <1>2, <1>3, <1>4, <2>1 DEF DispatchNonce, DispatchUnexpected
  <2>2. CASE DispatchSession
    <3> DEFINE r == [conns[i] EXCEPT !.stage = "ready"]
    <3>1. r \in Connection /\ r.ws = conns[i].ws /\ r.stopped = conns[i].stopped
      BY <1>2, <1>3, <1>4 DEF Connection
    <3>2. conns' = [conns EXCEPT ![i] = r]
      BY <1>3, <2>2 DEF DispatchSession
    <3> QED
      BY <3>1, <3>2
  <2>3. CASE DispatchMessage
    <3> DEFINE r == [conns[i] EXCEPT !.pending = FALSE]
    <3>1. r \in Connection /\ r.ws = conns[i].ws /\ r.stopped = conns[i].stopped
      BY <1>2, <1>3, <1>4 DEF Connection
    <3>2. conns' = conns \/ conns' = [conns EXCEPT ![i] = r]
      BY <1>3, <2>3 DEF DispatchMessage
    <3> HIDE DEF r
    <3> QED
      BY <1>2, <1>3, <1>4, <3>1, <3>2
  <2>4. CASE DispatchClose
    <3> DEFINE r == [conns[i] EXCEPT !.ws = "closing"]
    <3>1. r \in Connection /\ r.ws # "none" /\ r.stopped = conns[i].stopped
      BY <1>2, <1>3, <1>4 DEF Connection
    <3>2. conns' = [conns EXCEPT ![i] = r]
      BY <1>3, <2>4 DEF DispatchClose
    <3> QED
      BY <3>1, <3>2
  <2> QED
    BY <2>1, <2>2, <2>3, <2>4
<1>7. PICK do \in OnSocket \ {"redirected"}, n \in Nat :
        \/ stack' = <<Frame(do, i, n)>> \o Below
        \/ stack' = <<Callback>> \o (<<Frame(do, i, n)>> \o Below)
  <2>1. /\ {"nonce", "session", "dispatched", "refused"} \subseteq OnSocket \ {"redirected"}
        /\ i \in Nat
    BY DEF OnSocket
  <2>2. CASE DispatchNonce
    BY <1>3, <2>1, <2>2 DEF DispatchNonce, Then
  <2>3. CASE DispatchSession
    BY <1>3, <2>1, <2>3 DEF DispatchSession, SetAvailability, Then
  <2>4. CASE DispatchMessage
    BY <1>3, <2>1, <2>4 DEF DispatchMessage, Then
  <2>5. CASE DispatchClose
    BY <1>3, <2>1, <2>5 DEF DispatchClose, Then
  <2>6. CASE DispatchUnexpected
    BY <1>3, <2>1, <2>6 DEF DispatchUnexpected, ClientError, SetAvailability
  <2> QED
    BY <2>2, <2>3, <2>4, <2>5, <2>6
<1>8. ready' \in BOOLEAN
  BY <1>4 DEF DispatchNonce, DispatchSession, DispatchMessage, DispatchClose,
              DispatchUnexpected, ClientError, SetAvailability
<1>9. /\ conns[i].stopped => r.stopped
      /\ "deleted" \notin overlaps => r.ws # "none"
  BY <1>2, <1>3, <1>6
<1> QED
  BY <1>1, <1>2, <1>3, <1>5, <1>6, <1>7, <1>8, <1>9, SocketStep

(* A function goes on when the callback above it has returned.             *)
LEMMA AfterCallbackStep ==
    ASSUME Inv, Greet \/ SessionUser \/ Redirected \/ Dispatched
    PROVE  Inv'
<1>1. /\ stack # <<>> /\ fault = "none"
      /\ Top.do \in {"nonce", "session", "redirected", "dispatched"}
      /\ UNCHANGED <<ready, paused, running, deadline, overlaps>>
  BY DEF Greet, SessionUser, Redirected, Dispatched, At, Top, Others
<1>2. /\ Head(stack).do \in Own /\ Top.c \in 1..Len(conns) /\ Top.i \in Nat
      /\ conns[Top.c] \in Connection
      /\ "deleted" \notin overlaps => conns[Top.c].ws # "none"
  BY <1>1, OnSocketTop DEF OnSocket
<1>3. PICK i \in 1..Len(conns), k \in Nat : i = Top.c /\ k = Top.i
  BY <1>2
<1>4. /\ ready' \in BOOLEAN /\ (ready' => Astir) /\ conns \in Seq(Connection)
      /\ conns = [conns EXCEPT ![i] = conns[i]]
  BY <1>1, <1>3, ItselfChanged DEF Inv, Typed, Astir
<1>5. fault' \in {"none", "socket"} /\ (fault' = "socket" => "deleted" \in overlaps)
  <2>1. CASE SessionUser \/ Redirected
    BY <1>1, <2>1 DEF SessionUser, Redirected, Others
  <2>2. CASE Greet \/ Dispatched
    BY <1>2, <2>2, UsesJustified DEF Greet, Dispatched
  <2> QED
    BY <2>1, <2>2
<1>6. "dispatched" \in OnSocket \ {"redirected"}
  BY DEF OnSocket
<1>7. CASE Greet
  <2> DEFINE r == [conns[i] EXCEPT !.stage = "greeted"]
  <2>1. r \in Connection /\ r.ws = conns[i].ws /\ (conns[i].stopped => r.stopped)
    BY <1>2, <1>3 DEF Connection
  <2>2. conns' = [conns EXCEPT ![i] = r] /\ stack' = <<Frame("dispatched", i, k)>> \o Below
    BY <1>3, <1>7 DEF Greet, Then
  <2> HIDE DEF r
  <2> QED
    BY <1>1, <1>2, <1>3, <1>4, <1>5, <1>6, <2>1, <2>2, SocketStep
<1>8. CASE SessionUser \/ Redirected
  <2>1. PICK r \in Connection : r = conns[i]
    BY <1>2, <1>3
  <2>2. conns' = [conns EXCEPT ![i] = r]
    BY <1>4, <1>8, <2>1 DEF SessionUser, Redirected
  <2>3. \/ stack' = <<Frame("dispatched", i, k)>> \o Below
        \/ stack' = <<Callback>> \o (<<Frame("dispatched", i, k)>> \o Below)
    BY <1>3, <1>8 DEF SessionUser, Redirected, Then
  <2>4. /\ conns[i].ws # "none" => r.ws # "none"
        /\ conns[i].stopped => r.stopped
        /\ "deleted" \notin overlaps => r.ws # "none"
    BY <1>2, <1>3, <2>1
  <2>5. /\ stack # <<>> /\ Head(stack).do \in Own /\ fault = "none"
        /\ UNCHANGED <<paused, running, deadline, overlaps>>
        /\ ready' \in BOOLEAN /\ (ready' => Astir)
    BY <1>1, <1>2, <1>4
  <2> QED
    BY ONLY Inv, <1>5, <1>6, <2>2, <2>3, <2>4, <2>5, SocketStep
<1>9. CASE Dispatched
  <2> DEFINE f == Frame("connections", 0, k + 1)
  <2>1. stack' = Below \/ stack' = <<f>> \o Below
    BY <1>3, <1>9 DEF Dispatched, NextOf
  <2>2. conns' = conns /\ Same(conns, conns') /\ conns' \in Seq(Connection)
    BY <1>4, <1>9, SameRefl DEF Dispatched
  <2>3. k + 1 \in Nat \ {0}
    OBVIOUS
  <2>4. f \in FrameRecord /\ f.do \in Own \ {"redirected"} /\ FrameOK(f, conns', overlaps)
    BY <2>2, <2>3, LoopFrame
  <2> HIDE DEF f
  <2> QED
    BY <1>1, <1>2, <1>4, <1>5, <2>1, <2>2, <2>4, OwnStep
<1> QED
  BY <1>7, <1>8, <1>9

-----------------------------------------------------------------------------
(* Steps that make connections                                             *)

LEMMA EmptyStack == \A cs, ov : StackOK(<<>>, cs, ov) /\ Functions(<<>>) = {}
BY DEF StackOK, Functions

LEMMA OneFrame ==
    ASSUME NEW f \in FrameRecord, NEW cs, NEW ov, FrameOK(f, cs, ov)
    PROVE  StackOK(<<f>>, cs, ov) /\ Functions(<<f>>) = {f.do}
<1> DEFINE s == <<f>>
<1>1. s \in Seq(FrameRecord) /\ Len(s) = 1 /\ s[1] = f
  OBVIOUS
<1> HIDE DEF s
<1>2. StackOK(s, cs, ov)
  BY <1>1 DEF StackOK
<1>3. Functions(s) = {f.do}
  BY <1>1 DEF Functions
<1> QED
  BY <1>2, <1>3 DEF s

LEMMA CallbackOnTop ==
    ASSUME NEW s, NEW cs, NEW ov, StackOK(s, cs, ov), "dispatch" \notin Functions(s),
           Len(cs) \in Nat
    PROVE  /\ StackOK(<<Callback>> \o s, cs, ov)
           /\ Functions(<<Callback>> \o s) = {"callback"} \cup Functions(s)
<1>1. Callback \in FrameRecord /\ Callback.do = "callback" /\ Callback.c = 0
  BY CallbackTyped
<1>2. FrameOK(Callback, cs, ov)
  BY <1>1 DEF FrameOK, OnSocket
<1>3. \A k \in 1..Len(s) : Above(Callback, s[k], ov)
  BY <1>1 DEF Above, Calls, AtBottom, Functions
<1>4. /\ StackOK(<<Callback>> \o s, cs, ov)
      /\ Functions(<<Callback>> \o s) = {Callback.do} \cup Functions(s)
  BY <1>1, <1>2, <1>3, StackCons
<1> QED
  BY <1>1, <1>4

(* Below the innermost function no message is being dispatched.            *)
LEMMA BelowTop ==
    ASSUME Inv, stack # <<>>
    PROVE  /\ StackOK(Below, conns, overlaps) /\ "dispatch" \notin Functions(Below)
           /\ Functions(stack) = {Top.do} \cup Functions(Below)
           /\ Top.do # "callback" /\ "push" \in Functions(Below) => "twice" \in overlaps
           /\ Top.do # "callback" /\ "expired" \in Functions(Below) => "grown" \in overlaps
           /\ Top.do \in AtBottom => Below = <<>> /\ Len(Below) = 0
<1>1. /\ StackOK(Below, conns, overlaps)
      /\ \A k \in 1..Len(Below) : Above(Top, Below[k], overlaps)
      /\ Functions(stack) = {Top.do} \cup Functions(Below)
  BY StackTail DEF Inv, Below, Top
<1>2. Below \in Seq(FrameRecord)
  BY <1>1 DEF StackOK
<1>3. Top.do \in AtBottom => Below = <<>> /\ Len(Below) = 0
  <2> SUFFICES ASSUME Top.do \in AtBottom PROVE Len(Below) = 0
    BY <1>2
  <2>1. \A k \in 1..Len(Below) : FALSE
    BY <1>1 DEF Above
  <2>2. Len(Below) \in Nat
    BY <1>2
  <2> QED
    BY <2>1, <2>2
<1>4. /\ "dispatch" \notin Functions(Below)
      /\ Top.do # "callback" /\ "push" \in Functions(Below) => "twice" \in overlaps
      /\ Top.do # "callback" /\ "expired" \in Functions(Below) => "grown" \in overlaps
  BY <1>1 DEF Above, Functions
<1> QED
  BY <1>1, <1>3, <1>4

(* What holds of connections that are all stopped.                         *)
LEMMA StoppedFrame ==
    ASSUME NEW s, NEW cs \in Seq(Connection), NEW ov, StackOK(s, cs, ov),
           NEW new \in Seq(Connection), Len(new) = Len(cs), Stopped(new),
           "dispatch" \notin Functions(s),
           \/ Functions(s) \cap OnSocket # {} => "deleted" \in ov
           \/ \A k \in 1..Len(cs) : new[k].ws = cs[k].ws
    PROVE  StackOK(s, new, ov)
<1>1. ASSUME NEW k \in 1..Len(s) PROVE FrameOK(s[k], new, ov)
  <2> DEFINE f == s[k]
  <2>1. FrameOK(f, cs, ov) /\ f \in FrameRecord /\ f.do # "dispatch" /\ f.do \in Functions(s)
    BY DEF StackOK, Functions
  <2> HIDE DEF f
  <2>2. f.c \in 0..Len(new) /\ Len(cs) \in Nat
    BY <2>1 DEF FrameOK
  <2>3. f.do \in OnSocket /\ "deleted" \notin ov => f.c \in 1..Len(cs) /\ cs[f.c].ws # "none"
    BY <2>1, <2>2 DEF FrameOK
  <2>4. f.do \in OnSocket /\ "deleted" \notin ov => new[f.c].ws # "none"
    BY <2>1, <2>3
  <2> QED
    BY <2>1, <2>2, <2>4 DEF FrameOK, f
<1> QED
  BY <1>1 DEF StackOK

(* Stop, with and without the deletion of the websockets.                  *)
LEMMA StopEffect ==
    ASSUME conns \in Seq(Connection), NEW terminate \in BOOLEAN, NEW rest, Stop(terminate, rest)
    PROVE  /\ conns' \in Seq(Connection) /\ Len(conns') = Len(conns)
           /\ Stopped(conns')
           /\ ~terminate => \A k \in 1..Len(conns) : conns'[k].ws = conns[k].ws
           /\ ready' = FALSE
           /\ stack' = rest \/ stack' = <<Callback>> \o rest
<1> DEFINE end(k) == [conns[k] EXCEPT !.stopped = TRUE,
                                      !.ws = IF terminate THEN "none" ELSE @]
           ended == [k \in 1..Len(conns) |-> end(k)]
<1>1. Len(conns) \in Nat /\ DOMAIN conns = 1..Len(conns)
  OBVIOUS
<1>2. conns' = ended
  BY <1>1 DEF Stop
<1>3. ready' = FALSE /\ (stack' = rest \/ stack' = <<Callback>> \o rest)
  <2>1. SetAvailability(FALSE, rest)
    BY DEF Stop
  <2> QED
    BY <2>1 DEF SetAvailability
<1>4. ASSUME NEW k \in 1..Len(conns)
      PROVE  /\ end(k) \in Connection /\ end(k).stopped
             /\ ~terminate => end(k).ws = conns[k].ws
  <2>1. conns[k] \in Connection
    OBVIOUS
  <2> QED
    BY <2>1 DEF Connection
<1> HIDE DEF end
<1>5. ended \in [1..Len(conns) -> Connection] /\ \A k \in 1..Len(conns) : ended[k] = end(k)
  BY <1>4
<1>6. DOMAIN ended = 1..Len(conns)
  OBVIOUS
<1> HIDE DEF ended
<1>7. ended \in Seq(Connection) /\ Len(ended) = Len(conns)
  BY ONLY <1>1, <1>5, FunctionIsSeq
<1> QED
  BY <1>2, <1>3, <1>4, <1>5, <1>6, <1>7 DEF Stopped

(* NewConnection as far as its callback.                                   *)
LEMMA NewConnectionEffect ==
    ASSUME conns \in Seq(Connection), NEW p, NEW rest, NewConnection(p, rest), NEW ov,
           StackOK(rest, conns, ov), "dispatch" \notin Functions(rest),
           "push" \in Functions(rest) => "twice" \in ov,
           "expired" \in Functions(rest) => "grown" \in ov
    PROVE  \/ p /\ stack' = rest /\ UNCHANGED <<conns, ready>>
           \/ /\ ~p /\ conns' \in Seq(Connection) /\ Len(conns') = Len(conns)
              /\ Stopped(conns') /\ ready' = FALSE
              /\ StackOK(stack', conns', ov)
<1>1. CASE p
  BY <1>1 DEF NewConnection
<1>2. CASE ~p
  <2> DEFINE f == Frame("push", 0, 0)
             t == <<f>> \o rest
  <2>1. Stop(FALSE, t)
    BY <1>2 DEF NewConnection
  <2>2. /\ conns' \in Seq(Connection) /\ Len(conns') = Len(conns) /\ Stopped(conns')
        /\ \A k \in 1..Len(conns) : conns'[k].ws = conns[k].ws
        /\ ready' = FALSE /\ (stack' = t \/ stack' = <<Callback>> \o t)
    <3> HIDE DEF t
    <3> QED
      BY <2>1, StopEffect
  <2>3. StackOK(rest, conns', ov) /\ Len(conns') \in Nat
    BY <2>2, StoppedFrame
  <2>4. f \in FrameRecord /\ f.do = "push" /\ f.c = 0
    BY FrameTyped DEF Work
  <2> HIDE DEF f
  <2>5. FrameOK(f, conns', ov)
    BY <2>2, <2>3, <2>4 DEF FrameOK, OnSocket
  <2>6. \A k \in 1..Len(rest) : Above(f, rest[k], ov)
    BY <2>4 DEF Above, Calls, AtBottom, Functions
  <2>7. StackOK(t, conns', ov) /\ Functions(t) = {f.do} \cup Functions(rest)
    BY <2>3, <2>4, <2>5, <2>6, StackCons
  <2>8. "dispatch" \notin Functions(t)
    BY <2>4, <2>7
  <2> HIDE DEF t
  <2>9. StackOK(<<Callback>> \o t, conns', ov)
    BY <2>3, <2>7, <2>8, CallbackOnTop
  <2> QED
    BY <1>2, <2>2, <2>7, <2>9
<1> QED
  BY <1>1, <1>2

(* A client that is not paused.                                            *)
LEMMA InvRunning ==
    ASSUME Typed', ~paused', StackOK(stack', conns', overlaps'),
           "twice" \notin overlaps' => FrontOnly(conns') \/ Stopped(conns'),
           fault' = "none"
    PROVE  Inv'
<1>1. Stopped(conns') => FrontOnly(conns')
  BY DEF Stopped, FrontOnly
<1>2. Silent' /\ NothingUsedAfterItsEnd'
  BY DEF Silent, NothingUsedAfterItsEnd
<1> QED
  BY <1>1, <1>2 DEF Inv

LEMMA ReturnStep == ASSUME Inv, Return PROVE Inv'
<1>1. /\ stack # <<>> /\ Top.do = "callback" /\ fault = "none" /\ stack' = Below
      /\ UNCHANGED <<conns, ready, paused, running, deadline, fault, overlaps>>
  BY DEF Return, At, Top, Others
<1>2. /\ StackOK(Below, conns, overlaps)
      /\ Functions(stack) = {"callback"} \cup Functions(Below)
  BY <1>1, BelowTop
<1>3. Typed /\ Same(conns, conns')
  BY <1>1, SameRefl DEF Inv, Typed
<1>4. (ready' => Astir) /\ (Functions(stack') \cap Reviving # {} => Astir)
  BY <1>1, <1>2 DEF Astir
<1> QED
  BY <1>1, <1>2, <1>3, <1>4, InvKept DEF Typed

(* A redirection to another server, in a function of the websocket's.      *)
LEMMA RedirectStep == ASSUME Inv, DispatchRedirect PROVE Inv'
<1>1. /\ stack # <<>> /\ fault = "none" /\ Top.do = "dispatch"
      /\ NewConnection(paused, Then("redirected"))
      /\ UNCHANGED <<paused, running, deadline, fault, overlaps>>
  BY DEF DispatchRedirect, Arrived, At, Top, Others
<1>2. /\ Head(stack).do \in Own /\ Top.c \in 1..Len(conns) /\ Top.i \in Nat
      /\ conns[Top.c] \in Connection /\ Alive(conns[Top.c]) /\ ~conns[Top.c].stopped
  BY <1>1, OnSocketTop
<1> DEFINE f == Frame("redirected", Top.c, Top.i)
           t == <<f>> \o Below
<1>3. Typed /\ conns \in Seq(Connection) /\ conns[Top.c].ws # "none"
  BY <1>2 DEF Inv, Typed, Alive
<1>4. f \in FrameRecord /\ f.do = "redirected" /\ FrameOK(f, conns, overlaps)
  <2>1. "redirected" \in OnSocket /\ "redirected" \in Work /\ Top.c \in Nat
    BY <1>2 DEF OnSocket, Work
  <2>2. f.do = "redirected"
    BY <1>2, <2>1, FrameTyped
  <2>3. f \in FrameRecord /\ FrameOK(f, conns, overlaps)
    BY <1>2, <1>3, <2>1, SocketFrame
  <2> QED
    BY <2>2, <2>3
<1> HIDE DEF f
<1>5. /\ StackOK(Below, conns, overlaps)
      /\ \A k \in 1..Len(Below) : Above(Top, Below[k], overlaps)
  BY <1>1, StackTail DEF Inv, Below, Top
<1>6. \A k \in 1..Len(Below) : Below[k].do \in {"connections", "queues"}
  BY <1>1, <1>5 DEF Above, Calls
<1>7. StackOK(t, conns, overlaps) /\ Functions(t) = {"redirected"} \cup Functions(Below)
  <2>1. \A k \in 1..Len(Below) : Above(f, Below[k], overlaps)
    BY <1>4, <1>6 DEF Above, AtBottom
  <2> QED
    BY <1>4, <1>5, <2>1, StackCons
<1>8. Functions(Below) \subseteq {"connections", "queues"}
  BY <1>6 DEF Functions
<1>9. NewConnection(paused, t)
  BY <1>1 DEF Then, f
<1> HIDE DEF t
<1>10. \/ paused /\ stack' = t /\ UNCHANGED <<conns, ready>>
       \/ /\ ~paused /\ conns' \in Seq(Connection) /\ Stopped(conns') /\ ready' = FALSE
          /\ StackOK(stack', conns', overlaps)
  BY <1>3, <1>7, <1>8, <1>9, NewConnectionEffect
<1>11. CASE paused /\ stack' = t /\ UNCHANGED <<conns, ready>>
  <2>1. Functions(stack) = {"dispatch"} \cup Functions(Below)
    BY <1>1, BelowTop
  <2>2. Same(conns, conns')
    BY <1>3, <1>11, SameRefl
  <2>3. Astir
    BY <1>2, <1>3 DEF Astir, Stopped
  <2> QED
    BY <1>1, <1>3, <1>7, <1>8, <1>11, <2>1, <2>2, <2>3, InvKept DEF Typed
<1>12. CASE /\ ~paused /\ conns' \in Seq(Connection) /\ Stopped(conns') /\ ready' = FALSE
            /\ StackOK(stack', conns', overlaps)
  <2>1. Typed'
    BY <1>1, <1>3, <1>12 DEF Typed
  <2> QED
    BY <1>1, <1>12, <2>1, InvRunning
<1> QED
  BY <1>10, <1>11, <1>12

(* The rest of a NewConnection.                                            *)
LEMMA PushStep == ASSUME Inv, Push PROVE Inv'
<1> DEFINE up(c) == IF c = 0 THEN 0 ELSE c + 1
           lift(f) == [f EXCEPT !.c = up(@)]
           n == Len(Below)
<1>1. /\ stack # <<>> /\ fault = "none" /\ Top.do = "push"
      /\ conns' = <<Fresh>> \o conns /\ deadline' = 1
      /\ UNCHANGED <<ready, paused, running, fault, overlaps>>
  BY DEF Push, At, Top
<1>2. /\ StackOK(Below, conns, overlaps) /\ Functions(stack) = {"push"} \cup Functions(Below)
      /\ "dispatch" \notin Functions(Below)
      /\ "push" \in Functions(Below) => "twice" \in overlaps
      /\ "expired" \in Functions(Below) => "grown" \in overlaps
  BY <1>1, BelowTop
<1>3. Typed /\ conns \in Seq(Connection) /\ Len(conns) \in Nat
  BY DEF Inv, Typed
<1>4. /\ conns' \in Seq(Connection) /\ Len(conns') = Len(conns) + 1 /\ conns'[1] = Fresh
      /\ \A k \in 1..Len(conns) : conns'[k + 1] = conns[k]
      /\ \A k \in 2..Len(conns) + 1 : conns'[k] = conns[k - 1]
  <2>1. Fresh \in Connection
    BY DEF Fresh, Connection
  <2>2. /\ conns' \in Seq(Connection) /\ Len(conns') = Len(conns) + 1 /\ conns'[1] = Fresh
        /\ \A k \in 2..Len(conns) + 1 : conns'[k] = conns[k - 1]
    BY <1>1, <1>3, <2>1, Prepended
  <2>3. ASSUME NEW k \in 1..Len(conns) PROVE conns'[k + 1] = conns[k]
    <3>1. k + 1 \in 2..Len(conns) + 1 /\ (k + 1) - 1 = k
      BY <1>3
    <3> QED
      BY <2>2, <3>1
  <2> QED
    BY <2>2, <2>3
<1>5. Below \in Seq(FrameRecord) /\ n \in Nat /\ DOMAIN Below = 1..n
  BY <1>2 DEF StackOK
<1>6. stack' = [k \in 1..n |-> lift(Below[k])]
  BY <1>5 DEF Push
<1>7. ASSUME NEW k \in 1..n
      PROVE  /\ lift(Below[k]) \in FrameRecord /\ lift(Below[k]).do = Below[k].do
             /\ lift(Below[k]).c = up(Below[k].c) /\ lift(Below[k]).i = Below[k].i
  <2>1. Below[k] \in FrameRecord
    BY <1>5
  <2> QED
    BY <2>1 DEF FrameRecord
<1>8. /\ stack' \in Seq(FrameRecord) /\ Len(stack') = n
      /\ \A k \in 1..n : /\ stack'[k].do = Below[k].do /\ stack'[k].i = Below[k].i
                         /\ stack'[k].c = up(Below[k].c)
  <2>1. stack' \in [1..n -> FrameRecord]
    BY <1>6, <1>7
  <2>2. stack' \in Seq(FrameRecord) /\ Len(stack') = n
    BY ONLY <1>5, <2>1, FunctionIsSeq
  <2>3. \A k \in 1..n : stack'[k] = lift(Below[k])
    BY <1>6
  <2> QED
    BY <1>7, <2>2, <2>3
<1>9. ASSUME NEW k \in 1..n PROVE FrameOK(stack'[k], conns', overlaps)
  <2> DEFINE f == Below[k]
             g == stack'[k]
  <2>1. FrameOK(f, conns, overlaps) /\ f \in FrameRecord /\ f.do \in Functions(Below)
    BY <1>2, <1>5 DEF StackOK, Functions
  <2>2. g.do = f.do /\ g.i = f.i /\ g.c = up(f.c)
    BY <1>8
  <2> HIDE DEF f, g
  <2>3. f.c \in 0..Len(conns)
    BY <2>1 DEF FrameOK
  <2>4. g.c \in 0..Len(conns') /\ (g.c # 0 <=> f.c # 0)
        /\ (f.c # 0 => conns'[g.c] = conns[f.c])
    BY <1>3, <1>4, <2>2, <2>3
  <2>5. /\ g.c # 0 <=> g.do \in OnSocket \cup {"dispatch", "expired"}
        /\ g.do \in {"connections", "trim", "expire"} => g.i # 0
        /\ g.do \in OnSocket /\ "deleted" \notin overlaps => conns'[g.c].ws # "none"
    BY <2>1, <2>2, <2>4 DEF FrameOK
  <2>6. /\ g.do # "dispatch"
        /\ g.do = "expired" => "grown" \in overlaps
        /\ g.do = "push" => "twice" \in overlaps
    BY <1>2, <2>1, <2>2
  <2> QED
    BY <2>4, <2>5, <2>6 DEF FrameOK, g
<1>10. \A j, k \in 1..n : j < k => Above(stack'[j], stack'[k], overlaps)
  BY <1>2, <1>8 DEF StackOK, Above
<1>11. StackOK(stack', conns', overlaps)
  BY <1>8, <1>9, <1>10 DEF StackOK
<1>12. "twice" \notin overlaps => FrontOnly(conns')
  <2> SUFFICES ASSUME "twice" \notin overlaps PROVE FrontOnly(conns')
    OBVIOUS
  <2>1. Stopped(conns)
    BY <1>1, TopTyped DEF FrameOK
  <2>2. \A k \in 1..Len(conns) : conns[k].stopped
    BY <1>3, <2>1 DEF Stopped
  <2>3. ASSUME NEW k \in DOMAIN conns', k # 1 PROVE conns'[k].stopped
    <3>1. k \in 2..Len(conns) + 1 /\ k - 1 \in 1..Len(conns)
      BY <1>3, <1>4, <2>3
    <3> QED
      BY <1>4, <2>2, <3>1
  <2> QED
    BY <2>3 DEF FrontOnly
<1>13. Functions(stack') = Functions(Below)
  BY <1>8 DEF Functions
<1>14. Silent'
  BY <1>1, <1>2, <1>13 DEF Inv, Silent, Astir, Reviving
<1>15. Typed' /\ NothingUsedAfterItsEnd'
  BY <1>1, <1>3, <1>4 DEF Typed, NothingUsedAfterItsEnd
<1> QED
  BY <1>1, <1>11, <1>12, <1>14, <1>15 DEF Inv

(* Reconnect, from the application or in the second half of a Reset.       *)
LEMMA ReconnectStep ==
    ASSUME Inv, NEW rest, ConnectIfRequired(FALSE, rest), paused' = FALSE,
           StackOK(rest, conns, overlaps'), "dispatch" \notin Functions(rest),
           "push" \in Functions(rest) => "twice" \in overlaps',
           "expired" \in Functions(rest) => "grown" \in overlaps',
           "twice" \notin overlaps' => FrontOnly(conns),
           overlaps' \subseteq {"twice", "late", "deleted", "grown"},
           fault = "none", UNCHANGED <<running, deadline, fault>>
    PROVE  Inv'
<1>1. Typed /\ conns \in Seq(Connection)
  BY DEF Inv, Typed
<1>2. CASE NewConnection(FALSE, rest)
  <2>1. /\ conns' \in Seq(Connection) /\ Stopped(conns') /\ ready' = FALSE
        /\ StackOK(stack', conns', overlaps')
    BY <1>1, <1>2, NewConnectionEffect
  <2>2. Typed'
    BY <1>1, <2>1 DEF Typed
  <2> QED
    BY <2>1, <2>2, InvRunning
<1>3. CASE stack' = rest /\ UNCHANGED <<conns, ready>>
  <2>1. Typed'
    BY <1>1, <1>3 DEF Typed
  <2>2. StackOK(stack', conns', overlaps')
    BY <1>3
  <2>3. "twice" \notin overlaps' => FrontOnly(conns')
    BY <1>3
  <2> QED
    BY <2>1, <2>2, <2>3, InvRunning
<1> QED
  BY <1>2, <1>3 DEF ConnectIfRequired

LEMMA ResetReconnectsStep == ASSUME Inv, ResetReconnects PROVE Inv'
<1>1. /\ stack # <<>> /\ fault = "none" /\ Top.do = "reconnect"
      /\ ConnectIfRequired(FALSE, Below) /\ paused' = FALSE
      /\ UNCHANGED <<running, deadline, fault, overlaps>>
  BY DEF ResetReconnects, At, Top
<1>2. /\ StackOK(Below, conns, overlaps) /\ "dispatch" \notin Functions(Below)
      /\ "push" \in Functions(Below) => "twice" \in overlaps
      /\ "expired" \in Functions(Below) => "grown" \in overlaps
  BY <1>1, BelowTop
<1>3. /\ "twice" \notin overlaps => FrontOnly(conns)
      /\ overlaps \subseteq {"twice", "late", "deleted", "grown"}
  BY DEF Inv, Typed
<1> DEFINE rest == Below
<1>4. /\ ConnectIfRequired(FALSE, rest) /\ StackOK(rest, conns, overlaps')
      /\ "dispatch" \notin Functions(rest)
      /\ "push" \in Functions(rest) => "twice" \in overlaps'
      /\ "expired" \in Functions(rest) => "grown" \in overlaps'
  BY <1>1, <1>2
<1>5. /\ "twice" \notin overlaps' => FrontOnly(conns)
      /\ overlaps' \subseteq {"twice", "late", "deleted", "grown"}
  BY <1>1, <1>3
<1> HIDE DEF rest
<1> QED
  BY <1>1, <1>4, <1>5, ReconnectStep

-----------------------------------------------------------------------------
(* ProcessQueues                                                           *)

(* Its functions leave one frame, or one below a callback.                 *)
LEMMA QueueFrame ==
    ASSUME NEW cs \in Seq(Connection), NEW ov, NEW do \in {"trim", "expire"},
           NEW i \in Nat \ {0}
    PROVE  LET f == Frame(do, 0, i)
           IN  StackOK(<<f>>, cs, ov) /\ Functions(<<f>>) = {do}
<1> DEFINE f == Frame(do, 0, i)
<1>1. f \in FrameRecord /\ f.do = do /\ f.c = 0 /\ f.i = i
  BY FrameTyped DEF Work
<1> HIDE DEF f
<1>2. Len(cs) \in Nat
  OBVIOUS
<1>3. FrameOK(f, cs, ov)
  BY <1>1, <1>2 DEF FrameOK, OnSocket
<1> QED
  BY <1>1, <1>3, OneFrame DEF f

(* One of them is all there is on the stack.                               *)
LEMMA BottomTop ==
    ASSUME Inv, stack # <<>>, Top.do \in AtBottom
    PROVE  Functions(stack) = {Top.do}
<1>1. Functions(stack) = {Top.do} \cup Functions(Below) /\ Below = <<>>
  BY BelowTop
<1> QED
  BY <1>1, EmptyStack

LEMMA QueuesStep == ASSUME Inv, ProcessQueues PROVE Inv'
<1> DEFINE rest == <<Frame("trim", 0, 1)>>
<1>1. /\ stack # <<>> /\ fault = "none" /\ Top.do = "queues"
      /\ ConnectIfRequired(paused, rest)
      /\ UNCHANGED <<paused, running, deadline, fault, overlaps>>
  BY DEF ProcessQueues, At, Top, Others
<1>2. Typed /\ conns \in Seq(Connection)
  BY DEF Inv, Typed
<1>3. StackOK(rest, conns, overlaps) /\ Functions(rest) = {"trim"}
  <2>1. 1 \in Nat \ {0} /\ "trim" \in {"trim", "expire"}
    OBVIOUS
  <2> QED
    BY <1>2, <2>1, QueueFrame
<1>4. Functions(stack) = {"queues"}
  BY <1>1, BottomTop DEF AtBottom
<1> HIDE DEF rest
<1>5. CASE stack' = rest /\ UNCHANGED <<conns, ready>>
  <2>1. Same(conns, conns')
    BY <1>2, <1>5, SameRefl
  <2>2. (ready' => Astir) /\ Functions(stack') \cap Reviving = {}
    BY <1>3, <1>5 DEF Astir, Reviving
  <2> QED
    BY <1>1, <1>2, <1>3, <1>4, <1>5, <2>1, <2>2, InvKept DEF Typed
<1>6. CASE ~paused /\ NewConnection(paused, rest)
  <2>1. /\ conns' \in Seq(Connection) /\ Stopped(conns') /\ ready' = FALSE
        /\ StackOK(stack', conns', overlaps)
    <3>1. /\ "dispatch" \notin Functions(rest) /\ "push" \notin Functions(rest)
          /\ "expired" \notin Functions(rest)
      BY <1>3
    <3>2. \/ paused /\ stack' = rest /\ UNCHANGED <<conns, ready>>
          \/ /\ ~paused /\ conns' \in Seq(Connection) /\ Len(conns') = Len(conns)
             /\ Stopped(conns') /\ ready' = FALSE
             /\ StackOK(stack', conns', overlaps)
      BY <1>2, <1>3, <1>6, <3>1, NewConnectionEffect
    <3> QED
      BY <1>6, <3>2
  <2>2. Typed'
    BY <1>1, <1>2, <2>1 DEF Typed
  <2> QED
    BY <1>1, <1>6, <2>1, <2>2, InvRunning
<1>7. ConnectIfRequired(paused, rest) => \/ stack' = rest /\ UNCHANGED <<conns, ready>>
                                         \/ ~paused /\ NewConnection(paused, rest)
  BY DEF ConnectIfRequired, NewConnection
<1> QED
  BY <1>1, <1>5, <1>6, <1>7

(* An old connection is deleted: the front one goes, or stays in front.    *)
LEMMA DeletedConnection ==
    ASSUME NEW cs \in Seq(Connection), NEW i \in 1..Len(cs)
    PROVE  /\ RemoveAt(cs, i) \in Seq(Connection)
           /\ FrontOnly(cs) => FrontOnly(RemoveAt(cs, i))
           /\ Stopped(cs) => Stopped(RemoveAt(cs, i))
<1> DEFINE new == RemoveAt(cs, i)
<1>1. /\ new \in Seq(Connection) /\ Len(new) = Len(cs) - 1
      /\ \A k \in 1..Len(cs) - 1 : new[k] = IF k < i THEN cs[k] ELSE cs[k + 1]
  BY Removed
<1> HIDE DEF new
<1>2. DOMAIN cs = 1..Len(cs) /\ DOMAIN new = 1..Len(cs) - 1 /\ Len(cs) \in Nat
  BY <1>1
<1>3. ASSUME NEW k \in DOMAIN new
      PROVE  \E j \in DOMAIN cs : new[k] = cs[j] /\ (k # 1 => j # 1)
  <2>1. CASE k < i
    <3>1. k \in DOMAIN cs
      BY <1>2
    <3> QED
      BY <1>1, <1>2, <2>1, <3>1
  <2>2. CASE ~(k < i)
    <3>1. k + 1 \in DOMAIN cs /\ k + 1 # 1
      BY <1>2
    <3> QED
      BY <1>1, <1>2, <2>2, <3>1
  <2> QED
    BY <2>1, <2>2
<1>4. FrontOnly(cs) => FrontOnly(new)
  BY <1>3 DEF FrontOnly
<1>5. Stopped(cs) => Stopped(new)
  BY <1>3 DEF Stopped
<1> QED
  BY <1>1, <1>4, <1>5 DEF new

LEMMA TrimStep == ASSUME Inv, TrimOldConnections PROVE Inv'
<1>1. /\ stack # <<>> /\ fault = "none" /\ Top.do = "trim"
      /\ UNCHANGED <<ready, paused, running, deadline, fault, overlaps>>
  BY DEF TrimOldConnections, At, Top, Others
<1>2. /\ Typed /\ conns \in Seq(Connection) /\ Len(conns) \in Nat
      /\ Top.i \in Nat \ {0} /\ Top.c = 0
  BY <1>1, TopTyped DEF Inv, FrameOK, OnSocket
<1>3. Functions(stack) = {"trim"}
  BY <1>1, BottomTop DEF AtBottom
<1>4. CASE Top.i <= Len(conns) /\ conns' = RemoveAt(conns, Top.i) /\ stack' = stack
  <2>1. Top.i \in 1..Len(conns)
    BY <1>2, <1>4
  <2>2. /\ conns' \in Seq(Connection)
        /\ FrontOnly(conns) => FrontOnly(conns')
        /\ Stopped(conns) => Stopped(conns')
    BY <1>2, <1>4, <2>1, DeletedConnection
  <2>3. StackOK(stack', conns', overlaps)
    <3>1. stack \in Seq(FrameRecord) /\ Len(Below) = 0 /\ Head(stack) = Top
      <4>1. stack \in Seq(FrameRecord) /\ Head(stack) = Top
        BY DEF Inv, StackOK, Top
      <4>2. "trim" \in AtBottom
        BY DEF AtBottom
      <4> QED
        BY <1>1, <4>1, <4>2, BelowTop
    <3>2. Len(stack) = 1
      <4>1. Len(Tail(stack)) = 0
        BY <3>1 DEF Below
      <4>2. Len(Tail(stack)) = Len(stack) - 1 /\ Len(stack) \in Nat
        BY <1>1, <3>1
      <4> QED
        BY <4>1, <4>2
    <3>3. stack[1] = Top /\ FrameOK(Top, conns, overlaps)
      BY <1>1, <3>1, TopTyped
    <3>4. Len(conns') \in Nat
      BY <2>2
    <3>5. FrameOK(Top, conns', overlaps)
      BY <1>1, <1>2, <3>3, <3>4 DEF FrameOK, OnSocket
    <3> QED
      BY <1>4, <3>1, <3>2, <3>3, <3>5 DEF StackOK
  <2>4. Typed' /\ Silent' /\ NothingUsedAfterItsEnd'
    <3>1. Typed' /\ NothingUsedAfterItsEnd'
      BY <1>1, <1>2, <2>2 DEF Typed, NothingUsedAfterItsEnd
    <3>2. Silent'
      BY <1>1, <1>4, <2>2 DEF Inv, Silent, Astir
    <3> QED
      BY <3>1, <3>2
  <2>5. "twice" \notin overlaps' => FrontOnly(conns')
    BY <1>1, <2>2 DEF Inv
  <2> QED
    BY <1>1, <2>3, <2>4, <2>5 DEF Inv
<1>5. CASE conns' = conns /\ (\/ stack' = <<Frame("expire", 0, 1)>>
                              \/ stack' = <<Frame("trim", 0, Top.i + 1)>>)
  <2>1. /\ StackOK(stack', conns', overlaps)
        /\ Functions(stack') \in {{"trim"}, {"expire"}}
    <3>1. Top.i + 1 \in Nat \ {0}
      BY <1>2
    <3>2. CASE stack' = <<Frame("expire", 0, 1)>>
      BY <1>2, <1>5, <3>2, QueueFrame
    <3>3. CASE stack' = <<Frame("trim", 0, Top.i + 1)>>
      BY <1>2, <1>5, <3>1, <3>3, QueueFrame
    <3> QED
      BY <1>5, <3>2, <3>3
  <2>2. Same(conns, conns')
    BY <1>2, <1>5, SameRefl
  <2>3. /\ Functions(stack') \cap Reviving = {} /\ "reconnect" \notin Functions(stack)
        /\ ready' => Astir
    BY <1>1, <1>3, <2>1 DEF Astir, Reviving
  <2> QED
    BY <1>1, <1>2, <1>5, <2>1, <2>2, <2>3, InvKept DEF Typed
<1> QED
  BY <1>4, <1>5 DEF TrimOldConnections

LEMMA ExpireStep == ASSUME Inv, Expire PROVE Inv'
<1>1. /\ stack # <<>> /\ fault = "none" /\ Top.do = "expire" /\ Top.i <= Len(conns)
      /\ conns' = [conns EXCEPT ![Top.i].pending = FALSE]
      /\ stack' = <<Callback, Frame("expired", Top.i, Top.i)>>
      /\ UNCHANGED <<ready, paused, running, deadline, fault, overlaps>>
  BY DEF Expire, At, Top, Others
<1>2. /\ Typed /\ conns \in Seq(Connection) /\ Len(conns) \in Nat
      /\ Top.i \in Nat \ {0}
  BY <1>1, TopTyped DEF Inv, FrameOK
<1>3. PICK i \in 1..Len(conns) : i = Top.i
  BY <1>1, <1>2
<1>4. PICK r \in Connection : r = [conns[i] EXCEPT !.pending = FALSE]
  <2>1. conns[i] \in Connection
    BY <1>2
  <2> QED
    BY <2>1 DEF Connection
<1>5. /\ conns[i].ws # "none" => r.ws # "none"
      /\ conns[i].stopped => r.stopped
      /\ conns' = [conns EXCEPT ![i] = r]
  <2>1. conns[i] \in Connection
    BY <1>2
  <2> QED
    BY <1>1, <1>3, <1>4, <2>1 DEF Connection
<1>6. conns' \in Seq(Connection) /\ Same(conns, conns')
  BY <1>2, <1>5, Changed
<1> DEFINE f == Frame("expired", i, i)
<1>7. f \in FrameRecord /\ f.do = "expired" /\ f.c = i /\ f.i = i
  BY FrameTyped DEF Work
<1>8. stack' = <<Callback>> \o <<f>>
  BY <1>1, <1>3
<1> HIDE DEF f
<1>9. Len(conns') = Len(conns)
  BY <1>6 DEF Same
<1>10. FrameOK(f, conns', overlaps)
  BY <1>2, <1>7, <1>9 DEF FrameOK, OnSocket
<1>11. StackOK(<<f>>, conns', overlaps) /\ Functions(<<f>>) = {"expired"}
  BY <1>7, <1>10, OneFrame
<1>12. /\ StackOK(stack', conns', overlaps)
       /\ Functions(stack') = {"callback", "expired"}
  BY <1>2, <1>8, <1>9, <1>11, CallbackOnTop
<1>13. Functions(stack) = {"expire"}
  BY <1>1, BottomTop DEF AtBottom
<1>14. (ready' => Astir) /\ Functions(stack') \cap Reviving = {}
  BY <1>1, <1>12 DEF Astir, Reviving
<1> QED
  BY <1>1, <1>2, <1>6, <1>12, <1>13, <1>14, InvKept DEF Typed

LEMMA ExpiredStep == ASSUME Inv, Expired \/ NothingExpires PROVE Inv'
<1>1. /\ stack # <<>> /\ fault = "none" /\ Top.do \in {"expire", "expired"}
      /\ UNCHANGED <<conns, ready, paused, running, deadline, overlaps>>
  BY DEF Expired, NothingExpires, At, Top, Others
<1>2. /\ Typed /\ conns \in Seq(Connection) /\ Top.i \in Nat
      /\ FrameOK(Top, conns, overlaps) /\ Same(conns, conns')
  BY <1>1, TopTyped, SameRefl DEF Inv
<1>3. stack' = <<Frame("expire", 0, Top.i + 1)>> \/ stack' = <<>>
  BY DEF Expired, NothingExpires
<1>4. Top.i + 1 \in Nat \ {0}
  BY <1>2
<1>5. StackOK(stack', conns', overlaps) /\ Functions(stack') \in {{"expire"}, {}}
  <2>1. CASE stack' = <<>>
    BY <2>1, EmptyStack
  <2>2. CASE stack' = <<Frame("expire", 0, Top.i + 1)>>
    BY <1>1, <1>2, <1>4, <2>2, QueueFrame
  <2> QED
    BY <1>3, <2>1, <2>2
<1>6. /\ fault' \in {"none", "iterator"} /\ (fault' = "iterator" => "grown" \in overlaps)
  <2>1. CASE Expired
    <3>1. Top.do = "expired" /\ fault' = IF Top.c = Top.i THEN "none" ELSE "iterator"
      BY <2>1 DEF Expired, At, Top
    <3> QED
      BY <1>2, <3>1 DEF FrameOK
  <2>2. CASE NothingExpires
    BY <1>1, <2>2 DEF NothingExpires, Others
  <2> QED
    BY <2>1, <2>2
<1>7. Functions(stack) = {Top.do}
  BY <1>1, BottomTop DEF AtBottom
<1>8. /\ Functions(stack') \cap Reviving = {} /\ "reconnect" \notin Functions(stack)
      /\ ready' => Astir
  BY <1>1, <1>5, <1>7 DEF Astir, Reviving
<1> QED
  BY <1>1, <1>2, <1>5, <1>6, <1>8, InvKept DEF Typed

-----------------------------------------------------------------------------
(* Calls of the application                                                *)

(* What a call finds, and what it notes of the functions it interrupts.    *)
LEMMA CallEffect ==
    ASSUME Inv, NEW call \in {"Disconnect", "Reconnect", "Reset", "ShutDown", "Send"},
           Call(call)
    PROVE  /\ fault = "none" /\ Typed /\ conns \in Seq(Connection) /\ Len(conns) \in Nat
           /\ overlaps' \subseteq {"twice", "late", "deleted", "grown"}
           /\ StackOK(stack, conns, overlaps') /\ "dispatch" \notin Functions(stack)
           /\ call \in {"Reconnect", "Send"} => overlaps \subseteq overlaps'
           /\ call \in {"Reconnect", "Reset", "Send"} /\ "push" \in Functions(stack)
                => "twice" \in overlaps'
           /\ call \in {"Disconnect", "ShutDown"} /\ Functions(stack) \cap Reviving # {}
                => "late" \in overlaps'
           /\ call = "ShutDown" /\ Functions(stack) \cap OnSocket # {}
                => "deleted" \in overlaps'
           /\ call \in {"Reconnect", "Reset"} /\ "expired" \in Functions(stack)
                => "grown" \in overlaps'
<1>1. /\ fault = "none" /\ (stack # <<>> => Head(stack) = Callback)
      /\ overlaps' = IF stack = <<>> /\ call \in {"Disconnect", "Reset", "ShutDown"}
                     THEN {} ELSE overlaps \cup Overlap(call)
  BY DEF Call
<1>2. /\ Typed /\ conns \in Seq(Connection) /\ Len(conns) \in Nat
      /\ overlaps \subseteq {"twice", "late", "deleted", "grown"}
      /\ StackOK(stack, conns, overlaps) /\ stack \in Seq(FrameRecord)
  BY DEF Inv, Typed, StackOK
<1>3. Doing = Functions(stack)
  BY <1>2 DEF Doing, Functions
<1>4. Overlap(call) \subseteq {"twice", "late", "deleted", "grown"}
  BY DEF Overlap
<1>5. CASE stack = <<>>
  <2>1. StackOK(stack, conns, overlaps') /\ Functions(stack) = {}
    BY <1>5, EmptyStack
  <2>2. overlaps' \subseteq {"twice", "late", "deleted", "grown"}
    BY <1>1, <1>2, <1>4
  <2>3. call \in {"Reconnect", "Send"} => overlaps \subseteq overlaps'
    BY <1>1
  <2> QED
    BY <1>1, <1>2, <2>1, <2>2, <2>3
<1>6. CASE stack # <<>>
  <2>1. overlaps' = overlaps \cup Overlap(call)
    BY <1>1, <1>6
  <2>2. Top.do = "callback"
    BY <1>1, <1>6, CallbackTyped DEF Top
  <2>3. "dispatch" \notin Functions(stack)
    BY <1>6, <2>2, BelowTop
  <2>4. Same(conns, conns) /\ overlaps \subseteq overlaps'
    BY <1>2, <2>1, SameRefl
  <2>5. StackOK(stack, conns, overlaps')
    BY <1>2, <2>3, <2>4, StackKept
  <2>6. /\ call \in {"Reconnect", "Reset", "Send"} /\ "push" \in Functions(stack)
             => "twice" \in overlaps'
        /\ call \in {"Disconnect", "ShutDown"} /\ Functions(stack) \cap Reviving # {}
             => "late" \in overlaps'
        /\ call = "ShutDown" /\ Functions(stack) \cap OnSocket # {}
             => "deleted" \in overlaps'
        /\ call \in {"Reconnect", "Reset"} /\ "expired" \in Functions(stack)
             => "grown" \in overlaps'
    BY <1>3, <2>1 DEF Overlap
  <2>7. overlaps' \subseteq {"twice", "late", "deleted", "grown"}
    BY <1>2, <1>4, <2>1
  <2> QED
    BY <1>1, <1>2, <2>3, <2>4, <2>5, <2>6, <2>7
<1> QED
  BY <1>5, <1>6

(* After Stop the client is as the application wants it.                   *)
LEMMA InvStopped ==
    ASSUME Typed', StackOK(stack', conns', overlaps'), Stopped(conns'), ready' = FALSE,
           \/ Functions(stack') \cap Reviving # {} => "late" \in overlaps'
           \/ "reconnect" \in Functions(stack'),
           fault' = "none"
    PROVE  Inv'
<1>1. FrontOnly(conns')
  BY DEF Stopped, FrontOnly
<1>2. Silent' /\ NothingUsedAfterItsEnd'
  BY DEF Silent, Astir, NothingUsedAfterItsEnd
<1> QED
  BY <1>1, <1>2 DEF Inv

(* Stop, for whatever is to be done after its callback.                    *)
LEMMA StoppedStack ==
    ASSUME conns \in Seq(Connection), NEW terminate \in BOOLEAN, NEW rest, Stop(terminate, rest),
           NEW ov, StackOK(rest, conns, ov), "dispatch" \notin Functions(rest),
           terminate /\ Functions(rest) \cap OnSocket # {} => "deleted" \in ov
    PROVE  /\ conns' \in Seq(Connection) /\ Stopped(conns') /\ ready' = FALSE
           /\ StackOK(stack', conns', ov)
           /\ Functions(rest) \subseteq Functions(stack')
           /\ Functions(stack') \subseteq {"callback"} \cup Functions(rest)
<1>1. /\ conns' \in Seq(Connection) /\ Len(conns') = Len(conns) /\ Stopped(conns')
      /\ ~terminate => \A k \in 1..Len(conns) : conns'[k].ws = conns[k].ws
      /\ ready' = FALSE
      /\ stack' = rest \/ stack' = <<Callback>> \o rest
  BY StopEffect
<1>2. StackOK(rest, conns', ov) /\ Len(conns') \in Nat
  <2>1. CASE terminate
    BY <1>1, <2>1, StoppedFrame
  <2>2. CASE ~terminate
    BY <1>1, <2>2, StoppedFrame
  <2> QED
    BY <1>1, <2>1, <2>2
<1>3. /\ StackOK(<<Callback>> \o rest, conns', ov)
      /\ Functions(<<Callback>> \o rest) = {"callback"} \cup Functions(rest)
  BY <1>2, CallbackOnTop
<1>4. CASE stack' = rest
  BY <1>1, <1>2, <1>4
<1>5. CASE stack' = <<Callback>> \o rest
  BY <1>1, <1>3, <1>5
<1> QED
  BY <1>1, <1>4, <1>5

LEMMA DisconnectStep == ASSUME Inv, Disconnect \/ ShutDown PROVE Inv'
<1>1. PICK call \in {"Disconnect", "ShutDown"}, terminate \in BOOLEAN :
        /\ Call(call) /\ Stop(terminate, stack)
        /\ terminate => call = "ShutDown"
  BY DEF Disconnect, ShutDown
<1>2. /\ fault' = fault /\ deadline' = deadline /\ paused' = TRUE
      /\ running' \in {running, FALSE}
  BY DEF Disconnect, ShutDown
<1>3. /\ fault = "none" /\ Typed /\ conns \in Seq(Connection)
      /\ overlaps' \subseteq {"twice", "late", "deleted", "grown"}
      /\ StackOK(stack, conns, overlaps') /\ "dispatch" \notin Functions(stack)
      /\ Functions(stack) \cap Reviving # {} => "late" \in overlaps'
      /\ call = "ShutDown" /\ Functions(stack) \cap OnSocket # {}
           => "deleted" \in overlaps'
  BY <1>1, CallEffect
<1>4. /\ conns' \in Seq(Connection) /\ Stopped(conns') /\ ready' = FALSE
      /\ StackOK(stack', conns', overlaps')
      /\ Functions(stack') \subseteq {"callback"} \cup Functions(stack)
  BY <1>1, <1>3, StoppedStack
<1>5. Typed'
  BY <1>2, <1>3, <1>4 DEF Typed
<1>6. Functions(stack') \cap Reviving # {} => "late" \in overlaps'
  BY <1>3, <1>4 DEF Reviving
<1> QED
  BY <1>2, <1>3, <1>4, <1>5, <1>6, InvStopped

LEMMA ResetStep == ASSUME Inv, Reset PROVE Inv'
<1> DEFINE f == Frame("reconnect", 0, 0)
           t == <<f>> \o stack
<1>1. /\ Call("Reset") /\ Stop(FALSE, t) /\ paused' = TRUE
      /\ UNCHANGED <<running, deadline, fault>>
  BY DEF Reset
<1>2. /\ fault = "none" /\ Typed /\ conns \in Seq(Connection) /\ Len(conns) \in Nat
      /\ overlaps' \subseteq {"twice", "late", "deleted", "grown"}
      /\ StackOK(stack, conns, overlaps') /\ "dispatch" \notin Functions(stack)
      /\ "push" \in Functions(stack) => "twice" \in overlaps'
      /\ "expired" \in Functions(stack) => "grown" \in overlaps'
  BY <1>1, CallEffect
<1>3. f \in FrameRecord /\ f.do = "reconnect" /\ f.c = 0
  BY FrameTyped DEF Work
<1> HIDE DEF f
<1>4. FrameOK(f, conns, overlaps')
  BY <1>2, <1>3 DEF FrameOK, OnSocket
<1>5. \A k \in 1..Len(stack) : Above(f, stack[k], overlaps')
  BY <1>2, <1>3 DEF Above, Calls, AtBottom, Functions
<1>6. /\ StackOK(t, conns, overlaps')
      /\ Functions(t) = {"reconnect"} \cup Functions(stack)
  BY <1>2, <1>3, <1>4, <1>5, StackCons
<1> HIDE DEF t
<1>7. "dispatch" \notin Functions(t)
  BY <1>2, <1>6
<1>8. /\ conns' \in Seq(Connection) /\ Stopped(conns') /\ ready' = FALSE
      /\ StackOK(stack', conns', overlaps')
      /\ Functions(t) \subseteq Functions(stack')
  BY <1>1, <1>2, <1>6, <1>7, StoppedStack
<1>9. Typed'
  BY <1>1, <1>2, <1>8 DEF Typed
<1>10. "reconnect" \in Functions(stack')
  BY <1>6, <1>8
<1> QED
  BY <1>1, <1>2, <1>8, <1>9, <1>10, InvStopped

LEMMA CallReconnects == ASSUME Inv, Reconnect PROVE Inv'
<1>1. /\ Call("Reconnect") /\ paused' = FALSE /\ ConnectIfRequired(FALSE, stack)
      /\ UNCHANGED <<running, deadline, fault>>
  BY DEF Reconnect
<1>2. /\ fault = "none" /\ overlaps \subseteq overlaps'
      /\ overlaps' \subseteq {"twice", "late", "deleted", "grown"}
      /\ StackOK(stack, conns, overlaps') /\ "dispatch" \notin Functions(stack)
      /\ "push" \in Functions(stack) => "twice" \in overlaps'
      /\ "expired" \in Functions(stack) => "grown" \in overlaps'
  BY <1>1, CallEffect
<1>3. "twice" \notin overlaps' => FrontOnly(conns)
  BY <1>2 DEF Inv
<1> QED
  BY <1>1, <1>2, <1>3, ReconnectStep

LEMMA SendStep == ASSUME Inv, Send PROVE Inv'
<1>1. /\ Call("Send") /\ UNCHANGED <<paused, running, deadline, fault>>
  BY DEF Send
<1>2. /\ fault = "none" /\ Typed /\ conns \in Seq(Connection) /\ Len(conns) \in Nat
      /\ overlaps' \subseteq {"twice", "late", "deleted", "grown"}
      /\ StackOK(stack, conns, overlaps') /\ "dispatch" \notin Functions(stack)
      /\ overlaps \subseteq overlaps'
      /\ "push" \in Functions(stack) => "twice" \in overlaps'
  BY <1>1, CallEffect
<1>3. \/ conns = <<>> /\ ~paused /\ NewConnection(paused, stack)
      \/ conns # <<>> /\ UNCHANGED <<ready, stack>>
           /\ conns' = [conns EXCEPT ![1].pending = TRUE]
      \/ UNCHANGED <<conns, ready, stack>>
  <2>1. CASE conns = <<>>
    <3>1. NewConnection(paused, stack)
      BY <2>1 DEF Send, FrontReady
    <3> QED
      BY <2>1, <3>1 DEF NewConnection
  <2>2. CASE conns # <<>> /\ FrontReady
    <3>1. /\ conns' = [conns EXCEPT ![1].pending = TRUE]
          /\ UNCHANGED <<ready, stack>>
      BY <2>2 DEF Send
    <3> QED
      BY <2>2, <3>1
  <2>3. CASE conns # <<>> /\ ~FrontReady
    BY <2>3 DEF Send
  <2> QED
    BY <2>1, <2>2, <2>3
<1>4. CASE conns = <<>> /\ ~paused /\ NewConnection(paused, stack)
  <2>1. "expired" \notin Functions(stack)
    <3>1. ASSUME NEW k \in 1..Len(stack), stack[k].do = "expired" PROVE FALSE
      <4>1. FrameOK(stack[k], conns, overlaps') /\ Len(conns) = 0
        BY <1>2, <1>4 DEF StackOK
      <4> QED
        BY <3>1, <4>1 DEF FrameOK
    <3> QED
      BY <3>1 DEF Functions
  <2>2. \/ paused /\ stack' = stack /\ UNCHANGED <<conns, ready>>
        \/ /\ ~paused /\ conns' \in Seq(Connection) /\ Len(conns') = Len(conns)
           /\ Stopped(conns') /\ ready' = FALSE
           /\ StackOK(stack', conns', overlaps')
    BY <1>2, <1>4, <2>1, NewConnectionEffect
  <2>3. Typed'
    BY <1>1, <1>2, <1>4, <2>2 DEF Typed
  <2> QED
    BY <1>1, <1>2, <1>4, <2>2, <2>3, InvRunning
<1>5. CASE conns # <<>> /\ UNCHANGED <<ready, stack>>
             /\ conns' = [conns EXCEPT ![1].pending = TRUE]
  <2>1. 1 \in 1..Len(conns) /\ conns[1] \in Connection
    BY <1>2, <1>5
  <2>2. PICK r \in Connection : /\ r = [conns[1] EXCEPT !.pending = TRUE]
                                /\ conns[1].ws # "none" => r.ws # "none"
                                /\ conns[1].stopped => r.stopped
    <3> DEFINE w == [conns[1] EXCEPT !.pending = TRUE]
    <3>1. /\ w \in Connection /\ (conns[1].ws # "none" => w.ws # "none")
          /\ conns[1].stopped => w.stopped
      BY <2>1 DEF Connection
    <3>2. w = [conns[1] EXCEPT !.pending = TRUE]
      OBVIOUS
    <3> HIDE DEF w
    <3> QED
      BY <3>1, <3>2
  <2>3. conns' = [conns EXCEPT ![1] = r]
    BY <1>5, <2>2
  <2>4. conns' \in Seq(Connection) /\ Same(conns, conns')
    BY <1>2, <2>1, <2>2, <2>3, Changed
  <2>5. StackOK(stack', conns', overlaps')
    BY <1>2, <1>5, <2>4, StackKept
  <2>6. (ready' => Astir) /\ (Functions(stack') \cap Reviving # {} => Astir)
    BY <1>5 DEF Astir
  <2> QED
    BY <1>1, <1>2, <1>5, <2>4, <2>5, <2>6, InvKept DEF Typed
<1>6. CASE UNCHANGED <<conns, ready, stack>>
  <2>1. Same(conns, conns')
    BY <1>2, <1>6, SameRefl
  <2>2. (ready' => Astir) /\ (Functions(stack') \cap Reviving # {} => Astir)
    BY <1>6 DEF Astir
  <2> QED
    BY <1>1, <1>2, <1>6, <2>1, <2>2, InvKept DEF Typed
<1> QED
  BY <1>3, <1>4, <1>5, <1>6

LEMMA TwoFrames == \A f, g \in FrameRecord : <<f>> \o <<g>> = <<f, g>>
<1> TAKE f, g \in FrameRecord
<1> DEFINE a == <<f>>
           b == <<g>>
           c == <<f, g>>
<1>1. /\ a \in Seq(FrameRecord) /\ Len(a) = 1 /\ a[1] = f
      /\ b \in Seq(FrameRecord) /\ Len(b) = 1 /\ b[1] = g
      /\ c \in Seq(FrameRecord) /\ Len(c) = 2 /\ c[1] = f /\ c[2] = g
  OBVIOUS
<1> HIDE DEF a, b, c
<1>2. a \o b \in Seq(FrameRecord) /\ Len(a \o b) = 2 /\ (a \o b)[1] = f /\ (a \o b)[2] = g
  <2>1. /\ a \o b \in Seq(FrameRecord) /\ Len(a \o b) = Len(a) + Len(b)
        /\ (a \o b)[1] = a[1] /\ \A i \in 2..Len(b) + 1 : (a \o b)[i] = b[i - 1]
    BY SMTT(20), <1>1, Prepended DEF a
  <2>2. 2 \in 2..Len(b) + 1 /\ 2 - 1 = 1 /\ Len(a) + Len(b) = 2
    BY <1>1
  <2>3. (a \o b)[2] = b[1]
    BY <2>1, <2>2
  <2> QED
    BY <1>1, <2>1, <2>2, <2>3
<1>3. \A i \in 1..2 : (a \o b)[i] = c[i]
  BY <1>1, <1>2
<1>4. a \o b = c
  BY <1>1, <1>2, <1>3, SeqEqual
<1> QED
  BY <1>4 DEF a, b, c

LEMMA UpdateBeginStep == ASSUME Inv, UpdateBegin PROVE Inv'
<1> DEFINE f == Frame("connections", 0, 1)
           g == Frame("queues", 0, 0)
<1>1. /\ fault = "none" /\ stack = <<>> /\ stack' = <<f, g>>
      /\ deadline' \in -1..1
      /\ UNCHANGED <<conns, ready, paused, running, fault, overlaps>>
  BY DEF UpdateBegin
<1>2. Typed /\ conns \in Seq(Connection) /\ Len(conns) \in Nat /\ Same(conns, conns')
  BY <1>1, SameRefl DEF Inv, Typed
<1>3. /\ f \in FrameRecord /\ f.do = "connections" /\ f.c = 0 /\ f.i = 1
      /\ g \in FrameRecord /\ g.do = "queues" /\ g.c = 0
  BY FrameTyped DEF Work
<1> HIDE DEF f, g
<1>4. FrameOK(f, conns, overlaps) /\ FrameOK(g, conns, overlaps)
  BY <1>2, <1>3 DEF FrameOK, OnSocket
<1>5. StackOK(<<g>>, conns, overlaps) /\ Functions(<<g>>) = {"queues"}
  BY <1>3, <1>4, OneFrame
<1> DEFINE s == <<g>>
<1>6. /\ Len(s) = 1 /\ s[1] = g
      /\ <<f>> \o s = <<f, g>>
  <2>1. Len(s) = 1 /\ s[1] = g
    OBVIOUS
  <2>2. <<f>> \o <<g>> = <<f, g>>
    BY <1>3, TwoFrames
  <2> QED
    BY <2>1, <2>2
<1>7. StackOK(s, conns, overlaps) /\ Functions(s) = {"queues"}
  BY <1>5
<1> HIDE DEF s
<1>8. \A k \in 1..Len(s) : Above(f, s[k], overlaps)
  BY <1>3, <1>6 DEF Above, AtBottom
<1>9. StackOK(<<f>> \o s, conns, overlaps) /\ Functions(<<f>> \o s) = {"connections", "queues"}
  BY <1>3, <1>4, <1>7, <1>8, StackCons
<1>10. /\ StackOK(stack', conns', overlaps) /\ Functions(stack') = {"connections", "queues"}
       /\ Functions(stack) = {}
  BY <1>1, <1>6, <1>9, EmptyStack
<1>11. /\ Functions(stack') \cap Reviving = {} /\ "reconnect" \notin Functions(stack)
       /\ ready' => Astir
  BY <1>1, <1>10 DEF Astir, Reviving
<1> QED
  BY <1>1, <1>2, <1>10, <1>11, InvKept DEF Typed

-----------------------------------------------------------------------------
(* The theorems                                                            *)

LEMMA InvInit == Init => Inv
<1> SUFFICES ASSUME Init PROVE Inv
  OBVIOUS
<1>1. conns = <<Fresh>> /\ Fresh \in Connection
  BY DEF Init, Fresh, Connection
<1>2. Typed
  <2>1. conns \in Seq(Connection)
    BY <1>1
  <2>2. overlaps = {} /\ fault = "none" /\ deadline = 1
        /\ ready = FALSE /\ paused = FALSE /\ running = TRUE
    BY DEF Init
  <2>3. overlaps \subseteq {"twice", "late", "deleted", "grown"}
    BY <2>2
  <2>4. deadline \in -1..1
    BY <2>2
  <2>5. fault \in {"none", "socket", "iterator"}
    BY <2>2
  <2>6. ready \in BOOLEAN /\ paused \in BOOLEAN /\ running \in BOOLEAN
    BY <2>2
  <2> QED
    BY <2>1, <2>3, <2>4, <2>5, <2>6 DEF Typed
<1>3. StackOK(stack, conns, overlaps)
  BY EmptyStack DEF Init
<1>4. FrontOnly(conns) /\ Silent /\ NothingUsedAfterItsEnd
  BY <1>1 DEF Init, FrontOnly, Silent, NothingUsedAfterItsEnd
<1> QED
  BY <1>2, <1>3, <1>4 DEF Inv

LEMMA InvNext == Inv /\ [Next]_vars => Inv'
<1> SUFFICES ASSUME Inv, [Next]_vars PROVE Inv'
  OBVIOUS
<1>1. CASE UNCHANGED vars
  BY <1>1 DEF vars, Inv, Typed, Silent, Astir, NothingUsedAfterItsEnd
<1>2. CASE Application
  BY <1>2, DisconnectStep, CallReconnects, ResetStep, SendStep, UpdateBeginStep
     DEF Application
<1>3. CASE Client
  BY <1>3, ReturnStep, PushStep, ResetReconnectsStep, LoopStep, PollQuietStep,
     PollEndStep, FailedStep, DispatchStep, AfterCallbackStep, RedirectStep,
     QueuesStep, TrimStep, ExpireStep, ExpiredStep DEF Client
<1> QED
  BY <1>1, <1>2, <1>3 DEF Next

LEMMA InvAlways == Spec => []Inv
BY InvInit, InvNext, PTL DEF Spec

(* Every frame of the stack has its connection, however callbacks nest.    *)
THEOREM TypeCorrect == Spec => []TypeOK
<1>1. Inv => TypeOK
  <2> SUFFICES ASSUME Inv PROVE TypeOK
    OBVIOUS
  <2>1. stack \in Seq([do : Work, c : Nat, i : Nat]) /\ DOMAIN stack = 1..Len(stack)
    BY DEF Inv, StackOK, FrameRecord
  <2>2. ASSUME NEW k \in DOMAIN stack
        PROVE  /\ stack[k].c \in 0..Len(conns)
               /\ stack[k].do \in OnSocket \cup {"dispatch", "expired"} => stack[k].c # 0
    BY <2>1 DEF Inv, StackOK, FrameOK
  <2> QED
    BY <2>1, <2>2 DEF Inv, Typed, TypeOK
<1> QED
  BY InvAlways, <1>1, PTL

(* At most the front connection runs, and none after a Disconnect.         *)
THEOREM RunsAsWanted == Spec => []LiveAsWanted
<1>1. Inv => LiveAsWanted
  <2> SUFFICES ASSUME Inv PROVE LiveAsWanted
    OBVIOUS
  <2>1. stack = <<>> => Functions(stack) = {}
    BY EmptyStack
  <2> QED
    BY <2>1 DEF Inv, Silent, Astir, FrontOnly, Stopped, LiveAsWanted
<1> QED
  BY InvAlways, <1>1, PTL

(* No function of a websocket's or of a loop's finds its own gone.         *)
THEOREM NoUseAfterEnd == Spec => []NothingUsedAfterItsEnd
<1>1. Inv => NothingUsedAfterItsEnd
  BY DEF Inv
<1> QED
  BY InvAlways, <1>1, PTL

(* GameSparksAvailable(true) is a matter of the answer to the handshake.   *)
LEMMA OnlyASessionMakesReady ==
    ASSUME [Next]_vars, ~ready, ready'
    PROVE  DispatchSession
<1>1. ASSUME Application PROVE FALSE
  BY <1>1 DEF Application, Disconnect, Reconnect, Reset, ShutDown, Send, UpdateBegin,
              ConnectIfRequired, NewConnection, Stop, SetAvailability
<1>2. ASSUME Client, ~DispatchSession PROVE FALSE
  <2>1. CASE Return \/ Push \/ EndConnections \/ PollSkips \/ PollQuiet \/ PollCloses \/ Failed
    BY <2>1 DEF Return, Push, EndConnections, PollSkips, PollQuiet, PollCloses, Failed
  <2>2. CASE \/ DispatchNothing \/ DispatchNonce \/ Greet \/ SessionUser
             \/ DispatchMessage \/ DispatchClose \/ Redirected \/ Dispatched
    BY <2>2 DEF DispatchNothing, DispatchNonce, Greet, SessionUser, DispatchMessage,
                DispatchClose, Redirected, Dispatched
  <2>3. CASE PollFails \/ DispatchUnexpected
    BY <2>3 DEF PollFails, DispatchUnexpected, ClientError, SetAvailability
  <2>4. CASE DispatchRedirect \/ ResetReconnects \/ ProcessQueues
    BY <2>4 DEF DispatchRedirect, ResetReconnects, ProcessQueues, ConnectIfRequired,
                NewConnection, Stop, SetAvailability
  <2>5. CASE TrimOldConnections \/ Expire \/ Expired \/ NothingExpires
    BY <2>5 DEF TrimOldConnections, Expire, Expired, NothingExpires
  <2> QED
    BY <1>2, <2>1, <2>2, <2>3, <2>4, <2>5 DEF Client
<1> QED
  BY <1>1, <1>2 DEF Next, vars

(* The service becomes available through the front connection, which runs, *)
(* in every step but one: the rest of a frame that has redirected the      *)
(* client.                                                                 *)
THEOREM AvailableAtFront == Spec => AvailableIsFront
<1>1. Inv /\ [Next]_vars =>
        [~ready /\ ready' /\ "twice" \notin overlaps /\ ~At("redirected") =>
           conns'[1].stage = "ready" /\ Alive(conns'[1]) /\ ~conns'[1].stopped]_vars
  <2> SUFFICES ASSUME Inv, [Next]_vars, ~ready, ready', "twice" \notin overlaps,
                      ~At("redirected")
               PROVE  conns'[1].stage = "ready" /\ Alive(conns'[1]) /\ ~conns'[1].stopped
    OBVIOUS
  <2>1. DispatchSession
    BY OnlyASessionMakesReady
  <2>2. /\ stack # <<>> /\ Top.do = "dispatch"
        /\ conns' = [conns EXCEPT ![Top.c].stage = "ready"]
    BY <2>1 DEF DispatchSession, Handling, Arrived, At, Top
  <2>3. /\ Top.c \in 1..Len(conns) /\ conns[Top.c] \in Connection
        /\ Alive(conns[Top.c]) /\ ~conns[Top.c].stopped
    BY <2>2, OnSocketTop
  <2>4. conns \in Seq(Connection) /\ FrontOnly(conns)
    BY DEF Inv, Typed
  <2>5. Top.c = 1
    BY <2>3, <2>4 DEF FrontOnly
  <2>6. conns'[1] = [conns[1] EXCEPT !.stage = "ready"]
    BY <2>2, <2>3, <2>4, <2>5
  <2> QED
    BY <2>3, <2>5, <2>6 DEF Connection, Alive
<1> QED
  BY InvAlways, <1>1, PTL DEF Spec, AvailableIsFront
=============================================================================
