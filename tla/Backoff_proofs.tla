---------------------------- MODULE Backoff_proofs ----------------------------
(***************************************************************************)
(* What is proved of the generator: Schrage's method computes Lehmer's     *)
(* successor in unsigned arithmetic, and the threads that race on it       *)
(* without a lock cannot bring it from one side of M to the other.         *)
(***************************************************************************)
EXTENDS Backoff, TLAPS

-----------------------------------------------------------------------------
(* Arithmetic                                                              *)

(* A product grows with its factor.                                        *)
LEMMA TimesMonotone ==
  ASSUME NEW k \in Nat, NEW a \in Nat, NEW b \in Nat, a <= b
  PROVE  k * a <= k * b /\ k * a \in Nat /\ k * b \in Nat
<1>1. k * (b - a) >= 0  OBVIOUS
<1>2. k * (b - a) = k * b - k * a  OBVIOUS
<1> QED  BY <1>1, <1>2

(* Division with remainder, by any positive integer.                       *)
LEMMA DivideMod ==
  ASSUME NEW y \in Int, NEW k \in Nat \ {0}
  PROVE  /\ y \div k \in Int /\ y % k \in 0..(k - 1)
         /\ y = k * (y \div k) + (y % k)
OBVIOUS

(* The quotient of a natural number is one.                                *)
LEMMA DivideNat ==
  ASSUME NEW y \in Nat, NEW k \in Nat \ {0}
  PROVE  y \div k \in Nat
OBVIOUS

(* The remainder is the only number below k that differs from y by a       *)
(* multiple of k.                                                          *)
LEMMA ModUnique ==
  ASSUME NEW y \in Int, NEW k \in Nat \ {0}, NEW q \in Int, NEW v \in 0..(k - 1),
         y = k * q + v
  PROVE  y % k = v
<1> DEFINE p == y \div k
           u == y % k
<1>1. p \in Int /\ u \in 0..(k - 1) /\ y = k * p + u  BY DivideMod
<1> HIDE DEF p, u
<1>2. k * (p - q) = v - u
  <2>1. k * (p - q) = k * p - k * q  BY <1>1
  <2> QED  BY <1>1, <2>1
<1>3. ~(p >= q + 1)
  <2>1. SUFFICES ASSUME p >= q + 1 PROVE FALSE  OBVIOUS
  <2>2. p - q \in Nat /\ 1 <= p - q  BY <1>1, <2>1
  <2>3. k * 1 <= k * (p - q)  BY <2>2, TimesMonotone
  <2> QED  BY <1>1, <1>2, <2>3
<1>4. ~(q >= p + 1)
  <2>1. SUFFICES ASSUME q >= p + 1 PROVE FALSE  OBVIOUS
  <2>2. q - p \in Nat /\ 1 <= q - p  BY <1>1, <2>1
  <2>3. k * 1 <= k * (q - p)  BY <2>2, TimesMonotone
  <2>4. k * (q - p) = - (k * (p - q))  BY <1>1
  <2> QED  BY <1>1, <1>2, <2>3, <2>4
<1>5. p = q  BY <1>1, <1>3, <1>4
<1>6. u = v  BY <1>1, <1>2, <1>5
<1> QED  BY <1>6 DEF u

(* A quotient is at most that of a greater number.                         *)
LEMMA DivideMonotone ==
  ASSUME NEW y \in Nat, NEW z \in Nat, NEW k \in Nat \ {0}, y <= z
  PROVE  y \div k <= z \div k
<1> DEFINE p == y \div k
           q == z \div k
<1>1. p \in Nat /\ q \in Nat  BY DivideNat
<1>2. k * p <= y  BY DivideMod
<1>3. z < k * q + k  BY DivideMod
<1> HIDE DEF p, q
<1>4. ~(p >= q + 1)
  <2>1. SUFFICES ASSUME p >= q + 1 PROVE FALSE  OBVIOUS
  <2>2. k * (q + 1) <= k * p  BY <1>1, <2>1, TimesMonotone
  <2>3. k * (q + 1) = k * q + k  BY <1>1
  <2> QED  BY <1>1, <1>2, <1>3, <2>2, <2>3
<1>5. p <= q  BY <1>1, <1>4
<1> QED  BY <1>5 DEF p, q

-----------------------------------------------------------------------------
(* Schrage's method                                                        *)

(* M is A times the quotient, and the rest.                                *)
LEMMA Factors ==
  /\ A \in Nat \ {0} /\ M \in Nat /\ W \in Nat \ {0} /\ 1 < M /\ 2 * M <= W
  /\ Quotient \in Nat \ {0} /\ Remainder \in Nat
  /\ Remainder < A /\ Remainder < Quotient
  /\ M = A * Quotient + Remainder
<1>1. A \in Nat \ {0} /\ M \in Nat /\ W \in Nat \ {0} /\ 1 < M /\ 2 * M <= W
  BY GeneratorAssumption
<1>2. Quotient \in Nat  BY <1>1, DivideNat DEF Quotient
<1>3. Remainder \in 0..(A - 1) /\ M = A * Quotient + Remainder
  BY <1>1, DivideMod DEF Quotient, Remainder
<1>4. Remainder < Quotient  BY GeneratorAssumption
<1> QED  BY <1>1, <1>2, <1>3, <1>4

(* The first product never wraps and stays below M.                        *)
LEMMA LowInRange ==
  ASSUME NEW y \in Unsigned
  PROVE  Low(y) = A * (y % Quotient) /\ Low(y) \in 0..(M - 1)
<1> DEFINE p == y % Quotient
<1>1. p \in 0..(Quotient - 1)  BY Factors, DivideMod DEF Unsigned
<1> HIDE DEF p
<1>2. A * p <= A * (Quotient - 1) /\ A * p \in Nat  BY <1>1, Factors, TimesMonotone
<1>3. A * (Quotient - 1) = A * Quotient - A  BY Factors
<1>4. A * p <= M - 1  BY <1>2, <1>3, Factors
<1>5. A * p = W * 0 + A * p  BY <1>2, Factors
<1>6. A * p \in 0..(W - 1)  BY <1>2, <1>4, Factors
<1>7. (A * p) % W = A * p  BY <1>5, <1>6, Factors, ModUnique
<1> QED  BY <1>2, <1>4, <1>7 DEF p, Low

(* Nor does the second: below M for a proper state, and for any other so   *)
(* small that a difference does not get down to M.                         *)
LEMMA HighInRange ==
  ASSUME NEW y \in Unsigned
  PROVE  /\ High(y) = Remainder * (y \div Quotient)
         /\ High(y) \in 0..(W - M)
         /\ y < M => High(y) \in 0..(M - 1)
<1> DEFINE p == y \div Quotient
           z == (W - 1) \div Quotient
<1>1. p \in Nat  BY Factors, DivideNat DEF Unsigned
<1>2. z \in Nat /\ p <= z  BY Factors, DivideNat, DivideMonotone DEF Unsigned
<1>3. M + Remainder * z <= W  BY GeneratorAssumption
<1>4. Quotient * p <= y  BY Factors, DivideMod DEF Unsigned
<1> HIDE DEF p, z
<1>5. Remainder * p <= Remainder * z /\ Remainder * p \in Nat /\ Remainder * z \in Nat
  BY <1>1, <1>2, Factors, TimesMonotone
<1>6. Remainder * p \in 0..(W - M)  BY <1>3, <1>5, Factors
<1>7. Remainder * p = W * 0 + Remainder * p  BY <1>5, Factors
<1>8. Remainder * p \in 0..(W - 1)  BY <1>6, Factors
<1>9. (Remainder * p) % W = Remainder * p  BY <1>7, <1>8, Factors, ModUnique
<1>10. ASSUME y < M PROVE Remainder * p \in 0..(M - 1)
  <2>1. ~(p >= A + 1)
    <3>1. SUFFICES ASSUME p >= A + 1 PROVE FALSE  OBVIOUS
    <3>2. Quotient * (A + 1) <= Quotient * p  BY <1>1, <3>1, Factors, TimesMonotone
    <3>3. Quotient * (A + 1) = A * Quotient + Quotient  BY Factors
    <3> QED  BY <1>1, <1>4, <1>10, <3>2, <3>3, Factors DEF Unsigned
  <2>2. p <= A  BY <1>1, <2>1, Factors
  <2>3. Remainder * p <= Remainder * A  BY <1>1, <2>2, Factors, TimesMonotone
  <2>4. A * Remainder <= A * (Quotient - 1)  BY Factors, TimesMonotone
  <2>5. A * (Quotient - 1) = A * Quotient - A  BY Factors
  <2>6. Remainder * A = A * Remainder  BY Factors
  <2> QED  BY <1>5, <2>3, <2>4, <2>5, <2>6, Factors
<1> QED  BY <1>6, <1>9, <1>10 DEF p, High

(* Two proper products give a proper state.                                *)
LEMMA CombinedProper ==
  ASSUME NEW s \in 0..(M - 1), NEW t \in 0..(M - 1), NEW y \in Nat, y < M
  PROVE  /\ Combined(s, t, y) = IF s < t THEN s + M - t ELSE s - t
         /\ Combined(s, t, y) \in 0..(M - 1)
<1> DEFINE d == IF s < t THEN s + M - t ELSE s - t
<1>1. d \in 0..(M - 1)  BY Factors
<1>2. s + (IF s < t THEN M ELSE 0) - t - (IF y >= M THEN M ELSE 0) = d  BY Factors
<1> HIDE DEF d
<1>3. d = W * 0 + d /\ d \in 0..(W - 1) /\ d \in Int  BY <1>1, Factors
<1>4. d % W = d  BY <1>3, Factors, ModUnique
<1> QED  BY <1>1, <1>2, <1>4 DEF d, Combined

(* An improper state stays improper: the difference wraps.                 *)
LEMMA CombinedImproper ==
  ASSUME NEW s \in 0..(M - 1), NEW t \in 0..(W - M), NEW y \in Nat, y >= M
  PROVE  Combined(s, t, y) \in M..(W - 1)
<1> DEFINE d == s + (IF s < t THEN M ELSE 0) - t - (IF y >= M THEN M ELSE 0)
           v == IF s < t THEN W + s - t ELSE W + s - t - M
<1>1. v \in M..(W - 1)  BY Factors
<1>2. d = v - W /\ d \in Int  BY Factors
<1> HIDE DEF d, v
<1>3. d = W * (-1) + v  BY <1>1, <1>2, Factors
<1>4. v \in 0..(W - 1)  BY <1>1, Factors
<1>5. d % W = v  BY <1>2, <1>3, <1>4, Factors, ModUnique
<1> QED  BY <1>1, <1>5 DEF d, Combined

(* Schrage's method, for a proper state: Lehmer's successor.               *)
LEMMA Schrage ==
  ASSUME NEW y \in 0..(M - 1), NEW z \in Nat, z < M
  PROVE  Combined(Low(y), High(y), z) = (A * y) % M
<1> DEFINE p == y \div Quotient
           u == y % Quotient
           s == Low(y)
           t == High(y)
<1>1. y \in Unsigned /\ y \in Nat  BY Factors DEF Unsigned
<1>2. p \in Nat /\ u \in Nat /\ y = Quotient * p + u
  <2>1. y \in Int /\ Quotient \in Nat \ {0}  BY <1>1, Factors
  <2>2. p \in Nat  BY <1>1, <2>1, DivideNat
  <2>3. u \in 0..(Quotient - 1) /\ y = Quotient * p + u  BY <2>1, DivideMod
  <2> QED  BY <2>1, <2>2, <2>3
<1>3. s = A * u /\ s \in 0..(M - 1)  BY <1>1, LowInRange
<1>4. t = Remainder * p /\ t \in 0..(M - 1)  BY <1>1, HighInRange, Factors
<1> HIDE DEF p, u, s, t
<1>5. A * y = M * p + s - t
  <2>1. A * y = A * (Quotient * p) + A * u  BY <1>2, Factors
  <2>2. A * (Quotient * p) = (A * Quotient) * p  BY <1>2, Factors
  <2>3. A * Quotient = M - Remainder  BY Factors
  <2>4. (M - Remainder) * p = M * p - Remainder * p  BY <1>2, Factors
  <2> QED  BY <1>2, <1>3, <1>4, <2>1, <2>2, <2>3, <2>4, Factors
<1> DEFINE v == IF s < t THEN s + M - t ELSE s - t
           q == IF s < t THEN p - 1 ELSE p
<1>6. Combined(s, t, z) = v /\ v \in 0..(M - 1)  BY <1>3, <1>4, CombinedProper
<1>7. A * y = M * q + v /\ q \in Int
  <2>1. M * (p - 1) = M * p - M  BY <1>2, Factors
  <2>2. M * p \in Int  BY <1>2, Factors
  <2> HIDE DEF v, q
  <2>3. CASE s < t  BY <2>1, <2>2, <2>3, <1>2, <1>3, <1>4, <1>5, Factors DEF v, q
  <2>4. CASE ~(s < t)  BY <2>2, <2>4, <1>2, <1>3, <1>4, <1>5, Factors DEF v, q
  <2> QED  BY <2>3, <2>4
<1> HIDE DEF v, q
<1> DEFINE product == A * y
<1>8. product \in Int /\ product = M * q + v /\ M \in Nat \ {0}  BY <1>1, <1>7, Factors
<1> HIDE DEF product
<1>9. product % M = v  BY <1>6, <1>7, <1>8, ModUnique
<1> QED  BY <1>6, <1>9 DEF s, t, product
-----------------------------------------------------------------------------
(* The invariant: what the threads hold is of the side of M the generator  *)
(* is on, and what they multiply comes from the state they say it does.    *)

Held(c) ==
    /\ At(c, "second") => /\ task[c].s = Low(task[c].from)
                          /\ (task[c].from < M <=> seed < M)
    /\ At(c, "write") =>
         /\ task[c].s \in 0..(M - 1) /\ task[c].t \in 0..(W - M)
         /\ seed < M => task[c].t \in 0..(M - 1)
         /\ task[c].from < M <=> seed < M
         /\ ~task[c].torn => /\ task[c].s = Low(task[c].from)
                             /\ task[c].t = High(task[c].from)
    /\ At(c, "store") => (task[c].s < M <=> seed < M)

Sides == SidesKept /\ \A c \in Thread : Held(c)

(* A state that some thread has read and goes on with is not zero either.  *)
NotZero ==
    seed # 0 /\ ~raced =>
      /\ x # 0
      /\ \A c \in Thread : /\ At(c, "second") \/ At(c, "write") => task[c].from # 0
                           /\ At(c, "store") => task[c].s # 0

-----------------------------------------------------------------------------
(* Type correctness                                                        *)

(* What a bound is computed from is an integer.                            *)
LEMMA BoundType ==
  ASSUME TypeOK, NEW power \in Power
  PROVE  Bound(power) \in Int
<1>1. power \in Nat  BY SettingAssumption
<1>2. retryBase \in Int /\ retryMax \in Int  BY DEF TypeOK
<1>3. retryBase * power \in Int  BY <1>1, <1>2
<1> QED  BY <1>2, <1>3 DEF Bound

(* The results of unsigned arithmetic are unsigned.                        *)
LEMMA Wrapped ==
  ASSUME NEW y \in Int
  PROVE  y % W \in Unsigned
BY Factors, DivideMod DEF Unsigned

(* A task of which some fields are replaced by fitting ones is a task.     *)
LEMMA TaskType ==
  ASSUME TypeOK, NEW c \in Thread, NEW u \in Task, task' = [task EXCEPT ![c] = u]
  PROVE  task' \in [Thread -> Task]
BY DEF TypeOK

(* Every step of every thread keeps the types.                             *)
LEMMA TypeStep == TypeOK /\ [Next]_vars => TypeOK'
<1> SUFFICES ASSUME TypeOK, [Next]_vars PROVE TypeOK'  OBVIOUS
<1>0. /\ x \in Unsigned /\ seed \in Unsigned /\ x \in Nat /\ seed \in Nat
      /\ retryBase \in Int /\ retryMax \in Int
      /\ task \in [Thread -> Task] /\ period \in Period /\ raced \in BOOLEAN
      /\ "application" \in Thread
  BY DEF TypeOK, Unsigned, Thread
<1>1. Idle \in Task  BY Factors DEF Idle, Task, Unsigned
<1>2. CASE SetBase
  <2>1. retryBase' \in Int  BY <1>2, SettingAssumption DEF SetBase
  <2>2. task' \in [Thread -> Task]  BY <1>2, <1>0 DEF SetBase, Goto, Task
  <2> QED  BY <1>2, <2>1, <2>2 DEF SetBase, TypeOK
<1>3. CASE CheckBase
  <2>1. retryBase' \in Int  BY <1>3, <1>0, SettingAssumption DEF CheckBase, Valid
  <2>2. task' \in [Thread -> Task]  BY <1>3, <1>0 DEF CheckBase, Goto, Task
  <2> QED  BY <1>3, <2>1, <2>2 DEF CheckBase, TypeOK
<1>4. CASE SetMax
  <2>1. retryMax' \in Int  BY <1>4, SettingAssumption DEF SetMax
  <2>2. task' \in [Thread -> Task]  BY <1>4, <1>0 DEF SetMax, Goto, Task
  <2> QED  BY <1>4, <2>1, <2>2 DEF SetMax, TypeOK
<1>5. CASE CheckMax
  <2>1. retryMax' \in Int  BY <1>5, <1>0, SettingAssumption DEF CheckMax, Valid
  <2>2. task' \in [Thread -> Task]  BY <1>5, <1>0 DEF CheckMax, Goto, Task
  <2> QED  BY <1>5, <2>1, <2>2 DEF CheckMax, TypeOK
<1>6. ASSUME NEW c \in Thread, NEW power \in Power, Compute(c, power) PROVE TypeOK'
  <2>1. Bound(power) \in Int  BY BoundType
  <2>2. task' \in [Thread -> Task]  BY ZenonT(40), <1>6, <1>0, <2>1 DEF Compute, Task
  <2> QED  BY <1>6, <2>2 DEF Compute, TypeOK
<1>7. ASSUME NEW c \in Thread, First(c) PROVE TypeOK'
  <2>1. Low(x) \in Unsigned
    <3>1. Low(x) \in 0..(M - 1)  BY <1>0, LowInRange
    <3> QED  BY <3>1, Factors DEF Unsigned
  <2> DEFINE low == Low(x)
  <2>2. low \in Unsigned  BY <2>1
  <2>3. task' = [task EXCEPT ![c] = [@ EXCEPT !.pc = "second", !.s = low, !.from = x]]
    BY <1>7 DEF First
  <2> HIDE DEF low
  <2>4. [task[c] EXCEPT !.pc = "second", !.s = low, !.from = x] \in Task
    BY <1>0, <2>2 DEF Task
  <2>5. task' \in [Thread -> Task]  BY <1>0, <2>3, <2>4
  <2> QED  BY <1>7, <2>5 DEF First, TypeOK
<1>8. ASSUME NEW c \in Thread, Second(c) PROVE TypeOK'
  <2>1. High(x) \in Unsigned
    <3>1. High(x) \in 0..(W - M)  BY <1>0, HighInRange
    <3> QED  BY <3>1, Factors DEF Unsigned
  <2> DEFINE torn == x # task[c].from
             high == High(x)
  <2>2. torn \in BOOLEAN /\ high \in Unsigned  BY <2>1
  <2>3. task' = [task EXCEPT ![c] = [@ EXCEPT !.pc = "write", !.t = high, !.torn = torn]]
    BY <1>8 DEF Second
  <2> HIDE DEF torn, high
  <2>4. [task[c] EXCEPT !.pc = "write", !.t = high, !.torn = torn] \in Task
    BY <1>0, <2>2 DEF Task
  <2>5. task' \in [Thread -> Task]  BY <1>0, <2>3, <2>4
  <2> QED  BY <1>8, <2>5 DEF Second, TypeOK
<1>9. ASSUME NEW c \in Thread, Write(c) PROVE TypeOK'
  <2>1. task[c].s \in Int /\ task[c].t \in Int /\ task[c].torn \in BOOLEAN /\ task[c].bound \in Int
    BY <1>0 DEF Task, Unsigned
  <2>2. Combined(task[c].s, task[c].t, x) \in Unsigned
    <3> DEFINE d == task[c].s + (IF task[c].s < task[c].t THEN M ELSE 0) - task[c].t
                      - (IF x >= M THEN M ELSE 0)
    <3>1. d \in Int  BY <1>0, <2>1, Factors
    <3> HIDE DEF d
    <3>2. d % W \in Unsigned  BY <3>1, Wrapped
    <3> QED  BY <3>2 DEF Combined, d
  <2>3. [Idle EXCEPT !.pc = "return", !.bound = task[c].bound] \in Task
    BY <1>1, <2>1 DEF Task
  <2>4. task' \in [Thread -> Task]  BY <1>9, <1>0, <2>3 DEF Write
  <2>5. x' \in Unsigned /\ raced' \in BOOLEAN  BY <1>9, <1>0, <2>1, <2>2 DEF Write
  <2> QED  BY <1>9, <2>4, <2>5 DEF Write, TypeOK
<1>10. ASSUME NEW c \in Thread, Return(c) PROVE TypeOK'
  <2>1. task' \in [Thread -> Task]  BY ZenonT(40), <1>10, <1>0 DEF Return, Task
  <2> QED  BY <1>10, <2>1 DEF Return, TypeOK
<1>11. ASSUME NEW c \in Thread, Store(c) PROVE TypeOK'
  <2>1. task[c].s \in Unsigned /\ 0 \in Unsigned  BY <1>0, Factors DEF Task, Unsigned
  <2>2. task' \in [Thread -> Task]  BY ZenonT(40), <1>11, <1>0, <2>1 DEF Store, Task
  <2> QED  BY <1>11, <2>1, <2>2 DEF Store, TypeOK
<1>12. ASSUME NEW c \in Thread, Use(c) PROVE TypeOK'
  <2>1. task' \in [Thread -> Task]  BY <1>12, <1>0, <1>1 DEF Use
  <2>2. Fraction(x) \in Unsigned  BY <1>0, Wrapped DEF Fraction
  <2>3. task[c].bound \in Int  BY <1>0 DEF Task
  <2>4. period' \in Period  BY <1>12, <2>2, <2>3 DEF Use, Period
  <2> QED  BY <1>12, <2>1, <2>4 DEF Use, TypeOK
<1>13. CASE UNCHANGED vars  BY <1>13 DEF vars, TypeOK
<1> QED
  BY <1>2, <1>3, <1>4, <1>5, <1>6, <1>7, <1>8, <1>9, <1>10, <1>11, <1>12, <1>13
  DEF Next, SetFromObject, GetNextFloat, Generate

(* The generator, the settings and the threads keep their types.           *)
THEOREM TypeCorrect == Spec => []TypeOK
<1>1. Init => TypeOK
  <2> SUFFICES ASSUME Init PROVE TypeOK  OBVIOUS
  <2>1. Idle \in Task  BY Factors DEF Idle, Task, Unsigned
  <2>2. task \in [Thread -> Task]  BY <2>1 DEF Init
  <2>3. period \in Period
    BY Factors, SettingAssumption DEF Init, Period, Unsigned, Thread
  <2>4. x \in Unsigned /\ seed \in Unsigned  BY DEF Init
  <2>5. retryBase \in Int /\ retryMax \in Int  BY SettingAssumption DEF Init
  <2>6. raced \in BOOLEAN  BY DEF Init
  <2> QED  BY <2>2, <2>3, <2>4, <2>5, <2>6 DEF TypeOK
<1> QED  BY <1>1, TypeStep, PTL DEF Spec

-----------------------------------------------------------------------------
(* The side of M                                                           *)

(* A thread that does not move keeps what it holds.                        *)
LEMMA HeldKept ==
  ASSUME TypeOK, NEW c \in Thread, Held(c), task'[c] = task[c], seed' = seed
  PROVE  Held(c)'
BY DEF Held, At

(* What a thread writes is of the side the generator is on.                *)
LEMMA WriteSide ==
  ASSUME TypeOK, Sides, NEW c \in Thread, Write(c)
  PROVE  x' < M <=> seed < M
<1>1. x \in Unsigned /\ x \in Nat /\ seed \in Nat  BY DEF TypeOK, Unsigned
<1>2. /\ task[c].s \in 0..(M - 1) /\ task[c].t \in 0..(W - M)
      /\ seed < M => task[c].t \in 0..(M - 1)
      /\ x < M <=> seed < M
  BY DEF Sides, Held, Write, SidesKept
<1>3. x' = Combined(task[c].s, task[c].t, x)  BY DEF Write
<1>4. CASE seed < M
  <2>1. x' \in 0..(M - 1)  BY <1>1, <1>2, <1>3, <1>4, CombinedProper
  <2> QED  BY <1>4, <2>1, Factors
<1>5. CASE ~(seed < M)
  <2>1. x >= M  BY <1>1, <1>2, <1>5, Factors
  <2>2. x' \in M..(W - 1)  BY <1>1, <1>2, <1>3, <2>1, CombinedImproper
  <2> QED  BY <1>5, <2>2, Factors
<1> QED  BY <1>4, <1>5

(* Every step keeps every thread, and the generator, on its side.          *)
LEMMA SidesStep == TypeOK /\ Sides /\ [Next]_vars => Sides'
<1> SUFFICES ASSUME TypeOK, Sides, [Next]_vars PROVE Sides'  OBVIOUS
<1>0. /\ x \in Unsigned /\ task \in [Thread -> Task] /\ "application" \in Thread
      /\ SidesKept /\ \A d \in Thread : Held(d)
  BY DEF TypeOK, Sides, Thread
<1>1. ASSUME NEW c \in Thread, NEW u, task' = [task EXCEPT ![c] = u],
             seed' = seed, SidesKept', Held(c)'
      PROVE  Sides'
  <2>1. ASSUME NEW d \in Thread, d # c PROVE Held(d)'
    <3>1. task'[d] = task[d]  BY <1>0, <1>1, <2>1
    <3> QED  BY <1>0, <1>1, <3>1, HeldKept
  <2> QED  BY <1>1, <2>1 DEF Sides
<1>2. CASE SetFromObject
  <2>1. x' = x /\ seed' = seed
    BY <1>2 DEF SetFromObject, SetBase, CheckBase, SetMax, CheckMax
  <2>2. PICK pc \in {"idle", "checkBase", "setMax", "checkMax"} : task' = Goto(pc)
    BY <1>2 DEF SetFromObject, SetBase, CheckBase, SetMax, CheckMax
  <2>3. task' = [task EXCEPT !["application"] = [@ EXCEPT !.pc = pc]]
    BY <2>2 DEF Goto
  <2>4. task'["application"].pc = pc  BY <2>3, <1>0 DEF Task
  <2>5. Held("application")'  BY <2>4 DEF Held, At
  <2>6. SidesKept'  BY <2>1, <1>0 DEF SidesKept
  <2> QED  BY <1>1, <1>0, <2>1, <2>3, <2>5, <2>6
<1>3. ASSUME NEW c \in Thread, NEW power \in Power, Compute(c, power) PROVE Sides'
  <2>1. task' = [task EXCEPT ![c] = [@ EXCEPT !.pc = "first", !.bound = Bound(power)]]
    BY <1>3 DEF Compute
  <2>2. x' = x /\ seed' = seed  BY <1>3 DEF Compute
  <2>3. task'[c].pc = "first"  BY <2>1, <1>0 DEF Task
  <2>4. Held(c)'  BY <2>3 DEF Held, At
  <2>5. SidesKept'  BY <2>2, <1>0 DEF SidesKept
  <2> QED  BY <1>1, <2>1, <2>2, <2>4, <2>5
<1>4. ASSUME NEW c \in Thread, First(c) PROVE Sides'
  <2>1. task' = [task EXCEPT ![c] = [@ EXCEPT !.pc = "second", !.s = Low(x), !.from = x]]
    BY <1>4 DEF First
  <2>2. x' = x /\ seed' = seed  BY <1>4 DEF First
  <2>3. task'[c].pc = "second" /\ task'[c].s = Low(x) /\ task'[c].from = x
    BY <2>1, <1>0 DEF Task
  <2>4. Held(c)'  BY <2>2, <2>3, <1>0 DEF Held, At, SidesKept, Low
  <2>5. SidesKept'  BY <2>2, <1>0 DEF SidesKept
  <2> QED  BY <1>1, <2>1, <2>2, <2>4, <2>5
<1>5. ASSUME NEW c \in Thread, Second(c) PROVE Sides'
  <2>1. task' = [task EXCEPT ![c] = [@ EXCEPT !.pc = "write", !.t = High(x),
                                             !.torn = (x # task[c].from)]]
    BY <1>5 DEF Second
  <2>2. x' = x /\ seed' = seed  BY <1>5 DEF Second
  <2>3. /\ task'[c].pc = "write" /\ task'[c].t = High(x)
        /\ task'[c].torn = (x # task[c].from)
        /\ task'[c].s = task[c].s /\ task'[c].from = task[c].from
    BY <2>1, <1>0 DEF Task
  <2>4. task[c].s = Low(task[c].from) /\ (task[c].from < M <=> seed < M)
    BY <1>5, <1>0 DEF Held, Second
  <2>5. task[c].s \in 0..(M - 1)
    <3>1. task[c].from \in Unsigned  BY <1>0 DEF Task
    <3> QED  BY <2>4, <3>1, LowInRange
  <2>6. High(x) \in 0..(W - M) /\ (seed < M => High(x) \in 0..(M - 1))
    BY <1>0, HighInRange DEF SidesKept
  <2>7. Held(c)'
    <3>1. ~At(c, "second")' /\ ~At(c, "store")'  BY <2>3 DEF At
    <3>2. ~task'[c].torn => task'[c].s = Low(task'[c].from) /\ task'[c].t = High(task'[c].from)
      BY <2>3, <2>4
    <3> QED  BY <2>2, <2>3, <2>4, <2>5, <2>6, <3>1, <3>2 DEF Held, Low, High
  <2>8. SidesKept'  BY <2>2, <1>0 DEF SidesKept
  <2> QED  BY <1>1, <2>1, <2>2, <2>7, <2>8
<1>6. ASSUME NEW c \in Thread, Write(c) PROVE Sides'
  <2>1. task' = [task EXCEPT ![c] = [Idle EXCEPT !.pc = "return", !.bound = task[c].bound]]
    BY <1>6 DEF Write
  <2>2. seed' = seed  BY <1>6 DEF Write
  <2>3. task'[c].pc = "return"  BY <2>1, <1>0 DEF Idle
  <2>4. Held(c)'  BY <2>3 DEF Held, At
  <2>5. SidesKept'  BY <1>6, <2>2, WriteSide DEF SidesKept
  <2> QED  BY <1>1, <2>1, <2>2, <2>4, <2>5
<1>7. ASSUME NEW c \in Thread, Return(c) PROVE Sides'
  <2>1. task' = [task EXCEPT ![c] = [@ EXCEPT !.pc = "store", !.s = x]]
    BY <1>7 DEF Return
  <2>2. x' = x /\ seed' = seed  BY <1>7 DEF Return
  <2>3. task'[c].pc = "store" /\ task'[c].s = x  BY <2>1, <1>0 DEF Task
  <2>4. Held(c)'  BY <2>2, <2>3, <1>0 DEF Held, At, SidesKept
  <2>5. SidesKept'  BY <2>2, <1>0 DEF SidesKept
  <2> QED  BY <1>1, <2>1, <2>2, <2>4, <2>5
<1>8. ASSUME NEW c \in Thread, Store(c) PROVE Sides'
  <2>1. task' = [task EXCEPT ![c] = [@ EXCEPT !.pc = "use", !.s = 0]]
    BY <1>8 DEF Store
  <2>2. x' = task[c].s /\ seed' = seed  BY <1>8 DEF Store
  <2>3. task'[c].pc = "use"  BY <2>1, <1>0 DEF Task
  <2>4. Held(c)'  BY <2>3 DEF Held, At
  <2>5. SidesKept'  BY <1>8, <2>2, <1>0 DEF SidesKept, Held, Store
  <2> QED  BY <1>1, <2>1, <2>2, <2>4, <2>5
<1>9. ASSUME NEW c \in Thread, Use(c) PROVE Sides'
  <2>1. task' = [task EXCEPT ![c] = Idle] /\ x' = x /\ seed' = seed
    BY <1>9 DEF Use
  <2>2. task'[c].pc = "idle"  BY <2>1, <1>0 DEF Idle
  <2>3. Held(c)'  BY <2>2 DEF Held, At
  <2>4. SidesKept'  BY <2>1, <1>0 DEF SidesKept
  <2> QED  BY <1>1, <2>1, <2>3, <2>4
<1>10. CASE UNCHANGED vars
  BY <1>10 DEF vars, Sides, SidesKept, Held, At, Low, High
<1> QED
  BY <1>2, <1>3, <1>4, <1>5, <1>6, <1>7, <1>8, <1>9, <1>10
  DEF Next, GetNextFloat, Generate

(* However the threads race, a generator seeded below M stays below it,    *)
(* and one seeded with M or more never comes below it.                     *)
THEOREM SidesHold == Spec => []SidesKept
<1>1. Init => Sides  BY DEF Init, Sides, SidesKept, Held, At, Idle
<1>2. Sides => SidesKept  BY DEF Sides
<1> QED  BY <1>1, <1>2, TypeCorrect, SidesStep, PTL DEF Spec

(* A thread whose two products come from one proper state writes Lehmer's  *)
(* successor of it, whatever has become of the generator meanwhile.        *)
THEOREM SuccessorWritten == Spec => Successor
<1>1. ASSUME TypeOK, Sides, NEW c \in Thread, Write(c), ~task[c].torn, seed < M
      PROVE  x' = (A * task[c].from) % M
  <2>1. /\ task[c].s = Low(task[c].from) /\ task[c].t = High(task[c].from)
        /\ task[c].from < M /\ x < M
    BY <1>1 DEF Sides, Held, Write, SidesKept
  <2>2. task[c].from \in 0..(M - 1) /\ x \in Nat
    BY <1>1, <2>1, Factors DEF TypeOK, Task, Unsigned
  <2>3. x' = Combined(Low(task[c].from), High(task[c].from), x)  BY <1>1, <2>1 DEF Write
  <2> QED  BY <2>1, <2>2, <2>3, Schrage
<1>2. TypeOK /\ Sides => \A c \in Thread :
        Write(c) /\ ~task[c].torn /\ seed < M => x' = (A * task[c].from) % M
  BY <1>1
<1>3. Init => Sides  BY DEF Init, Sides, SidesKept, Held, At, Idle
<1> QED  BY <1>2, <1>3, TypeCorrect, SidesStep, PTL DEF Spec, Successor

-----------------------------------------------------------------------------
(* Zero, and the periods                                                   *)

(* Lehmer's successor of a proper state other than zero is not zero, and   *)
(* of an improper state no successor is.                                   *)
LEMMA WriteNotZero ==
  ASSUME TypeOK, Sides, NEW c \in Thread, Write(c), ~task[c].torn, task[c].from # 0
  PROVE  x' # 0
<1>1. CASE seed < M
  <2>1. /\ task[c].s = Low(task[c].from) /\ task[c].t = High(task[c].from)
        /\ task[c].from < M /\ x < M
    BY <1>1 DEF Sides, Held, Write, SidesKept
  <2>2. task[c].from \in 1..(M - 1) /\ task[c].from \in 0..(M - 1) /\ x \in Nat
    BY <2>1, Factors DEF TypeOK, Task, Unsigned
  <2>3. x' = Combined(Low(task[c].from), High(task[c].from), x)  BY <2>1 DEF Write
  <2>4. x' = (A * task[c].from) % M  BY <2>1, <2>2, <2>3, Schrage
  <2> QED  BY <2>2, <2>4, PrimeAssumption
<1>2. CASE ~(seed < M)
  <2>1. ~(x' < M)  BY <1>2, WriteSide
  <2> QED  BY <2>1, Factors
<1> QED  BY <1>1, <1>2

(* Only a torn state brings the generator to zero.                         *)
LEMMA NotZeroStep == TypeOK /\ Sides /\ NotZero /\ [Next]_vars => NotZero'
<1> SUFFICES ASSUME TypeOK, Sides, NotZero, [Next]_vars, seed' # 0, ~raced'
             PROVE  (x # 0 /\ \A c \in Thread :
                        /\ At(c, "second") \/ At(c, "write") => task[c].from # 0
                        /\ At(c, "store") => task[c].s # 0)'
  BY DEF NotZero
<1> DEFINE Fine(d) == /\ At(d, "second") \/ At(d, "write") => task[d].from # 0
                      /\ At(d, "store") => task[d].s # 0
<1>0. task \in [Thread -> Task] /\ "application" \in Thread  BY DEF TypeOK, Thread
<1>1. seed' = seed
  BY DEF Next, vars, SetFromObject, SetBase, CheckBase, SetMax, CheckMax, Compute,
         GetNextFloat, Generate, First, Second, Write, Return, Store, Use
<1>2. x # 0 /\ \A d \in Thread : Fine(d)
  <2>1. raced' = raced \/ \E c \in Thread : raced' = (raced \/ task[c].torn)
    BY Zenon DEF Next, vars, SetFromObject, SetBase, CheckBase, SetMax, CheckMax, Compute,
           GetNextFloat, Generate, First, Second, Write, Return, Store, Use
  <2>2. ~raced  BY <2>1, Zenon
  <2>3. seed # 0  BY <1>1
  <2>4. seed # 0 /\ ~raced => x # 0 /\ \A d \in Thread : Fine(d)
    BY DEF NotZero
  <2> QED  BY <2>2, <2>3, <2>4, Zenon
<1>3. ASSUME NEW c \in Thread, NEW u, task' = [task EXCEPT ![c] = u], x' # 0, Fine(c)'
      PROVE  x' # 0 /\ \A d \in Thread : Fine(d)'
  <2>1. ASSUME NEW d \in Thread, d # c PROVE Fine(d)'
    <3>1. task'[d] = task[d]  BY <1>0, <1>3, <2>1
    <3> QED  BY <1>2, <3>1 DEF At
  <2> QED  BY <1>3, <2>1
<1>4. CASE SetFromObject
  <2>1. x' = x
    BY <1>4 DEF SetFromObject, SetBase, CheckBase, SetMax, CheckMax
  <2>2. PICK pc \in {"idle", "checkBase", "setMax", "checkMax"} : task' = Goto(pc)
    BY <1>4 DEF SetFromObject, SetBase, CheckBase, SetMax, CheckMax
  <2>3. task' = [task EXCEPT !["application"] = [@ EXCEPT !.pc = pc]]  BY <2>2 DEF Goto
  <2>4. task'["application"].pc = pc  BY <2>3, <1>0 DEF Task
  <2>5. Fine("application")'  BY <2>4 DEF At
  <2> QED  BY <1>3, <1>0, <1>2, <2>1, <2>3, <2>5
<1>5. ASSUME NEW c \in Thread, NEW power \in Power, Compute(c, power)
      PROVE  x' # 0 /\ \A d \in Thread : Fine(d)'
  <2>1. task' = [task EXCEPT ![c] = [@ EXCEPT !.pc = "first", !.bound = Bound(power)]]
        /\ x' = x
    BY <1>5 DEF Compute
  <2>2. task'[c].pc = "first"  BY <2>1, <1>0 DEF Task
  <2>3. Fine(c)'  BY <2>2 DEF At
  <2> QED  BY <1>3, <1>2, <2>1, <2>3
<1>6. ASSUME NEW c \in Thread, First(c) PROVE x' # 0 /\ \A d \in Thread : Fine(d)'
  <2>1. task' = [task EXCEPT ![c] = [@ EXCEPT !.pc = "second", !.s = Low(x), !.from = x]]
        /\ x' = x
    BY <1>6 DEF First
  <2>2. task'[c].pc = "second" /\ task'[c].from = x  BY <2>1, <1>0 DEF Task
  <2>3. Fine(c)'  BY <1>2, <2>2 DEF At
  <2> QED  BY <1>3, <1>2, <2>1, <2>3
<1>7. ASSUME NEW c \in Thread, Second(c) PROVE x' # 0 /\ \A d \in Thread : Fine(d)'
  <2>1. task' = [task EXCEPT ![c] = [@ EXCEPT !.pc = "write", !.t = High(x),
                                             !.torn = (x # task[c].from)]]
        /\ x' = x
    BY <1>7 DEF Second
  <2>2. task'[c].pc = "write" /\ task'[c].from = task[c].from  BY <2>1, <1>0 DEF Task
  <2>3. Fine(c)'  BY <1>2, <1>7, <2>2 DEF At, Second
  <2> QED  BY <1>3, <1>2, <2>1, <2>3
<1>8. ASSUME NEW c \in Thread, Write(c) PROVE x' # 0 /\ \A d \in Thread : Fine(d)'
  <2>1. task' = [task EXCEPT ![c] = [Idle EXCEPT !.pc = "return", !.bound = task[c].bound]]
    BY <1>8 DEF Write
  <2>2. task'[c].pc = "return"  BY <2>1, <1>0 DEF Idle
  <2>3. Fine(c)'  BY <2>2 DEF At
  <2>4. ~task[c].torn /\ task[c].from # 0  BY <1>8, <1>2 DEF Write
  <2>5. x' # 0  BY <1>8, <2>4, WriteNotZero
  <2> QED  BY <1>3, <2>1, <2>3, <2>5
<1>9. ASSUME NEW c \in Thread, Return(c) PROVE x' # 0 /\ \A d \in Thread : Fine(d)'
  <2>1. task' = [task EXCEPT ![c] = [@ EXCEPT !.pc = "store", !.s = x]] /\ x' = x
    BY <1>9 DEF Return
  <2>2. task'[c].pc = "store" /\ task'[c].s = x  BY <2>1, <1>0 DEF Task
  <2>3. Fine(c)'  BY <1>2, <2>2 DEF At
  <2> QED  BY <1>3, <1>2, <2>1, <2>3
<1>10. ASSUME NEW c \in Thread, Store(c) PROVE x' # 0 /\ \A d \in Thread : Fine(d)'
  <2>1. task' = [task EXCEPT ![c] = [@ EXCEPT !.pc = "use", !.s = 0]] /\ x' = task[c].s
    BY <1>10 DEF Store
  <2>2. task'[c].pc = "use"  BY <2>1, <1>0 DEF Task
  <2>3. Fine(c)'  BY <2>2 DEF At
  <2>4. x' # 0  BY <1>10, <1>2, <2>1 DEF Store
  <2> QED  BY <1>3, <2>1, <2>3, <2>4
<1>11. ASSUME NEW c \in Thread, Use(c) PROVE x' # 0 /\ \A d \in Thread : Fine(d)'
  <2>1. task' = [task EXCEPT ![c] = Idle] /\ x' = x  BY <1>11 DEF Use
  <2>2. task'[c].pc = "idle"  BY <2>1, <1>0 DEF Idle
  <2>3. Fine(c)'  BY <2>2 DEF At
  <2> QED  BY <1>3, <1>2, <2>1, <2>3
<1>12. CASE UNCHANGED vars  BY <1>12, <1>2 DEF vars, At
<1> QED
  BY <1>4, <1>5, <1>6, <1>7, <1>8, <1>9, <1>10, <1>11, <1>12
  DEF Next, GetNextFloat, Generate

(* The generator stops at zero only if it was seeded with it or after a    *)
(* race has multiplied the halves of two states.                           *)
THEOREM ZeroIsRaced == Spec => []ZeroOnlyByRace
<1>1. Init => Sides  BY DEF Init, Sides, SidesKept, Held, At, Idle
<1>2. Init => NotZero  BY DEF Init, NotZero, At, Idle
<1>3. TypeOK /\ NotZero => ZeroOnlyByRace  BY DEF TypeOK, NotZero, ZeroOnlyByRace
<1> QED  BY <1>1, <1>2, <1>3, TypeCorrect, SidesStep, NotZeroStep, PTL DEF Spec

(* A period drawn from a generator with a proper seed and no torn state is *)
(* shorter than its bound.                                                 *)
THEOREM PeriodsStayProper == Spec => []PeriodsProper
<1>1. Init => PeriodsProper  BY Factors DEF Init, PeriodsProper
<1>2. ASSUME TypeOK, SidesKept, ZeroOnlyByRace, PeriodsProper, [Next]_vars
      PROVE  PeriodsProper'
  <2>1. SUFFICES ASSUME seed' \in 1..(M - 1), ~raced' PROVE period'.fraction < M - 1
    BY DEF PeriodsProper
  <2>2. seed' = seed
    BY <1>2 DEF Next, vars, SetFromObject, SetBase, CheckBase, SetMax, CheckMax, Compute,
           GetNextFloat, Generate, First, Second, Write, Return, Store, Use
  <2>3. ~raced
    <3>1. raced' = raced \/ \E c \in Thread : raced' = (raced \/ task[c].torn)
      BY <1>2, Zenon DEF Next, vars, SetFromObject, SetBase, CheckBase, SetMax, CheckMax,
             Compute, GetNextFloat, Generate, First, Second, Write, Return, Store, Use
    <3> QED  BY <2>1, <3>1, Zenon
  <2>4. period.fraction < M - 1  BY <1>2, <2>1, <2>2, <2>3 DEF PeriodsProper
  <2>5. seed < M /\ seed # 0  BY <2>1, <2>2, Factors
  <2>6. x \in 1..(M - 1)
    BY <1>2, <2>3, <2>5, Factors DEF TypeOK, SidesKept, ZeroOnlyByRace, Unsigned
  <2>7. ASSUME NEW c \in Thread, Use(c) PROVE period'.fraction < M - 1
    <3>1. period'.fraction = (x - 1) % W  BY <2>7 DEF Use, Fraction
    <3>2. x - 1 = W * 0 + (x - 1) /\ x - 1 \in 0..(W - 1) /\ x - 1 \in Int
      BY <2>6, Factors
    <3>3. (x - 1) % W = x - 1  BY <3>2, Factors, ModUnique
    <3> QED  BY <2>6, <3>1, <3>3, Factors
  <2>8. period' = period \/ \E c \in Thread : Use(c)
    BY <1>2 DEF Next, vars, SetFromObject, SetBase, CheckBase, SetMax, CheckMax, Compute,
           GetNextFloat, Generate, First, Second, Write, Return, Store
  <2> QED  BY <2>4, <2>7, <2>8
<1> QED
  BY <1>1, <1>2, TypeCorrect, SidesHold, ZeroIsRaced, PTL DEF Spec

-----------------------------------------------------------------------------
(* The bounds                                                              *)

(* The settings are positive but for the field setFromObject is about to   *)
(* look at, and so is the bound of a draw of the application's.            *)
Settings ==
    /\ retryBase > 0 \/ At("application", "checkBase")
    /\ retryMax > 0 \/ At("application", "checkMax")
    /\ task["application"].pc \in {"first", "second", "write", "return", "store", "use"}
         => task["application"].bound > 0

LEMMA SettingsStep ==
  TypeOK /\ Settings /\ BoundsPositive /\ [Next]_vars => Settings' /\ BoundsPositive'
<1> SUFFICES ASSUME TypeOK, Settings, BoundsPositive, [Next]_vars
             PROVE  Settings' /\ BoundsPositive'
  OBVIOUS
<1> DEFINE a == task["application"]
           drawing == {"first", "second", "write", "return", "store", "use"}
<1>0. /\ task \in [Thread -> Task] /\ "application" \in Thread /\ a \in Task
      /\ retryBase \in Int /\ retryMax \in Int
  BY DEF TypeOK, Thread
<1>1. CASE SetFromObject
  <2>1. period' = period
    BY <1>1 DEF SetFromObject, SetBase, CheckBase, SetMax, CheckMax
  <2>2. PICK pc \in {"idle", "checkBase", "setMax", "checkMax"} :
          task' = [task EXCEPT !["application"].pc = pc]
    BY <1>1 DEF SetFromObject, SetBase, CheckBase, SetMax, CheckMax, Goto
  <2>3. a'.pc = pc  BY <2>2, <1>0 DEF Task
  <2>4. CASE SetBase
    <3>1. a.pc = "idle" /\ a'.pc = "checkBase" /\ retryMax' = retryMax
      BY <2>4, <1>0 DEF SetBase, Goto, At, Task
    <3> QED  BY <2>1, <3>1 DEF Settings, BoundsPositive, At
  <2>5. CASE CheckBase
    <3>1. a.pc = "checkBase" /\ a'.pc = "setMax" /\ retryMax' = retryMax
      BY <2>5, <1>0 DEF CheckBase, Goto, At, Task
    <3>2. retryBase' > 0  BY <2>5, <1>0, SettingAssumption DEF CheckBase, Valid
    <3> QED  BY <2>1, <3>1, <3>2 DEF Settings, BoundsPositive, At
  <2>6. CASE SetMax
    <3>1. a.pc = "setMax" /\ a'.pc = "checkMax" /\ retryBase' = retryBase
      BY <2>6, <1>0 DEF SetMax, Goto, At, Task
    <3> QED  BY <2>1, <3>1 DEF Settings, BoundsPositive, At
  <2>7. CASE CheckMax
    <3>1. a.pc = "checkMax" /\ a'.pc = "idle" /\ retryBase' = retryBase
      BY <2>7, <1>0 DEF CheckMax, Goto, At, Task
    <3>2. retryMax' > 0  BY <2>7, <1>0, SettingAssumption DEF CheckMax, Valid
    <3> QED  BY <2>1, <3>1, <3>2 DEF Settings, BoundsPositive, At
  <2> QED  BY <1>1, <2>4, <2>5, <2>6, <2>7 DEF SetFromObject
<1>2. ASSUME NEW c \in Thread, NEW power \in Power, Compute(c, power)
      PROVE  Settings' /\ BoundsPositive'
  <2>1. /\ task' = [task EXCEPT ![c] = [@ EXCEPT !.pc = "first", !.bound = Bound(power)]]
        /\ retryBase' = retryBase /\ retryMax' = retryMax /\ period' = period
        /\ task[c].pc = "idle"
    BY <1>2 DEF Compute, At
  <2>2. CASE c = "application"
    <3>1. retryBase > 0 /\ retryMax > 0  BY <2>1, <2>2 DEF Settings, At
    <3>2. power \in Nat /\ power >= 1  BY SettingAssumption
    <3>3. retryBase * power > 0
      <4>1. retryBase \in Nat /\ 1 <= retryBase  BY <1>0, <3>1
      <4>2. power * 1 <= power * retryBase  BY <3>2, <4>1, TimesMonotone
      <4>3. power * retryBase = retryBase * power  BY <3>2, <4>1
      <4>4. power * 1 = power  BY <3>2
      <4>5. power <= retryBase * power /\ retryBase * power \in Int
        BY <1>0, <3>2, <4>2, <4>3, <4>4
      <4> HIDE DEF drawing
      <4> QED  BY <3>2, <4>5
    <3>4. Bound(power) > 0  BY <3>1, <3>3 DEF Bound
    <3>5. a'.pc = "first" /\ a'.bound = Bound(power)  BY <2>1, <2>2, <1>0 DEF Task
    <3> QED  BY <2>1, <3>1, <3>4, <3>5 DEF Settings, BoundsPositive, At
  <2>3. CASE c # "application"
    <3>1. a' = a  BY <2>1, <2>3, <1>0
    <3> QED  BY <2>1, <3>1 DEF Settings, BoundsPositive, At
  <2> QED  BY <2>2, <2>3
<1>3. ASSUME NEW c \in Thread, GetNextFloat(c), ~Use(c)
      PROVE  Settings' /\ BoundsPositive'
  <2>1. retryBase' = retryBase /\ retryMax' = retryMax /\ period' = period
    BY <1>3 DEF GetNextFloat, Generate, First, Second, Write, Return, Store
  <2>2. CASE c = "application"
    <3>1. a.pc \in drawing /\ a'.pc \in drawing /\ a'.bound = a.bound
      <4>1. CASE First(c)  BY <4>1, <2>2, <1>0 DEF First, At, Task
      <4>2. CASE Second(c)  BY <4>2, <2>2, <1>0 DEF Second, At, Task
      <4>3. CASE Write(c)  BY <4>3, <2>2, <1>0 DEF Write, At, Idle
      <4>4. CASE Return(c)  BY <4>4, <2>2, <1>0 DEF Return, At, Task
      <4>5. CASE Store(c)  BY <4>5, <2>2, <1>0 DEF Store, At, Task
      <4> QED  BY <1>3, <4>1, <4>2, <4>3, <4>4, <4>5 DEF GetNextFloat, Generate
    <3> QED  BY <2>1, <3>1 DEF Settings, BoundsPositive, At
  <2>3. CASE c # "application"
    <3>1. a' = a
      BY <1>3, <2>3, <1>0 DEF GetNextFloat, Generate, First, Second, Write, Return, Store
    <3> QED  BY <2>1, <3>1 DEF Settings, BoundsPositive, At
  <2> QED  BY <2>2, <2>3
<1>4. ASSUME NEW c \in Thread, Use(c) PROVE Settings' /\ BoundsPositive'
  <2>1. /\ task' = [task EXCEPT ![c] = Idle] /\ task[c].pc = "use"
        /\ retryBase' = retryBase /\ retryMax' = retryMax
        /\ period'.drawnBy = c /\ period'.bound = task[c].bound
    BY <1>4 DEF Use, At
  <2>2. CASE c = "application"
    <3>1. a'.pc = "idle" /\ task[c].bound > 0
      BY <2>1, <2>2, <1>0 DEF Idle, Settings
    <3> QED  BY <2>1, <2>2, <3>1 DEF Settings, BoundsPositive, At
  <2>3. CASE c # "application"
    <3>1. a' = a  BY <2>1, <2>3, <1>0
    <3> QED  BY <2>1, <2>3, <3>1 DEF Settings, BoundsPositive, At
  <2> QED  BY <2>2, <2>3
<1>5. CASE UNCHANGED vars  BY <1>5 DEF vars, Settings, BoundsPositive, At
<1> QED  BY <1>1, <1>2, <1>3, <1>4, <1>5 DEF Next, GetNextFloat

(* The application never draws a period from a bound of zero or less,      *)
(* whatever settings the server sends.                                     *)
THEOREM BoundsStayPositive == Spec => []BoundsPositive
<1>1. Init => Settings /\ BoundsPositive
  BY SettingAssumption DEF Init, Settings, BoundsPositive, At, Idle, Thread
<1> QED  BY <1>1, TypeCorrect, SettingsStep, PTL DEF Spec
=============================================================================
