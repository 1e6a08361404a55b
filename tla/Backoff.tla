-------------------------------- MODULE Backoff --------------------------------
(***************************************************************************)
(* GSClientConfig: the retry settings the server sends and the random      *)
(* periods ComputeSleepPeriod draws from them.                             *)
(*                                                                         *)
(* The singleton has no lock.  The application's thread sets it (Handshake *)
(* and Initialise) and draws from it (reconnects, durable retries, the     *)
(* reliable connection of a session), while the UDP thread of every        *)
(* session draws from it in FastConnection::DoLogin.  What a thread reads  *)
(* and writes of the shared fields is a step of its own here; the compiler *)
(* may join steps, which leaves fewer interleavings.                       *)
(*                                                                         *)
(* The generator is Lehmer's x := A * x % M, computed by Schrage's method  *)
(* in unsigned arithmetic modulo W: A = 48271, M = 2^31 - 1, W = 2^32.  A  *)
(* period is bound * Fraction / (M - 1) seconds; the rounding of floats is *)
(* left out.                                                               *)
(***************************************************************************)
EXTENDS Integers

CONSTANTS
    Udp,            \* the UDP threads
    A, M, W,        \* the multiplier, the modulus, the unsigned integers
    DefaultBase,    \* DEFAULT_RETRY_BASE
    DefaultMax,     \* DEFAULT_RETRY_MAX
    Setting,        \* the values the server may send for either
    Power           \* the values of pow(2, attempt)

Quotient == M \div A
Remainder == M % A

(* What Schrage's method needs, and the room the unsigned integers leave.  *)
ASSUME GeneratorAssumption ==
    /\ A \in Nat \ {0} /\ M \in Nat /\ W \in Nat
    /\ 1 < M /\ 2 * M <= W
    /\ Remainder < Quotient
    /\ M + Remainder * ((W - 1) \div Quotient) <= W
(* M is prime and does not divide A.                                       *)
ASSUME PrimeAssumption == \A y \in 1..(M - 1) : (A * y) % M # 0
ASSUME SettingAssumption ==
    /\ DefaultBase \in Nat \ {0} /\ DefaultMax \in Nat \ {0}
    /\ Setting \subseteq Int /\ Power \subseteq Nat \ {0}
ASSUME ThreadAssumption == "application" \notin Udp

VARIABLES
    x,          \* the state of the generator
    retryBase, retryMax,
    task,       \* what each thread is at in GSClientConfig
    period,     \* the last period drawn
    seed,       \* what clock() was when the singleton was built
    raced       \* whether x was computed from two different states

vars == <<x, retryBase, retryMax, task, period, seed, raced>>

Thread == {"application"} \cup Udp

Unsigned == 0..(W - 1)

(* In generate(): s, t and the state they are computed from; in setFromObject: *)
(* the field that is set next or checked next.                             *)
Task == [pc : {"idle", "first", "second", "write", "return", "store", "use",
               "checkBase", "setMax", "checkMax"},
         bound : Int, s : Unsigned, t : Unsigned, from : Unsigned, torn : BOOLEAN]

Idle == [pc |-> "idle", bound |-> 0, s |-> 0, t |-> 0, from |-> 0, torn |-> FALSE]

Period == [drawnBy : Thread, bound : Int, fraction : Unsigned]

At(c, pc) == task[c].pc = pc

Init ==
    /\ x \in Unsigned /\ seed = x
    /\ retryBase = DefaultBase /\ retryMax = DefaultMax
    /\ task = [c \in Thread |-> Idle]
    /\ period = [drawnBy |-> "application", bound |-> DefaultBase, fraction |-> 0]
    /\ raced = FALSE

-----------------------------------------------------------------------------
(* setFromObject: every field is assigned what the server sent, and then   *)
(* looked at.                                                              *)

Valid(value, default) == IF value <= 0 THEN default ELSE value

Goto(pc) == [task EXCEPT !["application"].pc = pc]

SetBase ==
    /\ At("application", "idle")
    /\ \E v \in Setting \cup {DefaultBase} : retryBase' = v
    /\ task' = Goto("checkBase")
    /\ UNCHANGED <<x, retryMax, period, seed, raced>>

CheckBase ==
    /\ At("application", "checkBase")
    /\ retryBase' = Valid(retryBase, DefaultBase)
    /\ task' = Goto("setMax")
    /\ UNCHANGED <<x, retryMax, period, seed, raced>>

SetMax ==
    /\ At("application", "setMax")
    /\ \E v \in Setting \cup {DefaultMax} : retryMax' = v
    /\ task' = Goto("checkMax")
    /\ UNCHANGED <<x, retryBase, period, seed, raced>>

CheckMax ==
    /\ At("application", "checkMax")
    /\ retryMax' = Valid(retryMax, DefaultMax)
    /\ task' = Goto("idle")
    /\ UNCHANGED <<x, retryBase, period, seed, raced>>

-----------------------------------------------------------------------------
(* ComputeSleepPeriod                                                      *)

Bound(power) ==
    IF retryBase * power < retryMax THEN retryBase * power ELSE retryMax

Compute(c, power) ==
    /\ At(c, "idle")
    /\ task' = [task EXCEPT ![c].pc = "first", ![c].bound = Bound(power)]
    /\ UNCHANGED <<x, retryBase, retryMax, period, seed, raced>>

(* Mutant: the quotient and the remainder of y are swapped.                *)
High_Swapped(y) == (Remainder * (y % Quotient)) % W

(* Schrage's two products.                                                 *)
Low(y) == (A * (y % Quotient)) % W
High(y) == (Remainder * (y \div Quotient)) % W

(* Mutants: a difference is not wrapped; a negative one is cut off.        *)
Combined_Signed(s, t, y) ==
    s + (IF s < t THEN M ELSE 0) - t - (IF y >= M THEN M ELSE 0)
Combined_Floored(s, t, y) ==
    (IF s < t THEN 0 ELSE s - t - (IF y >= M THEN M ELSE 0)) % W

(* s + (s < t) * m - t - (x >= m) * m.  Whichever state x >= m looks at:   *)
(* all are on the same side of m.                                          *)
Combined(s, t, y) ==
    (s + (IF s < t THEN M ELSE 0) - t - (IF y >= M THEN M ELSE 0)) % W

First(c) ==
    /\ At(c, "first")
    /\ task' = [task EXCEPT ![c].pc = "second", ![c].s = Low(x), ![c].from = x]
    /\ UNCHANGED <<x, retryBase, retryMax, period, seed, raced>>

Second(c) ==
    /\ At(c, "second")
    /\ task' = [task EXCEPT ![c].pc = "write", ![c].t = High(x),
                            ![c].torn = (x # task[c].from)]
    /\ UNCHANGED <<x, retryBase, retryMax, period, seed, raced>>

Write(c) ==
    /\ At(c, "write")
    /\ x' = Combined(task[c].s, task[c].t, x)
    /\ raced' = (raced \/ task[c].torn)
    /\ task' = [task EXCEPT ![c] = [Idle EXCEPT !.pc = "return", !.bound = task[c].bound]]
    /\ UNCHANGED <<retryBase, retryMax, period, seed>>

(* generate returns x, getNextFloat assigns it once more and reads it.     *)
Return(c) ==
    /\ At(c, "return")
    /\ task' = [task EXCEPT ![c].pc = "store", ![c].s = x]
    /\ UNCHANGED <<x, retryBase, retryMax, period, seed, raced>>

Store(c) ==
    /\ At(c, "store")
    /\ x' = task[c].s
    /\ task' = [task EXCEPT ![c].pc = "use", ![c].s = 0]
    /\ UNCHANGED <<retryBase, retryMax, period, seed, raced>>

(* x - rmin, unsigned.                                                     *)
Fraction(y) == (y - 1) % W

Use(c) ==
    /\ At(c, "use")
    /\ period' = [drawnBy |-> c, bound |-> task[c].bound, fraction |-> Fraction(x)]
    /\ task' = [task EXCEPT ![c] = Idle]
    /\ UNCHANGED <<x, retryBase, retryMax, seed, raced>>

-----------------------------------------------------------------------------
SetFromObject == SetBase \/ CheckBase \/ SetMax \/ CheckMax

Generate(c) == First(c) \/ Second(c) \/ Write(c) \/ Return(c)

GetNextFloat(c) == Generate(c) \/ Store(c) \/ Use(c)

Next ==
    \/ SetFromObject
    \/ \E c \in Thread : \/ \E power \in Power : Compute(c, power)
                         \/ GetNextFloat(c)

Spec == Init /\ [][Next]_vars

-----------------------------------------------------------------------------
(* Type correctness of the generator, the settings and the threads.        *)
TypeOK ==
    /\ x \in Unsigned /\ seed \in Unsigned
    /\ retryBase \in Int /\ retryMax \in Int
    /\ task \in [Thread -> Task]
    /\ period \in Period
    /\ raced \in BOOLEAN

(* No interleaving of the threads that share the unlocked generator brings *)
(* it over to the other side of M: a proper state never becomes an         *)
(* improper one, and a generator seeded with M or more never becomes a     *)
(* proper one again (GSClientConfig.h:137).                                *)
SidesKept == (x < M) <=> (seed < M)

(* A state that a thread computes from one state of the generator is       *)
(* Lehmer's successor of it, whatever the other threads write meanwhile    *)
(* (GSClientConfig.h:131-139).                                             *)
Successor ==
    [][\A c \in Thread :
         Write(c) /\ ~task[c].torn /\ seed < M => x' = (A * task[c].from) % M]_vars

(* The generator is stuck at zero only if it was seeded with it, or if a   *)
(* thread has multiplied the two halves of different states.               *)
ZeroOnlyByRace == x = 0 => seed = 0 \/ raced

(* With a proper seed and no torn state, no thread ever waits for as long  *)
(* as its bound, the exponential back-off or retryMax, says.               *)
PeriodsProper ==
    seed \in 1..(M - 1) /\ ~raced
      => period.fraction < M - 1

(* The application itself never draws a period of no length at all, a UDP  *)
(* thread only while setFromObject holds an unchecked value or has just    *)
(* done so.                                                                *)
BoundsPositive == period.drawnBy = "application" => period.bound > 0
=============================================================================
