---------------------------- MODULE RTStream_proofs ----------------------------
(***************************************************************************)
(* Proofs about RTStream, for any bytes that a server may send: what the   *)
(* functions that read them take from a stream, what they call and what    *)
(* they are left with.                                                     *)
(***************************************************************************)
EXTENDS RTStream, SequenceTheorems, TLAPS

-----------------------------------------------------------------------------
(* What the functions of the codec return                                  *)

(* Where a stream may be: not past what has come, unless it can seek.      *)
Position == {q \in Nat : datagram \/ q <= arrived}

(* A call that comes to a value comes to one of T, and to such a position. *)
Yields(call, T) == \A r \in call : r.is = "ok" => r.v \in T /\ r.at \in Position

(* The input, of which the reading functions read.                         *)
Bytes == wire \in Seq(Byte) /\ arrived \in 0..Len(wire) /\ datagram \in BOOLEAN

(* A byte that is read is a byte, and one that has come.                   *)
LEMMA ByteRead ==
    ASSUME Bytes, NEW p \in Nat, NEW end \in Nat
    PROVE  Yields(ReadByte(p, end), Byte)
<1> SUFFICES ASSUME NEW r \in ReadByte(p, end), r.is = "ok"
             PROVE  r.v \in Byte /\ r.at \in Position
  BY DEF Yields
<1>1. ~(p >= end) /\ p < arrived
  BY DEF ReadByte, AtEnd, NoByte, Failed, Blocked
<1>2. r = [is |-> "ok", v |-> wire[p + 1], at |-> p + 1]
  BY <1>1 DEF ReadByte, Ok
<1>3. p + 1 \in 1..Len(wire)
  BY <1>1 DEF Bytes
<1> QED
  BY <1>1, <1>2, <1>3 DEF Bytes, Position

(* The groups of a varint that has come make a natural number.             *)
LEMMA NumberIsNat ==
    ASSUME Bytes, NEW p \in Nat, NEW at \in Nat, at <= arrived
    PROVE  Number(p, at) \in Nat
<1>1. ASSUME NEW q \in Nat PROVE Group(q, at) \in Nat
  <2>1. CASE q < at
    <3>1. q + 1 \in 1..Len(wire)
      BY <2>1 DEF Bytes
    <3>2. wire[q + 1] \in Byte
      BY <3>1 DEF Bytes
    <3>3. wire[q + 1] % 128 \in Nat
      BY <3>2 DEF Byte
    <3> QED
      BY <2>1, <3>3 DEF Group
  <2>2. CASE ~(q < at)
    BY <2>2 DEF Group
  <2> QED
    BY <2>1, <2>2
<1>2. /\ Group(p, at) \in Nat /\ Group(p + 1, at) \in Nat /\ Group(p + 2, at) \in Nat
      /\ Group(p + 3, at) \in Nat /\ Group(p + 4, at) \in Nat
  BY <1>1
<1> QED
  BY <1>2 DEF Number

(* A varint takes at least one byte, and none that has not come.           *)
LEMMA VarIntSkipped ==
    ASSUME Bytes, NEW p \in Nat, NEW end \in Nat
    PROVE  \A r \in ReadSkipVarInt(p, end) : r.is = "ok" => r.at \in p + 1..arrived
<1>1. CASE LastByte(p, end) # {}
  <2> DEFINE q == CHOOSE q \in LastByte(p, end) : TRUE
  <2>1. q \in LastByte(p, end)
    BY <1>1
  <2>2. q \in p..(arrived - 1)
    BY <2>1 DEF LastByte
  <2>3. ReadSkipVarInt(p, end) = Ok(0, 1 + q)
    BY <1>1 DEF ReadSkipVarInt
  <2> HIDE DEF q
  <2> QED
    BY <2>2, <2>3 DEF Ok, Bytes
<1>2. CASE LastByte(p, end) = {}
  BY <1>2 DEF ReadSkipVarInt, AtEnd, NoByte, Failed, Blocked
<1> QED
  BY <1>1, <1>2

(* A varint becomes a natural number, and takes bytes that have come.      *)
LEMMA UIntAt ==
    ASSUME Bytes, NEW p \in Nat, NEW end \in Nat, NEW width \in {32, 64}
    PROVE  \A r \in ReadUInt(width, p, end) :
             r.is = "ok" => r.v \in Nat /\ r.at \in Nat /\ r.at <= arrived
<1> SUFFICES ASSUME NEW r \in ReadUInt(width, p, end), r.is = "ok"
             PROVE  r.v \in Nat /\ r.at \in Nat /\ r.at <= arrived
  OBVIOUS
<1>1. PICK s \in ReadSkipVarInt(p, end) :
        r \in IF s.is = "ok" THEN Ok(Number(p, s.at), s.at) ELSE {s}
  BY DEF ReadUInt, Then, Failed
<1>2. s.is = "ok" /\ r = [is |-> "ok", v |-> Number(p, s.at), at |-> s.at]
  BY <1>1 DEF Ok
<1>3. s.at \in p + 1..arrived
  BY <1>2, VarIntSkipped
<1>4. s.at \in Nat /\ s.at <= arrived
  BY <1>3 DEF Bytes
<1> QED
  BY <1>2, <1>4, NumberIsNat

(* The same, as the functions that read a varint need it.                  *)
LEMMA UIntRead ==
    ASSUME Bytes, NEW p \in Nat, NEW end \in Nat, NEW width \in {32, 64}
    PROVE  Yields(ReadUInt(width, p, end), Nat)
BY UIntAt DEF Yields, Position

(* Of bytes, as many as were asked for are read, or none.                  *)
LEMMA BytesRead ==
    ASSUME Bytes, NEW n \in Nat, NEW p \in Nat, NEW end \in Nat
    PROVE  Yields(ReadBytes(n, p, end), {b \in Seq(Byte) : Len(b) = n})
<1> SUFFICES ASSUME NEW r \in ReadBytes(n, p, end), r.is = "ok"
             PROVE  r.v \in {b \in Seq(Byte) : Len(b) = n} /\ r.at \in Position
  BY DEF Yields
<1>1. ~(p + n > end) /\ p + n <= arrived
  BY DEF ReadBytes, Failed, NoByte, AtEnd, Blocked
<1>2. r = [is |-> "ok", v |-> SubSeq(wire, p + 1, p + n), at |-> p + n]
  BY <1>1 DEF ReadBytes, Ok
<1>3. p + n <= Len(wire)
  BY <1>1 DEF Bytes
<1>4. SubSeq(wire, p + 1, p + n) \in Seq(Byte) /\ Len(SubSeq(wire, p + 1, p + n)) = n
  BY <1>3 DEF Bytes
<1> QED
  BY <1>1, <1>2, <1>4 DEF Position

(* A zigzag number is an integer.                                          *)
LEMMA ZIntRead ==
    ASSUME Bytes, NEW p \in Nat, NEW width \in {32, 64}
    PROVE  Yields(ReadZInt(width, p), Int)
<1> SUFFICES ASSUME NEW r \in ReadZInt(width, p), r.is = "ok"
             PROVE  r.v \in Int /\ r.at \in Position
  BY DEF Yields
<1>1. PICK s \in ReadUInt(width, p, Unlimited) :
        r \in IF s.is = "ok"
              THEN Ok(IF s.v % 2 = 0 THEN s.v \div 2 ELSE -((s.v + 1) \div 2), s.at)
              ELSE {s}
  BY DEF ReadZInt, Then
<1>2. s.is = "ok"
  BY <1>1
<1>3. s.v \in Nat /\ s.at \in Position
  BY <1>2, UIntRead DEF Yields, Unlimited
<1>4. /\ r.v = IF s.v % 2 = 0 THEN s.v \div 2 ELSE -((s.v + 1) \div 2)
      /\ r.at = s.at
  BY <1>1, <1>2 DEF Ok
<1> QED
  BY <1>3, <1>4

(* A boolean is one, whatever byte it is read from.                        *)
LEMMA BoolRead ==
    ASSUME Bytes, NEW p \in Nat, NEW end \in Nat
    PROVE  Yields(ReadBool(p, end), BOOLEAN)
<1> SUFFICES ASSUME NEW r \in ReadBool(p, end), r.is = "ok"
             PROVE  r.v \in BOOLEAN /\ r.at \in Position
  BY DEF Yields
<1>1. PICK s \in ReadByte(p, end) :
        r \in IF s.is = "ok"
              THEN IF s.v \in {0, 1} THEN Ok(s.v = 1, s.at) ELSE Failed
              ELSE {s}
  BY DEF ReadBool, Then
<1>2. s.is = "ok" /\ r \in Ok(s.v = 1, s.at)
  BY <1>1 DEF Failed
<1>3. s.at \in Position
  BY <1>2, ByteRead DEF Yields
<1>4. r = [is |-> "ok", v |-> (s.v = 1), at |-> s.at]
  BY <1>2, Zenon DEF Ok
<1>5. r.v = (s.v = 1) /\ r.at = s.at
  BY <1>4, Zenon
<1> QED
  BY <1>3, <1>5, Zenon

(* A string is a sequence of bytes.                                        *)
LEMMA StringRead ==
    ASSUME Bytes, NEW p \in Nat, NEW end \in Nat
    PROVE  Yields(ReadString(p, end), Seq(Byte))
<1> SUFFICES ASSUME NEW r \in ReadString(p, end), r.is = "ok"
             PROVE  r.v \in Seq(Byte) /\ r.at \in Position
  BY DEF Yields
<1>1. PICK s \in ReadUInt(32, p, end) :
        r \in IF s.is = "ok" THEN ReadBytes(s.v, s.at, end) ELSE {s}
  BY DEF ReadString, Then, ReadUInt32
<1>2. s.is = "ok" /\ r \in ReadBytes(s.v, s.at, end)
  BY <1>1
<1>3. s.v \in Nat /\ s.at \in Nat
  BY <1>2, UIntRead DEF Yields, Position
<1> QED
  BY <1>2, <1>3, BytesRead DEF Yields

(* A key has a field and a wire type.                                      *)
LEMMA KeyRead ==
    ASSUME Bytes, NEW b \in Byte, NEW p \in Position, NEW end \in Nat
    PROVE  Yields(ReadKey(b, p, end), Nat \X Nat)
<1> SUFFICES ASSUME NEW r \in ReadKey(b, p, end), r.is = "ok"
             PROVE  r.v \in Nat \X Nat /\ r.at \in Position
  BY DEF Yields
<1>1. b \div 8 \in Nat /\ b % 8 \in Nat /\ (b \div 8) % 16 \in Nat
  BY DEF Byte
<1>2. CASE b < 128
  <2>1. r.v = <<b \div 8, b % 8>> /\ r.at = p
    BY <1>2 DEF ReadKey, Ok, Then
  <2> QED
    BY <1>1, <2>1
<1>3. CASE ~(b < 128)
  <2>1. PICK s \in ReadUInt(32, p, end) :
          r \in IF s.is = "ok" THEN Ok(<<16 * s.v + ((b \div 8) % 16), b % 8>>, s.at)
                ELSE {s}
    BY <1>3 DEF ReadKey, Then, ReadUInt32
  <2>2. s.is = "ok"
    BY <2>1
  <2>3. s.v \in Nat /\ s.at \in Position
    BY <2>2, UIntRead DEF Yields, Position
  <2>4. r.v = <<16 * s.v + ((b \div 8) % 16), b % 8>> /\ r.at = s.at
    BY <2>1, <2>2 DEF Ok
  <2>5. 16 * s.v + ((b \div 8) % 16) \in Nat
    BY <1>1, <2>3
  <2> QED
    BY <1>1, <2>3, <2>4, <2>5
<1> QED
  BY <1>2, <1>3

(* Seek stays within what has come, on a stream that cannot seek.          *)
LEMMA Sought ==
    ASSUME Bytes, NEW n \in Nat, NEW p \in Nat, NEW end \in Nat
    PROVE  \A r \in Seek(n, p, end) : r.is = "ok" => r.at \in Position
BY DEF Seek, Ok, Failed, Position

(* A field that is skipped was there.                                      *)
LEMMA KeySkipped ==
    ASSUME Bytes, NEW wireType, NEW p \in Nat, NEW end \in Nat
    PROVE  \A r \in SkipKey(wireType, p, end) : r.is = "ok" => r.at \in Position
<1> SUFFICES ASSUME NEW r \in SkipKey(wireType, p, end), r.is = "ok"
             PROVE  r.at \in Position
  OBVIOUS
<1>1. CASE wireType = 0
  <2>1. r.at \in p + 1..arrived
    BY <1>1, VarIntSkipped DEF SkipKey
  <2> QED
    BY <2>1 DEF Position, Bytes
<1>2. CASE wireType = 1
  BY <1>2, Sought DEF SkipKey
<1>3. CASE wireType = 2
  <2>1. PICK s \in ReadUInt(32, p, end) :
          r \in IF s.is = "ok" THEN Seek(s.v, s.at, end) ELSE {s}
    BY <1>3 DEF SkipKey, Then, ReadUInt32
  <2>2. s.is = "ok"
    BY <2>1
  <2>3. s.v \in Nat /\ s.at \in Nat
    BY <2>2, UIntRead DEF Yields, Position
  <2> QED
    BY <2>1, <2>2, <2>3, Sought
<1>4. CASE wireType = 5
  BY <1>4, Sought DEF SkipKey
<1>5. CASE wireType \notin {0, 1, 2, 5}
  <2>1. wireType # 0 /\ wireType # 1 /\ wireType # 2 /\ wireType # 5
    BY <1>5
  <2> QED
    BY <2>1 DEF SkipKey, Failed, Then
<1> QED
  BY <1>1, <1>2, <1>3, <1>4, <1>5

(* The same, from the first byte of its key.                               *)
LEMMA FieldSkipped ==
    ASSUME Bytes, NEW b \in Byte, NEW p \in Position, NEW end \in Nat
    PROVE  \A r \in SkipField(b, p, end) : r.is = "ok" => r.at \in Position
<1> SUFFICES ASSUME NEW r \in SkipField(b, p, end), r.is = "ok"
             PROVE  r.at \in Position
  OBVIOUS
<1>1. PICK s \in ReadKey(b, p, end) :
        r \in IF s.is = "ok"
              THEN IF s.v[1] = 0 THEN Failed ELSE SkipKey(s.v[2], s.at, end)
              ELSE {s}
  BY DEF SkipField, Then
<1>2. s.is = "ok" /\ r \in SkipKey(s.v[2], s.at, end)
  BY <1>1 DEF Failed
<1>3. s.at \in Nat
  BY <1>2, KeyRead DEF Yields, Position
<1> QED
  BY <1>2, <1>3, KeySkipped

-----------------------------------------------------------------------------
(* Stacks of calls                                                         *)

(* A sequence, of whatever it holds.                                       *)
IsSequence(s) == s \in Seq({s[i] : i \in 1..Len(s)})

(* A sequence of elements of a set is one.                                 *)
LEMMA SequenceOf ==
    ASSUME NEW S, NEW s \in Seq(S)
    PROVE  IsSequence(s)
<1>1. PICK n \in Nat : s \in [1..n -> S]
  BY SeqDef
<1>2. Len(s) = n /\ DOMAIN s = 1..n
  BY <1>1, LenProperties
<1>3. s \in [1..n -> {s[i] : i \in 1..n}]
  BY <1>1
<1> QED
  BY <1>2, <1>3, SeqDef DEF IsSequence

(* What appending does to a sequence.                                      *)
LEMMA Appended ==
    ASSUME NEW s, IsSequence(s), NEW x
    PROVE  /\ IsSequence(Append(s, x)) /\ Len(Append(s, x)) = Len(s) + 1 /\ Len(s) \in Nat
           /\ Append(s, x)[Len(s) + 1] = x
           /\ \A i \in 1..Len(s) : Append(s, x)[i] = s[i]
           /\ s # <<>> => Len(s) > 0
<1> DEFINE S == {s[i] : i \in 1..Len(s)} \cup {x}
<1>1. s \in Seq(S)
  <2>1. PICK n \in Nat : s \in [1..n -> {s[i] : i \in 1..Len(s)}]
    BY SeqDef DEF IsSequence
  <2>2. s \in [1..n -> S]
    BY <2>1
  <2> QED
    BY <2>2, SeqDef
<1>2. x \in S
  OBVIOUS
<1> HIDE DEF S
<1>3. /\ Append(s, x) \in Seq(S) /\ Len(Append(s, x)) = Len(s) + 1 /\ Len(s) \in Nat
      /\ Append(s, x)[Len(s) + 1] = x
      /\ \A i \in 1..Len(s) : Append(s, x)[i] = s[i]
  BY <1>1, <1>2, AppendProperties, LenProperties
<1>4. s # <<>> => Len(s) > 0
  BY <1>1, <1>3, EmptySeq
<1> QED
  BY <1>3, <1>4, SequenceOf

(* What taking the last element away does to a sequence.                   *)
LEMMA Shortened ==
    ASSUME NEW s, IsSequence(s), s # <<>>
    PROVE  /\ IsSequence(Front(s)) /\ Len(s) \in Nat \ {0} /\ Len(Front(s)) = Len(s) - 1
           /\ Last(s) = s[Len(s)]
           /\ \A i \in 1..Len(s) - 1 : Front(s)[i] = s[i]
<1> DEFINE S == {s[i] : i \in 1..Len(s)}
<1>1. s \in Seq(S)
  BY DEF IsSequence
<1> HIDE DEF S
<1>2. Len(s) \in Nat \ {0}
  BY <1>1, EmptySeq, LenProperties
<1>3. /\ Front(s) \in Seq(S) /\ Len(Front(s)) = Len(s) - 1
      /\ \A i \in 1..Len(s) - 1 : Front(s)[i] = s[i]
  <2>1. Len(s) - 1 \in Int /\ \A i \in 1..Len(s) - 1 : s[i] \in S
    BY <1>1, <1>2
  <2>2. /\ SubSeq(s, 1, Len(s) - 1) \in Seq(S)
        /\ Len(SubSeq(s, 1, Len(s) - 1)) = IF 1 <= Len(s) - 1 THEN Len(s) - 1 - 1 + 1 ELSE 0
        /\ \A i \in 1..Len(s) - 1 - 1 + 1 : SubSeq(s, 1, Len(s) - 1)[i] = s[1 + i - 1]
    BY <2>1, SubSeqProperties
  <2>3. Len(s) - 1 - 1 + 1 = Len(s) - 1 /\ \A i \in 1..Len(s) - 1 : 1 + i - 1 = i
    BY <1>2
  <2> QED
    BY <1>2, <2>2, <2>3 DEF Front
<1> QED
  BY <1>1, <1>2, <1>3, SequenceOf DEF Last

(* The stack: the innermost function was called by the one below it.       *)
StackOK(s) ==
    /\ IsSequence(s)
    /\ \A i \in 1..Len(s) :
         /\ DOMAIN s[i] = {"in", "slot", "limit", "read"} /\ s[i].limit \in Nat
         /\ s[i].in = "result" => IsSequence(s[i].read)
         /\ IF i = 1 THEN s[1].in = "packet" /\ IsPacket(s[1].read)
            ELSE CalledBy(s[i], s[i - 1])

(* What the frame f may have read.                                         *)
MayRead(f, read) ==
    \/ f.in = "packet" /\ IsPacket(read)
    \/ f.in = "data" /\ IsData(read)
    \/ f.in = "value" /\ IsValue(read)
    \/ f.in = "result" /\ IsSequence(read) /\ AreFields(f.slot, read)

(* A function is called by one that calls it.                              *)
LEMMA StackGrown ==
    ASSUME NEW s, StackOK(s), NEW f,
           DOMAIN f = {"in", "slot", "limit", "read"}, f.limit \in Nat,
           f.in = "result" => IsSequence(f.read),
           IF s = <<>> THEN f.in = "packet" /\ IsPacket(f.read)
                       ELSE CalledBy(f, s[Len(s)])
    PROVE  StackOK(Append(s, f))
<1> DEFINE t == Append(s, f)
<1>1. /\ IsSequence(t) /\ Len(t) = Len(s) + 1 /\ Len(s) \in Nat /\ t[Len(s) + 1] = f
      /\ \A i \in 1..Len(s) : t[i] = s[i]
      /\ s # <<>> => Len(s) > 0
  BY Appended DEF StackOK
<1>2. s = <<>> => Len(s) = 0
  OBVIOUS
<1> HIDE DEF t
<1>3. ASSUME NEW i \in 1..Len(s)
      PROVE  /\ DOMAIN t[i] = {"in", "slot", "limit", "read"} /\ t[i].limit \in Nat
             /\ t[i].in = "result" => IsSequence(t[i].read)
             /\ IF i = 1 THEN t[1].in = "packet" /\ IsPacket(t[1].read)
                ELSE CalledBy(t[i], t[i - 1])
  <2>1. CASE i = 1
    <3>1. t[1] = s[1]
      BY <1>1, <2>1
    <3> QED
      BY <2>1, <3>1 DEF StackOK
  <2>2. CASE i # 1
    <3>1. t[i] = s[i] /\ t[i - 1] = s[i - 1]
      BY <1>1, <2>2
    <3> QED
      BY <2>2, <3>1 DEF StackOK
  <2> QED
    BY <2>1, <2>2
<1>4. LET i == Len(s) + 1 IN
      /\ DOMAIN t[i] = {"in", "slot", "limit", "read"} /\ t[i].limit \in Nat
      /\ t[i].in = "result" => IsSequence(t[i].read)
      /\ IF i = 1 THEN t[1].in = "packet" /\ IsPacket(t[1].read)
         ELSE CalledBy(t[i], t[i - 1])
  <2>1. CASE s = <<>>
    BY <1>1, <1>2, <2>1
  <2>2. CASE s # <<>>
    <3>1. Len(s) + 1 # 1 /\ (Len(s) + 1) - 1 = Len(s) /\ t[Len(s)] = s[Len(s)]
      BY <1>1, <2>2
    <3> QED
      BY <1>1, <2>2, <3>1
  <2> QED
    BY <2>1, <2>2
<1>5. \A i \in 1..Len(t) : i \in 1..Len(s) \/ i = Len(s) + 1
  BY <1>1
<1>6. StackOK(t)
  BY ONLY <1>1, <1>3, <1>4, <1>5 DEF StackOK
<1> QED
  BY <1>6 DEF t

(* The innermost function has ended.                                       *)
LEMMA StackShortened ==
    ASSUME NEW s, StackOK(s), s # <<>>
    PROVE  StackOK(Front(s))
<1> DEFINE t == Front(s)
<1>1. /\ IsSequence(t) /\ Len(s) \in Nat \ {0} /\ Len(t) = Len(s) - 1
      /\ \A i \in 1..Len(s) - 1 : t[i] = s[i]
  BY Shortened DEF StackOK
<1> HIDE DEF t
<1>2. ASSUME NEW i \in 1..Len(t)
      PROVE  /\ DOMAIN t[i] = {"in", "slot", "limit", "read"} /\ t[i].limit \in Nat
             /\ t[i].in = "result" => IsSequence(t[i].read)
             /\ IF i = 1 THEN t[1].in = "packet" /\ IsPacket(t[1].read)
                ELSE CalledBy(t[i], t[i - 1])
  <2>0. i \in 1..Len(s) /\ t[i] = s[i]
    BY <1>1
  <2>1. CASE i = 1
    BY <2>0, <2>1 DEF StackOK
  <2>2. CASE i # 1
    <3>1. t[i - 1] = s[i - 1]
      BY <1>1, <2>2
    <3> QED
      BY <2>0, <2>2, <3>1 DEF StackOK
  <2> QED
    BY <2>1, <2>2
<1>3. StackOK(t)
  BY <1>1, <1>2 DEF StackOK
<1> QED
  BY <1>3 DEF t

(* The innermost function has read something else.                         *)
LEMMA StackReplaced ==
    ASSUME NEW s, StackOK(s), s # <<>>, NEW read, MayRead(Last(s), read)
    PROVE  StackOK(Append(Front(s), [Last(s) EXCEPT !.read = read]))
<1> DEFINE t == Front(s)
           f == Last(s)
           g == [f EXCEPT !.read = read]
<1>1. /\ IsSequence(t) /\ Len(s) \in Nat \ {0} /\ Len(t) = Len(s) - 1
      /\ f = s[Len(s)] /\ \A i \in 1..Len(s) - 1 : t[i] = s[i]
      /\ t # <<>> => Len(t) > 0
  BY Shortened, Appended DEF StackOK
<1>2. StackOK(t)
  BY StackShortened
<1>3. DOMAIN f = {"in", "slot", "limit", "read"} /\ f.limit \in Nat
  BY <1>1 DEF StackOK
<1>4. /\ DOMAIN g = {"in", "slot", "limit", "read"}
      /\ g.in = f.in /\ g.slot = f.slot /\ g.limit = f.limit /\ g.read = read
  BY <1>3
<1>5. IF Len(s) = 1 THEN f.in = "packet" ELSE CalledBy(f, s[Len(s) - 1])
  <2>1. Len(s) \in 1..Len(s)
    BY <1>1
  <2>2. IF Len(s) = 1 THEN s[1].in = "packet" ELSE CalledBy(s[Len(s)], s[Len(s) - 1])
    BY <2>1 DEF StackOK
  <2>3. f = s[Len(s)]
    BY <1>1
  <2> HIDE DEF f
  <2> QED
    BY <2>2, <2>3
<1>6. MayRead(f, read)
  OBVIOUS
<1> HIDE DEF t, f, g
<1>7. IF t = <<>> THEN g.in = "packet" /\ IsPacket(g.read) ELSE CalledBy(g, t[Len(t)])
  <2>1. CASE t = <<>>
    <3>1. Len(s) = 1
      <4>1. Len(t) = 0
        BY <2>1
      <4> QED
        BY <1>1, <4>1
    <3> QED
      BY <1>4, <1>5, <1>6, <2>1, <3>1 DEF MayRead
  <2>2. CASE t # <<>>
    <3>1. Len(s) # 1 /\ t[Len(t)] = s[Len(s) - 1]
      BY <1>1, <2>2
    <3> QED
      BY <1>4, <1>5, <1>6, <2>2, <3>1 DEF MayRead, CalledBy
  <2> QED
    BY <2>1, <2>2
<1>8. g.in = "result" => IsSequence(g.read)
  BY <1>4, <1>6 DEF MayRead
<1>9. StackOK(Append(t, g))
  BY <1>2, <1>3, <1>4, <1>7, <1>8, StackGrown
<1> QED
  BY <1>9 DEF t, f, g

(* A call that comes to a value comes to a stack, and to such a position.  *)
Moves(call) == \A r \in call : r.is = "ok" => StackOK(r.v) /\ r.at \in Position

-----------------------------------------------------------------------------
(* What a function has read                                                *)

(* A slot of the data is set.                                              *)
LEMMA DataWith ==
    ASSUME NEW data, IsData(data), NEW i \in Slots, NEW v, IsValue(v)
    PROVE  IsData(With(data, i, v))
<1> DEFINE g == With(data, i, v)
<1>1. /\ DOMAIN g = {i} \cup DOMAIN data /\ g[i] = v
      /\ \A y \in DOMAIN data : y # i => g[y] = data[y]
  BY DEF With
<1> HIDE DEF g
<1>2. IsData(g)
  BY <1>1 DEF IsData
<1> QED
  BY <1>2 DEF g

(* A field of the packet is set.                                           *)
LEMMA PacketWith ==
    ASSUME NEW read, IsPacket(read),
           NEW x \in {"OpCode", "SequenceNumber", "RequestId", "Sender", "Reliable", "Command"},
           NEW v,
           x = "OpCode" => v \in Int, x = "Sender" => v \in Nat,
           x = "Reliable" => v \in BOOLEAN, x = "Command" => IsCommand(v)
    PROVE  IsPacket(With(read, x, v))
<1> DEFINE g == With(read, x, v)
<1>1. /\ DOMAIN g = {x} \cup DOMAIN read /\ g[x] = v
      /\ \A y \in DOMAIN read : y # x => g[y] = read[y]
  BY DEF With
<1> HIDE DEF g
<1>2. "Data" \in DOMAIN g /\ IsData(g.Data)
  BY <1>1 DEF IsPacket
<1>3. "OpCode" \in DOMAIN g => g.OpCode \in Int
  BY <1>1 DEF IsPacket
<1>4. "Sender" \in DOMAIN g => g.Sender \in Nat
  BY <1>1 DEF IsPacket
<1>5. "Reliable" \in DOMAIN g => g.Reliable \in BOOLEAN
  BY <1>1 DEF IsPacket
<1>6. "Command" \in DOMAIN g => IsCommand(g.Command)
  BY <1>1 DEF IsPacket
<1>7. IsPacket(g)
  BY <1>2, <1>3, <1>4, <1>5, <1>6 DEF IsPacket
<1> QED
  BY <1>7 DEF g

(* The data of the packet are set.                                         *)
LEMMA PacketData ==
    ASSUME NEW read, IsPacket(read), NEW data, IsData(data)
    PROVE  IsPacket([read EXCEPT !.Data = data])
<1> DEFINE g == [read EXCEPT !.Data = data]
<1>1. /\ DOMAIN g = DOMAIN read /\ g.Data = data
      /\ \A y \in DOMAIN read : y # "Data" => g[y] = read[y]
  BY DEF IsPacket
<1> HIDE DEF g
<1>2. IsPacket(g)
  BY <1>1 DEF IsPacket
<1> QED
  BY <1>2 DEF g

(* A command is made of a packet and of its payload, or of a result.       *)
LEMMA CommandMade ==
    ASSUME NEW read, IsPacket(read), NEW body,
           \/ OpCode(read) \notin Results /\ body[1] = "payload" /\ body[2] \in Seq(Byte)
           \/ body[1] = "payload" /\ body[2] = <<>>
           \/ body[1] = "fields" /\ AreFields(OpCode(read), body[2])
    PROVE  IsCommand(Command(read, body))
<1>1. OpCode(read) \in Int /\ Sender(read) \in Nat /\ IsData(read.Data)
  BY DEF IsPacket, OpCode, Sender
<1> DEFINE c == Command(read, body)
<1>2. c.op = OpCode(read) /\ c.sender = Sender(read) /\ c.data = read.Data /\ c.body = body
  BY DEF Command
<1> HIDE DEF c
<1>3. IsCommand(c)
  BY <1>1, <1>2 DEF IsCommand
<1> QED
  BY <1>3 DEF c

-----------------------------------------------------------------------------
(* The calls of the functions, one level after the other                   *)

(* A step that continues with a call.                                      *)
LEMMA Stepped ==
    ASSUME NEW call, Moves(call), Step(call), StackOK(stack), pos \in Position,
           alive \in BOOLEAN
    PROVE  StackOK(stack') /\ pos' \in Position /\ alive' \in BOOLEAN
BY DEF Step, Moves

(* A call leaves a function more on the stack, or fails.                   *)
LEMMA Called ==
    ASSUME Bytes, NEW in, NEW slot, NEW read, NEW callers, NEW p \in Nat,
           StackOK(callers), in = "result" => IsSequence(read),
           IF callers = <<>> THEN in = "packet" /\ IsPacket(read)
           ELSE LET caller == callers[Len(callers)] IN
                \/ in = "data" /\ caller.in \in {"packet", "value"} /\ IsData(read)
                \/ in = "value" /\ caller.in = "data" /\ slot \in Slots /\ IsValue(read)
                \/ /\ in = "result" /\ caller.in = "packet"
                   /\ slot = OpCode(caller.read) /\ AreFields(slot, read)
    PROVE  Moves(Call(in, slot, read, callers, p))
<1> SUFFICES ASSUME NEW r \in Call(in, slot, read, callers, p), r.is = "ok"
             PROVE  StackOK(r.v) /\ r.at \in Position
  BY DEF Moves
<1>1. PICK s \in ReadUInt(32, p, Unlimited) :
        r \in IF s.is = "ok"
              THEN Ok(Append(callers, [in |-> in, slot |-> slot, limit |-> s.at + s.v,
                                       read |-> read]), s.at)
              ELSE {s}
  BY DEF Call, Then, ReadUInt32
<1>2. s.is = "ok"
  BY <1>1
<1>3. s.v \in Nat /\ s.at \in Position /\ s.at + s.v \in Nat
  <2>1. s.v \in Nat /\ s.at \in Position
    BY <1>2, UIntRead DEF Yields, Unlimited
  <2> QED
    BY <2>1 DEF Position
<1> DEFINE f == [in |-> in, slot |-> slot, limit |-> s.at + s.v, read |-> read]
<1>4. r.v = Append(callers, f) /\ r.at = s.at
  BY <1>1, <1>2 DEF Ok
<1>5. /\ DOMAIN f = {"in", "slot", "limit", "read"} /\ f.limit = s.at + s.v
      /\ f.in = in /\ f.slot = slot /\ f.read = read
  OBVIOUS
<1> HIDE DEF f
<1>6. StackOK(Append(callers, f))
  <2>1. f.limit \in Nat /\ (f.in = "result" => IsSequence(f.read))
    BY <1>3, <1>5
  <2>2. IF callers = <<>> THEN f.in = "packet" /\ IsPacket(f.read)
                          ELSE CalledBy(f, callers[Len(callers)])
    BY <1>5 DEF CalledBy
  <2> QED
    BY <1>5, <2>1, <2>2, StackGrown
<1> QED
  BY <1>3, <1>4, <1>6

(* A value is read by the innermost function.                              *)
LEMMA Replaced ==
    ASSUME StackOK(stack), stack # <<>>, NEW read, MayRead(Top, read)
    PROVE  StackOK(Reading(read))
BY StackReplaced DEF Reading, Top

(* A field of the packet is read.                                          *)
LEMMA Stored ==
    ASSUME StackOK(stack), stack # <<>>, Top.in = "packet",
           NEW x \in {"OpCode", "SequenceNumber", "RequestId", "Sender", "Reliable"},
           NEW T, NEW r, Yields(r, T), IsPacket(Top.read),
           x = "OpCode" => T = Int, x = "Sender" => T = Nat, x = "Reliable" => T = BOOLEAN
    PROVE  Moves(Store(x, r))
<1> SUFFICES ASSUME NEW o \in Store(x, r), o.is = "ok"
             PROVE  StackOK(o.v) /\ o.at \in Position
  BY DEF Moves
<1>1. PICK s \in r :
        o \in IF s.is = "ok" THEN Ok(Reading(With(Top.read, x, s.v)), s.at) ELSE {s}
  BY DEF Store, Then
<1>2. s.is = "ok"
  BY <1>1
<1>3. s.v \in T /\ s.at \in Position
  BY <1>2 DEF Yields
<1>4. o.v = Reading(With(Top.read, x, s.v)) /\ o.at = s.at
  BY <1>1, <1>2 DEF Ok
<1>5. IsPacket(With(Top.read, x, s.v))
  BY <1>3, PacketWith
<1>6. StackOK(Reading(With(Top.read, x, s.v)))
  BY <1>5, Replaced DEF MayRead
<1> QED
  BY <1>3, <1>4, <1>6

(* A field that is not known is read past.                                 *)
LEMMA Skipped ==
    ASSUME Bytes, StackOK(stack), NEW b \in Byte, NEW p \in Position, NEW end \in Nat
    PROVE  Moves(Skip(b, p, end))
<1> SUFFICES ASSUME NEW o \in Skip(b, p, end), o.is = "ok"
             PROVE  StackOK(o.v) /\ o.at \in Position
  BY DEF Moves
<1>1. PICK s \in SkipField(b, p, end) :
        o \in IF s.is = "ok" THEN Ok(stack, s.at) ELSE {s}
  BY DEF Skip, Then
<1>2. s.is = "ok"
  BY <1>1
<1>3. o.v = stack /\ o.at = s.at
  BY <1>1, <1>2 DEF Ok
<1> QED
  BY <1>2, <1>3, FieldSkipped

(* The frame that reads, and what is known of it.                          *)
LEMMA LastOK ==
    ASSUME NEW s, StackOK(s), s # <<>>
    PROVE  /\ Len(s) \in Nat \ {0} /\ Last(s) = s[Len(s)] /\ Last(s).limit \in Nat
           /\ Last(s).in = "packet" => IsPacket(Last(s).read) /\ Len(s) = 1
           /\ Last(s).in # "packet" => Len(s) > 1 /\ CalledBy(Last(s), s[Len(s) - 1])
           /\ Last(s).in = "result" => IsSequence(Last(s).read)
<1>1. Len(s) \in Nat \ {0} /\ Last(s) = s[Len(s)]
  BY Shortened DEF StackOK
<1>2. Len(s) \in 1..Len(s)
  BY <1>1
<1> DEFINE n == Len(s)
<1>3. /\ s[n].limit \in Nat /\ (s[n].in = "result" => IsSequence(s[n].read))
      /\ IF n = 1 THEN s[1].in = "packet" /\ IsPacket(s[1].read)
         ELSE CalledBy(s[n], s[n - 1])
  BY <1>2 DEF StackOK
<1>4. n # 1 => s[n].in # "packet"
  BY <1>3 DEF CalledBy
<1>5. Last(s).in = "packet" => n = 1
  BY <1>1, <1>4
<1>6. Last(s).in # "packet" => n > 1
  <2>1. n = 1 => s[n].in = "packet"
    BY <1>3
  <2>2. n # 1 => n > 1
    <3>1. \A m \in Nat \ {0} : m # 1 => m > 1
      OBVIOUS
    <3> QED
      BY ONLY <1>1, <3>1, Zenon
  <2>3. Last(s).in = s[n].in
    BY <1>1
  <2> HIDE DEF n
  <2> QED
    BY <2>1, <2>2, <2>3
<1> HIDE DEF n
<1> QED
  BY <1>1, <1>3, <1>5, <1>6 DEF n

LEMMA TopOK ==
    ASSUME StackOK(stack), stack # <<>>
    PROVE  /\ Len(stack) \in Nat \ {0} /\ Top = stack[Len(stack)] /\ Top.limit \in Nat
           /\ Top.in = "packet" => IsPacket(Top.read) /\ Len(stack) = 1
           /\ Top.in # "packet" => Len(stack) > 1 /\ CalledBy(Top, stack[Len(stack) - 1])
           /\ Top.in = "result" => IsSequence(Top.read)
BY LastOK DEF Top

(* The next key, and the field behind it.                                  *)
LEMMA NextByte ==
    ASSUME Bytes, pos \in Position
    PROVE  Yields(NextKey, Byte)
<1>1. Yields(ReadByte(pos, Unlimited), Byte)
  BY ByteRead DEF Unlimited, Position
<1> QED
  BY <1>1 DEF NextKey, Yields, Failed

(* What the packet's function does with a key.                             *)
LEMMA PacketFieldMoves ==
    ASSUME Bytes, StackOK(stack), stack # <<>>, Top.in = "packet",
           NEW b \in Byte, NEW at \in Position
    PROVE  Moves(PacketField(b, at))
<1>0. IsPacket(Top.read) /\ Top = stack[Len(stack)] /\ at \in Nat /\ Unlimited \in Nat
  BY TopOK DEF Position, Unlimited
<1>1. CASE b = 8
  BY <1>0, <1>1, Stored, ZIntRead DEF PacketField
<1>2. CASE b = 16
  BY <1>0, <1>2, Stored, UIntRead DEF PacketField, ReadUInt64
<1>3. CASE b = 24
  BY <1>0, <1>3, Stored, UIntRead DEF PacketField, ReadUInt64
<1>4. CASE b = 40
  BY <1>0, <1>4, Stored, UIntRead DEF PacketField, ReadUInt64
<1>5. CASE b = 48
  BY <1>0, <1>5, Stored, BoolRead DEF PacketField
<1>6. CASE b = 114
  <2>1. IsData(Top.read.Data)
    BY <1>0 DEF IsPacket
  <2>2. Moves(Call("data", 0, Top.read.Data, stack, at))
    BY <1>0, <2>1, Called
  <2> QED
    BY <1>6, <2>2 DEF PacketField
<1>7. CASE b \notin {8, 16, 24, 40, 48, 114}
  <2>1. PacketField(b, at) = Skip(b, at, Unlimited)
    BY <1>7 DEF PacketField
  <2> QED
    BY <1>0, <2>1, Skipped
<1> QED
  BY <1>1, <1>2, <1>3, <1>4, <1>5, <1>6, <1>7

(* A function on 1..n is a sequence of n elements.                         *)
LEMMA FunctionIsSeq ==
    ASSUME NEW S, NEW n \in Nat, NEW f \in [1..n -> S]
    PROVE  f \in Seq(S) /\ Len(f) = n
<1>1. f \in Seq(S)
  BY SeqDef
<1>2. Len(f) \in Nat /\ DOMAIN f = 1..Len(f)
  BY <1>1, LenProperties
<1> QED
  BY <1>1, <1>2

(* A payload is as long as the packet says, however few bytes came.        *)
LEMMA PayloadMoves ==
    ASSUME Bytes, StackOK(stack), stack # <<>>, Top.in = "packet",
           OpCode(Top.read) \notin Results,
           NEW n \in Nat, NEW at \in Nat, at <= arrived
    PROVE  Moves(Payload(n, at))
<1> DEFINE k == IF at + n <= arrived THEN n ELSE arrived - at
           bytes == [i \in 1..n |-> IF i <= k THEN wire[at + i] ELSE 0]
           new == With(Top.read, "Command", Command(Top.read, <<"payload", bytes>>))
<1> SUFFICES ASSUME NEW r \in Payload(n, at), r.is = "ok"
             PROVE  StackOK(r.v) /\ r.at \in Position
  BY DEF Moves
<1>1. r = [is |-> "ok", v |-> Reading(new), at |-> at + k]
  BY DEF Payload, Ok, Failed, NoByte, AtEnd, Blocked
<1>2. k \in Nat /\ at + k <= arrived
  BY DEF Bytes
<1>3. bytes \in Seq(Byte)
  <2>1. ASSUME NEW i \in 1..n PROVE bytes[i] \in Byte
    <3>1. CASE i <= k
      <4>1. at + i \in 1..Len(wire)
        BY <1>2, <3>1 DEF Bytes
      <4>2. wire[at + i] \in Byte
        BY <4>1 DEF Bytes
      <4> QED
        BY <3>1, <4>2
    <3>2. CASE ~(i <= k)
      BY <3>2 DEF Byte
    <3> QED
      BY <3>1, <3>2
  <2>2. bytes \in [1..n -> Byte]
    BY <2>1
  <2> QED
    BY <2>2, FunctionIsSeq
<1> HIDE DEF bytes, k
<1>4. IsPacket(Top.read)
  BY TopOK
<1>5. IsCommand(Command(Top.read, <<"payload", bytes>>))
  <2> DEFINE body == <<"payload", bytes>>
  <2>1. body[1] = "payload" /\ body[2] \in Seq(Byte)
    BY <1>3
  <2> HIDE DEF body
  <2>2. IsCommand(Command(Top.read, body))
    BY <1>4, <2>1, CommandMade
  <2> QED
    BY <2>2 DEF body
<1>6. IsPacket(new)
  BY <1>4, <1>5, PacketWith
<1> HIDE DEF new
<1>7. StackOK(Reading(new))
  BY <1>6, Replaced DEF MayRead
<1> QED
  BY <1>1, <1>2, <1>7 DEF Position

(* A result's fields are numbers, booleans and strings.                    *)
LEMMA KnownKinds ==
    ASSUME NEW op, NEW key \in DOMAIN Known(op)
    PROVE  Known(op)[key] \in {"number", "bool", "string"}
<1>1. CASE op = LoginResult
  BY <1>1 DEF Known
<1>2. CASE op # LoginResult /\ op \in {PlayerConnectMessage, PlayerDisconnectMessage}
  BY <1>2 DEF Known
<1>3. CASE op # LoginResult /\ op \notin {PlayerConnectMessage, PlayerDisconnectMessage}
  BY <1>3 DEF Known
<1> QED
  BY <1>1, <1>2, <1>3

(* A field of a result is read.                                            *)
LEMMA FieldAdded ==
    ASSUME Bytes, StackOK(stack), stack # <<>>, Top.in = "result",
           NEW key \in DOMAIN Known(Top.slot), NEW T, NEW r, Yields(r, T),
           \/ Known(Top.slot)[key] = "number" /\ T = Nat
           \/ Known(Top.slot)[key] = "bool" /\ T = BOOLEAN
           \/ Known(Top.slot)[key] = "string" /\ T = Seq(Byte)
    PROVE  Moves(AddField(key, r))
<1> SUFFICES ASSUME NEW o \in AddField(key, r), o.is = "ok"
             PROVE  StackOK(o.v) /\ o.at \in Position
  BY DEF Moves
<1>1. PICK s \in r :
        o \in IF s.is = "ok"
              THEN Ok(Reading(Append(Top.read, [key |-> key, value |-> s.v])), s.at)
              ELSE {s}
  BY DEF AddField, Then
<1>2. s.is = "ok"
  BY <1>1
<1>3. s.v \in T /\ s.at \in Position
  BY <1>2 DEF Yields
<1> DEFINE field == [key |-> key, value |-> s.v]
           new == Append(Top.read, field)
<1>4. o.v = Reading(new) /\ o.at = s.at
  BY <1>1, <1>2 DEF Ok
<1>5. field.key = key /\ field.value = s.v
  OBVIOUS
<1>6. IsSequence(Top.read) /\ CalledBy(Top, stack[Len(stack) - 1])
  BY TopOK
<1>7. AreFields(Top.slot, Top.read) /\ DOMAIN Top.read = 1..Len(Top.read)
  <2>1. AreFields(Top.slot, Top.read)
    BY <1>6 DEF CalledBy
  <2>2. DOMAIN Top.read = 1..Len(Top.read)
    BY <1>6, LenProperties DEF IsSequence
  <2> QED
    BY <2>1, <2>2
<1> HIDE DEF field
<1>8. /\ IsSequence(new) /\ Len(new) = Len(Top.read) + 1 /\ Len(Top.read) \in Nat
      /\ new[Len(Top.read) + 1] = field
      /\ \A i \in 1..Len(Top.read) : new[i] = Top.read[i]
  BY <1>6, Appended
<1> HIDE DEF new
<1>9. DOMAIN new = 1..Len(Top.read) + 1
  BY <1>8, LenProperties DEF IsSequence
<1>10. ASSUME NEW i \in DOMAIN new
       PROVE  /\ new[i].key \in DOMAIN Known(Top.slot)
              /\ \/ Known(Top.slot)[new[i].key] = "number" /\ new[i].value \in Nat
                 \/ Known(Top.slot)[new[i].key] = "bool" /\ new[i].value \in BOOLEAN
                 \/ Known(Top.slot)[new[i].key] = "string" /\ new[i].value \in Seq(Byte)
  <2>1. CASE i \in 1..Len(Top.read)
    <3>1. new[i] = Top.read[i]
      BY <1>8, <2>1
    <3> QED
      BY <1>7, <2>1, <3>1 DEF AreFields
  <2>2. CASE i = Len(Top.read) + 1
    <3>1. new[i] = field
      BY <1>8, <2>2
    <3> QED
      BY <1>3, <1>5, <3>1
  <2> QED
    BY <1>8, <1>9, <2>1, <2>2
<1>11. AreFields(Top.slot, new)
  BY <1>10 DEF AreFields
<1>12. StackOK(Reading(new))
  BY <1>8, <1>11, Replaced DEF MayRead
<1> QED
  BY <1>3, <1>4, <1>12

(* What a result's function does with a key.                               *)
LEMMA ResultFieldMoves ==
    ASSUME Bytes, StackOK(stack), stack # <<>>, Top.in = "result",
           NEW b \in Byte, NEW at \in Position
    PROVE  Moves(ResultField(b, at))
<1>0. at \in Nat /\ Top.limit \in Nat
  BY TopOK DEF Position
<1>1. CASE b \notin DOMAIN Known(Top.slot)
  <2>1. ResultField(b, at) = Skip(b, at, Top.limit)
    BY <1>1 DEF ResultField
  <2> QED
    BY <1>0, <2>1, Skipped
<1>2. CASE b \in DOMAIN Known(Top.slot)
  <2>1. CASE Known(Top.slot)[b] = "number"
    <3>1. ResultField(b, at) = AddField(b, ReadUInt64(at, Top.limit))
      BY <1>2, <2>1 DEF ResultField
    <3>2. Yields(ReadUInt64(at, Top.limit), Nat)
      BY <1>0, UIntRead DEF ReadUInt64
    <3> QED
      BY <1>2, <2>1, <3>1, <3>2, FieldAdded
  <2>2. CASE Known(Top.slot)[b] = "bool"
    <3>1. ResultField(b, at) = AddField(b, ReadBool(at, Top.limit))
      BY <1>2, <2>2 DEF ResultField
    <3>2. Yields(ReadBool(at, Top.limit), BOOLEAN)
      BY <1>0, BoolRead
    <3> QED
      BY <1>2, <2>2, <3>1, <3>2, FieldAdded
  <2>3. CASE Known(Top.slot)[b] = "string"
    <3>1. ResultField(b, at) = AddField(b, ReadString(at, Top.limit))
      BY <1>2, <2>3 DEF ResultField
    <3>2. Yields(ReadString(at, Top.limit), Seq(Byte))
      BY <1>0, StringRead
    <3> QED
      BY <1>2, <2>3, <3>1, <3>2, FieldAdded
  <2> QED
    BY <1>2, <2>1, <2>2, <2>3, KnownKinds
<1> QED
  BY <1>1, <1>2

(* A slot of the data is read.                                             *)
LEMMA SlotStored ==
    ASSUME StackOK(stack), stack # <<>>, Top.in = "data",
           NEW i \in Slots, NEW type, NEW T, NEW r, Yields(r, T),
           \A v \in T : IsValue(<<type, v>>)
    PROVE  Moves(StoreSlot(i, type, r))
<1> SUFFICES ASSUME NEW o \in StoreSlot(i, type, r), o.is = "ok"
             PROVE  StackOK(o.v) /\ o.at \in Position
  BY DEF Moves
<1>1. PICK s \in r :
        o \in IF s.is = "ok" THEN Ok(Reading(With(Top.read, i, <<type, s.v>>)), s.at)
              ELSE {s}
  BY DEF StoreSlot, Then
<1>2. s.is = "ok"
  BY <1>1
<1>3. s.v \in T /\ s.at \in Position
  BY <1>2 DEF Yields
<1> DEFINE value == <<type, s.v>>
           new == With(Top.read, i, value)
<1>4. o.v = Reading(new) /\ o.at = s.at
  BY <1>1, <1>2 DEF Ok
<1>5. IsValue(value)
  BY <1>3
<1> HIDE DEF value
<1>6. IsData(Top.read)
  BY TopOK DEF CalledBy
<1>7. IsData(new)
  BY <1>5, <1>6, DataWith
<1> HIDE DEF new
<1>8. StackOK(Reading(new))
  BY <1>7, Replaced DEF MayRead
<1> QED
  BY <1>3, <1>4, <1>8

(* What is read into a slot fits it, and there is such a slot.             *)
LEMMA DataSlotMoves ==
    ASSUME Bytes, StackOK(stack), stack # <<>>, Top.in = "data",
           NEW key \in Nat \X Nat, NEW at \in Position
    PROVE  Moves(DataSlot(key, at))
<1>0. at \in Nat /\ Unlimited \in Nat /\ Top = stack[Len(stack)]
  BY TopOK DEF Position, Unlimited
<1>1. CASE key[1] \notin Slots
  BY <1>1 DEF DataSlot, Moves, Failed
<1>2. CASE key[1] \in Slots /\ key[2] = 0
  <2>1. DataSlot(key, at) = StoreSlot(key[1], "long", ReadZInt(64, at))
    BY <1>2 DEF DataSlot
  <2>2. \A v \in Int : IsValue(<<"long", v>>)
    BY DEF IsValue
  <2> QED
    BY <1>0, <1>2, <2>1, <2>2, SlotStored, ZIntRead
<1>3. CASE key[1] \in Slots /\ key[2] = 5
  <2>1. DataSlot(key, at) = StoreSlot(key[1], "float", ReadBytes(4, at, Unlimited))
    BY <1>3 DEF DataSlot
  <2>2. \A v \in {b \in Seq(Byte) : Len(b) = 4} : IsValue(<<"float", v>>)
    BY DEF IsValue
  <2> QED
    BY <1>0, <1>3, <2>1, <2>2, SlotStored, BytesRead
<1>4. CASE key[1] \in Slots /\ key[2] = 1
  <2>1. DataSlot(key, at) = StoreSlot(key[1], "double", ReadBytes(8, at, Unlimited))
    BY <1>4 DEF DataSlot
  <2>2. \A v \in {b \in Seq(Byte) : Len(b) = 8} : IsValue(<<"double", v>>)
    BY DEF IsValue
  <2> QED
    BY <1>0, <1>4, <2>1, <2>2, SlotStored, BytesRead
<1>5. CASE key[1] \in Slots /\ key[2] = 2
  <2>1. DataSlot(key, at) = Call("value", key[1], <<>>, stack, at)
    BY <1>5 DEF DataSlot
  <2>2. IsValue(<<>>)
    BY DEF IsValue
  <2> QED
    BY <1>0, <1>5, <2>1, <2>2, Called
<1>6. CASE key[1] \in Slots /\ key[2] \notin {0, 1, 2, 5}
  <2>1. DataSlot(key, at) = Ok(stack, at)
    <3>1. key[2] # 0 /\ key[2] # 1 /\ key[2] # 2 /\ key[2] # 5
      BY <1>6
    <3> QED
      BY <1>6, <3>1 DEF DataSlot
  <2> QED
    BY <2>1 DEF Moves, Ok
<1> QED
  BY <1>1, <1>2, <1>3, <1>4, <1>5, <1>6

(* What the data's function does with a key.                               *)
LEMMA DataFieldMoves ==
    ASSUME Bytes, StackOK(stack), stack # <<>>, Top.in = "data",
           NEW b \in Byte, NEW at \in Position
    PROVE  Moves(DataField(b, at))
<1> SUFFICES ASSUME NEW r \in DataField(b, at), r.is = "ok"
             PROVE  StackOK(r.v) /\ r.at \in Position
  BY DEF Moves
<1>1. PICK s \in ReadKey(b, at, Unlimited) :
        r \in IF s.is = "ok" THEN DataSlot(s.v, s.at) ELSE {s}
  BY DEF DataField, Then
<1>2. s.is = "ok"
  BY <1>1
<1>3. s.v \in Nat \X Nat /\ s.at \in Position
  BY <1>2, KeyRead DEF Yields, Unlimited
<1>4. Moves(DataSlot(s.v, s.at))
  BY <1>3, DataSlotMoves
<1> QED
  BY <1>1, <1>2, <1>4 DEF Moves

(* A vector keeps at most four floats, however many it has.                *)
LEMMA VectorMoves ==
    ASSUME Bytes, StackOK(stack), stack # <<>>, Top.in = "value",
           NEW n \in Nat, NEW at \in Nat
    PROVE  Moves(Vector(n, at))
<1> SUFFICES ASSUME NEW r \in Vector(n, at), r.is = "ok"
             PROVE  StackOK(r.v) /\ r.at \in Position
  BY DEF Moves
<1> DEFINE floats == (n + 3) \div 4
           m == IF floats < 4 THEN floats ELSE 4
           Kept(v) == [i \in 1..m |-> SubSeq(v, 4 * i - 3, 4 * i)]
<1>1. PICK s \in ReadBytes(4 * floats, at, Unlimited) :
        r \in IF s.is = "ok"
              THEN IF n % 4 # 0 THEN Failed ELSE Ok(Reading(<<"vector", Kept(s.v)>>), s.at)
              ELSE {s}
  BY DEF Vector, Then
<1>2. s.is = "ok"
  BY <1>1 DEF Failed
<1>3. r \in Ok(Reading(<<"vector", Kept(s.v)>>), s.at)
  BY <1>1, <1>2 DEF Failed
<1>4. floats \in Nat /\ m \in 0..4 /\ m <= floats
  OBVIOUS
<1>5. s.v \in Seq(Byte) /\ Len(s.v) = 4 * floats /\ s.at \in Position
  <2>1. 4 * floats \in Nat
    BY <1>4
  <2> HIDE DEF floats
  <2>2. Yields(ReadBytes(4 * floats, at, Unlimited),
               {b \in Seq(Byte) : Len(b) = 4 * floats})
    BY <2>1, BytesRead DEF Unlimited
  <2> QED
    BY <1>2, <2>2 DEF Yields
<1> HIDE DEF floats, m
<1>6. ASSUME NEW i \in 1..m PROVE SubSeq(s.v, 4 * i - 3, 4 * i) \in Seq(Byte)
  <2>1. 4 * i - 3 \in Int /\ 4 * i \in Int /\ 1 <= 4 * i - 3 /\ 4 * i <= Len(s.v)
    BY <1>4, <1>5
  <2>2. \A j \in 4 * i - 3..4 * i : s.v[j] \in Byte
    BY <1>5, <2>1
  <2> QED
    BY <2>1, <2>2, SubSeqProperties
<1>7. Kept(s.v) \in [1..m -> Seq(Byte)]
  BY <1>6
<1> DEFINE value == <<"vector", Kept(s.v)>>
<1>8. value[1] = "vector" /\ value[2] = Kept(s.v)
  OBVIOUS
<1> HIDE DEF Kept
<1>9. Kept(s.v) \in Seq(Seq(Byte)) /\ Len(Kept(s.v)) <= 4
  BY <1>4, <1>7, FunctionIsSeq
<1>10. r.v = Reading(value) /\ r.at = s.at
  BY <1>3 DEF Ok
<1> HIDE DEF value
<1>11. IsValue(value)
  BY <1>8, <1>9 DEF IsValue
<1>12. StackOK(Reading(value))
  BY <1>11, Replaced DEF MayRead
<1> QED
  BY <1>5, <1>10, <1>12

(* What the value's function does with a key.                              *)
LEMMA ValueFieldMoves ==
    ASSUME Bytes, StackOK(stack), stack # <<>>, Top.in = "value",
           NEW b \in Byte, NEW at \in Position
    PROVE  Moves(ValueField(b, at))
<1>0. at \in Nat /\ Unlimited \in Nat /\ Top = stack[Len(stack)]
  BY TopOK DEF Position, Unlimited
<1>1. CASE b = 10
  <2> SUFFICES ASSUME NEW r \in StringValue(ReadString(at, Unlimited)), r.is = "ok"
               PROVE  StackOK(r.v) /\ r.at \in Position
    BY <1>1 DEF Moves, ValueField
  <2>1. PICK s \in ReadString(at, Unlimited) :
          r \in IF s.is = "ok" THEN Ok(Reading(<<"string", s.v>>), s.at) ELSE {s}
    BY DEF StringValue, Then
  <2>2. s.is = "ok"
    BY <2>1
  <2>3. s.v \in Seq(Byte) /\ s.at \in Position
    BY <1>0, <2>2, StringRead DEF Yields
  <2> DEFINE value == <<"string", s.v>>
  <2>4. r.v = Reading(value) /\ r.at = s.at
    BY <2>1, <2>2 DEF Ok
  <2>5. IsValue(value)
    BY <2>3 DEF IsValue
  <2> HIDE DEF value
  <2>6. StackOK(Reading(value))
    BY <2>5, Replaced DEF MayRead
  <2> QED
    BY <2>3, <2>4, <2>6
<1>2. CASE b = 18
  <2> SUFFICES ASSUME NEW r \in ValueField(b, at), r.is = "ok"
               PROVE  StackOK(r.v) /\ r.at \in Position
    BY DEF Moves
  <2>1. PICK s \in ReadUInt(32, at, Unlimited) :
          r \in IF s.is = "ok" THEN Vector(s.v, s.at) ELSE {s}
    BY <1>2 DEF ValueField, Then, ReadUInt32
  <2>2. s.is = "ok"
    BY <2>1
  <2>3. s.v \in Nat /\ s.at \in Nat
    BY <1>0, <2>2, UIntAt
  <2>4. Moves(Vector(s.v, s.at))
    BY <2>3, VectorMoves
  <2> QED
    BY <2>1, <2>2, <2>4 DEF Moves
<1>3. CASE b = 114
  <2>1. ValueField(b, at) = Call("data", 0, <<>>, stack, at)
    BY <1>3 DEF ValueField, Then
  <2>2. IsData(<<>>)
    BY DEF IsData
  <2> QED
    BY <1>0, <2>1, <2>2, Called
<1>4. CASE b \notin {10, 18, 114}
  <2>1. ValueField(b, at) = Skip(b, at, Unlimited)
    BY <1>4 DEF ValueField, Then
  <2> QED
    BY <1>0, <2>1, Skipped
<1> QED
  BY <1>1, <1>2, <1>3, <1>4

(* The innermost function ends.                                            *)
LEMMA CallerOK ==
    ASSUME StackOK(stack), stack # <<>>, Top.in # "packet"
    PROVE  /\ StackOK(Front(stack)) /\ Front(stack) # <<>>
           /\ CalledBy(Top, Caller)
           /\ Caller.in = "packet" => IsPacket(Caller.read)
           /\ Caller.in = "data" => IsData(Caller.read)
           /\ Caller.in = "value" => IsValue(Caller.read)
<1> DEFINE s == Front(stack)
<1>1. /\ Len(stack) \in Nat \ {0} /\ Len(s) = Len(stack) - 1
      /\ \A i \in 1..Len(stack) - 1 : s[i] = stack[i]
  BY Shortened DEF StackOK
<1>2. Len(stack) > 1 /\ CalledBy(Top, stack[Len(stack) - 1])
  BY TopOK
<1>3. StackOK(s)
  BY StackShortened
<1>4. Len(s) > 0 /\ s[Len(s)] = stack[Len(stack) - 1]
  BY <1>1, <1>2
<1> HIDE DEF s
<1>5. s # <<>>
  BY <1>4
<1>6. /\ Last(s) = s[Len(s)]
      /\ Last(s).in = "packet" => IsPacket(Last(s).read)
      /\ Last(s).in # "packet" => CalledBy(Last(s), s[Len(s) - 1])
  BY <1>3, <1>5, LastOK
<1>7. Caller = Last(s)
  BY DEF Caller, s
<1>8. Caller.in \in {"data", "value"} => CalledBy(Caller, s[Len(s) - 1])
  BY <1>6, <1>7
<1> QED
  BY <1>2, <1>3, <1>4, <1>5, <1>6, <1>7, <1>8 DEF s, CalledBy

(* The innermost function ends, and its caller has read what it read.      *)
LEMMA Returned ==
    ASSUME StackOK(stack), stack # <<>>, Top.in # "packet",
           NEW read, MayRead(Caller, read)
    PROVE  StackOK(Return(read))
BY CallerOK, StackReplaced DEF Return, Caller

(* The packets that were received, in a sequence.                          *)
GotOK ==
    /\ IsSequence(got)
    /\ \A i \in 1..Len(got) :
         IsCommand(got[i].command) /\ got[i].reliable \in BOOLEAN

-----------------------------------------------------------------------------
(* The inductive invariant.                                                *)
Inv ==
    /\ Bytes /\ sent \in Seq(Packets) /\ ended \in BOOLEAN
    /\ pos \in Position /\ StackOK(stack) /\ alive \in BOOLEAN
    /\ GotOK /\ astray \in BOOLEAN

(* The inductive invariant implies the type invariant ...                  *)
LEMMA InvTyped == Inv => TypeOK
<1> SUFFICES ASSUME Inv PROVE TypeOK
  OBVIOUS
<1>1. DOMAIN stack = 1..Len(stack) /\ DOMAIN got = 1..Len(got)
  BY LenProperties DEF Inv, StackOK, GotOK, IsSequence
<1>2. {datagram, ended, alive, astray} \subseteq BOOLEAN
  BY DEF Inv, Bytes
<1>3. /\ sent \in Seq(Packets) /\ wire \in Seq(Byte) /\ arrived \in 0..Len(wire)
      /\ pos \in Nat /\ (datagram \/ pos <= arrived)
  BY DEF Inv, Bytes, Position
<1>4. \A i \in DOMAIN stack :
        /\ stack[i].limit \in Nat
        /\ IF i = 1 THEN stack[1].in = "packet" /\ IsPacket(stack[1].read)
           ELSE CalledBy(stack[i], stack[i - 1])
  BY <1>1 DEF Inv, StackOK
<1>5. \A i \in DOMAIN got : IsCommand(got[i].command) /\ got[i].reliable \in BOOLEAN
  BY <1>1 DEF Inv, GotOK
<1> QED
  BY <1>2, <1>3, <1>4, <1>5 DEF TypeOK

(* ... and holds at the start.                                             *)
LEMMA InitInv == Init => Inv
<1> SUFFICES ASSUME Init PROVE Inv
  OBVIOUS
<1>1. wire = <<>> /\ sent = <<>> /\ stack = <<>> /\ got = <<>> /\ arrived = 0 /\ pos = 0
  BY DEF Init
<1>2. <<>> \in Seq(Byte) /\ Len(<<>>) = 0
  OBVIOUS
<1>3. IsSequence(<<>>)
  BY <1>2, SequenceOf
<1>4. StackOK(stack) /\ GotOK
  BY <1>1, <1>2, <1>3 DEF StackOK, GotOK
<1>5. Bytes /\ sent \in Seq(Packets) /\ pos \in Position
  BY <1>1 DEF Init, Bytes, Position
<1> QED
  BY <1>4, <1>5 DEF Init, Inv

(* What has been read stays as it is when more comes.                      *)
LEMMA Unread ==
    ASSUME Inv, UNCHANGED <<pos, stack, alive, got, astray>>, datagram' = datagram,
           Bytes', sent' \in Seq(Packets), ended' \in BOOLEAN,
           datagram \/ arrived <= arrived'
    PROVE  Inv'
<1>1. pos' \in Position'
  BY DEF Inv, Position, Bytes
<1>2. StackOK(stack') /\ GotOK'
  BY DEF Inv, GotOK
<1> QED
  BY <1>1, <1>2 DEF Inv

(* The steps of the server and of the network.                             *)
LEMMA InputInv ==
    ASSUME Inv, Server \/ Network
    PROVE  Inv'
<1>0. Bytes /\ sent \in Seq(Packets) /\ ended \in BOOLEAN /\ Len(wire) \in Nat
  BY DEF Inv, Bytes
<1>1. ASSUME NEW p \in Packets, Send(p) PROVE Inv'
  <2>1. Serialized[p] \in Seq(Byte)
    BY BytesAssumption
  <2>2. wire' \in Seq(Byte) /\ Len(wire') = Len(wire) + Len(Serialized[p])
        /\ Len(Serialized[p]) \in Nat
    BY <1>0, <1>1, <2>1, ConcatProperties DEF Send, Bytes
  <2>3. Bytes'
    BY <1>0, <1>1, <2>2 DEF Send, Bytes
  <2>4. sent' \in Seq(Packets)
    BY <1>0, <1>1 DEF Send
  <2> QED
    BY <1>0, <1>1, <2>3, <2>4, Unread DEF Send, Bytes
<1>2. CASE Close
  <2>1. Bytes'
    BY <1>0, <1>2 DEF Close, Bytes
  <2> QED
    BY <1>0, <1>2, <2>1, Unread DEF Close, Bytes
<1>3. CASE Arrive
  <2>1. Bytes' /\ arrived <= arrived'
    BY <1>0, <1>3 DEF Arrive, Bytes
  <2> QED
    BY <1>0, <1>3, <2>1, Unread DEF Arrive, Bytes
<1>4. ASSUME NEW n \in 1..Len(wire), Receive(n) PROVE Inv'
  <2>1. Bytes'
    BY <1>0, <1>4 DEF Receive, Bytes
  <2> QED
    BY <1>0, <1>4, <2>1, Unread DEF Receive, Bytes
<1> QED
  BY <1>1, <1>2, <1>3, <1>4 DEF Server, Network

(* What a step of the thread has to show.                                  *)
LEMMA ThreadKeeps ==
    ASSUME Inv, UNCHANGED input, StackOK(stack'), pos' \in Position, alive' \in BOOLEAN,
           UNCHANGED got, astray' \in BOOLEAN
    PROVE  Inv'
<1>1. Bytes' /\ pos' \in Position'
  BY DEF Inv, input, Bytes, Position
<1>2. GotOK'
  BY DEF Inv, GotOK
<1> QED
  BY <1>1, <1>2 DEF Inv, input

(* The steps of the thread, one by one.                                    *)
LEMMA ReadPacketInv ==
    ASSUME Inv, ReadPacket
    PROVE  Inv'
<1> DEFINE call == Call("packet", 0, [Data |-> <<>>], <<>>, pos)
           read == [Data |-> <<>>]
<1>1. DOMAIN read = {"Data"} /\ read.Data = <<>> /\ IsData(<<>>)
  BY DEF IsData
<1> HIDE DEF read
<1>2. IsPacket(read)
  BY <1>1 DEF IsPacket
<1>3. StackOK(<<>>)
  BY DEF Inv, ReadPacket
<1>4. Moves(Call("packet", 0, read, <<>>, pos))
  BY <1>2, <1>3, Called DEF Inv, Position
<1>5. Moves(call)
  BY <1>4 DEF read
<1> HIDE DEF call
<1>6. Step(call)
  BY DEF ReadPacket, call
<1>7. StackOK(stack') /\ pos' \in Position /\ alive' \in BOOLEAN
  BY <1>5, <1>6, Stepped DEF Inv
<1> QED
  BY <1>7, ThreadKeeps DEF ReadPacket, Inv

(* A field of the packet.                                                  *)
LEMMA ReadPacketFieldInv ==
    ASSUME Inv, ReadPacketField
    PROVE  Inv'
<1>1. stack # <<>> /\ Top.in = "packet" /\ Bytes /\ StackOK(stack) /\ pos \in Position
  BY DEF ReadPacketField, InPacket, Reads, Inv
<1>2. PICK k \in NextKey : \E r \in IF k.is = "ok" THEN PacketField(k.v, k.at) ELSE {k} :
        IF r.is = "ok" THEN stack' = r.v /\ pos' = r.at /\ UNCHANGED alive
                       ELSE alive' = FALSE /\ UNCHANGED <<stack, pos>>
  BY DEF ReadPacketField, Step, Then
<1>3. k.is = "ok" => Moves(PacketField(k.v, k.at))
  BY <1>1, NextByte, PacketFieldMoves DEF Yields
<1>4. StackOK(stack') /\ pos' \in Position /\ alive' \in BOOLEAN
  BY <1>1, <1>2, <1>3 DEF Moves, Inv
<1> QED
  BY <1>4, ThreadKeeps DEF ReadPacketField, Inv

(* The payload of a packet.                                                *)
LEMMA ReadPayloadInv ==
    ASSUME Inv, ReadPayload
    PROVE  Inv'
<1>1. /\ stack # <<>> /\ Top.in = "packet" /\ Bytes /\ StackOK(stack) /\ pos \in Position
      /\ OpCode(Top.read) \notin Results
  BY DEF ReadPayload, InPacket, Reads, Inv
<1>0. PICK k \in PayloadKey : \E n \in ReadUInt(32, k.at, Unlimited) :
        \E r \in IF n.is = "ok" THEN Payload(n.v, n.at) ELSE {n} :
          IF r.is = "ok" THEN stack' = r.v /\ pos' = r.at /\ UNCHANGED alive
                         ELSE alive' = FALSE /\ UNCHANGED <<stack, pos>>
  BY DEF ReadPayload, Step, Then, ReadUInt32
<1>2. PICK n \in ReadUInt(32, k.at, Unlimited) :
        \E r \in IF n.is = "ok" THEN Payload(n.v, n.at) ELSE {n} :
          IF r.is = "ok" THEN stack' = r.v /\ pos' = r.at /\ UNCHANGED alive
                         ELSE alive' = FALSE /\ UNCHANGED <<stack, pos>>
  BY <1>0
<1>3. k.at \in Nat
  BY <1>1, NextByte DEF PayloadKey, Yields, Position
<1>4. n.is = "ok" => Moves(Payload(n.v, n.at))
  <2>1. n.is = "ok" => n.v \in Nat /\ n.at \in Nat /\ n.at <= arrived
    BY <1>1, <1>3, UIntAt DEF Unlimited
  <2> QED
    BY <1>1, <2>1, PayloadMoves
<1>5. StackOK(stack') /\ pos' \in Position /\ alive' \in BOOLEAN
  BY <1>1, <1>2, <1>4 DEF Moves, Inv
<1>6. astray' \in BOOLEAN
  <2>1. PICK key \in PayloadKey :
          astray' = (astray \/ (alive' /\ ~datagram
                       /\ \E l \in ReadUInt32(key.at, Unlimited) : pos' < l.at + l.v))
    BY DEF ReadPayload
  <2> QED
    BY <2>1, Zenon
<1> QED
  BY <1>5, <1>6, ThreadKeeps DEF ReadPayload, Inv

(* A result is read, of a packet whose OpCode is a result's.               *)
LEMMA CallResultInv ==
    ASSUME Inv, CallResult
    PROVE  Inv'
<1>1. /\ stack # <<>> /\ Top.in = "packet" /\ Bytes /\ StackOK(stack) /\ pos \in Position
  BY DEF CallResult, InPacket, Reads, Inv
<1>2. PICK k \in PayloadKey : Step(Call("result", OpCode(Top.read), <<>>, stack, k.at))
  BY DEF CallResult
<1>3. k.at \in Nat
  BY <1>1, NextByte DEF PayloadKey, Yields, Position
<1>4. AreFields(OpCode(Top.read), <<>>) /\ IsSequence(<<>>)
  <2>1. <<>> \in Seq(Byte) /\ DOMAIN <<>> = {}
    OBVIOUS
  <2> QED
    BY <2>1, SequenceOf DEF AreFields
<1>5. Top = stack[Len(stack)]
  BY <1>1, TopOK
<1>6. Moves(Call("result", OpCode(Top.read), <<>>, stack, k.at))
  BY <1>1, <1>3, <1>4, <1>5, Called
<1>7. StackOK(stack') /\ pos' \in Position /\ alive' \in BOOLEAN
  BY <1>2, <1>6, Stepped DEF Inv
<1> QED
  BY <1>7, ThreadKeeps DEF CallResult, Inv

(* A field of a result, or its end.                                        *)
LEMMA ReadResultFieldInv ==
    ASSUME Inv, ReadResultField
    PROVE  Inv'
<1>1. stack # <<>> /\ Top.in = "result" /\ Bytes /\ StackOK(stack) /\ pos \in Position
  BY DEF ReadResultField, Reads, Inv
<1> DEFINE key == ReadByte(pos, Top.limit)
           command == Command(Caller.read, <<"fields", Top.read>>)
<1>2. CASE key = AtEnd
  <2>1. stack' = Return(With(Caller.read, "Command", command)) /\ UNCHANGED <<pos, alive>>
    BY <1>2 DEF ReadResultField
  <2>2. Caller.in = "packet" /\ IsPacket(Caller.read) /\ AreFields(OpCode(Caller.read), Top.read)
    BY <1>1, CallerOK DEF CalledBy
  <2>3. IsCommand(command)
    <3> DEFINE body == <<"fields", Top.read>>
    <3>1. body[1] = "fields" /\ AreFields(OpCode(Caller.read), body[2])
      BY <2>2
    <3> HIDE DEF body
    <3>2. IsCommand(Command(Caller.read, body))
      BY <2>2, <3>1, CommandMade
    <3> QED
      BY <3>2 DEF body
  <2> HIDE DEF command
  <2>4. IsPacket(With(Caller.read, "Command", command))
    BY <2>2, <2>3, PacketWith
  <2>5. StackOK(stack')
    BY <1>1, <2>1, <2>2, <2>4, Returned DEF MayRead
  <2> QED
    BY <2>1, <2>5, ThreadKeeps DEF ReadResultField, Inv
<1>3. CASE key # AtEnd
  <2>1. PICK k \in key : \E r \in IF k.is = "ok" THEN ResultField(k.v, k.at) ELSE {k} :
          IF r.is = "ok" THEN stack' = r.v /\ pos' = r.at /\ UNCHANGED alive
                         ELSE alive' = FALSE /\ UNCHANGED <<stack, pos>>
    BY <1>3 DEF ReadResultField, Step, Then
  <2>2. Yields(key, Byte)
    BY <1>1, TopOK, ByteRead DEF Position
  <2>3. k.is = "ok" => Moves(ResultField(k.v, k.at))
    BY <1>1, <2>2, ResultFieldMoves DEF Yields
  <2>4. StackOK(stack') /\ pos' \in Position /\ alive' \in BOOLEAN
    BY <1>1, <2>1, <2>3 DEF Moves, Inv
  <2> QED
    BY <2>4, ThreadKeeps DEF ReadResultField, Inv
<1> QED
  BY <1>2, <1>3

(* A field of the data, or their end.                                      *)
LEMMA ReadDataFieldInv ==
    ASSUME Inv, ReadDataField
    PROVE  Inv'
<1>1. stack # <<>> /\ Top.in = "data" /\ Bytes /\ StackOK(stack) /\ pos \in Position
  BY DEF ReadDataField, Reads, Inv
<1>2. CASE pos = Top.limit \/ NextKey = AtEnd
  <2>1. stack' = EndData /\ UNCHANGED <<pos, alive>>
    BY <1>2 DEF ReadDataField
  <2>2. CalledBy(Top, Caller) /\ IsData(Top.read)
    BY <1>1, CallerOK DEF CalledBy
  <2>3. CASE Caller.in = "packet"
    <3>1. IsPacket([Caller.read EXCEPT !.Data = Top.read])
      BY <1>1, <2>2, <2>3, CallerOK, PacketData
    <3>2. EndData = Return([Caller.read EXCEPT !.Data = Top.read])
      BY <2>3 DEF EndData
    <3>3. StackOK(stack')
      BY <1>1, <2>1, <2>3, <3>1, <3>2, Returned DEF MayRead
    <3> QED
      BY <2>1, <3>3, ThreadKeeps DEF ReadDataField, Inv
  <2>4. CASE Caller.in = "value"
    <3> DEFINE value == <<"data", Top.read>>
    <3>1. IsValue(value)
      BY <2>2 DEF IsValue, IsData
    <3>2. EndData = Return(value)
      BY <2>4 DEF EndData
    <3> HIDE DEF value
    <3>3. StackOK(stack')
      BY <1>1, <2>1, <2>4, <3>1, <3>2, Returned DEF MayRead
    <3> QED
      BY <2>1, <3>3, ThreadKeeps DEF ReadDataField, Inv
  <2> QED
    BY <1>1, <2>2, <2>3, <2>4 DEF CalledBy
<1>3. CASE ~(pos = Top.limit \/ NextKey = AtEnd)
  <2>1. PICK k \in NextKey : \E r \in IF k.is = "ok" THEN DataField(k.v, k.at) ELSE {k} :
          IF r.is = "ok" THEN stack' = r.v /\ pos' = r.at /\ UNCHANGED alive
                         ELSE alive' = FALSE /\ UNCHANGED <<stack, pos>>
    BY <1>3 DEF ReadDataField, Step, Then
  <2>2. k.is = "ok" => Moves(DataField(k.v, k.at))
    BY <1>1, NextByte, DataFieldMoves DEF Yields
  <2>3. StackOK(stack') /\ pos' \in Position /\ alive' \in BOOLEAN
    BY <1>1, <2>1, <2>2 DEF Moves, Inv
  <2> QED
    BY <2>3, ThreadKeeps DEF ReadDataField, Inv
<1> QED
  BY <1>2, <1>3

(* A field of a value, or its end.                                         *)
LEMMA ReadValueFieldInv ==
    ASSUME Inv, ReadValueField
    PROVE  Inv'
<1>1. stack # <<>> /\ Top.in = "value" /\ Bytes /\ StackOK(stack) /\ pos \in Position
  BY DEF ReadValueField, Reads, Inv
<1>2. CASE pos = Top.limit
  <2>1. stack' = Return(With(Caller.read, Top.slot, Top.read)) /\ UNCHANGED <<pos, alive>>
    BY <1>2 DEF ReadValueField
  <2>2. Caller.in = "data" /\ IsData(Caller.read) /\ Top.slot \in Slots /\ IsValue(Top.read)
    BY <1>1, CallerOK DEF CalledBy
  <2>3. IsData(With(Caller.read, Top.slot, Top.read))
    BY <2>2, DataWith
  <2>4. StackOK(stack')
    BY <1>1, <2>1, <2>2, <2>3, Returned DEF MayRead
  <2> QED
    BY <2>1, <2>4, ThreadKeeps DEF ReadValueField, Inv
<1>3. CASE pos # Top.limit
  <2>1. PICK k \in NextKey : \E r \in IF k.is = "ok" THEN ValueField(k.v, k.at) ELSE {k} :
          IF r.is = "ok" THEN stack' = r.v /\ pos' = r.at /\ UNCHANGED alive
                         ELSE alive' = FALSE /\ UNCHANGED <<stack, pos>>
    BY <1>3 DEF ReadValueField, Step, Then
  <2>2. k.is = "ok" => Moves(ValueField(k.v, k.at))
    BY <1>1, NextByte, ValueFieldMoves DEF Yields
  <2>3. StackOK(stack') /\ pos' \in Position /\ alive' \in BOOLEAN
    BY <1>1, <2>1, <2>2 DEF Moves, Inv
  <2> QED
    BY <2>3, ThreadKeeps DEF ReadValueField, Inv
<1> QED
  BY <1>2, <1>3

(* The end of a packet, and the command that is made of it.                *)
LEMMA PacketReceivedInv ==
    ASSUME Inv, PacketReceived
    PROVE  Inv'
<1>1. /\ stack # <<>> /\ Top.in = "packet" /\ Bytes /\ StackOK(stack) /\ pos \in Position
      /\ IsPacket(Top.read) /\ datagram \in BOOLEAN
  BY TopOK DEF PacketReceived, Reads, Inv, Bytes
<1> DEFINE command == IF "Command" \in DOMAIN Top.read THEN Top.read.Command
                      ELSE Command(Top.read, <<"payload", <<>>>>)
           reliable == IF "Reliable" \in DOMAIN Top.read THEN Top.read.Reliable
                       ELSE ~datagram
           new == [command |-> command, reliable |-> reliable]
<1>2. got' = Append(got, new) /\ stack' = <<>>
  BY DEF PacketReceived
<1>3. IsCommand(command)
  <2>1. CASE "Command" \in DOMAIN Top.read
    BY <1>1, <2>1 DEF IsPacket
  <2>2. CASE "Command" \notin DOMAIN Top.read
    <3> DEFINE body == <<"payload", <<>>>>
    <3>1. body[1] = "payload" /\ body[2] = <<>>
      OBVIOUS
    <3> HIDE DEF body
    <3>2. IsCommand(Command(Top.read, body))
      BY <1>1, <3>1, CommandMade
    <3> QED
      BY <2>2, <3>2 DEF body
  <2> QED
    BY <2>1, <2>2
<1>4. reliable \in BOOLEAN
  BY <1>1 DEF IsPacket
<1> HIDE DEF command, reliable
<1>5. new.command = command /\ new.reliable = reliable
  OBVIOUS
<1> HIDE DEF new
<1>6. /\ IsSequence(got') /\ Len(got') = Len(got) + 1 /\ Len(got) \in Nat
      /\ got'[Len(got) + 1] = new /\ \A i \in 1..Len(got) : got'[i] = got[i]
  BY <1>2, Appended DEF Inv, GotOK
<1>7. ASSUME NEW i \in 1..Len(got')
      PROVE  IsCommand(got'[i].command) /\ got'[i].reliable \in BOOLEAN
  <2>1. CASE i \in 1..Len(got)
    BY <1>6, <2>1 DEF Inv, GotOK
  <2>2. CASE i = Len(got) + 1
    BY <1>3, <1>4, <1>5, <1>6, <2>2
  <2> QED
    BY <1>6, <2>1, <2>2
<1>8. GotOK'
  BY <1>6, <1>7 DEF GotOK
<1>9. StackOK(stack')
  <2>1. <<>> \in Seq(Byte) /\ Len(<<>>) = 0
    OBVIOUS
  <2>2. IsSequence(<<>>)
    BY <2>1, SequenceOf
  <2> QED
    BY <1>2, <2>1, <2>2 DEF StackOK
<1>10. Bytes' /\ pos' \in Position'
  BY <1>1 DEF PacketReceived, input, Bytes, Position
<1> QED
  BY <1>8, <1>9, <1>10 DEF PacketReceived, input, Inv

(***************************************************************************)
(* Whatever bytes the server sends, and however they come, the types are   *)
(* kept: no byte is taken from a stream before it has come, the functions  *)
(* call each other as they do, and what they have read fits the slots, the *)
(* vectors and the results it is read into.                                *)
(***************************************************************************)
THEOREM TypeCorrect == Spec => []TypeOK
<1>1. Inv /\ [Next]_vars => Inv'
  <2> SUFFICES ASSUME Inv, [Next]_vars PROVE Inv'
    OBVIOUS
  <2>1. CASE Server \/ Network
    BY <2>1, InputInv
  <2>2. CASE Thread
    BY <2>2, ReadPacketInv, ReadPacketFieldInv, ReadPayloadInv, PacketReceivedInv,
       CallResultInv, ReadResultFieldInv, ReadDataFieldInv, ReadValueFieldInv DEF Thread
  <2>3. CASE UNCHANGED vars
    BY <2>3, Unread DEF vars, Inv, Bytes
  <2> QED
    BY <2>1, <2>2, <2>3 DEF Next
<1> QED
  BY InitInv, <1>1, InvTyped, PTL DEF Spec
=============================================================================
