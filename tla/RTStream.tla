------------------------------- MODULE RTStream -------------------------------
(***************************************************************************)
(* The bytes of a real-time connection: how DeserializeLengthDelimited     *)
(* reads packets out of them, from the TCP stream of a ReliableConnection, *)
(* whose bytes arrive one after the other while the thread reads, or from  *)
(* a datagram, which FastConnection copies into a MemoryStream and which   *)
(* may have been cut.  What the bytes are is a parameter: in MCRTStream,   *)
(* what Packet::Serialize writes (RTPackets); for the theorems, anything.  *)
(*                                                                         *)
(* The functions that read one message inside of another are a stack; a    *)
(* step reads one field, and waits for its bytes where the thread blocks   *)
(* in recv.  The server passes on what other players have written with     *)
(* this code and sends messages of its own; those, and the fields of       *)
(* later versions, are external.                                           *)
(***************************************************************************)
EXTENDS Integers, Sequences, SequencesExt

CONSTANTS
    Packets,    \* what the server may send
    Serialized, \* the bytes of each packet, preceded by their number
    MaxSent,    \* bound on how many of them
    MaxSlots    \* GameSparksRT::MAX_RTDATA_SLOTS

ASSUME BoundAssumption == MaxSent \in Nat \ {0} /\ MaxSlots \in Nat \ {0}

Byte == 0..255

ASSUME BytesAssumption == Serialized \in [Packets -> Seq(Byte)]

VARIABLES
    datagram,   \* whether the bytes are a datagram rather than a stream
    sent,       \* the packets sent
    wire,       \* their bytes
    arrived,    \* how many of the bytes have come
    ended,      \* no more will come
    pos,        \* Position() of the stream that is read
    stack,      \* the functions that are reading, outermost first
    alive,      \* no function has failed
    got,        \* the commands made of packets
    astray      \* bytes of a payload were left in the stream

vars == <<datagram, sent, wire, arrived, ended, pos, stack, alive, got, astray>>
input == <<datagram, sent, wire, arrived, ended>>

-----------------------------------------------------------------------------
(* OpCodes                                                                 *)

LoginResult == -1
PingResult == -3
UDPConnectMessage == -5
PlayerConnectMessage == -101
PlayerDisconnectMessage == -103

Results == {LoginResult, PingResult, UDPConnectMessage, PlayerConnectMessage,
            PlayerDisconnectMessage}

(* The slots of RTData: its array has one more, which is not used.         *)
Slots == 1..(MaxSlots - 1)

(* The keys each result's Deserialize knows, and how their values are read.*)
Known(op) ==
    CASE op = LoginResult ->
            [key \in {8, 18, 24, 32, 40} |->
                CASE key = 8 -> "bool" [] key = 18 -> "string" [] OTHER -> "number"]
      [] op \in {PlayerConnectMessage, PlayerDisconnectMessage} ->
            [key \in {8, 32} |-> "number"]
      [] OTHER -> <<>>

(* A function with one more value, or another.                             *)
With(f, x, v) == [y \in DOMAIN f \cup {x} |-> IF y = x THEN v ELSE f[y]]

-----------------------------------------------------------------------------
(* Reading                                                                 *)

(* The outcomes of a call that reads: a value and the position after it,  *)
(* an exception, or, of ReadByte, the -1 of an ended stream, which is an   *)
(* exception to most callers.  There is none while recv blocks.            *)
Ok(v, at) == {[is |-> "ok", v |-> v, at |-> at]}
Failed == {[is |-> "failed"]}
AtEnd == {[is |-> "end"]}
Blocked == {}

(* GS_ASSIGN_OR_THROW                                                      *)
Then(call, F(_, _)) ==
    UNION {IF r.is = "ok" THEN F(r.v, r.at) ELSE {r} : r \in call}

(* The end of a stream that is not limited: the largest int.               *)
Unlimited == 2147483647

(* A MemoryStream ends, recv waits, or reports that the server has closed. *)
NoByte == IF datagram THEN AtEnd ELSE IF ended THEN Failed ELSE Blocked

(* ReadByte of the stream, and of a LimitedPositionStream that ends at end.*)
ReadByte(p, end) ==
    IF p >= end THEN AtEnd
    ELSE IF p < arrived THEN Ok(wire[p + 1], p + 1) ELSE NoByte

(* FillBuffer and the loop of ReadString: n bytes or an exception.         *)
ReadBytes(n, p, end) ==
    IF p + n > end THEN Failed
    ELSE IF p + n <= arrived THEN Ok(SubSeq(wire, p + 1, p + n), p + n) ELSE NoByte

(* Where the varint that begins at p ends, if that byte has come.          *)
LastByte(p, end) ==
    {q \in p..(arrived - 1) :
        /\ q < end /\ wire[q + 1] < 128
        /\ \A r \in p..(q - 1) : wire[r + 1] >= 128}

(* ReadSkipVarInt, which has no result but the position after the varint.  *)
ReadSkipVarInt(p, end) ==
    IF LastByte(p, end) # {} THEN Ok(0, 1 + CHOOSE q \in LastByte(p, end) : TRUE)
    ELSE IF end <= arrived THEN AtEnd ELSE NoByte

(* The number in the bytes from p to before at, seven bits in each.        *)
Group(q, at) == IF q < at THEN wire[q + 1] % 128 ELSE 0
Number(p, at) ==
    Group(p, at) + 128 * (Group(p + 1, at) + 128 * (Group(p + 2, at)
                 + 128 * (Group(p + 3, at) + 128 * Group(p + 4, at))))

(* ReadUInt32 and ReadUInt64: the last byte that fits must end the number  *)
(* and may have the bits that are left only.                               *)
TooLarge(width, p, end) ==
    LET last == p + (width - 1) \div 7 IN
    /\ last < end /\ last < arrived
    /\ \A q \in p..(last - 1) : wire[q + 1] >= 128
    /\ wire[last + 1] >= 2 ^ (width - 7 * (last - p))

ReadUInt(width, p, end) ==
    IF TooLarge(width, p, end) THEN Failed
    ELSE Then(ReadSkipVarInt(p, end), LAMBDA none, at : Ok(Number(p, at), at))

ReadUInt32(p, end) == ReadUInt(32, p, end)
ReadUInt64(p, end) == ReadUInt(64, p, end)

ReadZInt(width, p) ==
    Then(ReadUInt(width, p, Unlimited), LAMBDA v, at :
        Ok(IF v % 2 = 0 THEN v \div 2 ELSE -((v + 1) \div 2), at))

ReadBool(p, end) ==
    Then(ReadByte(p, end), LAMBDA b, at :
        IF b \in {0, 1} THEN Ok(b = 1, at) ELSE Failed)

ReadString(p, end) ==
    Then(ReadUInt32(p, end), LAMBDA n, at : ReadBytes(n, at, end))

(* A field and a wire type, of which the first byte has been read.         *)
ReadKey(b, p, end) ==
    IF b < 128 THEN Ok(<<b \div 8, b % 8>>, p)
    ELSE Then(ReadUInt32(p, end), LAMBDA v, at :
                Ok(<<16 * v + ((b \div 8) % 16), b % 8>>, at))

(* Only a MemoryStream has a Seek; the others' is not implemented.         *)
Seek(n, p, end) == IF datagram /\ end = Unlimited THEN Ok(0, p + n) ELSE Failed

SkipKey(wireType, p, end) ==
    CASE wireType = 0 -> ReadSkipVarInt(p, end)
      [] wireType = 1 -> Seek(8, p, end)
      [] wireType = 2 -> Then(ReadUInt32(p, end), LAMBDA n, at : Seek(n, at, end))
      [] wireType = 5 -> Seek(4, p, end)
      [] OTHER -> Failed

(* Reading past a field that is not known.                                 *)
SkipField(b, p, end) ==
    Then(ReadKey(b, p, end), LAMBDA key, at :
        IF key[1] = 0 THEN Failed ELSE SkipKey(key[2], at, end))

-----------------------------------------------------------------------------
Init ==
    /\ datagram \in BOOLEAN
    /\ sent = <<>> /\ wire = <<>> /\ arrived = 0 /\ ended = FALSE
    /\ pos = 0 /\ stack = <<>> /\ alive = TRUE
    /\ got = <<>> /\ astray = FALSE

(* The server sends a packet, or puts one more into the datagram.          *)
Send(p) ==
    /\ ~ended /\ Len(sent) < MaxSent
    /\ sent' = Append(sent, p)
    /\ wire' = wire \o Serialized[p]
    /\ UNCHANGED <<datagram, arrived, ended, pos, stack, alive, got, astray>>

(* A byte comes out of the stream.                                         *)
Arrive ==
    /\ ~datagram /\ arrived < Len(wire) /\ ~ended
    /\ arrived' = arrived + 1
    /\ UNCHANGED <<datagram, sent, wire, ended, pos, stack, alive, got, astray>>

Close ==
    /\ ~datagram /\ ~ended
    /\ ended' = TRUE
    /\ UNCHANGED <<datagram, sent, wire, arrived, pos, stack, alive, got, astray>>

(* The datagram comes, with as many bytes as FastConnection::buffer takes. *)
Receive(n) ==
    /\ datagram /\ ~ended /\ n \in 1..Len(wire)
    /\ arrived' = n /\ ended' = TRUE
    /\ UNCHANGED <<datagram, sent, wire, pos, stack, alive, got, astray>>

-----------------------------------------------------------------------------
(* The functions that read                                                 *)

Top == Last(stack)
Caller == Last(Front(stack))

Reads(in) == alive /\ stack # <<>> /\ Top.in = in

(* Mutant: the limit is counted from where the length is.                  *)
Call_FromLength(in, slot, read, callers, p) ==
    Then(ReadUInt32(p, Unlimited), LAMBDA n, at :
        Ok(Append(callers, [in |-> in, slot |-> slot, limit |-> p + n, read |-> read]),
           at))

(* A function is called, for a slot, and reads its limit first.            *)
Call(in, slot, read, callers, p) ==
    Then(ReadUInt32(p, Unlimited), LAMBDA n, at :
        Ok(Append(callers, [in |-> in, slot |-> slot, limit |-> at + n, read |-> read]),
           at))

(* The innermost function has read a value ...                             *)
Reading(read) == Append(Front(stack), [Top EXCEPT !.read = read])
Store(name, r) == Then(r, LAMBDA v, at : Ok(Reading(With(Top.read, name, v)), at))

(* ... or has read past a field that it does not know ...                  *)
Skip(b, p, end) == Then(SkipField(b, p, end), LAMBDA none, at : Ok(stack, at))

(* ... and ends, which leaves its caller with what it read.                *)
Return(read) ==
    Append(Front(Front(stack)), [Caller EXCEPT !.read = read])

(* What becomes of the thread.                                             *)
Step(call) ==
    \E r \in call :
        IF r.is = "ok" THEN stack' = r.v /\ pos' = r.at /\ UNCHANGED alive
                       ELSE alive' = FALSE /\ UNCHANGED <<stack, pos>>

(* The next key of a message; past its limit the message fails.            *)
NextKey ==
    IF pos > Top.limit THEN Failed ELSE ReadByte(pos, Unlimited)

(* Packet::DeserializeLengthDelimited is called, by ReliableConnection for *)
(* ever and by ReadBuffer up to the end of the datagram.                   *)
ReadPacket ==
    /\ alive /\ stack = <<>>
    /\ datagram => pos < arrived
    /\ Step(Call("packet", 0, [Data |-> <<>>], <<>>, pos))
    /\ UNCHANGED <<input, got, astray>>

(* Its fields but the payload.                                             *)
PacketField(b, at) ==
    CASE b = 8 -> Store("OpCode", ReadZInt(32, at))
      [] b = 16 -> Store("SequenceNumber", ReadUInt64(at, Unlimited))
      [] b = 24 -> Store("RequestId", ReadUInt64(at, Unlimited))
      [] b = 40 -> Store("Sender", ReadUInt64(at, Unlimited))
      [] b = 48 -> Store("Reliable", ReadBool(at, Unlimited))
      [] b = 114 -> Call("data", 0, Top.read.Data, stack, at)
      [] OTHER -> Skip(b, at, Unlimited)

(* The packet goes on, and the key of its payload, if that is the next.    *)
InPacket == Reads("packet") /\ pos # Top.limit
PayloadKey == {key \in NextKey : key.is = "ok" /\ key.v = 122}

ReadPacketField ==
    /\ InPacket /\ PayloadKey = {}
    /\ Step(Then(NextKey, PacketField))
    /\ UNCHANGED <<input, got, astray>>

(* ReadPayload and GetCommand                                              *)
Sender(read) == IF "Sender" \in DOMAIN read THEN read.Sender ELSE 0
OpCode(read) ==
    IF "OpCode" \in DOMAIN read THEN read.OpCode ELSE -2147483647 - 1

(* What is made of a packet: its body is a payload or a result's fields.   *)
Command(read, body) ==
    [op |-> OpCode(read), sender |-> Sender(read), data |-> read.Data, body |-> body]

(* Mutant: the position moves on by the bytes that were asked for.         *)
Payload_Asked(n, at) ==
    LET k == IF at + n <= arrived THEN n ELSE arrived - at
        bytes == [i \in 1..n |-> IF i <= k THEN wire[at + i] ELSE 0] IN
    IF ~datagram /\ k = 0 THEN IF n = 0 THEN Failed ELSE NoByte
    ELSE Ok(Reading(With(Top.read, "Command", Command(Top.read, <<"payload", bytes>>))), at + n)

(* CustomCommand::Deserialize.  A single Read fills the payload, which     *)
(* has been made as long as the packet says: recv waits for one byte and   *)
(* takes what there is.  To be asked for no bytes is an error.             *)
Payload(n, at) ==
    LET k == IF at + n <= arrived THEN n ELSE arrived - at
        bytes == [i \in 1..n |-> IF i <= k THEN wire[at + i] ELSE 0] IN
    IF ~datagram /\ k = 0 THEN IF n = 0 THEN Failed ELSE NoByte
    ELSE Ok(Reading(With(Top.read, "Command", Command(Top.read, <<"payload", bytes>>))), at + k)

ReadPayload ==
    /\ InPacket /\ OpCode(Top.read) \notin Results
    /\ \E key \in PayloadKey :
        LET length == ReadUInt32(key.at, Unlimited) IN
        /\ Step(Then(length, Payload))
        /\ astray' = (astray \/ (alive' /\ ~datagram
                                  /\ \E n \in length : pos' < n.at + n.v))
    /\ UNCHANGED <<input, got>>

(* The Deserialize of a result, from a LimitedPositionStream.              *)
CallResult ==
    /\ InPacket /\ OpCode(Top.read) \in Results
    /\ \E key \in PayloadKey :
        Step(Call("result", OpCode(Top.read), <<>>, stack, key.at))
    /\ UNCHANGED <<input, got, astray>>

AddField(key, r) ==
    Then(r, LAMBDA v, at :
        Ok(Reading(Append(Top.read, [key |-> key, value |-> v])), at))

ResultField(b, at) ==
    LET known == Known(Top.slot) IN
    IF b \notin DOMAIN known THEN Skip(b, at, Top.limit)
    ELSE CASE known[b] = "number" -> AddField(b, ReadUInt64(at, Top.limit))
           [] known[b] = "bool" -> AddField(b, ReadBool(at, Top.limit))
           [] known[b] = "string" -> AddField(b, ReadString(at, Top.limit))

ReadResultField ==
    /\ Reads("result")
    /\ LET key == ReadByte(pos, Top.limit)
           command == Command(Caller.read, <<"fields", Top.read>>) IN
       IF key # AtEnd THEN Step(Then(key, ResultField))
       ELSE /\ stack' = Return(With(Caller.read, "Command", command))
            /\ UNCHANGED <<pos, alive>>
    /\ UNCHANGED <<input, got, astray>>

(* ReadRTData.  The end of the stream ends it as its limit does.  Field 0  *)
(* fails after its value has been read, which makes no difference here.    *)
StoreSlot(i, type, r) ==
    Then(r, LAMBDA v, at : Ok(Reading(With(Top.read, i, <<type, v>>)), at))

DataSlot(key, at) ==
    IF key[1] \notin Slots THEN Failed
    ELSE CASE key[2] = 0 -> StoreSlot(key[1], "long", ReadZInt(64, at))
           [] key[2] = 5 -> StoreSlot(key[1], "float", ReadBytes(4, at, Unlimited))
           [] key[2] = 1 -> StoreSlot(key[1], "double", ReadBytes(8, at, Unlimited))
           [] key[2] = 2 -> Call("value", key[1], <<>>, stack, at)
           [] OTHER -> Ok(stack, at)

DataField(b, at) == Then(ReadKey(b, at, Unlimited), DataSlot)

(* The data belong to the packet or to a value.                            *)
EndData ==
    Return(IF Caller.in = "packet" THEN [Caller.read EXCEPT !.Data = Top.read]
                                   ELSE <<"data", Top.read>>)

ReadDataField ==
    /\ Reads("data")
    /\ IF pos = Top.limit \/ NextKey = AtEnd
       THEN stack' = EndData /\ UNCHANGED <<pos, alive>>
       ELSE Step(Then(NextKey, DataField))
    /\ UNCHANGED <<input, got, astray>>

(* The packed floats of a vector, of which it keeps four.  They must end   *)
(* where the vector does.                                                  *)
Vector(n, at) ==
    LET floats == (n + 3) \div 4 IN
    Then(ReadBytes(4 * floats, at, Unlimited), LAMBDA v, next :
        IF n % 4 # 0 THEN Failed
        ELSE Ok(Reading(<<"vector", [i \in 1..(IF floats < 4 THEN floats ELSE 4) |->
                                        SubSeq(v, 4 * i - 3, 4 * i)]>>), next))

(* ReadRTVal                                                               *)
StringValue(r) == Then(r, LAMBDA v, at : Ok(Reading(<<"string", v>>), at))

ValueField(b, at) ==
    CASE b = 10 -> StringValue(ReadString(at, Unlimited))
      [] b = 18 -> Then(ReadUInt32(at, Unlimited), Vector)
      [] b = 114 -> Call("data", 0, <<>>, stack, at)
      [] OTHER -> Skip(b, at, Unlimited)

ReadValueField ==
    /\ Reads("value")
    /\ IF pos = Top.limit
       THEN /\ stack' = Return(With(Caller.read, Top.slot, Top.read))
            /\ UNCHANGED <<pos, alive>>
       ELSE Step(Then(NextKey, ValueField))
    /\ UNCHANGED <<input, got, astray>>

(* Mutant: the end of the stream ends a packet, as it does the data.       *)
PacketReceived_AtEnd ==
    /\ Reads("packet")
    /\ pos = Top.limit \/ NextKey = AtEnd
    /\ got' = Append(got, [command |-> Command(Top.read, <<"payload", <<>>>>),
                          reliable |-> ~datagram])
    /\ stack' = <<>>
    /\ UNCHANGED <<input, pos, alive, astray>>

(* The end of a packet, and OnPacketReceived.                              *)
PacketReceived ==
    /\ Reads("packet") /\ pos = Top.limit
    /\ LET read == Top.read
           command == IF "Command" \in DOMAIN read THEN read.Command
                      ELSE Command(read, <<"payload", <<>>>>)
           reliable == IF "Reliable" \in DOMAIN read THEN read.Reliable ELSE ~datagram IN
       got' = Append(got, [command |-> command, reliable |-> reliable])
    /\ stack' = <<>>
    /\ UNCHANGED <<input, pos, alive, astray>>

-----------------------------------------------------------------------------
Server == (\E p \in Packets : Send(p)) \/ Close

Network == Arrive \/ \E n \in 1..Len(wire) : Receive(n)

Thread ==
    \/ ReadPacket \/ ReadPacketField \/ ReadPayload \/ PacketReceived
    \/ CallResult \/ ReadResultField \/ ReadDataField \/ ReadValueField

Next == Server \/ Network \/ Thread

(* The network delivers what it is given, and the thread is scheduled.     *)
Fairness == WF_vars(Network) /\ WF_vars(Thread)

Spec == Init /\ [][Next]_vars /\ Fairness

-----------------------------------------------------------------------------
(* Properties                                                              *)

(* The command a packet is meant to become.                                *)
Meant(p) ==
    [command |-> Command(p,
        IF "Fields" \in DOMAIN p
        THEN LET known == SelectSeq(p.Fields, LAMBDA f : f.key \in DOMAIN Known(p.OpCode)) IN
             <<"fields", [i \in DOMAIN known |->
                            [key |-> known[i].key, value |-> known[i].value]]>>
        ELSE <<"payload", IF "Payload" \in DOMAIN p THEN p.Payload ELSE <<>>>>),
     reliable |-> IF "Reliable" \in DOMAIN p THEN p.Reliable ELSE ~datagram]

(* What a slot may hold (nothing, if its value has no field) and data,     *)
(* which have no slots but those of the array they are kept in.            *)
IsValue(v) ==
    \/ v = <<>>
    \/ v[1] = "long" /\ v[2] \in Int
    \/ v[1] = "float" /\ v[2] \in Seq(Byte) /\ Len(v[2]) = 4
    \/ v[1] = "double" /\ v[2] \in Seq(Byte) /\ Len(v[2]) = 8
    \/ v[1] = "string" /\ v[2] \in Seq(Byte)
    \/ v[1] = "vector" /\ v[2] \in Seq(Seq(Byte)) /\ Len(v[2]) <= 4
    \/ v[1] = "data" /\ DOMAIN v[2] \subseteq Slots
IsData(data) == DOMAIN data \subseteq Slots /\ \A i \in DOMAIN data : IsValue(data[i])

(* Fields of a result, each with a key that its Deserialize knows.         *)
AreFields(op, fields) ==
    \A i \in DOMAIN fields :
        LET key == fields[i].key
            value == fields[i].value IN
        /\ key \in DOMAIN Known(op)
        /\ \/ Known(op)[key] = "number" /\ value \in Nat
           \/ Known(op)[key] = "bool" /\ value \in BOOLEAN
           \/ Known(op)[key] = "string" /\ value \in Seq(Byte)

IsCommand(command) ==
    /\ command.op \in Int /\ command.sender \in Nat /\ IsData(command.data)
    /\ \/ /\ command.op \notin Results
          /\ command.body[1] = "payload" /\ command.body[2] \in Seq(Byte)
       \/ command.body[1] = "payload" /\ command.body[2] = <<>>
       \/ command.body[1] = "fields" /\ AreFields(command.op, command.body[2])

(* What has been read of a packet.                                         *)
IsPacket(read) ==
    /\ "Data" \in DOMAIN read /\ IsData(read.Data)
    /\ "OpCode" \in DOMAIN read => read.OpCode \in Int
    /\ "Sender" \in DOMAIN read => read.Sender \in Nat
    /\ "Reliable" \in DOMAIN read => read.Reliable \in BOOLEAN
    /\ "Command" \in DOMAIN read => IsCommand(read.Command)

(* Which function calls which, and what the one that is called has read.   *)
CalledBy(f, caller) ==
    \/ f.in = "data" /\ caller.in \in {"packet", "value"} /\ IsData(f.read)
    \/ f.in = "value" /\ caller.in = "data" /\ f.slot \in Slots /\ IsValue(f.read)
    \/ /\ f.in = "result" /\ caller.in = "packet"
       /\ f.slot = OpCode(caller.read) /\ AreFields(f.slot, f.read)

(* Every variable holds a value of its type: whatever the bytes are, none  *)
(* is taken from the stream before it has come, each function was called   *)
(* by one that calls it, and what it has read fits the arrays of RTData    *)
(* and the fields of the result that is read.                              *)
TypeOK ==
    /\ {datagram, ended, alive, astray} \subseteq BOOLEAN
    /\ sent \in Seq(Packets) /\ wire \in Seq(Byte) /\ arrived \in 0..Len(wire)
    /\ pos \in Nat /\ (datagram \/ pos <= arrived)
    /\ \A i \in DOMAIN stack :
         /\ stack[i].limit \in Nat
         /\ IF i = 1 THEN stack[1].in = "packet" /\ IsPacket(stack[1].read)
            ELSE CalledBy(stack[i], stack[i - 1])
    /\ \A i \in DOMAIN got :
         IsCommand(got[i].command) /\ got[i].reliable \in BOOLEAN

(* As long as no payload was read in part, every packet becomes the        *)
(* command it was meant to be, in the order the packets were sent in:      *)
(* whatever comes out of a stream byte by byte and out of a datagram that  *)
(* was cut, what is read inside of what, and however long a number is.     *)
DeliveredAsSent ==
    ~astray => IsPrefix(got, [i \in DOMAIN sent |-> Meant(sent[i])])

(* A field that Seek is needed for where there is none.                    *)
Unskippable(p) ==
    \/ ~datagram /\ "Later" \in DOMAIN p /\ p.Later[1] % 8 # 0
    \/ "Fields" \in DOMAIN p /\ \E i \in DOMAIN p.Fields :
          /\ p.Fields[i].key \notin DOMAIN Known(p.OpCode)
          /\ p.Fields[i].key % 8 # 0

(* A packet that was sent is delivered in the end: a connection survives   *)
(* what the server sends, and waits for no byte that nobody sends, unless  *)
(* the stream or the datagram ends before its bytes do, a payload was read *)
(* in part, or the thread fails at an unknown field that it cannot skip.   *)
EventuallyDelivered ==
    \A i \in 1..MaxSent :
        (Len(sent) >= i) ~>
            \/ Len(got) >= i
            \/ astray
            \/ ended /\ arrived < Len(wire)
            \/ ~alive /\ \E k \in DOMAIN sent : k = Len(got) + 1 /\ Unskippable(sent[k])
=============================================================================
