------------------------------ MODULE RTPackets ------------------------------
(***************************************************************************)
(* The bytes of a packet: Packet::Serialize, ProtocolParser's Write        *)
(* functions and RTDataSerializer's.  They are recursive, and apart from   *)
(* RTStream, which is proved about and knows nothing of them.              *)
(***************************************************************************)
EXTENDS RTStream

RECURSIVE WriteUInt(_)
WriteUInt(n) ==
    IF n < 128 THEN <<n>> ELSE <<128 + (n % 128)>> \o WriteUInt(n \div 128)

WriteZInt(n) == WriteUInt(IF n < 0 THEN -2 * n - 1 ELSE 2 * n)

WriteBytes(b) == WriteUInt(Len(b)) \o b

WriteBool(b) == IF b THEN <<1>> ELSE <<0>>

(* WriteRTData and WriteRTVal.  The value of a slot is a pair of a type    *)
(* and of what it holds; a float is its four bytes, a double its eight.    *)
RECURSIVE WriteRTData(_)

WriteRTVal(type, v) ==
    WriteBytes(CASE type = "string" -> <<10>> \o WriteBytes(v)
                 [] type = "data" -> <<114>> \o WriteRTData(v)
                 [] type = "vector" -> <<18>> \o WriteBytes(FlattenSeq(v)))

WriteSlot(i, type, v) ==
    CASE type = "long" -> WriteUInt(8 * i) \o WriteZInt(v)
      [] type = "double" -> WriteUInt(8 * i + 1) \o v
      [] type = "float" -> WriteUInt(8 * i + 5) \o v
      [] OTHER -> WriteUInt(8 * i + 2) \o WriteRTVal(type, v)

WriteRTData(data) ==
    WriteBytes(FlattenSeq([i \in Slots |->
        IF i \in DOMAIN data THEN WriteSlot(i, data[i][1], data[i][2]) ELSE <<>>]))

(* What a result's payload, which the server writes, looks like: pairs of  *)
(* a key and a value, of a type the client knows or other bytes.           *)
WriteResult(fields) ==
    FlattenSeq([i \in DOMAIN fields |->
        <<fields[i].key>> \o CASE fields[i].type = "number" -> WriteUInt(fields[i].value)
                               [] fields[i].type = "bool" -> WriteBool(fields[i].value)
                               [] fields[i].type = "string" -> WriteBytes(fields[i].value)
                               [] OTHER -> fields[i].value])

(* A nullable field of a packet, or one that may occur more than once.     *)
Field(p, name, bytes) == IF name \in DOMAIN p THEN bytes ELSE <<>>

(* Packet::Serialize and WritePayload, with fields of a later version.     *)
Serialize(p) ==
    <<8>> \o WriteZInt(p.OpCode)
    \o Field(p, "RequestId", <<24>> \o WriteUInt(p.RequestId))
    \o Field(p, "TargetPlayers",
             FlattenSeq([i \in DOMAIN p.TargetPlayers |->
                            <<32>> \o WriteUInt(p.TargetPlayers[i])]))
    \o Field(p, "Sender", <<40>> \o WriteUInt(p.Sender))
    \o Field(p, "Reliable", <<48>> \o WriteBool(p.Reliable))
    \o Field(p, "Later", p.Later)
    \o <<114>> \o WriteRTData(p.Data)
    \o Field(p, "Fields", <<122>> \o WriteBytes(WriteResult(p.Fields)))
    \o Field(p, "Payload", <<122>> \o WriteBytes(p.Payload))

SerializeLengthDelimited == [p \in Packets |-> WriteBytes(Serialize(p))]
=============================================================================
