------------------------------ MODULE MCRTStream ------------------------------
(* The instance of RTStream TLC checks.                                    *)
EXTENDS RTPackets, TLC

(* A request of another player, with values of all the types that are read *)
(* in place, a slot whose key has two bytes and a payload of which the     *)
(* last two bytes read as a field.                                         *)
MCRequest ==
    [OpCode |-> 120, TargetPlayers |-> <<1, 200>>, Sender |-> 2, Reliable |-> TRUE,
     Data |-> 1 :> <<"long", -70>> @@ 2 :> <<"float", <<0, 0, 44, 66>>>>
                @@ 17 :> <<"double", <<0, 0, 0, 0, 0, 0, 69, 64>>>>,
     Payload |-> <<1, 24, 3>>]

(* One whose data hold data, a string and a vector, without a payload.     *)
MCNested ==
    [OpCode |-> 1, Sender |-> 2,
     Data |-> 3 :> <<"data", 1 :> <<"string", <<114, 10>>>>
                               @@ 2 :> <<"data", 5 :> <<"long", 64>>>>>>
                @@ 4 :> <<"vector", <<<<0, 0, 28, 65>>, <<8, 8, 8, 8>>>>>>]

(* Results: one with fields of all types, one without fields, and two with *)
(* a field of a later version, a varint and a string.                      *)
MCLogin ==
    [OpCode |-> LoginResult, RequestId |-> 1, Data |-> <<>>,
     Fields |-> <<[key |-> 8, type |-> "bool", value |-> TRUE],
                  [key |-> 18, type |-> "string", value |-> <<18, 1>>],
                  [key |-> 32, type |-> "number", value |-> 2],
                  [key |-> 32, type |-> "number", value |-> 3],
                  [key |-> 40, type |-> "number", value |-> 5050]>>]
MCUdp == [OpCode |-> UDPConnectMessage, Reliable |-> FALSE, Data |-> <<>>,
          Fields |-> <<>>]
MCConnect ==
    [OpCode |-> PlayerConnectMessage, Data |-> <<>>,
     Fields |-> <<[key |-> 8, type |-> "number", value |-> 3],
                  [key |-> 72, type |-> "number", value |-> 300]>>]
MCLater ==
    [OpCode |-> PlayerDisconnectMessage, Data |-> <<>>,
     Fields |-> <<[key |-> 8, type |-> "number", value |-> 3],
                  [key |-> 82, type |-> "string", value |-> <<7>>]>>]

(* A packet with four bytes of a later version.                            *)
MCFixed == [OpCode |-> 2, Later |-> <<61, 1, 2, 3, 4>>, Data |-> <<>>]

MCPackets == {MCRequest, MCNested, MCLogin, MCUdp, MCConnect, MCLater, MCFixed}
=============================================================================
