--------------------------- MODULE MCStreamScopes ---------------------------
(* A WebSocket client that may ask for its own vessel or for all contexts, *)
(* with or without cached values; a position made of a required and an     *)
(* optional field, and an AIS target with two entries.                     *)
EXTENDS StreamServer

MCPath == <<"clock", "position", "position", "target">>
MCSource == <<"server", "gps", "gps", "ais">>
MCMemberSize == <<<<1>>, <<2>>, <<2>>, <<1, 2>>>>
MCMemberCount == [p \in DOMAIN MCMemberSize |-> Len(MCMemberSize[p])]
MCSize == [p \in DOMAIN MCMemberSize |->
              [members \in SUBSET DOMAIN MCMemberSize[p] |-> SumFunctionOnSet(MCMemberSize[p], members)]]

=============================================================================
