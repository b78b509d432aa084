--------------------------- MODULE MCStreamServer ---------------------------
(* A client of the line server, an object too large for one delta, a plain *)
(* value of the same source and an AIS target.                             *)
EXTENDS StreamServer

MCPath == <<"clock", "object", "plain", "target">>
MCSource == <<"server", "gps", "gps", "ais">>
MCMemberSize == <<<<1>>, <<2, 2>>, <<1>>, <<1>>>>
MCMemberCount == [p \in DOMAIN MCMemberSize |-> Len(MCMemberSize[p])]
MCSize == [p \in DOMAIN MCMemberSize |->
              [members \in SUBSET DOMAIN MCMemberSize[p] |-> SumFunctionOnSet(MCMemberSize[p], members)]]

=============================================================================
