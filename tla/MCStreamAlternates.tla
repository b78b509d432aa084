------------------------- MODULE MCStreamAlternates -------------------------
(* Two fields of one source that map to the same path in different units,  *)
(* as EnvironmentWindSpeedTrue in knots and in metres per second.          *)
EXTENDS StreamServer

MCPath == <<"clock", "speed", "speed">>
MCSource == <<"server", "wind", "wind">>
MCMemberSize == <<<<1>>, <<1>>, <<1>>>>
MCMemberCount == [p \in DOMAIN MCMemberSize |-> Len(MCMemberSize[p])]
MCSize == [p \in DOMAIN MCMemberSize |->
              [members \in SUBSET DOMAIN MCMemberSize[p] |-> SumFunctionOnSet(MCMemberSize[p], members)]]

=============================================================================
