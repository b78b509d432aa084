------------------------------ MODULE MCModel ------------------------------
(***************************************************************************)
(* The data model between the receivers and the clients, seen twice: by    *)
(* source (ModelStore: a position made of two fields that one sentence     *)
(* writes, a speed, and two receivers that report them) and by path        *)
(* (PathUpdates: one path at a time, fed by every sentence, datagram and   *)
(* report that touches it).  "part" is the view of a behaviour.            *)
(***************************************************************************)
EXTENDS MCModelStore, PathUpdates

VARIABLE part

modelVars == <<part, vars, path_vars>>

ModelInit ==
    /\ part \in {"sources", "paths"}
    /\ Init
    /\ PathInit
    /\ part = "sources" => connector = "nmea" /\ path = "position"

\* The inputs of PathUpdates are over.
PathsDone == now = MaxInputs /\ path_pending = <<>> /\ UNCHANGED path_vars

ModelNext ==
    /\ UNCHANGED part
    /\ \/ part = "sources" /\ Next /\ UNCHANGED path_vars
       \/ part = "paths" /\ (PathNext \/ PathsDone) /\ UNCHANGED vars

ModelSpec == ModelInit /\ [][ModelNext]_modelVars

\* The store is in order in both views: no field waits twice, and the table of
\* source values has one entry each, the latest.
ModelConsistent == PathTypeOK /\ TableConsistent

=============================================================================
