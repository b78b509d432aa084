----------------------------- MODULE MCRuntime -----------------------------
(***************************************************************************)
(* What the event loop must keep going: the tasks of either scheduler, the *)
(* connectors that lost their peer and the REST responses that are held.   *)
(* They are independent of each other here, so each behaviour is one of    *)
(* "part".                                                                 *)
(***************************************************************************)
EXTENDS ArduinoLoop, LibeventLoop, ConnectorRuntime, RestStream

VARIABLE part

runtimeVars == <<part, vars, lvVars, crVars, rsVars>>

RuntimeInit ==
    /\ part \in {"cooperative", "libevent", "connectors", "rest"}
    /\ Init /\ LvInit /\ CrInit /\ RsInit
    /\ part # "rest" => rs.present = Leaves

RuntimeNext ==
    /\ UNCHANGED part
    /\ \/ part = "cooperative" /\ Next /\ UNCHANGED <<lvVars, crVars, rsVars>>
       \/ part = "libevent" /\ LvNext /\ UNCHANGED <<vars, crVars, rsVars>>
       \/ part = "connectors" /\ CrNext /\ UNCHANGED <<vars, lvVars, rsVars>>
       \/ part = "rest" /\ RsNext /\ UNCHANGED <<vars, lvVars, crVars>>

(* A part that is left out offers no step to be fair to, except the        *)
(* cooperative loop, whose passes run even without tasks.                  *)
RuntimeSpec ==
    /\ RuntimeInit /\ [][RuntimeNext]_runtimeVars
    /\ WF_vars(part = "cooperative" /\ RunOnce)
    /\ LvFairness /\ CrFairness /\ RsFairness

(* The schedulers' own records hold up under what callbacks do to them.    *)
LoopsSound == LoopTypeOK /\ LvItemOutlivesCall

(* With either scheduler a task that is due is run or removed.             *)
DueTasksRun == DueRuns /\ LvDueRuns

=============================================================================
