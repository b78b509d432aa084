-------------------------- MODULE EventLoopProofs --------------------------
(***************************************************************************)
(* The callback slots of the event loop, for every number of slots, every  *)
(* set of periods and delays and every number of registrations that the    *)
(* generation counter can tell apart.                                      *)
(*                                                                         *)
(* The properties of module EventLoop are not inductive.  That a handle    *)
(* controls its own callback only needs a bound between the generation of  *)
(* a slot and the registrations there were (Generated), so that the        *)
(* counter has not come round, and that the generation of a free slot was  *)
(* never given out (Handled).  That the scheduler and the slots agree      *)
(* needs to know what a poll in progress finds when it ends (Polled).      *)
(*                                                                         *)
(* The second part is the libevent backend: it implements IScheduler, for  *)
(* every set of tasks, periods and delays.  What libevent calls back is    *)
(* one of several registrations, some of them removed and waiting to be    *)
(* freed, so the mapping to one entry per task needs that a task has at    *)
(* most one registration (Unique), that a removed one has no task left and *)
(* stays only while a callback is in progress, and that a timer libevent   *)
(* has taken was due (ItemOK).                                             *)
(*                                                                         *)
(* The third part is the TCP client connectors, which use one slot of the  *)
(* loop each for the reconnect timer.  That nothing of a connection        *)
(* outlives it needs the state of the stream at each stage of the          *)
(* connection (StreamOK), and that no started connector is left behind     *)
(* that its timer is pending exactly while it is neither connected nor     *)
(* connecting (Retried), which takes a slot for every connector.           *)
(***************************************************************************)
EXTENDS EventLoop, LibeventLoop, ConnectorRuntime, TLAPS

EntryKinds == {"none", "periodic", "one_shot", "readable"}
Entries == [kind : EntryKinds, due : Int, period : Int]
Tasks == [callable : Callables, active : BOOLEAN, enabled : BOOLEAN,
          invoking : BOOLEAN, clear_requested : BOOLEAN]

(* The scheduler's variables have their types.                             *)
SchedulerTypeOK ==
    /\ now \in Int
    /\ entry \in [CallbackSlots -> Entries]

Scheduled(s) == entry[s] # Backend!Unregistered

(* A slot, its task and its registration with the scheduler.               *)
SlotInv(s) ==
    /\ used[s] <=> task[s].active
    /\ Scheduled(s) => /\ used[s]
                       /\ task[s].callable.one_shot <=> entry[s].kind = "one_shot"
    /\ used[s] => /\ task[s].callable.generation = generation[s]
                  /\ task[s].callable.id # 0
    /\ task[s].clear_requested => task[s].invoking /\ ~used[s]
    /\ task[s].invoking => polling = s /\ task[s].callable.id # 0

(* Each release, which moves the generation on, ends a registration.       *)
Generated(s) == generation[s] + (IF used[s] THEN 1 ELSE 0) <= registrations

(* The slot that is being polled.                                          *)
Polled(s) ==
    polling = s => /\ kept <=> Scheduled(s)
                   /\ ~kept => task[s].invoking /\ ~used[s]

(* A slot in use is scheduled, if no one-shot callback is disabled.        *)
SlotKept(s) ==
    /\ used[s] => Scheduled(s) /\ (task[s].callable.one_shot => task[s].enabled)
    /\ polling = s /\ used[s] /\ task[s].callable.one_shot => task[s].invoking

(* The handles of a slot are of its generation, and then of its callable,  *)
(* or of an earlier one.                                                   *)
Handled(h) ==
    \/ h.generation < generation[h.slot]
    \/ /\ h.generation = generation[h.slot] /\ used[h.slot]
       /\ task[h.slot].callable.id = h.id

LoopInv ==
    /\ EventLoopTypeOK
    /\ SchedulerTypeOK
    /\ \A s \in CallbackSlots : SlotInv(s) /\ Generated(s) /\ Polled(s)
    /\ ~DisablesOneShots => \A s \in CallbackSlots : SlotKept(s)
    /\ \A h \in handles : Handled(h)

-----------------------------------------------------------------------------
(* The steps of LoopInv.                                                   *)

(* The loop starts with no work scheduled.                                 *)
LEMMA InitInv == Init => LoopInv
<1> SUFFICES ASSUME Init PROVE LoopInv
  BY Zenon
<1> USE EventLoopAssumption DEF Init, Backend!Init, Backend!Unregistered, EmptyTask, NoCallable
<1>1. EventLoopTypeOK
  BY DEF EventLoopTypeOK, Callables
<1>2. SchedulerTypeOK
  <2>1. Backend!Unregistered \in Entries
    BY DEF Entries, EntryKinds
  <2>2. entry = [s \in CallbackSlots |-> Backend!Unregistered]
    BY Zenon DEF Entries
  <2>3. entry \in [CallbackSlots -> Entries]
    BY <2>1, <2>2, Zenon
  <2> QED BY <2>3 DEF SchedulerTypeOK
<1>3. ASSUME NEW s \in CallbackSlots
      PROVE  SlotInv(s) /\ Generated(s) /\ Polled(s) /\ SlotKept(s)
  BY DEF SlotInv, Generated, Polled, SlotKept, Scheduled
<1> QED BY <1>1, <1>2, <1>3, Zenon DEF LoopInv

(* CallbackTask::clear() empties a task that is not invoked.               *)
LEMMA ClearIdle ==
    ASSUME NEW t \in Tasks, ~t.invoking
    PROVE  clear(t) = EmptyTask
<1>1. clear(t) = destroy_now(t)
  BY Zenon DEF clear
<1>2. destroy_now(t) = [EmptyTask EXCEPT !.invoking = FALSE]
  BY Zenon DEF destroy_now, Tasks
<1> QED BY <1>1, <1>2, Zenon DEF EmptyTask

(* It leaves the callable of one that is.                                  *)
LEMMA ClearInvoked ==
    ASSUME NEW t \in Tasks, t.invoking
    PROVE  clear(t) = [callable |-> t.callable, active |-> FALSE, enabled |-> FALSE,
                       invoking |-> TRUE, clear_requested |-> TRUE]
<1>1. t = [callable |-> t.callable, active |-> t.active, enabled |-> t.enabled,
           invoking |-> TRUE, clear_requested |-> t.clear_requested]
  BY Zenon DEF Tasks
<1>2. clear(t) = [t EXCEPT !.active = FALSE, !.enabled = FALSE, !.clear_requested = TRUE]
  BY Zenon DEF clear
<1> DEFINE u == [callable |-> t.callable, active |-> t.active, enabled |-> t.enabled,
                 invoking |-> TRUE, clear_requested |-> t.clear_requested]
<1>3. clear(t) = [u EXCEPT !.active = FALSE, !.enabled = FALSE, !.clear_requested = TRUE]
  BY <1>1, <1>2, Zenon
<1> QED BY <1>3, Zenon

(* LoopInv for one slot.                                                   *)
LEMMA SlotFacts ==
    ASSUME LoopInv
    PROVE  /\ registrations \in Int
           /\ \A r \in CallbackSlots :
                 /\ SlotInv(r) /\ Generated(r) /\ Polled(r) /\ (~DisablesOneShots => SlotKept(r))
                 /\ generation[r] \in Int /\ (task[r].invoking => polling = r)
<1>1. registrations \in Int /\ \A r \in CallbackSlots : generation[r] \in Int
  BY EventLoopAssumption DEF LoopInv, EventLoopTypeOK
<1>2. \A r \in CallbackSlots :
        SlotInv(r) /\ Generated(r) /\ Polled(r) /\ (~DisablesOneShots => SlotKept(r))
  BY Zenon DEF LoopInv
<1>3. \A r \in CallbackSlots : task[r].invoking => polling = r
  BY <1>2, Zenon DEF SlotInv
<1> QED BY <1>1, <1>2, <1>3, Zenon

(* A slot that a step leaves alone.                                        *)
LEMMA OtherSlot ==
    ASSUME LoopInv, NEW r \in CallbackSlots,
           used'[r] = used[r], task'[r] = task[r], entry'[r] = entry[r],
           generation'[r] = generation[r],
           registrations' \in Int, registrations <= registrations',
           task[r].invoking => polling' = r,
           polling' = r => polling = r /\ (kept' <=> kept)
    PROVE  (SlotInv(r) /\ Generated(r) /\ Polled(r))' /\ (~DisablesOneShots => SlotKept(r)')
<1>1. SlotInv(r) /\ Generated(r) /\ Polled(r) /\ (~DisablesOneShots => SlotKept(r))
  BY SlotFacts, Zenon
<1>2. generation[r] \in Int /\ registrations \in Int
  BY SlotFacts, Zenon
<1>3. Scheduled(r)' <=> Scheduled(r)
  BY Zenon DEF Scheduled
<1>4. SlotInv(r)'
  BY <1>1, <1>3, Zenon DEF SlotInv
<1>5. Generated(r)'
  BY <1>1, <1>2 DEF Generated
<1>6. Polled(r)'
  BY <1>1, <1>3, Zenon DEF Polled
<1>7. ~DisablesOneShots => SlotKept(r)'
  BY <1>1, <1>3, Zenon DEF SlotKept
<1> QED BY <1>4, <1>5, <1>6, <1>7, Zenon

(* A handle of a slot that keeps its callable, or that has moved on.       *)
LEMMA OldHandle ==
    ASSUME LoopInv, NEW h \in handles,
           \/ /\ generation'[h.slot] = generation[h.slot]
              /\ used[h.slot] => used'[h.slot] /\ task'[h.slot].callable = task[h.slot].callable
           \/ generation'[h.slot] = generation[h.slot] + 1
    PROVE  Handled(h)'
<1>1. Handled(h) /\ h.slot \in CallbackSlots /\ h.generation \in Int
  BY DEF LoopInv, EventLoopTypeOK
<1>2. generation[h.slot] \in Int
  BY <1>1 DEF LoopInv, EventLoopTypeOK
<1> QED BY <1>1, <1>2 DEF Handled

(* The new callable gets the generation of the slot, which no handle has.  *)
LEMMA RegisterInv ==
    ASSUME LoopInv,
           NEW s \in CallbackSlots, NEW one_shot \in BOOLEAN, NEW e \in Entries,
           e.kind # "none", one_shot <=> e.kind = "one_shot",
           Register(s, one_shot, Backend!Add(s, e))
    PROVE  LoopInv'
<1> DEFINE new == [id |-> registrations + 1, one_shot |-> one_shot, generation |-> generation[s]]
           t == [callable |-> new, active |-> TRUE, enabled |-> TRUE,
                 invoking |-> FALSE, clear_requested |-> FALSE]
           h0 == [slot |-> s, generation |-> generation[s], id |-> registrations + 1]
<1> USE EventLoopAssumption
<1>1. /\ ~used[s] /\ ~task[s].invoking /\ registrations < MaxRegistrations
      /\ registrations' = registrations + 1
      /\ used' = [used EXCEPT ![s] = TRUE]
      /\ entry' = [entry EXCEPT ![s] = e]
      /\ handles' = handles \cup {h0}
      /\ UNCHANGED <<generation, now, polling, kept>>
  BY Zenon DEF Register, Backend!Add, FirstFree
<1>2. task' = [task EXCEPT ![s] = t]
  <2>1. task' = [task EXCEPT ![s] = set(task[s], new)]
    BY Zenon DEF Register
  <2>2. clear(task[s]) = EmptyTask
    BY <1>1, ClearIdle, Zenon DEF LoopInv, EventLoopTypeOK, Tasks
  <2>3. set(task[s], new) = [EmptyTask EXCEPT !.callable = new, !.active = TRUE, !.enabled = TRUE]
    BY <2>2, Zenon DEF set
  <2>4. set(task[s], new) = t
    BY <2>3, ZenonT(30) DEF EmptyTask
  <2> QED BY <2>1, <2>4, Zenon
<1>3. new \in Callables
  BY <1>1 DEF LoopInv, EventLoopTypeOK, Callables
<1>4. e # Backend!Unregistered
  BY DEF Backend!Unregistered
<1>5. EventLoopTypeOK'
  <2>1. task' \in [CallbackSlots -> [callable : Callables, active : BOOLEAN, enabled : BOOLEAN,
                           invoking : BOOLEAN, clear_requested : BOOLEAN]]
    BY <1>2, <1>3, Zenon DEF LoopInv, EventLoopTypeOK
  <2>2. \A r \in CallbackSlots : task'[r].enabled => task'[r].active
    BY <1>2, Zenon DEF LoopInv, EventLoopTypeOK
  <2>3. handles' \subseteq [slot : CallbackSlots, generation : 0 .. Generations - 1, id : 1 .. MaxRegistrations]
    BY <1>1 DEF LoopInv, EventLoopTypeOK
  <2>4. /\ used' \in [CallbackSlots -> BOOLEAN]
        /\ generation' \in [CallbackSlots -> 0 .. Generations - 1]
        /\ registrations' \in 0 .. MaxRegistrations
        /\ polling' \in CallbackSlots \cup {NoTask}
    BY <1>1 DEF LoopInv, EventLoopTypeOK
  <2> QED BY <2>1, <2>2, <2>3, <2>4, Zenon DEF EventLoopTypeOK
<1>6. SchedulerTypeOK'
  BY <1>1, Zenon DEF LoopInv, SchedulerTypeOK, Entries
<1>7. /\ used'[s] /\ task'[s] = t /\ entry'[s] = e
      /\ \A r \in CallbackSlots \ {s} : used'[r] = used[r] /\ task'[r] = task[r] /\ entry'[r] = entry[r]
  BY <1>1, <1>2, Zenon DEF LoopInv, EventLoopTypeOK, SchedulerTypeOK
<1>8. polling # s
  BY <1>1, Zenon DEF LoopInv, Register, InProgram
<1>9. ASSUME NEW r \in CallbackSlots
      PROVE  (SlotInv(r) /\ Generated(r) /\ Polled(r))' /\ (~DisablesOneShots => SlotKept(r)')
  <2>1. CASE r = s
    <3>1. SlotInv(s)'
      <4>1. registrations + 1 # 0
        BY DEF LoopInv, EventLoopTypeOK
      <4> QED BY <4>1, <1>1, <1>4, <1>7 DEF SlotInv, Scheduled
    <3>2. Generated(s)'
      BY <1>1, <1>7, SlotFacts DEF Generated
    <3>3. Polled(s)' /\ SlotKept(s)'
      BY <1>1, <1>4, <1>7, <1>8 DEF Polled, SlotKept, Scheduled
    <3> QED BY <2>1, <3>1, <3>2, <3>3, Zenon
  <2>2. CASE r # s
    <3>1. /\ registrations' \in Int /\ registrations <= registrations'
          /\ task[r].invoking => polling' = r
      BY <1>1, SlotFacts
    <3>2. /\ used'[r] = used[r] /\ task'[r] = task[r] /\ entry'[r] = entry[r]
          /\ generation'[r] = generation[r] /\ UNCHANGED <<polling, kept>>
      BY <2>2, <1>1, <1>7, Zenon
    <3> QED BY <3>1, <3>2, OtherSlot, Zenon
  <2> QED BY <2>1, <2>2, Zenon
<1>10. ASSUME NEW h \in handles' PROVE Handled(h)'
  <2>1. CASE h = h0
    BY <2>1, <1>1, <1>7 DEF Handled
  <2>2. CASE h \in handles /\ h.slot = s
    BY <2>2, <1>1, Zenon DEF LoopInv, Handled
  <2>3. CASE h \in handles /\ h.slot # s
    <3>1. h.slot \in CallbackSlots \ {s}
      BY <2>3, Zenon DEF LoopInv, EventLoopTypeOK
    <3> QED BY <2>3, <3>1, <1>1, <1>7, OldHandle
  <2> QED BY <2>1, <2>2, <2>3, <1>1, Zenon
<1> QED BY <1>5, <1>6, <1>9, <1>10, Zenon DEF LoopInv

(* The generation of a refused registration was given out to nobody.       *)
LEMMA RefusedInv ==
    ASSUME LoopInv, NEW s \in CallbackSlots, RegisterRefused(s)
    PROVE  LoopInv'
<1> USE EventLoopAssumption
<1>1. /\ ~used[s] /\ ~task[s].invoking /\ registrations < MaxRegistrations
      /\ registrations' = registrations + 1
      /\ used' = [used EXCEPT ![s] = FALSE]
      /\ task' = [task EXCEPT ![s] = EmptyTask]
      /\ UNCHANGED <<handles, now, entry, polling, kept>>
  BY Zenon DEF RegisterRefused, Release, FirstFree
<1>2. generation[s] \in 0 .. Generations - 2 /\ generation[s] <= registrations
  BY <1>1 DEF LoopInv, EventLoopTypeOK, Generated
<1>3. generation' = [generation EXCEPT ![s] = generation[s] + 1]
  <2>1. (generation[s] + 1) % Generations = generation[s] + 1
    BY <1>2
  <2> QED BY <2>1, Zenon DEF RegisterRefused, Release, NextGeneration
<1>4. EmptyTask \in Tasks
  BY DEF EmptyTask, NoCallable, Callables, Tasks
<1>5. EventLoopTypeOK'
  <2>1. task' \in [CallbackSlots -> Tasks]
    BY <1>1, <1>4, Zenon DEF LoopInv, EventLoopTypeOK, Tasks
  <2>2. \A r \in CallbackSlots : task'[r].enabled => task'[r].active
    BY <1>1, Zenon DEF LoopInv, EventLoopTypeOK, EmptyTask
  <2>3. /\ used' \in [CallbackSlots -> BOOLEAN]
        /\ generation' \in [CallbackSlots -> 0 .. Generations - 1]
        /\ registrations' \in 0 .. MaxRegistrations
        /\ polling' \in CallbackSlots \cup {NoTask}
        /\ handles' = handles
    BY <1>1, <1>2, <1>3 DEF LoopInv, EventLoopTypeOK
  <2> QED BY <2>1, <2>2, <2>3, Zenon DEF LoopInv, EventLoopTypeOK, Tasks
<1>6. SchedulerTypeOK'
  BY <1>1, Zenon DEF LoopInv, SchedulerTypeOK
<1>7. /\ ~used'[s] /\ task'[s] = EmptyTask /\ generation'[s] = generation[s] + 1
      /\ \A r \in CallbackSlots \ {s} :
            used'[r] = used[r] /\ task'[r] = task[r] /\ generation'[r] = generation[r]
  BY <1>1, <1>3, Zenon DEF LoopInv, EventLoopTypeOK
<1>8. polling # s
  BY <1>1, Zenon DEF LoopInv, RegisterRefused, InProgram
<1>9. ASSUME NEW r \in CallbackSlots
      PROVE  (SlotInv(r) /\ Generated(r) /\ Polled(r))' /\ (~DisablesOneShots => SlotKept(r)')
  <2>1. CASE r = s
    <3>1. SlotInv(s)'
      <4>1. SlotInv(s)
        BY SlotFacts, Zenon
      <4> QED BY <4>1, <1>1, <1>7 DEF SlotInv, Scheduled, EmptyTask
    <3>2. Generated(s)'
      BY <1>1, <1>2, <1>7, SlotFacts DEF Generated
    <3>3. Polled(s)' /\ SlotKept(s)'
      BY <1>1, <1>7, <1>8, Zenon DEF Polled, SlotKept
    <3> QED BY <2>1, <3>1, <3>2, <3>3, Zenon
  <2>2. CASE r # s
    <3>1. /\ registrations' \in Int /\ registrations <= registrations'
          /\ task[r].invoking => polling' = r
      BY <1>1, SlotFacts
    <3>2. /\ used'[r] = used[r] /\ task'[r] = task[r] /\ entry'[r] = entry[r]
          /\ generation'[r] = generation[r] /\ UNCHANGED <<polling, kept>>
      BY <2>2, <1>1, <1>7, Zenon
    <3> QED BY <3>1, <3>2, OtherSlot, Zenon
  <2> QED BY <2>1, <2>2, Zenon
<1>10. ASSUME NEW h \in handles' PROVE Handled(h)'
  <2>1. h \in handles /\ h.slot \in CallbackSlots
    BY <1>1, Zenon DEF LoopInv, EventLoopTypeOK
  <2> QED BY <2>1, <1>7, OldHandle, Zenon
<1> QED BY <1>5, <1>6, <1>9, <1>10, Zenon DEF LoopInv

(* A refused set() has changed nothing but the flags of a task that is     *)
(* about to be emptied.                                                    *)
LEMMA OwnSlotInv ==
    ASSUME LoopInv, NEW s \in CallbackSlots, RegisterInOwnSlot(s)
    PROVE  LoopInv'
<1> DEFINE t == [callable |-> task[s].callable, active |-> FALSE, enabled |-> FALSE,
                 invoking |-> TRUE, clear_requested |-> TRUE]
<1> USE EventLoopAssumption
<1>1. /\ ~used[s] /\ task[s].invoking
      /\ registrations < MaxRegistrations /\ registrations' = registrations + 1
      /\ UNCHANGED <<used, generation, handles, now, entry, polling, kept>>
  BY Zenon DEF RegisterInOwnSlot, FirstFree
<1>2. task' = [task EXCEPT ![s] = t]
  BY <1>1, ClearInvoked, Zenon DEF RegisterInOwnSlot, LoopInv, EventLoopTypeOK, Tasks
<1>3. EventLoopTypeOK'
  <2>1. task' \in [CallbackSlots -> Tasks]
    BY <1>2, Zenon DEF LoopInv, EventLoopTypeOK, Tasks
  <2>2. \A r \in CallbackSlots : task'[r].enabled => task'[r].active
    BY <1>2, Zenon DEF LoopInv, EventLoopTypeOK
  <2>3. registrations' \in 0 .. MaxRegistrations
    BY <1>1 DEF LoopInv, EventLoopTypeOK
  <2> QED BY <1>1, <2>1, <2>2, <2>3, Zenon DEF LoopInv, EventLoopTypeOK, Tasks
<1>4. SchedulerTypeOK'
  BY <1>1, Zenon DEF LoopInv, SchedulerTypeOK
<1>5. task'[s] = t /\ \A r \in CallbackSlots \ {s} : task'[r] = task[r]
  BY <1>2, Zenon DEF LoopInv, EventLoopTypeOK
<1>6. ASSUME NEW r \in CallbackSlots
      PROVE  (SlotInv(r) /\ Generated(r) /\ Polled(r))' /\ (~DisablesOneShots => SlotKept(r)')
  <2>1. CASE r = s
    <3>1. SlotInv(s) /\ Generated(s) /\ Polled(s)
      BY SlotFacts, Zenon
    <3>2. SlotInv(s)'
      BY <3>1, <1>1, <1>5 DEF SlotInv, Scheduled
    <3>3. Generated(s)'
      BY <3>1, <1>1, SlotFacts DEF Generated
    <3>4. Polled(s)'
      <4>1. Scheduled(s)' <=> Scheduled(s)
        BY <1>1, Zenon DEF Scheduled
      <4>2. task'[s].invoking /\ ~used'[s] /\ kept' = kept /\ polling' = polling
        BY <1>1, <1>5
      <4> QED BY <3>1, <4>1, <4>2, Zenon DEF Polled
    <3>5. SlotKept(s)'
      BY <1>1, Zenon DEF SlotKept
    <3> QED BY <2>1, <3>2, <3>3, <3>4, <3>5, Zenon
  <2>2. CASE r # s
    <3>1. /\ registrations' \in Int /\ registrations <= registrations'
          /\ task[r].invoking => polling' = r
      BY <1>1, SlotFacts
    <3>2. /\ used'[r] = used[r] /\ task'[r] = task[r] /\ entry'[r] = entry[r]
          /\ generation'[r] = generation[r] /\ UNCHANGED <<polling, kept>>
      BY <2>2, <1>1, <1>5, Zenon
    <3> QED BY <3>1, <3>2, OtherSlot, Zenon
  <2> QED BY <2>1, <2>2, Zenon
<1>7. ASSUME NEW h \in handles' PROVE Handled(h)'
  <2>1. h \in handles /\ h.slot \in CallbackSlots
    BY <1>1, Zenon DEF LoopInv, EventLoopTypeOK
  <2> QED BY <2>1, <1>1, <1>5, OldHandle, Zenon
<1> QED BY <1>3, <1>4, <1>6, <1>7, Zenon DEF LoopInv

(* A registered callback is removed, from outside or from inside its call. *)
LEMMA RemoveInv ==
    ASSUME LoopInv, NEW h \in handles, remove(h)
    PROVE  LoopInv'
<1> DEFINE s == h.slot
           t == clear(task[s])
<1> USE EventLoopAssumption
<1>1. s \in CallbackSlots
  BY Zenon DEF LoopInv, EventLoopTypeOK
<1> HIDE DEF s, t
<1>2. /\ used[s] /\ Scheduled(s)
      /\ used' = [used EXCEPT ![s] = FALSE]
      /\ task' = [task EXCEPT ![s] = t]
      /\ entry' = [entry EXCEPT ![s] = Backend!Unregistered]
      /\ kept' = (kept /\ s # polling)
      /\ UNCHANGED <<handles, registrations, now, polling>>
  BY Zenon DEF remove, valid, Release, Backend!Remove, Scheduled, s, t
<1>3. generation[s] \in 0 .. Generations - 2 /\ generation[s] + 1 <= registrations
  BY <1>1, <1>2 DEF LoopInv, EventLoopTypeOK, Generated
<1>4. generation' = [generation EXCEPT ![s] = generation[s] + 1]
  <2>1. (generation[s] + 1) % Generations = generation[s] + 1
    BY <1>3
  <2> QED BY <2>1, Zenon DEF remove, Release, NextGeneration, s
<1>5. /\ t \in Tasks /\ ~t.active /\ ~t.enabled
      /\ t.invoking <=> task[s].invoking
      /\ t.invoking => t.callable = task[s].callable
      /\ t.clear_requested => t.invoking
  <2>1. task[s] \in Tasks
    BY <1>1, Zenon DEF LoopInv, EventLoopTypeOK, Tasks
  <2>2. CASE task[s].invoking
    <3>1. t = [callable |-> task[s].callable, active |-> FALSE, enabled |-> FALSE,
               invoking |-> TRUE, clear_requested |-> TRUE]
      BY <2>1, <2>2, ClearInvoked, Zenon DEF t
    <3> QED BY <2>1, <2>2, <3>1, Zenon DEF Tasks
  <2>3. CASE ~task[s].invoking
    <3>1. t = EmptyTask
      BY <2>1, <2>3, ClearIdle, Zenon DEF t
    <3>2. EmptyTask \in Tasks
      BY DEF EmptyTask, NoCallable, Callables, Tasks
    <3> QED BY <2>3, <3>1, <3>2, Zenon DEF EmptyTask
  <2> QED BY <2>2, <2>3, Zenon
<1>6. EventLoopTypeOK'
  <2>1. task' \in [CallbackSlots -> Tasks]
    BY <1>2, <1>5, Zenon DEF LoopInv, EventLoopTypeOK, Tasks
  <2>2. \A r \in CallbackSlots : task'[r].enabled => task'[r].active
    BY <1>2, <1>5, Zenon DEF LoopInv, EventLoopTypeOK
  <2>3. used' \in [CallbackSlots -> BOOLEAN]
    BY <1>2, Zenon DEF LoopInv, EventLoopTypeOK
  <2>4. generation' \in [CallbackSlots -> 0 .. Generations - 1]
    <3>1. generation[s] + 1 \in 0 .. Generations - 1
      BY <1>3
    <3> QED BY <3>1, <1>4, Zenon DEF LoopInv, EventLoopTypeOK
  <2> QED BY <1>2, <2>1, <2>2, <2>3, <2>4, Zenon DEF LoopInv, EventLoopTypeOK, Tasks
<1>7. SchedulerTypeOK'
  <2>1. Backend!Unregistered \in Entries
    BY DEF Backend!Unregistered, Entries, EntryKinds
  <2> QED BY <1>2, <2>1, ZenonT(30) DEF LoopInv, SchedulerTypeOK
<1>8. /\ ~used'[s] /\ task'[s] = t /\ ~Scheduled(s)' /\ generation'[s] = generation[s] + 1
      /\ \A r \in CallbackSlots \ {s} :
            /\ used'[r] = used[r] /\ task'[r] = task[r] /\ entry'[r] = entry[r]
            /\ generation'[r] = generation[r]
  BY <1>1, <1>2, <1>4 DEF LoopInv, EventLoopTypeOK, SchedulerTypeOK, Scheduled
<1>9. polling = s => task[s].invoking
  BY <1>1, Zenon DEF remove, InProgram
<1>10. ASSUME NEW r \in CallbackSlots
       PROVE  (SlotInv(r) /\ Generated(r) /\ Polled(r))' /\ (~DisablesOneShots => SlotKept(r)')
  <2>1. CASE r = s
    <3>1. SlotInv(s)'
      <4>1. SlotInv(s)
        BY <1>1, SlotFacts, Zenon
      <4>2. t.invoking => polling' = s /\ t.callable.id # 0
        BY <4>1, <1>2, <1>5, Zenon DEF SlotInv
      <4> QED BY <4>2, <1>5, <1>8, Zenon DEF SlotInv
    <3>2. Generated(s)'
      BY <1>2, <1>3, <1>8, SlotFacts DEF Generated
    <3>3. Polled(s)' /\ SlotKept(s)'
      BY <1>2, <1>5, <1>8, <1>9, ZenonT(30) DEF Polled, SlotKept
    <3> QED BY <2>1, <3>1, <3>2, <3>3, Zenon
  <2>2. CASE r # s
    <3>1. /\ registrations' \in Int /\ registrations <= registrations'
          /\ task[r].invoking => polling' = r
      BY <1>2, SlotFacts
    <3>2. polling' = r => polling = r /\ (kept' <=> kept)
      BY <2>2, <1>2, Zenon
    <3>3. /\ used'[r] = used[r] /\ task'[r] = task[r] /\ entry'[r] = entry[r]
          /\ generation'[r] = generation[r]
      BY <2>2, <1>8, Zenon
    <3> QED BY <3>1, <3>2, <3>3, OtherSlot, Zenon
  <2> QED BY <2>1, <2>2, Zenon
<1>11. ASSUME NEW g \in handles' PROVE Handled(g)'
  <2>1. g \in handles /\ g.slot \in CallbackSlots
    BY <1>2, Zenon DEF LoopInv, EventLoopTypeOK
  <2> QED BY <2>1, <1>8, OldHandle, Zenon
<1> QED BY <1>6, <1>7, <1>10, <1>11, Zenon DEF LoopInv

(* enable and disable reach one-shot callbacks only with DisablesOneShots. *)
LEMMA EnabledInv ==
    ASSUME LoopInv, NEW h \in handles, NEW enabled \in BOOLEAN, set_enabled(h, enabled)
    PROVE  LoopInv'
<1> DEFINE s == h.slot
           t == [task[s] EXCEPT !.enabled = enabled]
<1> USE EventLoopAssumption
<1>1. s \in CallbackSlots
  BY Zenon DEF LoopInv, EventLoopTypeOK
<1> HIDE DEF s, t
<1>2. /\ used[s] /\ task[s].active
      /\ task[s].callable.one_shot => DisablesOneShots
      /\ task' = [task EXCEPT ![s] = t]
      /\ UNCHANGED <<used, generation, handles, registrations, now, entry, polling, kept>>
  BY Zenon DEF set_enabled, valid, s, t
<1>3. /\ t \in Tasks
      /\ t.callable = task[s].callable
      /\ t.active <=> task[s].active
      /\ t.invoking <=> task[s].invoking
      /\ t.clear_requested <=> task[s].clear_requested
  BY <1>1 DEF LoopInv, EventLoopTypeOK, Tasks, t
<1>4. EventLoopTypeOK'
  <2>1. task' \in [CallbackSlots -> Tasks]
    BY <1>2, <1>3, ZenonT(30) DEF LoopInv, EventLoopTypeOK, Tasks
  <2>2. \A r \in CallbackSlots : task'[r].enabled => task'[r].active
    BY <1>2, <1>3, Zenon DEF LoopInv, EventLoopTypeOK
  <2> QED BY <1>2, <2>1, <2>2, Zenon DEF LoopInv, EventLoopTypeOK, Tasks
<1>5. SchedulerTypeOK'
  BY <1>2, Zenon DEF LoopInv, SchedulerTypeOK
<1>6. task'[s] = t /\ \A r \in CallbackSlots \ {s} : task'[r] = task[r]
  BY <1>1, <1>2, Zenon DEF LoopInv, EventLoopTypeOK
<1>7. ASSUME NEW r \in CallbackSlots
      PROVE  (SlotInv(r) /\ Generated(r) /\ Polled(r))' /\ (~DisablesOneShots => SlotKept(r)')
  <2>1. CASE r = s
    <3>1. SlotInv(s) /\ Generated(s) /\ Polled(s) /\ (~DisablesOneShots => SlotKept(s))
      BY <1>1, SlotFacts, Zenon
    <3>2. SlotInv(s)'
      BY <3>1, <1>2, <1>3, <1>6, Zenon DEF SlotInv, Scheduled
    <3>3. Generated(s)' /\ Polled(s)'
      BY <3>1, <1>2, <1>3, <1>6, ZenonT(30) DEF Generated, Polled, Scheduled
    <3>4. ~DisablesOneShots => SlotKept(s)'
      BY <3>1, <1>2, <1>3, <1>6, Zenon DEF SlotKept, Scheduled
    <3> QED BY <2>1, <3>2, <3>3, <3>4, Zenon
  <2>2. CASE r # s
    <3>1. /\ registrations' \in Int /\ registrations <= registrations'
          /\ task[r].invoking => polling' = r
      <4>1. registrations' = registrations /\ polling' = polling
        BY <1>2, Zenon
      <4> QED BY <4>1, SlotFacts
    <3>2. /\ used'[r] = used[r] /\ task'[r] = task[r] /\ entry'[r] = entry[r]
          /\ generation'[r] = generation[r] /\ UNCHANGED <<polling, kept>>
      BY <2>2, <1>2, <1>6, Zenon
    <3> QED BY <3>1, <3>2, OtherSlot, Zenon
  <2> QED BY <2>1, <2>2, Zenon
<1>8. ASSUME NEW g \in handles' PROVE Handled(g)'
  <2>1. g \in handles /\ g.slot \in CallbackSlots
    BY <1>2, Zenon DEF LoopInv, EventLoopTypeOK
  <2> QED BY <2>1, <1>2, <1>3, <1>6, OldHandle, Zenon
<1> QED BY <1>4, <1>5, <1>7, <1>8, Zenon DEF LoopInv

(* A poll begins: the callable is invoked if the callback is enabled.      *)
LEMMA BeginPollInv ==
    ASSUME LoopInv, NEW s \in CallbackSlots, BeginPoll(s)
    PROVE  LoopInv'
<1> DEFINE t == [task[s] EXCEPT !.invoking = task[s].active /\ task[s].enabled]
<1> HIDE DEF t
<1> USE EventLoopAssumption
<1>1. /\ polling = NoTask /\ Scheduled(s) /\ polling' = s
      /\ task' = [task EXCEPT ![s] = t]
      /\ UNCHANGED <<used, generation, handles, registrations, now, entry>>
  BY Zenon DEF BeginPoll, Backend!BeginPoll, Scheduled, t
<1>2. kept' = TRUE
  BY Zenon DEF BeginPoll, Backend!BeginPoll
<1>3. /\ t \in Tasks /\ t.callable = task[s].callable
      /\ t.active <=> task[s].active
      /\ t.enabled <=> task[s].enabled
      /\ t.invoking <=> task[s].active /\ task[s].enabled
      /\ t.clear_requested <=> task[s].clear_requested
  BY DEF LoopInv, EventLoopTypeOK, Tasks, t
<1>4. EventLoopTypeOK'
  <2>1. task' \in [CallbackSlots -> Tasks]
    BY <1>1, <1>3, Zenon DEF LoopInv, EventLoopTypeOK, Tasks
  <2>2. \A r \in CallbackSlots : task'[r].enabled => task'[r].active
    BY <1>1, <1>3, Zenon DEF LoopInv, EventLoopTypeOK
  <2>3. polling' \in CallbackSlots \cup {NoTask}
    BY <1>1, Zenon
  <2> QED BY <1>1, <2>1, <2>2, <2>3, Zenon DEF LoopInv, EventLoopTypeOK, Tasks
<1>5. SchedulerTypeOK'
  BY <1>1, Zenon DEF LoopInv, SchedulerTypeOK
<1>6. task'[s] = t /\ \A r \in CallbackSlots \ {s} : task'[r] = task[r]
  BY <1>1, Zenon DEF LoopInv, EventLoopTypeOK
<1>7. \A r \in CallbackSlots : ~task[r].invoking /\ ~task[r].clear_requested
  BY <1>1, SlotFacts, ZenonT(30) DEF SlotInv
<1>8. ASSUME NEW r \in CallbackSlots
      PROVE  (SlotInv(r) /\ Generated(r) /\ Polled(r))' /\ (~DisablesOneShots => SlotKept(r)')
  <2>1. CASE r = s
    <3>1. SlotInv(s) /\ Generated(s) /\ (~DisablesOneShots => SlotKept(s))
      BY SlotFacts, Zenon
    <3>2. SlotInv(s)'
      BY <3>1, <1>1, <1>3, <1>6, <1>7, Zenon DEF SlotInv, Scheduled
    <3>3. Polled(s)'
      BY <1>1, <1>2, ZenonT(30) DEF Polled, Scheduled
    <3>4. ~DisablesOneShots => SlotKept(s)'
      BY <3>1, <1>1, <1>3, <1>6, ZenonT(30) DEF SlotKept, SlotInv, Scheduled
    <3>5. Generated(s)'
      BY <3>1, <1>1, Zenon DEF Generated
    <3> QED BY <2>1, <3>2, <3>3, <3>4, <3>5, Zenon
  <2>2. CASE r # s
    <3>1. /\ registrations' \in Int /\ registrations <= registrations'
          /\ ~task[r].invoking /\ polling' # r
      BY <2>2, <1>1, <1>7, SlotFacts
    <3>2. /\ used'[r] = used[r] /\ task'[r] = task[r] /\ entry'[r] = entry[r]
          /\ generation'[r] = generation[r]
      BY <2>2, <1>1, <1>6, Zenon
    <3> QED BY <3>1, <3>2, OtherSlot, Zenon
  <2> QED BY <2>1, <2>2, Zenon
<1>9. ASSUME NEW h \in handles' PROVE Handled(h)'
  <2>1. h \in handles /\ h.slot \in CallbackSlots
    BY <1>1, Zenon DEF LoopInv, EventLoopTypeOK
  <2> QED BY <2>1, <1>1, <1>3, <1>6, OldHandle, Zenon
<1> QED BY <1>4, <1>5, <1>8, <1>9, Zenon DEF LoopInv

(* What poll() leaves of a task after its callable has returned.           *)
LEMMA ReturnedTask ==
    ASSUME NEW t \in Tasks
    PROVE  /\ Returned(t) \in Tasks /\ ~Returned(t).invoking /\ ~Returned(t).clear_requested
           /\ t.clear_requested => Returned(t) = EmptyTask
           /\ ~t.clear_requested => /\ Returned(t).callable = t.callable
                                    /\ Returned(t).active <=> t.active
                                    /\ Returned(t).enabled <=> t.enabled
<1>1. CASE t.clear_requested
  <2>1. Returned(t) = destroy_now([t EXCEPT !.invoking = FALSE])
    BY <1>1, Zenon DEF Returned
  <2>2. [t EXCEPT !.invoking = FALSE].invoking = FALSE
    BY Zenon DEF Tasks
  <2>3. Returned(t) = [EmptyTask EXCEPT !.invoking = FALSE]
    BY <2>1, <2>2, Zenon DEF destroy_now
  <2>4. Returned(t) = EmptyTask
    BY <2>3, Zenon DEF EmptyTask
  <2>5. EmptyTask \in Tasks
    BY EventLoopAssumption DEF EmptyTask, NoCallable, Callables, Tasks
  <2> QED BY <1>1, <2>4, <2>5 DEF EmptyTask
<1>2. CASE ~t.clear_requested
  <2> DEFINE u == [t EXCEPT !.invoking = FALSE]
  <2>1. /\ u \in Tasks /\ ~u.invoking /\ u.callable = t.callable
        /\ u.active <=> t.active
        /\ u.enabled <=> t.enabled
        /\ u.clear_requested <=> t.clear_requested
    BY Zenon DEF Tasks
  <2>2. Returned(t) = u
    BY <1>2, Zenon DEF Returned
  <2> HIDE DEF u
  <2> QED BY <1>2, <2>1, <2>2, Zenon
<1> QED BY <1>1, <1>2, Zenon

(* What the scheduler keeps of a registration when its poll ends.          *)
LEMMA EndPollEntry ==
    ASSUME LoopInv, Backend!EndPoll, NEW s \in CallbackSlots, s = polling
    PROVE  /\ polling' = NoTask /\ now' \in Int /\ entry' \in [CallbackSlots -> Entries]
           /\ \A r \in CallbackSlots \ {s} : entry'[r] = entry[r]
           /\ Scheduled(s)' <=> Scheduled(s) /\ entry[s].kind # "one_shot"
           /\ Scheduled(s)' => entry'[s].kind = entry[s].kind
<1>1. polling' = NoTask /\ now' \in Int
  BY Zenon DEF Backend!EndPoll, LoopInv, SchedulerTypeOK
<1>2. \/ ~kept /\ UNCHANGED entry
      \/ kept /\ entry[s].kind = "readable" /\ UNCHANGED entry
      \/ kept /\ entry[s].kind = "one_shot" /\ entry' = [entry EXCEPT ![s] = Backend!Unregistered]
      \/ /\ kept /\ entry[s].kind = "periodic"
         /\ \E k \in 1 .. now - entry[s].due + 1 :
                entry' = [entry EXCEPT ![s].due = @ + k * entry[s].period]
  BY Zenon DEF Backend!EndPoll
<1>3. kept <=> Scheduled(s)
  BY Zenon DEF LoopInv, Polled
<1>4. entry \in [CallbackSlots -> Entries] /\ entry[s] \in Entries
  BY Zenon DEF LoopInv, SchedulerTypeOK
<1>5. CASE UNCHANGED entry /\ (kept => entry[s].kind = "readable")
  BY <1>1, <1>3, <1>4, <1>5, Zenon DEF Scheduled
<1>6. CASE kept /\ entry[s].kind = "one_shot" /\ entry' = [entry EXCEPT ![s] = Backend!Unregistered]
  <2>1. Backend!Unregistered \in Entries
    BY DEF Backend!Unregistered, Entries, EntryKinds
  <2>2. entry' \in [CallbackSlots -> Entries]
    BY <1>4, <1>6, <2>1, Zenon
  <2>3. entry'[s] = Backend!Unregistered /\ \A r \in CallbackSlots \ {s} : entry'[r] = entry[r]
    BY <1>4, <1>6, Zenon
  <2> QED BY <1>1, <1>3, <1>6, <2>2, <2>3, Zenon DEF Scheduled
<1>7. CASE /\ kept /\ entry[s].kind = "periodic"
           /\ \E k \in 1 .. now - entry[s].due + 1 :
                  entry' = [entry EXCEPT ![s].due = @ + k * entry[s].period]
  <2>1. PICK k \in 1 .. now - entry[s].due + 1 :
                entry' = [entry EXCEPT ![s].due = @ + k * entry[s].period]
    BY <1>7, Zenon
  <2> DEFINE d == entry[s].due + k * entry[s].period
             e == [entry[s] EXCEPT !.due = d]
  <2>2. d \in Int
    BY <1>4 DEF Entries
  <2>3. entry' = [entry EXCEPT ![s] = e]
    BY <2>1, Zenon
  <2> HIDE DEF d
  <2>4. e \in Entries /\ e.kind = entry[s].kind
    BY <2>2, <1>4, Zenon DEF Entries
  <2> HIDE DEF e
  <2>5. entry' \in [CallbackSlots -> Entries] /\ entry'[s] = e
        /\ \A r \in CallbackSlots \ {s} : entry'[r] = entry[r]
    BY <2>3, <2>4, <1>4, Zenon
  <2>6. e # Backend!Unregistered
    BY <2>4, <1>7 DEF Backend!Unregistered
  <2> QED BY <1>1, <1>3, <1>7, <2>4, <2>5, <2>6, Zenon DEF Scheduled
<1> QED BY <1>2, <1>5, <1>6, <1>7, Zenon

(* The callable has returned, and a one-shot that is over gives its slot   *)
(* back.                                                                   *)
LEMMA EndPollInv ==
    ASSUME LoopInv, EndPoll
    PROVE  LoopInv'
<1> PICK s \in CallbackSlots : s = polling
  BY Zenon DEF EndPoll, Backend!EndPoll, LoopInv, EventLoopTypeOK
<1> DEFINE t == task[s]
           completes == /\ t.invoking /\ t.callable.one_shot
                        /\ used[s] /\ generation[s] = t.callable.generation
<1> USE EventLoopAssumption
<1>1. /\ polling' = NoTask /\ now' \in Int /\ entry' \in [CallbackSlots -> Entries]
      /\ \A r \in CallbackSlots \ {s} : entry'[r] = entry[r]
      /\ Scheduled(s)' <=> Scheduled(s) /\ entry[s].kind # "one_shot"
      /\ Scheduled(s)' => entry'[s].kind = entry[s].kind
      /\ UNCHANGED <<handles, registrations>>
  BY EndPollEntry, Zenon DEF EndPoll
<1>2. SchedulerTypeOK'
  BY <1>1, Zenon DEF SchedulerTypeOK
<1>3. t \in Tasks
  BY <1>1, Zenon DEF LoopInv, EventLoopTypeOK, Tasks
<1>4. SlotInv(s) /\ Generated(s) /\ Polled(s) /\ (~DisablesOneShots => SlotKept(s))
  BY <1>1, Zenon DEF LoopInv
<1>5. \/ completes /\ Release(s, Returned(clear(t)))
      \/ ~completes /\ task' = [task EXCEPT ![s] = Returned(t)] /\ UNCHANGED <<used, generation>>
  BY Zenon DEF EndPoll
<1> HIDE DEF completes
(* The slot of the poll, in each of the two cases.                         *)
<1>6. /\ task' = [task EXCEPT ![s] = task'[s]] /\ task'[s] \in Tasks
      /\ task'[s].enabled => task'[s].active
      /\ used' \in [CallbackSlots -> BOOLEAN]
      /\ generation' \in [CallbackSlots -> 0 .. Generations - 1]
      /\ \A r \in CallbackSlots \ {s} :
            used'[r] = used[r] /\ task'[r] = task[r] /\ generation'[r] = generation[r]
      /\ SlotInv(s)' /\ Generated(s)' /\ (~DisablesOneShots => SlotKept(s)')
      /\ \/ generation'[s] = generation[s] + 1
         \/ /\ generation'[s] = generation[s] /\ (used'[s] <=> used[s])
            /\ used[s] => task'[s].callable = t.callable
  <2>1. CASE completes
    <3>1. t.invoking /\ t.callable.one_shot /\ used[s]
      BY <2>1, Zenon DEF completes
    <3>2. Returned(clear(t)) = EmptyTask
      <4>1. clear(t) = [callable |-> t.callable, active |-> FALSE, enabled |-> FALSE,
                        invoking |-> TRUE, clear_requested |-> TRUE]
        BY <1>3, <3>1, ClearInvoked, Zenon
      <4>2. clear(t) \in Tasks /\ clear(t).clear_requested
        BY <4>1, <1>3 DEF Tasks
      <4> QED BY <4>2, ReturnedTask, Zenon
    <3>3. generation[s] \in 0 .. Generations - 2 /\ generation[s] + 1 <= registrations
      BY <1>4, <3>1 DEF LoopInv, EventLoopTypeOK, Generated
    <3>4. (generation[s] + 1) % Generations = generation[s] + 1
      BY <3>3
    <3>5. /\ used' = [used EXCEPT ![s] = FALSE]
          /\ task' = [task EXCEPT ![s] = EmptyTask]
          /\ generation' = [generation EXCEPT ![s] = generation[s] + 1]
      BY <1>5, <2>1, <3>2, <3>4, Zenon DEF Release, NextGeneration
    <3>6. EmptyTask \in Tasks
      BY DEF EmptyTask, NoCallable, Callables, Tasks
    <3>7. /\ task'[s] = EmptyTask /\ ~used'[s] /\ generation'[s] = generation[s] + 1
          /\ \A r \in CallbackSlots \ {s} :
                used'[r] = used[r] /\ task'[r] = task[r] /\ generation'[r] = generation[r]
      BY <3>5 DEF LoopInv, EventLoopTypeOK
    <3>8. generation[s] + 1 \in 0 .. Generations - 1
      BY <3>3
    <3>9. used' \in [CallbackSlots -> BOOLEAN] /\ generation' \in [CallbackSlots -> 0 .. Generations - 1]
      BY <3>5, <3>8, Zenon DEF LoopInv, EventLoopTypeOK
    <3>10. ~Scheduled(s)'
      BY <1>1, <1>4, <3>1, ZenonT(30) DEF SlotInv
    <3>11. SlotInv(s)' /\ SlotKept(s)'
      <4>1. ~EmptyTask.active /\ ~EmptyTask.clear_requested /\ ~EmptyTask.invoking
        BY Zenon DEF EmptyTask
      <4> QED BY <4>1, <3>7, <3>10, Zenon DEF SlotInv, SlotKept
    <3>14. Generated(s)'
      BY <1>1, <3>3, <3>7, SlotFacts DEF Generated
    <3>12. task' = [task EXCEPT ![s] = task'[s]] /\ task'[s] \in Tasks
      BY <3>5, <3>6, <3>7, Zenon
    <3>13. task'[s].enabled => task'[s].active
      BY <3>7 DEF EmptyTask
    <3> QED BY <3>7, <3>9, <3>11, <3>12, <3>13, <3>14, Zenon
  <2>2. CASE ~completes
    <3> DEFINE u == Returned(t)
    <3>1. /\ u \in Tasks /\ ~u.invoking /\ ~u.clear_requested
          /\ t.clear_requested => u = EmptyTask
          /\ ~t.clear_requested => /\ u.callable = t.callable
                                   /\ u.active <=> t.active
                                   /\ u.enabled <=> t.enabled
      BY <1>3, ReturnedTask, Zenon
    <3>2. task' = [task EXCEPT ![s] = u] /\ UNCHANGED <<used, generation>>
      BY <1>5, <2>2, Zenon
    <3> HIDE DEF u
    <3>3. task'[s] = u /\ \A r \in CallbackSlots \ {s} : task'[r] = task[r]
      BY <3>2, Zenon DEF LoopInv, EventLoopTypeOK
    <3>4. used[s] => ~t.clear_requested
      BY <1>4, Zenon DEF SlotInv
    <3>5. u.active <=> used[s]
      <4>1. t.clear_requested => ~used[s] /\ ~EmptyTask.active
        BY <3>4, Zenon DEF EmptyTask
      <4>2. used[s] <=> t.active
        BY <1>4, Zenon DEF SlotInv
      <4> QED BY <3>1, <4>1, <4>2, Zenon
    <3>6. u.enabled => u.active
      BY <3>1 DEF LoopInv, EventLoopTypeOK, EmptyTask
    <3>7. SlotInv(s)'
      BY <1>1, <1>4, <3>1, <3>2, <3>3, <3>4, <3>5, ZenonT(30) DEF SlotInv
    <3>8. Generated(s)'
      BY <1>1, <1>4, <3>2, Zenon DEF LoopInv, EventLoopTypeOK, Generated
    <3>9. ASSUME ~DisablesOneShots PROVE SlotKept(s)'
      <4>1. ~t.callable.one_shot \/ ~used[s]
        BY <1>4, <2>2, <3>9, Zenon DEF SlotKept, SlotInv, completes
      <4> QED BY <1>1, <1>4, <3>1, <3>2, <3>3, <3>4, <3>9, <4>1, ZenonT(30) DEF SlotKept, SlotInv
    <3>10. used' \in [CallbackSlots -> BOOLEAN] /\ generation' \in [CallbackSlots -> 0 .. Generations - 1]
      BY <3>2, Zenon DEF LoopInv, EventLoopTypeOK
    <3>11. task' = [task EXCEPT ![s] = task'[s]] /\ task'[s] \in Tasks
      BY <3>1, <3>2, <3>3, Zenon
    <3>12. task'[s].enabled => task'[s].active
      BY <3>3, <3>6, Zenon
    <3>13. \A r \in CallbackSlots \ {s} :
              used'[r] = used[r] /\ task'[r] = task[r] /\ generation'[r] = generation[r]
      BY <3>2, <3>3, Zenon
    <3>14. /\ generation'[s] = generation[s] /\ (used'[s] <=> used[s])
           /\ used[s] => task'[s].callable = t.callable
      BY <3>1, <3>2, <3>3, <3>4, Zenon
    <3> QED BY <3>7, <3>8, <3>9, <3>10, <3>11, <3>12, <3>13, <3>14, Zenon
  <2> QED BY <2>1, <2>2, Zenon
<1>7. EventLoopTypeOK'
  <2>1. task' \in [CallbackSlots -> Tasks]
    BY <1>6 DEF LoopInv, EventLoopTypeOK, Tasks
  <2>2. \A r \in CallbackSlots : task'[r].enabled => task'[r].active
    BY <1>6, Zenon DEF LoopInv, EventLoopTypeOK
  <2>3. polling' \in CallbackSlots \cup {NoTask}
    BY <1>1, Zenon
  <2> QED BY <1>1, <1>6, <2>1, <2>2, <2>3, Zenon DEF LoopInv, EventLoopTypeOK, Tasks
<1>8. ASSUME NEW r \in CallbackSlots
      PROVE  (SlotInv(r) /\ Generated(r) /\ Polled(r))' /\ (~DisablesOneShots => SlotKept(r)')
  <2>1. Polled(r)'
    BY <1>1, Zenon DEF Polled
  <2>2. CASE r = s
    BY <1>6, <2>1, <2>2, Zenon
  <2>3. CASE r # s
    <3>1. /\ registrations' \in Int /\ registrations <= registrations'
          /\ ~task[r].invoking /\ polling' # r
      <4>1. registrations \in Int /\ (task[r].invoking => polling = r)
        BY SlotFacts, Zenon
      <4> QED BY <1>1, <2>3, <4>1
    <3>2. /\ used'[r] = used[r] /\ task'[r] = task[r] /\ entry'[r] = entry[r]
          /\ generation'[r] = generation[r]
      BY <2>3, <1>1, <1>6, Zenon
    <3> QED BY <3>1, <3>2, OtherSlot, ZenonT(30)
  <2> QED BY <2>2, <2>3, Zenon
<1>9. ASSUME NEW h \in handles' PROVE Handled(h)'
  <2>1. h \in handles /\ h.slot \in CallbackSlots
    BY <1>1, Zenon DEF LoopInv, EventLoopTypeOK
  <2> QED BY <2>1, <1>6, OldHandle, ZenonT(30)
<1> QED BY <1>2, <1>7, <1>8, <1>9, Zenon DEF LoopInv

(* Every step of the event loop keeps LoopInv.                             *)
LEMMA NextInv == LoopInv /\ [Next]_vars => LoopInv'
<1> SUFFICES ASSUME LoopInv, [Next]_vars PROVE LoopInv'
  BY Zenon
<1> USE EventLoopAssumption
<1>1. ASSUME NEW s \in CallbackSlots, NEW period \in Periods, on_repeat_us(s, period)
      PROVE  LoopInv'
  <2> DEFINE e(first) == [kind |-> "periodic", due |-> first, period |-> period]
  <2>1. e(now) \in Entries /\ e(now + period) \in Entries
    BY DEF Entries, EntryKinds, LoopInv, SchedulerTypeOK
  <2>2. Register(s, FALSE, Backend!Add(s, e(now))) \/ Register(s, FALSE, Backend!Add(s, e(now + period)))
    BY <1>1, Zenon DEF on_repeat_us, Register, Backend!AddPeriodic
  <2> QED BY <2>1, <2>2, RegisterInv, Zenon
<1>2. ASSUME NEW s \in CallbackSlots, NEW delay \in Delays, on_delay_us(s, delay)
      PROVE  LoopInv'
  <2> DEFINE e == [kind |-> "one_shot", due |-> now + delay, period |-> 0]
  <2>1. e \in Entries
    BY DEF Entries, EntryKinds, LoopInv, SchedulerTypeOK
  <2>2. Register(s, TRUE, Backend!Add(s, e))
    BY <1>2, Zenon DEF on_delay_us, Register, Backend!AddOneShot
  <2> QED BY <2>1, <2>2, RegisterInv, Zenon
<1>3. ASSUME NEW s \in CallbackSlots, on_ready(s)
      PROVE  LoopInv'
  <2> DEFINE e == [kind |-> "readable", due |-> 0, period |-> 0]
  <2>1. e \in Entries
    BY DEF Entries, EntryKinds
  <2>2. Register(s, FALSE, Backend!Add(s, e))
    BY <1>3, Zenon DEF on_ready, Register, Backend!AddReadable
  <2> QED BY <2>1, <2>2, RegisterInv, Zenon
<1>4. ASSUME Tick \/ UNCHANGED vars
      PROVE  LoopInv'
  <2>1. UNCHANGED <<used, generation, task, handles, registrations, entry, polling, kept>> /\ now' \in Int
    BY <1>4 DEF Tick, Backend!Tick, vars, slotVars, LoopInv, SchedulerTypeOK
  <2> QED BY <2>1, Zenon DEF LoopInv, EventLoopTypeOK, SchedulerTypeOK, SlotInv, Generated, Polled,
                             SlotKept, Handled, Scheduled
<1> QED
  BY <1>1, <1>2, <1>3, <1>4, RefusedInv, OwnSlotInv, BeginPollInv, RemoveInv, EnabledInv, EndPollInv, Zenon
  DEF Next

-----------------------------------------------------------------------------

(* However registrations, removals and polls of the event loop interleave, *)
(* the invariant above holds.                                              *)
THEOREM LoopInvariant == Spec => []LoopInv
BY InitInv, NextInv, PTL DEF Spec

(* A callable that is running is not destroyed before it returns, whatever *)
(* it removes and registers meanwhile, and a removal that waits for it is  *)
(* carried out when it does: for every number of slots and also if one-    *)
(* shot callbacks are disabled.                                            *)
THEOREM CallableOutlivesCallAlways == Spec => []CallableOutlivesCall
<1>1. LoopInv => CallableOutlivesCall
  <2> SUFFICES ASSUME LoopInv, NEW s \in CallbackSlots
               PROVE  /\ task[s].invoking => polling = s /\ task[s].callable # NoCallable
                      /\ task[s].clear_requested => task[s].invoking
    BY Zenon DEF CallableOutlivesCall
  <2>1. SlotInv(s)
    BY SlotFacts, Zenon
  <2> QED BY <2>1 DEF SlotInv, NoCallable
<1> QED BY <1>1, LoopInvariant, PTL

(* A handle never controls a callback other than its own, and the          *)
(* scheduler has no task of a slot that was given back, for every program  *)
(* that registers, removes, enables and disables callbacks.                *)
THEOREM HandlesAlwaysOwn == Spec => [](EventLoopTypeOK /\ HandleIsOwn /\ ScheduledAreUsed)
<1>1. LoopInv => EventLoopTypeOK /\ HandleIsOwn /\ ScheduledAreUsed
  <2> SUFFICES ASSUME LoopInv PROVE EventLoopTypeOK /\ HandleIsOwn /\ ScheduledAreUsed
    BY Zenon
  <2>1. EventLoopTypeOK
    BY Zenon DEF LoopInv
  <2>2. HandleIsOwn
    BY EventLoopAssumption DEF LoopInv, EventLoopTypeOK, Handled, HandleIsOwn, valid
  <2>3. ScheduledAreUsed
    BY ZenonT(30) DEF LoopInv, SlotInv, Scheduled, ScheduledAreUsed
  <2> QED BY <2>1, <2>2, <2>3, Zenon
<1> QED BY <1>1, LoopInvariant, PTL

(* A program that disables no one-shot callback also loses no slot: every  *)
(* slot in use is scheduled, so remove() with a valid handle succeeds.     *)
(* (One that does loses the slot of a callback that is disabled when its   *)
(* delay is over.)                                                         *)
THEOREM SlotsAlwaysInStep ==
    ASSUME ~DisablesOneShots
    PROVE  Spec => []SlotsInStep
<1>1. LoopInv => RemoveWorks
  BY Zenon DEF LoopInv, EventLoopTypeOK, SlotKept, Scheduled, RemoveWorks, valid
<1> QED BY <1>1, LoopInvariant, HandlesAlwaysOwn, PTL DEF SlotsInStep

-----------------------------------------------------------------------------
(* The libevent backend.                                                   *)

MaybeTask == LvTasks \cup {NullTask}
Items == [task : MaybeTask, kind : {"periodic", "one_shot", "readable"}, period : Nat,
          next_due : Nat, deadline : Nat, removed : BOOLEAN, active : BOOLEAN, running : BOOLEAN]

(* No two registrations are of one task, nor called back at once.          *)
Unique(events) ==
    \A d, e \in events :
        (d.task = e.task /\ d.task # NullTask) \/ (d.running /\ e.running) => d = e

(* A registration: it is due no later than libevent is to call back, and   *)
(* the one being called back is that of the polled task or was removed.    *)
ItemOK(e, clock, polled) ==
    /\ e \in Items
    /\ e.removed <=> e.task = NullTask
    /\ e.next_due <= e.deadline
    /\ e.active => e.deadline <= clock
    /\ e.kind = "readable" => e.deadline = 0
    /\ e.running => /\ polled # NullTask /\ e.next_due <= clock /\ ~e.active
                    /\ e.task \in {polled, NullTask}
    /\ polled = NullTask => ~e.removed

LvInv ==
    /\ lv_now \in Nat /\ lv_polling \in MaybeTask
    /\ \A e \in lv_events : ItemOK(e, lv_now, lv_polling)
    /\ Unique(lv_events)
    /\ lv_polling # NullTask => \E e \in lv_events : e.running

-----------------------------------------------------------------------------
(* The entry of a task.                                                    *)

EntryOf(events, t) ==
    IF ~ \E e \in events : e.task = t THEN [kind |-> "none", due |-> 0, period |-> 0]
    ELSE LET e == CHOOSE x \in events : x.task = t
         IN  [kind |-> e.kind, due |-> e.next_due, period |-> e.period]

(* The entry of a task is that of its one registration.                    *)
LEMMA EntryIs ==
    ASSUME NEW events, Unique(events), NEW t \in LvTasks, NEW e \in events, e.task = t
    PROVE  EntryOf(events, t) = [kind |-> e.kind, due |-> e.next_due, period |-> e.period]
<1>1. t # NullTask
  BY LibeventAssumption, Zenon
<1>2. \A x \in events : x.task = t => x = e
  BY <1>1, Zenon DEF Unique
<1>3. (CHOOSE x \in events : x.task = t) = e
  BY <1>2, Zenon
<1> QED
  BY <1>3, Zenon DEF EntryOf

(* A task without a registration has none.                                 *)
LEMMA EntryNone ==
    ASSUME NEW events, NEW t, \A e \in events : e.task # t
    PROVE  EntryOf(events, t) = [kind |-> "none", due |-> 0, period |-> 0]
BY Zenon DEF EntryOf

(* A step that keeps a task's registration, or its absence, keeps its      *)
(* entry.                                                                  *)
LEMMA EntryKept ==
    ASSUME NEW D, NEW E, Unique(D), Unique(E), NEW t \in LvTasks,
           \A d \in D : d.task = t =>
              \E e \in E : e.task = t /\ e.kind = d.kind /\ e.next_due = d.next_due /\ e.period = d.period,
           \A e \in E : e.task = t => \E d \in D : d.task = t
    PROVE  EntryOf(E, t) = EntryOf(D, t)
<1>1. CASE \A d \in D : d.task # t
  BY <1>1, EntryNone, Zenon
<1>2. ASSUME NEW d \in D, d.task = t PROVE EntryOf(E, t) = EntryOf(D, t)
  <2>1. PICK e \in E : e.task = t /\ e.kind = d.kind /\ e.next_due = d.next_due /\ e.period = d.period
    BY <1>2, Zenon
  <2>2. EntryOf(D, t) = [kind |-> d.kind, due |-> d.next_due, period |-> d.period]
    BY <1>2, EntryIs, Zenon
  <2>3. EntryOf(E, t) = [kind |-> e.kind, due |-> e.next_due, period |-> e.period]
    BY <2>1, EntryIs, Zenon
  <2> QED
    BY <2>1, <2>2, <2>3, Zenon
<1> QED
  BY <1>1, <1>2, Zenon

(* The model's entry is this one.                                          *)
LEMMA EntryDef == \A t : LvEntry(t) = EntryOf(lv_events, t)
BY Zenon DEF LvEntry, EntryOf, LvRegistered

(* And so in the next state.                                               *)
LEMMA EntryDefNext == \A t : LvEntry(t)' = EntryOf(lv_events', t)
BY Zenon DEF LvEntry, EntryOf, LvRegistered

-----------------------------------------------------------------------------
(* The abstract state.                                                     *)

AbsEntry == [t \in LvTasks |-> LvEntry(t)]
AbsKept == \E e \in lv_events : e.running /\ ~e.removed

(* One task's entry changes.                                               *)
LEMMA AbsOne ==
    ASSUME NEW t \in LvTasks, NEW v, LvEntry(t)' = v,
           \A u \in LvTasks \ {t} : LvEntry(u)' = LvEntry(u)
    PROVE  AbsEntry' = [AbsEntry EXCEPT ![t] = v]
<1>1. AbsEntry' = [u \in LvTasks |-> LvEntry(u)']
  BY Zenon DEF AbsEntry
<1>2. \A u \in LvTasks : LvEntry(u)' = IF u = t THEN v ELSE LvEntry(u)
  BY Zenon
<1>3. [AbsEntry EXCEPT ![t] = v] = [u \in LvTasks |-> IF u = t THEN v ELSE LvEntry(u)]
  BY Zenon DEF AbsEntry
<1> QED
  BY <1>1, <1>2, <1>3, Zenon

(* No entry changes.                                                       *)
LEMMA AbsSame ==
    ASSUME \A u \in LvTasks : LvEntry(u)' = LvEntry(u)
    PROVE  AbsEntry' = AbsEntry
BY Zenon DEF AbsEntry

-----------------------------------------------------------------------------
(* Registration and removal.                                               *)

(* Outside callbacks there is nothing left to free.                        *)
LEMMA Compacted ==
    ASSUME LvInv
    PROVE  compact_removed_events(lv_events, callback_depth) = lv_events
<1>1. CASE lv_polling = NullTask
  <2>1. \A e \in lv_events : ~e.removed
    BY <1>1, Zenon DEF LvInv, ItemOK
  <2> QED
    BY <1>1, <2>1, Zenon DEF compact_removed_events, callback_depth
<1>2. CASE lv_polling # NullTask
  BY <1>2 DEF compact_removed_events, callback_depth
<1> QED
  BY <1>1, <1>2, Zenon

(* add_periodic(), add_one_shot() and add_fd().                            *)
LEMMA AddOK ==
    ASSUME LvInv, NEW item \in Items, item.task \in LvTasks,
           ~item.removed, ~item.active, ~item.running,
           item.next_due <= item.deadline, item.kind = "readable" => item.deadline = 0,
           LvAdd(item)
    PROVE  /\ LvInv' /\ UNCHANGED <<lv_now, lv_polling>> /\ AbsKept' = AbsKept
           /\ LvEntry(item.task) = [kind |-> "none", due |-> 0, period |-> 0]
           /\ AbsEntry' = [AbsEntry EXCEPT ![item.task] =
                              [kind |-> item.kind, due |-> item.next_due, period |-> item.period]]
<1>1. /\ \A e \in lv_events : e.task # item.task
      /\ UNCHANGED <<lv_now, lv_polling>>
      /\ lv_events' = lv_events \cup {item}
  BY Compacted, Zenon DEF LvAdd, LvRegistered
<1>2. Unique(lv_events) /\ Unique(lv_events')
  BY <1>1, Zenon DEF LvInv, Unique
<1>3. ItemOK(item, lv_now, lv_polling)
  BY <1>1, LibeventAssumption, Zenon DEF ItemOK
<1>4. LvInv'
  BY <1>1, <1>2, <1>3, Zenon DEF LvInv
<1>5. AbsKept' = AbsKept
  BY <1>1, Zenon DEF AbsKept
<1>6. LvEntry(item.task) = [kind |-> "none", due |-> 0, period |-> 0]
  BY <1>1, EntryNone, EntryDef, Zenon
<1>7. LvEntry(item.task)' = [kind |-> item.kind, due |-> item.next_due, period |-> item.period]
  <2>1. item \in lv_events'
    BY <1>1, Zenon
  <2>2. EntryOf(lv_events', item.task) = [kind |-> item.kind, due |-> item.next_due, period |-> item.period]
    BY <1>2, <2>1, EntryIs, Zenon
  <2> QED
    BY <2>2, EntryDefNext, Zenon
<1>8. ASSUME NEW u \in LvTasks \ {item.task} PROVE LvEntry(u)' = LvEntry(u)
  <2>1. EntryOf(lv_events', u) = EntryOf(lv_events, u)
    BY <1>1, <1>2, EntryKept
  <2> QED
    BY <2>1, EntryDef, EntryDefNext, Zenon
<1>9. AbsEntry' = [AbsEntry EXCEPT ![item.task] =
                      [kind |-> item.kind, due |-> item.next_due, period |-> item.period]]
  BY <1>7, <1>8, AbsOne, Zenon
<1> QED
  BY <1>1, <1>4, <1>5, <1>6, <1>9, Zenon

AbsStep == [LvAbstract!Next]_(LvAbstract!vars)

(* A registration is one of the abstract scheduler.                        *)
LEMMA AbsAdds ==
    ASSUME NEW t \in LvTasks, NEW v, UNCHANGED <<lv_now, lv_polling>>, AbsKept' = AbsKept,
           LvEntry(t) = [kind |-> "none", due |-> 0, period |-> 0],
           AbsEntry' = [AbsEntry EXCEPT ![t] = v]
    PROVE  LvAbstract!Add(t, v)
<1>1. AbsEntry[t] = [kind |-> "none", due |-> 0, period |-> 0]
  BY Zenon DEF AbsEntry
<1> QED
  BY <1>1, Zenon DEF LvAbstract!Add, LvAbstract!Unregistered, AbsEntry, AbsKept

(* add_periodic()                                                          *)
LEMMA AddPeriodicOK ==
    ASSUME LvInv, NEW t \in LvTasks, NEW period \in LvPeriods, lv_add_periodic(t, period)
    PROVE  LvInv' /\ AbsStep
<1>1. PICK due : due = lv_now + period
  BY Zenon
<1>2. due \in Nat /\ period \in Nat
  BY <1>1, LibeventAssumption DEF LvInv
<1>3. PICK item : item = Item(t, "periodic", period, due, due)
  BY Zenon
<1>4. LvAdd(item)
  BY <1>1, <1>3, Zenon DEF lv_add_periodic
<1>5. /\ item \in Items /\ item.task = t /\ ~item.removed /\ ~item.active /\ ~item.running
      /\ item.kind = "periodic" /\ item.next_due = due /\ item.deadline = due /\ item.period = period
  BY <1>2, <1>3, Zenon DEF Item, Items, MaybeTask
<1>6. /\ LvInv' /\ UNCHANGED <<lv_now, lv_polling>> /\ AbsKept' = AbsKept
      /\ LvEntry(t) = [kind |-> "none", due |-> 0, period |-> 0]
      /\ AbsEntry' = [AbsEntry EXCEPT ![t] = [kind |-> "periodic", due |-> due, period |-> period]]
  <2>1. item.next_due <= item.deadline /\ (item.kind = "readable" => item.deadline = 0)
    BY <1>2, <1>5
  <2>2. /\ LvInv' /\ UNCHANGED <<lv_now, lv_polling>> /\ AbsKept' = AbsKept
        /\ LvEntry(item.task) = [kind |-> "none", due |-> 0, period |-> 0]
        /\ AbsEntry' = [AbsEntry EXCEPT ![item.task] =
                           [kind |-> item.kind, due |-> item.next_due, period |-> item.period]]
    BY <1>2, <1>4, <1>5, <2>1, AddOK, Zenon
  <2> QED
    BY <1>5, <2>2, Zenon
<1>7. LvAbstract!AddPeriodic(t, due, period)
  BY <1>6, AbsAdds, Zenon DEF LvAbstract!AddPeriodic
<1>8. LvAbstract!Next
  BY <1>1, <1>7, Zenon DEF LvAbstract!Next
<1> QED
  BY <1>6, <1>8, Zenon DEF AbsStep

(* add_one_shot(): one that is late is called back at once.                *)
LEMMA AddOneShotOK ==
    ASSUME LvInv, NEW t \in LvTasks, NEW delay \in LvDelays, lv_add_one_shot(t, lv_now + delay)
    PROVE  LvInv' /\ AbsStep
<1>1. PICK due : due = lv_now + delay
  BY Zenon
<1>2. PICK deadline : deadline = IF due > lv_now THEN due ELSE lv_now
  BY Zenon
<1>3. due \in Nat /\ deadline \in Nat /\ due <= deadline
  BY <1>1, <1>2, LibeventAssumption DEF LvInv
<1>4. PICK item : item = Item(t, "one_shot", 0, due, deadline)
  BY Zenon
<1>5. LvAdd(item)
  BY <1>1, <1>2, <1>4, Zenon DEF lv_add_one_shot
<1>6. /\ item \in Items /\ item.task = t /\ ~item.removed /\ ~item.active /\ ~item.running
      /\ item.kind = "one_shot" /\ item.next_due = due /\ item.deadline = deadline /\ item.period = 0
  BY <1>3, <1>4, Zenon DEF Item, Items, MaybeTask
<1>7. /\ LvInv' /\ UNCHANGED <<lv_now, lv_polling>> /\ AbsKept' = AbsKept
      /\ LvEntry(t) = [kind |-> "none", due |-> 0, period |-> 0]
      /\ AbsEntry' = [AbsEntry EXCEPT ![t] = [kind |-> "one_shot", due |-> due, period |-> 0]]
  <2>1. item.next_due <= item.deadline /\ (item.kind = "readable" => item.deadline = 0)
    BY <1>3, <1>6, Zenon
  <2>2. /\ LvInv' /\ UNCHANGED <<lv_now, lv_polling>> /\ AbsKept' = AbsKept
        /\ LvEntry(item.task) = [kind |-> "none", due |-> 0, period |-> 0]
        /\ AbsEntry' = [AbsEntry EXCEPT ![item.task] =
                           [kind |-> item.kind, due |-> item.next_due, period |-> item.period]]
    BY <1>3, <1>5, <1>6, <2>1, AddOK, Zenon
  <2> QED
    BY <1>6, <2>2, Zenon
<1>8. LvAbstract!AddOneShot(t, due)
  BY <1>7, AbsAdds, Zenon DEF LvAbstract!AddOneShot
<1>9. LvAbstract!Next
  BY <1>1, <1>8, Zenon DEF LvAbstract!Next
<1> QED
  BY <1>7, <1>9, Zenon DEF AbsStep

(* add_fd()                                                                *)
LEMMA AddFdOK ==
    ASSUME LvInv, NEW t \in LvTasks, add_fd(t)
    PROVE  LvInv' /\ AbsStep
<1>1. PICK item : item = Item(t, "readable", 0, 0, 0)
  BY Zenon
<1>2. LvAdd(item)
  BY <1>1, Zenon DEF add_fd
<1>3. /\ item \in Items /\ item.task = t /\ ~item.removed /\ ~item.active /\ ~item.running
      /\ item.kind = "readable" /\ item.next_due = 0 /\ item.deadline = 0 /\ item.period = 0
  BY <1>1, Zenon DEF Item, Items, MaybeTask
<1>4. /\ LvInv' /\ UNCHANGED <<lv_now, lv_polling>> /\ AbsKept' = AbsKept
      /\ LvEntry(t) = [kind |-> "none", due |-> 0, period |-> 0]
      /\ AbsEntry' = [AbsEntry EXCEPT ![t] = [kind |-> "readable", due |-> 0, period |-> 0]]
  <2>1. item.next_due <= item.deadline /\ (item.kind = "readable" => item.deadline = 0)
    BY <1>3
  <2>2. /\ LvInv' /\ UNCHANGED <<lv_now, lv_polling>> /\ AbsKept' = AbsKept
        /\ LvEntry(item.task) = [kind |-> "none", due |-> 0, period |-> 0]
        /\ AbsEntry' = [AbsEntry EXCEPT ![item.task] =
                           [kind |-> item.kind, due |-> item.next_due, period |-> item.period]]
    BY <1>2, <1>3, <2>1, AddOK, Zenon
  <2> QED
    BY <1>3, <2>2, Zenon
<1>5. LvAbstract!AddReadable(t)
  BY <1>4, AbsAdds, Zenon DEF LvAbstract!AddReadable
<1>6. LvAbstract!Next
  BY <1>5, Zenon DEF LvAbstract!Next
<1> QED
  BY <1>4, <1>6, Zenon DEF AbsStep

(* What mark_removed() leaves of a registration.                           *)
LEMMA MarkedRemoved ==
    ASSUME NEW e \in Items, NEW f, f = mark_removed(e)
    PROVE  /\ f \in Items /\ f.removed /\ f.task = NullTask /\ f.next_due = 0 /\ f.deadline = 0
           /\ f.kind = e.kind /\ f.active = e.active /\ f.running = e.running
BY Zenon DEF mark_removed, Items, MaybeTask

(* remove(): a registration that is called back at the moment, or any      *)
(* other while a callback is in progress, stays until the callback ends.   *)
LEMMA RemoveOK ==
    ASSUME LvInv, NEW t \in LvTasks, lv_remove(t)
    PROVE  LvInv' /\ AbsStep
<1> DEFINE R(e) == IF e.task = t THEN mark_removed(e) ELSE e
           All == {R(e) : e \in lv_events}
<1>1. /\ \E e \in lv_events : e.task = t
      /\ lv_events' = compact_removed_events(All, callback_depth)
      /\ UNCHANGED <<lv_now, lv_polling>>
  BY Zenon DEF lv_remove, LvRegistered
<1>2. t # NullTask
  BY LibeventAssumption, Zenon
<1>3. \A e \in lv_events : ItemOK(e, lv_now, lv_polling) /\ e \in Items
  BY Zenon DEF LvInv, ItemOK
<1>4. \A e \in lv_events :
         \/ e.task # t /\ R(e) = e
         \/ /\ e.task = t /\ R(e) \in Items /\ R(e).removed /\ R(e).task = NullTask
            /\ R(e).next_due = 0 /\ R(e).deadline = 0
            /\ R(e).active = e.active /\ R(e).running = e.running
  BY <1>3, MarkedRemoved, Zenon
<1>5. \A f \in All : \E e \in lv_events : f = R(e)
  BY Zenon DEF All
<1>6. \A e \in lv_events : R(e) \in All
  BY Zenon DEF All
<1> HIDE DEF R, All
<1>7. /\ \A f \in lv_events' : f \in All
      /\ lv_polling = NullTask => \A f \in All : f \in lv_events' <=> ~f.removed
      /\ lv_polling # NullTask => lv_events' = All
  BY <1>1 DEF compact_removed_events, callback_depth
<1>8. ASSUME NEW f \in lv_events' PROVE ItemOK(f, lv_now, lv_polling)
  <2>1. PICK e \in lv_events : f = R(e)
    BY <1>5, <1>7, Zenon
  <2>2. CASE e.task # t
    BY <1>3, <1>4, <2>1, <2>2, Zenon
  <2>3. CASE e.task = t
    <3>1. /\ f \in Items /\ f.removed /\ f.task = NullTask /\ f.next_due = 0 /\ f.deadline = 0
          /\ f.running = e.running /\ f.active = e.active
      BY <1>4, <2>1, <2>3, Zenon
    <3>2. lv_polling # NullTask
      BY <1>7, <3>1, Zenon
    <3>3. lv_now \in Nat
      BY Zenon DEF LvInv
    <3> QED
      BY <1>2, <1>3, <2>1, <2>3, <3>1, <3>2, <3>3 DEF ItemOK
  <2> QED
    BY <2>2, <2>3, Zenon
<1>9. Unique(lv_events) /\ Unique(lv_events')
  <2>1. Unique(lv_events)
    BY Zenon DEF LvInv
  <2>2. ASSUME NEW f \in lv_events', NEW g \in lv_events',
               (f.task = g.task /\ f.task # NullTask) \/ (f.running /\ g.running)
        PROVE  f = g
    <3>1. PICK d \in lv_events : f = R(d)
      BY <1>5, <1>7, Zenon
    <3>2. PICK e \in lv_events : g = R(e)
      BY <1>5, <1>7, Zenon
    <3>3. (d.task = e.task /\ d.task # NullTask) \/ (d.running /\ e.running)
      BY <1>4, <2>2, <3>1, <3>2, Zenon
    <3>4. d = e
      BY <2>1, <3>3, Zenon DEF Unique
    <3> QED
      BY <3>1, <3>2, <3>4, Zenon
  <2> QED
    BY <2>1, <2>2, Zenon DEF Unique
<1>10. ASSUME NEW e \in lv_events, e.task # t PROVE e \in lv_events'
  <2>1. e \in All
    BY <1>4, <1>6, <1>10, Zenon
  <2>2. lv_polling = NullTask => ~e.removed
    BY <1>3, Zenon DEF ItemOK
  <2> QED
    BY <1>7, <2>1, <2>2, Zenon
<1>11. LvInv'
  <2>1. ASSUME lv_polling # NullTask PROVE \E f \in lv_events' : f.running
    <3>1. PICK e \in lv_events : e.running
      BY <2>1, Zenon DEF LvInv
    <3>2. R(e) \in lv_events' /\ R(e).running
      BY <1>4, <1>6, <1>7, <2>1, <3>1, Zenon
    <3> QED
      BY <3>2, Zenon
  <2> QED
    BY <1>1, <1>8, <1>9, <2>1, Zenon DEF LvInv
<1>12. \A f \in lv_events' : \/ f.task # t /\ f \in lv_events
                             \/ f.task = NullTask /\ f.removed
  BY <1>4, <1>5, <1>7
<1>13. LvEntry(t)' = [kind |-> "none", due |-> 0, period |-> 0]
  <2>1. \A f \in lv_events' : f.task # t
    BY <1>2, <1>12, Zenon
  <2> QED
    BY <2>1, EntryNone, EntryDefNext, Zenon
<1>14. ASSUME NEW u \in LvTasks \ {t} PROVE LvEntry(u)' = LvEntry(u)
  <2>1. u # NullTask
    BY LibeventAssumption, Zenon
  <2>2. \A d \in lv_events : d.task = u => d \in lv_events'
    BY <1>10, Zenon
  <2>3. \A f \in lv_events' : f.task = u => f \in lv_events
    BY <1>12, <2>1, Zenon
  <2>4. EntryOf(lv_events', u) = EntryOf(lv_events, u)
    BY <1>9, <2>2, <2>3, EntryKept, Zenon
  <2> QED
    BY <2>4, EntryDef, EntryDefNext, Zenon
<1>15. AbsEntry' = [AbsEntry EXCEPT ![t] = [kind |-> "none", due |-> 0, period |-> 0]]
  BY <1>13, <1>14, AbsOne, Zenon
<1>16. AbsKept' <=> AbsKept /\ t # lv_polling
  <2>1. ASSUME NEW f \in lv_events', f.running, ~f.removed PROVE AbsKept /\ t # lv_polling
    <3>1. f.task # t /\ f \in lv_events
      BY <1>12, <2>1, Zenon
    <3>2. f.task = lv_polling
      BY <1>3, <2>1, <3>1, Zenon DEF ItemOK
    <3> QED
      BY <2>1, <3>1, <3>2, Zenon DEF AbsKept
  <2>2. ASSUME NEW e \in lv_events, e.running, ~e.removed, t # lv_polling PROVE AbsKept'
    <3>1. e.task # t
      BY <1>2, <1>3, <2>2, Zenon DEF ItemOK
    <3>2. e \in lv_events'
      BY <1>10, <3>1, Zenon
    <3> QED
      BY <2>2, <3>2, Zenon DEF AbsKept
  <2> QED
    BY <2>1, <2>2, Zenon DEF AbsKept
<1>17. AbsEntry[t] # [kind |-> "none", due |-> 0, period |-> 0]
  <2>1. PICK e \in lv_events : e.task = t
    BY <1>1, Zenon
  <2>2. LvEntry(t) = [kind |-> e.kind, due |-> e.next_due, period |-> e.period]
    BY <1>9, <2>1, EntryIs, EntryDef, Zenon
  <2>3. AbsEntry[t].kind = e.kind
    BY <2>2 DEF AbsEntry
  <2>4. e.kind # "none"
    BY <1>3, Zenon DEF Items
  <2> QED
    BY <2>3, <2>4
<1>18. LvAbstract!Remove(t)
  BY <1>1, <1>15, <1>16, <1>17, Zenon DEF LvAbstract!Remove, LvAbstract!Unregistered, AbsEntry, AbsKept
<1>19. LvAbstract!Next
  BY <1>18, Zenon DEF LvAbstract!Next
<1> QED
  BY <1>11, <1>19, Zenon DEF AbsStep

-----------------------------------------------------------------------------
(* libevent's loop.                                                        *)

(* What is left of a registration when libevent takes it or leaves it.     *)
LEMMA Taken ==
    ASSUME NEW e \in Items, NEW v \in BOOLEAN, NEW f, f = [e EXCEPT !.active = v]
    PROVE  /\ f \in Items /\ f.task = e.task /\ f.kind = e.kind /\ f.period = e.period
           /\ f.next_due = e.next_due /\ f.deadline = e.deadline
           /\ f.removed = e.removed /\ f.running = e.running /\ f.active = v
BY Zenon DEF Items

(* libevent takes what is due: nothing changes for the tasks.              *)
LEMMA GatherOK ==
    ASSUME LvInv, GatherActive
    PROVE  LvInv' /\ AbsStep
<1>1. PICK ready \in SUBSET {e \in lv_events : e.kind = "readable"} :
         lv_events' = {[e EXCEPT !.active = IF e.kind = "readable" THEN e \in ready
                                            ELSE e.deadline <= lv_now] : e \in lv_events}
  BY Zenon DEF GatherActive
<1>2. lv_polling = NullTask /\ UNCHANGED <<lv_now, lv_polling>>
  BY Zenon DEF GatherActive
<1> DEFINE G(e) == [e EXCEPT !.active = IF e.kind = "readable" THEN e \in ready
                                        ELSE e.deadline <= lv_now]
<1>3. \A e \in lv_events : ItemOK(e, lv_now, lv_polling) /\ e \in Items
  BY Zenon DEF LvInv, ItemOK
<1>4. \A e \in lv_events :
         /\ G(e) \in Items /\ G(e).task = e.task /\ G(e).kind = e.kind /\ G(e).period = e.period
         /\ G(e).next_due = e.next_due /\ G(e).deadline = e.deadline
         /\ G(e).removed = e.removed /\ G(e).running = e.running
         /\ G(e).active => e.kind = "readable" \/ e.deadline <= lv_now
  <2> TAKE e \in lv_events
  <2>1. PICK v \in BOOLEAN : v = (IF e.kind = "readable" THEN e \in ready ELSE e.deadline <= lv_now)
    <3>1. CASE e.kind = "readable"
      <4>1. CASE e \in ready
        BY <3>1, <4>1, Zenon
      <4>2. CASE e \notin ready
        <5>1. (IF e.kind = "readable" THEN e \in ready ELSE e.deadline <= lv_now) = FALSE
          BY <3>1, <4>2
        <5> QED
          BY <5>1, Zenon
      <4> QED
        BY <4>1, <4>2, Zenon
    <3>2. CASE e.kind # "readable"
      <4>1. CASE e.deadline <= lv_now
        BY <3>2, <4>1, Zenon
      <4>2. CASE ~(e.deadline <= lv_now)
        <5>1. (IF e.kind = "readable" THEN e \in ready ELSE e.deadline <= lv_now) = FALSE
          BY <3>2, <4>2
        <5> QED
          BY <5>1, Zenon
      <4> QED
        BY <4>1, <4>2, Zenon
    <3> QED
      BY <3>1, <3>2, Zenon
  <2>2. G(e) = [e EXCEPT !.active = v] /\ e \in Items
    BY <1>3, <2>1, Zenon
  <2> HIDE DEF G
  <2> QED
    BY <2>1, <2>2, Taken
<1>5. /\ \A f \in lv_events' : \E e \in lv_events : f = G(e)
      /\ \A e \in lv_events : G(e) \in lv_events'
  BY <1>1, Zenon
<1> HIDE DEF G
<1>6. \A e \in lv_events : ~e.running /\ ~e.removed
  BY <1>2, <1>3, Zenon DEF ItemOK
<1>7. lv_now \in Nat /\ lv_polling \in MaybeTask /\ Unique(lv_events)
  BY Zenon DEF LvInv
<1>8. \A f \in lv_events' : ItemOK(f, lv_now, lv_polling)
  <2> TAKE f \in lv_events'
  <2>1. PICK e \in lv_events : f = G(e)
    BY <1>5, Zenon
  <2> QED
    BY <1>2, <1>3, <1>4, <1>6, <1>7, <2>1 DEF ItemOK
<1>9. Unique(lv_events')
  BY <1>4, <1>5, <1>6, <1>7 DEF Unique
<1>10. LvInv'
  BY <1>2, <1>7, <1>8, <1>9, Zenon DEF LvInv
<1>11. ASSUME NEW u \in LvTasks PROVE LvEntry(u)' = LvEntry(u)
  <2>1. EntryOf(lv_events', u) = EntryOf(lv_events, u)
    BY <1>4, <1>5, <1>7, <1>9, EntryKept
  <2> QED
    BY <2>1, EntryDef, EntryDefNext, Zenon
<1>12. AbsEntry' = AbsEntry
  BY <1>11, AbsSame, Zenon
<1>13. AbsKept' = AbsKept
  BY <1>4, <1>5, <1>6 DEF AbsKept
<1>14. UNCHANGED LvAbstract!vars
  BY <1>2, <1>12, <1>13, Zenon DEF LvAbstract!vars, AbsEntry, AbsKept
<1> QED
  BY <1>10, <1>14, Zenon DEF AbsStep

(* libevent calls back: the task is registered, due and the only one.      *)
LEMMA EnterOK ==
    ASSUME LvInv, EnterCallback
    PROVE  LvInv' /\ AbsStep
<1>1. PICK e \in lv_events :
         /\ e.active /\ ~e.removed
         /\ lv_events' = (lv_events \ {e}) \cup {[e EXCEPT !.active = FALSE, !.running = TRUE]}
         /\ lv_polling' = e.task
  BY Zenon DEF EnterCallback
<1>2. PICK f : f = [e EXCEPT !.active = FALSE, !.running = TRUE]
  BY Zenon
<1>3. lv_polling = NullTask /\ lv_now' = lv_now
  BY Zenon DEF EnterCallback
<1>4. /\ \A d \in lv_events : ItemOK(d, lv_now, lv_polling) /\ d \in Items
      /\ lv_now \in Nat /\ Unique(lv_events)
  BY Zenon DEF LvInv, ItemOK
<1>5. /\ f \in Items /\ f.task = e.task /\ f.kind = e.kind /\ f.period = e.period
      /\ f.next_due = e.next_due /\ f.deadline = e.deadline /\ f.removed = e.removed
      /\ f.running /\ ~f.active
  BY <1>2, <1>4, Zenon DEF Items
<1>6. lv_events' = (lv_events \ {e}) \cup {f}
  BY <1>1, <1>2, Zenon
<1>7. e.task \in LvTasks /\ e.task # NullTask
  BY <1>1, <1>4, Zenon DEF ItemOK, Items, MaybeTask
<1>8. \A d \in lv_events : ~d.running /\ ~d.removed
  BY <1>3, <1>4, Zenon DEF ItemOK
<1>9. \A d \in lv_events \ {e} : d.task # e.task
  BY <1>4, <1>7, Zenon DEF Unique
<1>10. e.next_due <= lv_now
  <2>1. e.next_due <= e.deadline /\ e.deadline <= lv_now /\ e.next_due \in Nat /\ e.deadline \in Nat
    BY <1>1, <1>4, Zenon DEF ItemOK, Items
  <2> QED
    BY <1>4, <2>1
<1>11. \A d \in lv_events' : ItemOK(d, lv_now, lv_polling')
  <2>1. ItemOK(f, lv_now, e.task)
    BY <1>1, <1>4, <1>5, <1>7, <1>10 DEF ItemOK
  <2>2. ASSUME NEW d \in lv_events \ {e} PROVE ItemOK(d, lv_now, e.task)
    BY <1>4, <1>7, <1>8, <1>9, <2>2, Zenon DEF ItemOK
  <2> QED
    BY <1>1, <1>6, <2>1, <2>2, Zenon
<1>12. Unique(lv_events')
  BY <1>4, <1>5, <1>6, <1>8, <1>9 DEF Unique
<1>13. LvInv'
  <2>1. lv_polling' \in MaybeTask /\ f \in lv_events'
    BY <1>1, <1>6, <1>7, Zenon DEF MaybeTask
  <2> QED
    BY <1>3, <1>4, <1>5, <1>11, <1>12, <2>1 DEF LvInv
<1>14. ASSUME NEW u \in LvTasks PROVE LvEntry(u)' = LvEntry(u)
  <2>1. \A d \in lv_events : d.task = u =>
           \E g \in lv_events' : g.task = u /\ g.kind = d.kind /\ g.next_due = d.next_due /\ g.period = d.period
    BY <1>5, <1>6, Zenon
  <2>2. \A g \in lv_events' : g.task = u => \E d \in lv_events : d.task = u
    BY <1>5, <1>6, Zenon
  <2>3. EntryOf(lv_events', u) = EntryOf(lv_events, u)
    BY <1>4, <1>12, <2>1, <2>2, EntryKept, Zenon
  <2> QED
    BY <2>3, EntryDef, EntryDefNext, Zenon
<1>15. AbsEntry' = AbsEntry
  BY <1>14, AbsSame, Zenon
<1>16. AbsKept'
  BY <1>1, <1>5, <1>6, Zenon DEF AbsKept
<1>17. /\ AbsEntry[e.task] # [kind |-> "none", due |-> 0, period |-> 0]
       /\ AbsEntry[e.task].due <= lv_now
  <2>1. LvEntry(e.task) = [kind |-> e.kind, due |-> e.next_due, period |-> e.period]
    BY <1>4, <1>7, EntryIs, EntryDef, Zenon
  <2>2. AbsEntry[e.task] = [kind |-> e.kind, due |-> e.next_due, period |-> e.period]
    BY <1>7, <2>1, Zenon DEF AbsEntry
  <2>3. e.kind # "none"
    BY <1>4, Zenon DEF Items
  <2> QED
    BY <1>10, <2>2, <2>3
<1>18. LvAbstract!BeginPoll(e.task)
  BY <1>1, <1>3, <1>15, <1>16, <1>17, Zenon
     DEF LvAbstract!BeginPoll, LvAbstract!Unregistered, AbsEntry, AbsKept
<1>19. LvAbstract!Next
  BY <1>7, <1>18, Zenon DEF LvAbstract!Next
<1> QED
  BY <1>13, <1>19, Zenon DEF AbsStep

(* What periodic_timer_next_delay_us() makes of a registration that is     *)
(* back from its callback: due one period later, and libevent calls back   *)
(* no earlier.                                                             *)
LEMMA RearmedOK ==
    ASSUME NEW b \in Items, b.next_due <= lv_now, lv_now \in Nat, NEW f, f = Rearmed(b)
    PROVE  /\ f \in Items /\ f.task = b.task /\ f.kind = b.kind /\ f.period = b.period
           /\ f.removed = b.removed /\ f.active = b.active /\ f.running = b.running
           /\ f.next_due = b.next_due + b.period /\ f.next_due <= f.deadline
           /\ f.deadline >= lv_now
<1>1. PICK due, period : due = b.next_due /\ period = b.period
  BY Zenon
<1>2. due \in Nat /\ period \in Nat
  BY <1>1, Zenon DEF Items
<1>3. PICK deadline : deadline = lv_now + (IF period > (IF lv_now > due THEN lv_now - due ELSE 0)
                                           THEN period - (IF lv_now > due THEN lv_now - due ELSE 0)
                                           ELSE 0)
  BY Zenon
<1>4. deadline \in Nat /\ due + period <= deadline /\ deadline >= lv_now
  BY <1>1, <1>2, <1>3
<1>5. f = [b EXCEPT !.next_due = due + period, !.deadline = deadline]
  BY <1>1, <1>3, Zenon DEF Rearmed
<1>6. PICK next : next = due + period
  BY Zenon
<1>7. next \in Nat /\ f = [b EXCEPT !.next_due = next, !.deadline = deadline]
  BY <1>2, <1>5, <1>6
<1>8. /\ f \in Items /\ f.task = b.task /\ f.kind = b.kind /\ f.period = b.period
      /\ f.next_due = next /\ f.deadline = deadline
      /\ f.removed = b.removed /\ f.active = b.active /\ f.running = b.running
  BY <1>4, <1>7, Zenon DEF Items
<1> QED
  BY <1>1, <1>4, <1>6, <1>8, Zenon

(* The entries when that of t is due k periods later.                      *)
Later(E, t, k) == [E EXCEPT ![t].due = @ + k * E[t].period]

(* The callback returns: a one-shot is over, a periodic task is armed      *)
(* again, and what was removed meanwhile is freed.                         *)
LEMMA LeaveOK ==
    ASSUME LvInv, LeaveCallback
    PROVE  LvInv' /\ AbsStep
<1>1. lv_polling # NullTask /\ lv_polling' = NullTask /\ lv_now' = lv_now
  BY Zenon DEF LeaveCallback
<1>0. PICK t \in LvTasks : t = lv_polling
  BY <1>1, Zenon DEF LvInv, MaybeTask
<1>2. PICK e \in lv_events :
         /\ e.running
         /\ LET back == [e EXCEPT !.running = FALSE]
                after == IF ~e.removed /\ e.kind = "periodic" THEN Rearmed(back)
                         ELSE IF e.kind = "one_shot" THEN mark_removed(back)
                         ELSE back
            IN  lv_events' = compact_removed_events((lv_events \ {e}) \cup {after}, 0)
  BY Zenon DEF LeaveCallback
<1>3. PICK back : back = [e EXCEPT !.running = FALSE]
  BY Zenon
<1>4. PICK after : after = IF ~e.removed /\ e.kind = "periodic" THEN Rearmed(back)
                           ELSE IF e.kind = "one_shot" THEN mark_removed(back) ELSE back
  BY Zenon
<1>5. lv_events' = {f \in (lv_events \ {e}) \cup {after} : ~f.removed}
  BY <1>2, <1>3, <1>4, Zenon DEF compact_removed_events
<1>6. /\ \A d \in lv_events : ItemOK(d, lv_now, lv_polling) /\ d \in Items
      /\ lv_now \in Nat /\ Unique(lv_events) /\ lv_polling \in MaybeTask
  BY Zenon DEF LvInv, ItemOK
<1>7. /\ e.next_due <= lv_now /\ e.task \in {lv_polling, NullTask} /\ e.next_due <= e.deadline
      /\ e.removed <=> e.task = NullTask
      /\ e.active => e.deadline <= lv_now
      /\ e.kind = "readable" => e.deadline = 0
  BY <1>2, <1>6, Zenon DEF ItemOK
<1>8. /\ back \in Items /\ back.task = e.task /\ back.kind = e.kind /\ back.period = e.period
      /\ back.next_due = e.next_due /\ back.deadline = e.deadline /\ back.removed = e.removed
      /\ back.active = e.active /\ ~back.running
  BY <1>3, <1>6, ZenonT(30) DEF Items
<1>9. ~e.active
  BY <1>2, <1>6 DEF ItemOK
<1>10. \/ after.removed
       \/ /\ ~e.removed /\ after \in Items /\ after.task = e.task /\ after.kind = e.kind
          /\ after.period = e.period /\ ~after.removed /\ ~after.running /\ ~after.active
          /\ after.next_due <= after.deadline /\ e.kind # "one_shot"
          /\ e.kind = "readable" => after.deadline = 0 /\ after.next_due = e.next_due
          /\ e.kind = "periodic" => after.next_due = e.next_due + e.period
  <2>1. CASE ~e.removed /\ e.kind = "periodic"
    BY <1>4, <1>6, <1>7, <1>8, <1>9, <2>1, RearmedOK
  <2>2. CASE e.kind = "one_shot"
    BY <1>4, <1>8, <2>2, MarkedRemoved, Zenon
  <2>3. CASE e.kind = "readable" \/ (e.removed /\ e.kind # "one_shot")
    BY <1>4, <1>7, <1>8, <1>9, <2>3, Zenon
  <2> QED
    BY <1>6, <2>1, <2>2, <2>3, Zenon DEF Items
<1>11. \A d \in lv_events \ {e} : ~d.running /\ (~e.removed => d.task # lv_polling)
  <2> TAKE d \in lv_events \ {e}
  <2>1. ~d.running
    BY <1>2, <1>6, Zenon DEF Unique
  <2>2. ASSUME ~e.removed PROVE d.task # lv_polling
    <3>1. e.task = lv_polling
      BY <1>7, <2>2, Zenon
    <3> QED
      BY <1>1, <1>6, <3>1, Zenon DEF Unique
  <2> QED
    BY <2>1, <2>2, Zenon
<1>12. \A f \in lv_events' : ItemOK(f, lv_now, NullTask)
  <2>1. ASSUME NEW d \in lv_events \ {e}, ~d.removed PROVE ItemOK(d, lv_now, NullTask)
    BY <1>6, <1>11, <2>1, Zenon DEF ItemOK
  <2>2. ~after.removed => ItemOK(after, lv_now, NullTask)
    BY <1>7, <1>10 DEF ItemOK
  <2> QED
    BY <1>5, <2>1, <2>2, Zenon
<1>13. Unique(lv_events')
  <2>1. ~after.removed => after.task = lv_polling /\ ~e.removed
    BY <1>7, <1>10, Zenon
  <2>2. ~after.removed => ~after.running
    BY <1>10, Zenon
  <2> QED
    BY <1>1, <1>5, <1>6, <1>11, <2>1, <2>2 DEF Unique
<1>14. LvInv'
  BY <1>1, <1>6, <1>12, <1>13, Zenon DEF LvInv, MaybeTask
<1>15. ASSUME NEW u \in LvTasks, u # lv_polling PROVE LvEntry(u)' = LvEntry(u)
  <2>1. u # NullTask
    BY LibeventAssumption, Zenon
  <2>2. e.task # u /\ (~after.removed => after.task # u)
    BY <1>7, <1>10, <1>15, <2>1, Zenon
  <2>3. \A d \in lv_events : d.task = u => d \in lv_events'
    BY <1>5, <1>6, <2>1, <2>2 DEF ItemOK
  <2>4. \A f \in lv_events' : f.task = u => f \in lv_events
    BY <1>5, <2>2, Zenon
  <2>5. EntryOf(lv_events', u) = EntryOf(lv_events, u)
    BY <1>6, <1>13, <2>3, <2>4, EntryKept, Zenon
  <2> QED
    BY <2>5, EntryDef, EntryDefNext, Zenon
<1>16. ~AbsKept'
  BY <1>1, <1>12, Zenon DEF AbsKept, ItemOK
<1>17. CASE e.removed
  <2>1. after.removed
    BY <1>10, <1>17, Zenon
  <2>2. ~AbsKept
    BY <1>2, <1>6, <1>17 DEF AbsKept, Unique
  <2>3. LvEntry(t)' = LvEntry(t)
    <3>1. t # NullTask /\ e.task # t
      BY <1>0, <1>1, <1>7, <1>17, Zenon
    <3>2. \A d \in lv_events : d.task = t => d \in lv_events'
      BY <1>5, <1>6, <3>1 DEF ItemOK
    <3>3. \A f \in lv_events' : f.task = t => f \in lv_events
      BY <1>5, <2>1, Zenon
    <3>4. EntryOf(lv_events', t) = EntryOf(lv_events, t)
      BY <1>6, <1>13, <3>2, <3>3, EntryKept, Zenon
    <3> QED
      BY <3>4, EntryDef, EntryDefNext, Zenon
  <2>4. AbsEntry' = AbsEntry
    BY <1>0, <1>15, <2>3, AbsSame, Zenon
  <2>5. LvAbstract!EndPoll
    BY <1>0, <1>1, <1>16, <2>2, <2>4, Zenon DEF LvAbstract!EndPoll, AbsEntry, AbsKept
  <2> QED
    BY <1>14, <2>5, Zenon DEF AbsStep, LvAbstract!Next
<1>18. CASE ~e.removed
  <2>1. e.task = t
    BY <1>0, <1>7, <1>18, Zenon
  <2>2. AbsKept
    BY <1>2, <1>18, Zenon DEF AbsKept
  <2>3. LvEntry(t) = [kind |-> e.kind, due |-> e.next_due, period |-> e.period]
    BY <1>6, <2>1, EntryIs, EntryDef, Zenon
  <2>4. AbsEntry[t] = [kind |-> e.kind, due |-> e.next_due, period |-> e.period]
    BY <2>1, <2>3, Zenon DEF AbsEntry
  <2>5. ASSUME ~after.removed
        PROVE  LvEntry(t)' = [kind |-> e.kind, due |-> after.next_due, period |-> e.period]
    <3>1. after \in lv_events' /\ after.task = t
      BY <1>5, <1>10, <2>1, <2>5
    <3>2. EntryOf(lv_events', t)
            = [kind |-> after.kind, due |-> after.next_due, period |-> after.period]
      BY <1>13, <2>1, <3>1, EntryIs, Zenon
    <3> QED
      BY <1>10, <2>5, <3>2, EntryDefNext, Zenon
  <2>6. CASE e.kind = "one_shot"
    <3>1. after.removed
      BY <1>10, <2>6, Zenon
    <3>2. \A f \in lv_events' : f.task # t
      BY <1>0, <1>1, <1>5, <1>11, <1>18, <3>1
    <3>3. LvEntry(t)' = [kind |-> "none", due |-> 0, period |-> 0]
      BY <3>2, EntryNone, EntryDefNext, Zenon
    <3>4. AbsEntry' = [AbsEntry EXCEPT ![t] = [kind |-> "none", due |-> 0, period |-> 0]]
      BY <1>0, <1>15, <3>3, AbsOne, Zenon
    <3>5. AbsEntry[t].kind = "one_shot"
      BY <2>4, <2>6
    <3>6. LvAbstract!EndPoll
      BY <1>0, <1>1, <1>16, <2>2, <3>4, <3>5, Zenon
         DEF LvAbstract!EndPoll, LvAbstract!Unregistered, AbsEntry, AbsKept
    <3> QED
      BY <1>14, <3>6, Zenon DEF AbsStep, LvAbstract!Next
  <2>7. CASE e.kind = "readable"
    <3>1. ~after.removed
      BY <1>4, <1>8, <1>18, <2>7, Zenon
    <3>2. LvEntry(t)' = LvEntry(t)
      BY <1>10, <2>3, <2>5, <2>7, <3>1, Zenon
    <3>3. AbsEntry' = AbsEntry
      BY <1>0, <1>15, <3>2, AbsSame, Zenon
    <3>4. AbsEntry[t].kind = "readable"
      BY <2>4, <2>7
    <3>5. LvAbstract!EndPoll
      BY <1>0, <1>1, <1>16, <2>2, <3>3, <3>4, Zenon DEF LvAbstract!EndPoll, AbsEntry, AbsKept
    <3> QED
      BY <1>14, <3>5, Zenon DEF AbsStep, LvAbstract!Next
  <2>8. CASE e.kind = "periodic"
    <3>1. ~after.removed
      BY <1>4, <1>6, <1>7, <1>8, <1>18, <2>8, RearmedOK, Zenon
    <3>2. PICK due : due = e.next_due + 1 * e.period
      BY Zenon
    <3>3. after.next_due = due /\ 1 \in 1 .. (lv_now - e.next_due + 1)
      <4>1. e.period \in Nat /\ e.next_due \in Nat
        BY <1>6, Zenon DEF Items
      <4> QED
        BY <1>6, <1>7, <1>10, <2>8, <3>1, <3>2, <4>1
    <3>4. AbsEntry' = [AbsEntry EXCEPT ![t] = [kind |-> e.kind, due |-> due, period |-> e.period]]
      BY <1>0, <1>15, <2>5, <3>1, <3>3, AbsOne, Zenon
    <3>5. Later(AbsEntry, t, 1)
             = [AbsEntry EXCEPT ![t] = [kind |-> e.kind, due |-> due, period |-> e.period]]
      <4>1. PICK E : E = AbsEntry
        BY Zenon
      <4>2. t \in DOMAIN E /\ E[t] = [kind |-> e.kind, due |-> e.next_due, period |-> e.period]
        BY <2>4, <4>1, Zenon DEF AbsEntry
      <4>3. [E[t] EXCEPT !.due = E[t].due + 1 * E[t].period]
               = [kind |-> e.kind, due |-> due, period |-> e.period]
        BY <3>2, <4>2
      <4>4. Later(E, t, 1) = [E EXCEPT ![t] = [kind |-> e.kind, due |-> due, period |-> e.period]]
        BY <4>2, <4>3, Zenon DEF Later
      <4> QED
        BY <4>1, <4>4, Zenon
    <3>6. /\ AbsEntry[t].kind = "periodic"
          /\ 1 \in 1 .. (lv_now - AbsEntry[t].due + 1)
      BY <2>4, <2>8, <3>3
    <3>7. \E k \in 1 .. (lv_now - AbsEntry[t].due + 1) :
             AbsEntry' = Later(AbsEntry, t, k)
      BY <3>4, <3>5, <3>6, Zenon
    <3>8. LvAbstract!EndPoll
      BY <1>0, <1>1, <1>16, <2>2, <3>6, <3>7, Zenon DEF LvAbstract!EndPoll, AbsEntry, AbsKept, Later
    <3> QED
      BY <1>14, <3>8, Zenon DEF AbsStep, LvAbstract!Next
  <2> QED
    BY <1>6, <2>6, <2>7, <2>8, Zenon DEF Items
<1> QED
  BY <1>17, <1>18, Zenon

(* Time passes.                                                            *)
LEMMA TickOK ==
    ASSUME LvInv, LvTick
    PROVE  LvInv' /\ AbsStep
<1>1. lv_now' = lv_now + 1 /\ UNCHANGED <<lv_events, lv_polling>> /\ lv_now \in Nat
  BY Zenon DEF LvTick, LvInv
<1>2. ASSUME NEW e \in lv_events PROVE ItemOK(e, lv_now + 1, lv_polling)
  <2>1. ItemOK(e, lv_now, lv_polling) /\ e.deadline \in Nat /\ e.next_due \in Nat
    BY Zenon DEF LvInv, ItemOK, Items
  <2> QED
    BY <1>1, <2>1 DEF ItemOK
<1>3. LvInv'
  BY <1>1, <1>2 DEF LvInv
<1>4. ASSUME NEW u \in LvTasks PROVE LvEntry(u)' = LvEntry(u)
  BY <1>1, EntryDef, EntryDefNext, Zenon
<1>5. AbsEntry' = AbsEntry /\ AbsKept' = AbsKept
  BY <1>1, <1>4, AbsSame, Zenon DEF AbsKept
<1>6. LvAbstract!Tick
  BY <1>1, <1>5, Zenon DEF LvAbstract!Tick, AbsEntry, AbsKept
<1> QED
  BY <1>3, <1>6, Zenon DEF AbsStep, LvAbstract!Next

-----------------------------------------------------------------------------

(* Initially nothing is registered.                                        *)
LEMMA LvInitOK == LvInit => LvInv /\ LvAbstract!Init
<1> SUFFICES ASSUME LvInit PROVE LvInv /\ LvAbstract!Init
  BY Zenon
<1>1. lv_events = {} /\ lv_now = 0 /\ lv_polling = NullTask
  BY Zenon DEF LvInit
<1>2. LvInv
  BY <1>1, Zenon DEF LvInv, Unique, MaybeTask
<1>3. \A t \in LvTasks : LvEntry(t) = [kind |-> "none", due |-> 0, period |-> 0]
  BY <1>1, EntryNone, EntryDef, Zenon
<1>4. AbsEntry = [t \in LvTasks |-> [kind |-> "none", due |-> 0, period |-> 0]]
  BY <1>3, Zenon DEF AbsEntry
<1>5. ~AbsKept
  BY <1>1, Zenon DEF AbsKept
<1>6. LvAbstract!Init
  BY <1>1, <1>4, <1>5, Zenon DEF LvAbstract!Init, LvAbstract!Unregistered, AbsEntry, AbsKept
<1> QED
  BY <1>2, <1>6, Zenon

(* Every step keeps the invariant and is one of the abstract scheduler, or *)
(* none.                                                                   *)
LEMMA LvNextOK ==
    ASSUME LvInv, [LvNext]_lvVars
    PROVE  LvInv' /\ AbsStep
<1>1. CASE LvNext
  BY <1>1, AddPeriodicOK, AddOneShotOK, AddFdOK, RemoveOK, GatherOK, EnterOK, LeaveOK, TickOK, Zenon
     DEF LvNext, LvRun
<1>2. CASE UNCHANGED lvVars
  <2>1. UNCHANGED <<lv_events, lv_now, lv_polling>>
    BY <1>2, Zenon DEF lvVars
  <2>2. LvInv'
    BY <2>1, Zenon DEF LvInv
  <2>3. ASSUME NEW u \in LvTasks PROVE LvEntry(u)' = LvEntry(u)
    BY <2>1, EntryDef, EntryDefNext, Zenon
  <2>4. AbsEntry' = AbsEntry /\ AbsKept' = AbsKept
    BY <2>1, <2>3, AbsSame, Zenon DEF AbsKept
  <2>5. UNCHANGED LvAbstract!vars
    BY <2>1, <2>4, Zenon DEF LvAbstract!vars, AbsEntry, AbsKept
  <2> QED
    BY <2>2, <2>5, Zenon DEF AbsStep
<1> QED
  BY <1>1, <1>2, Zenon

(* LvInv is an invariant.                                                  *)
THEOREM LvInvariant == LvSpec => []LvInv
<1>1. LvInv /\ [LvNext]_lvVars => LvInv'
  BY LvNextOK, Zenon
<1> QED
  BY LvInitOK, <1>1, PTL DEF LvSpec

(* The libevent backend implements IScheduler: no task runs before its     *)
(* time, after its removal or inside another, and a periodic task that was *)
(* late keeps its phase.                                                   *)
THEOREM LibeventImplements == LvSpec => LvImplementsScheduler
<1>1. LvInv /\ [LvNext]_lvVars => [LvAbstract!Next]_(LvAbstract!vars)
  BY LvNextOK, Zenon DEF AbsStep
<1> QED
  BY LvInitOK, LvInvariant, <1>1, PTL DEF LvSpec, LvImplementsScheduler, LvAbstract!Spec

-----------------------------------------------------------------------------
(* TCP client connectors.                                                  *)

(* What is used of the library's theorems.  The lemmas below assume it,    *)
(* and SetFactsHold proves it at the end, where the library comes in: its  *)
(* theorems need not be in the context of every step before.               *)
SetFacts ==
    /\ \A S \in SUBSET Nat : S # {} => \E x \in S : \A y \in S : x <= y
    /\ \A S : IsFiniteSet(S) => Cardinality(S) \in Nat
    /\ \A S : IsFiniteSet(S) => \A T \in SUBSET S : IsFiniteSet(T) /\ Cardinality(T) <= Cardinality(S)
    /\ \A S : IsFiniteSet(S) => \A x \in S :
          IsFiniteSet(S \ {x}) /\ Cardinality(S \ {x}) = Cardinality(S) - 1

(* Min finds the least element of a nonempty set of numbers.               *)
LEMMA LeastElement ==
    ASSUME SetFacts, NEW S \in SUBSET Nat, S # {}
    PROVE  Min(S) \in S /\ \A y \in S : Min(S) <= y
<1>1. \E x \in S : \A y \in S : x <= y
  BY Zenon DEF SetFacts
<1> QED
  BY <1>1, Zenon DEF Min

CrRecords ==
    [started : BOOLEAN, client : {"Idle", "Connecting", "Connected"}, valid : BOOLEAN,
     timer : Nat, delay : Nat, failures : Nat, partial : {"none", "own", "old"},
     session : {"Disconnected", "WaitingForVersion", "Watching"}, watched : BOOLEAN,
     up : BOOLEAN, flaps : Nat, faults : Nat]

IsUp(r) == r.client = "Connected" /\ r.valid

(* What a stream parser and a GPSD session hold is of the connection.      *)
StreamOK(k, r) ==
    /\ IsUp(r) => r.partial # "old"
    /\ Gpsd(k) => (r.session # "Disconnected" <=> IsUp(r)) /\ (IsUp(r) => r.watched)

(* A started connector is on its way to be connected, or has a timer.      *)
Retried(r) == r.started => (r.timer # 0 <=> ~(IsUp(r) \/ r.client = "Connecting"))

CrOK(k, r) ==
    /\ r \in CrRecords
    /\ StreamOK(k, r)
    /\ r.timer # 0 \/ ~r.started => ~IsUp(r) /\ r.client # "Connecting"
    /\ r.timer # 0 => r.started

CrInv == cr \in [Connectors -> CrRecords] /\ \A k \in Connectors : CrOK(k, cr[k])
CrTimed == \A k \in Connectors : Retried(cr[k])

(* A record that differs from r in the timer and its delay only.           *)
SameButTimer(r, s) ==
    /\ s.started = r.started /\ s.client = r.client /\ s.valid = r.valid
    /\ s.partial = r.partial /\ s.session = r.session /\ s.watched = r.watched

(* schedule_connector_reconnect changes the timer and its delay only, and  *)
(* arms the timer when the event loop has a slot for it.                   *)
LEMMA ScheduleFields ==
    ASSUME NEW r \in CrRecords, NEW room \in BOOLEAN, NEW s, s = schedule_connector_reconnect(r, room)
    PROVE  /\ s \in CrRecords /\ SameButTimer(r, s)
           /\ room => s.timer # 0
           /\ ~room => s.timer = r.timer
<1>1. CASE r.timer # 0 \/ ~room
  <2>1. s = r
    BY <1>1, Zenon DEF schedule_connector_reconnect
  <2> QED
    BY <1>1, <2>1, Zenon DEF SameButTimer
<1>2. CASE r.timer = 0 /\ room
  <2>1. PICK delay : delay = IF r.delay = 0 THEN InitialDelay ELSE r.delay
    BY Zenon
  <2>2. delay \in Nat \ {0}
    BY <2>1, CrAssumption, Zenon DEF CrRecords
  <2>3. PICK next : next = IF 2 * delay > MaximumDelay THEN MaximumDelay ELSE 2 * delay
    BY Zenon
  <2>4. next \in Nat
    BY <2>2, <2>3, CrAssumption
  <2>5. s = [r EXCEPT !.timer = delay, !.delay = next]
    BY <1>2, <2>1, <2>3, Zenon DEF schedule_connector_reconnect
  <2>6. PICK t : t = [r EXCEPT !.timer = delay]
    BY Zenon
  <2>7. t \in CrRecords
    BY <2>2, <2>6, Zenon DEF CrRecords
  <2>8. s = [t EXCEPT !.delay = next]
    BY <2>5, <2>6, Zenon
  <2>9. s \in CrRecords
    BY <2>4, <2>7, <2>8, Zenon DEF CrRecords
  <2>10. SameButTimer(r, s) /\ s.timer = delay
    BY <2>5, Zenon DEF CrRecords, SameButTimer
  <2> QED
    BY <1>2, <2>2, <2>9, <2>10, Zenon
<1> QED
  BY <1>1, <1>2, Zenon

(* What is left of the record of a connection that was lost.               *)
LostFrom(k, r, s, room) ==
    /\ s \in CrRecords
    /\ s.started = r.started /\ s.client = r.client /\ s.valid = r.valid /\ s.watched = r.watched
    /\ s.partial = r.partial \/ s.partial = "none"
    /\ Gpsd(k) => s.session = "Disconnected"
    /\ room => s.timer # 0
    /\ ~room => s.timer = r.timer

(* Closing a connection leaves the state LostFrom describes.               *)
LEMMA LostFields ==
    ASSUME SetFacts, NEW k, NEW r \in CrRecords, NEW room \in BOOLEAN, NEW s, s = Lost(k, r, room)
    PROVE  LostFrom(k, r, s, room)
<1>1. PICK d : d = on_connector_tcp_disconnected(k, r)
  BY Zenon
<1>2. /\ d \in CrRecords
      /\ d.started = r.started /\ d.client = r.client /\ d.valid = r.valid /\ d.watched = r.watched
      /\ d.partial = r.partial \/ d.partial = "none"
      /\ Gpsd(k) => d.session = "Disconnected"
      /\ d.timer = r.timer
  <2>1. CASE Gpsd(k)
    <3>1. d = [r EXCEPT !.session = "Disconnected", !.partial = "none"]
      BY <1>1, <2>1, Zenon DEF on_connector_tcp_disconnected
    <3>2. PICK t : t = [r EXCEPT !.session = "Disconnected"]
      BY Zenon
    <3>3. t \in CrRecords
      BY <3>2, Zenon DEF CrRecords
    <3>4. d = [t EXCEPT !.partial = "none"]
      BY <3>1, <3>2, Zenon
    <3>5. d \in CrRecords
      BY <3>3, <3>4, Zenon DEF CrRecords
    <3> QED
      BY <3>1, <3>5 DEF CrRecords
  <2>2. CASE ~Gpsd(k)
    BY <1>1, <2>2, Zenon DEF on_connector_tcp_disconnected
  <2> QED
    BY <2>1, <2>2, Zenon
<1>3. PICK e : e = schedule_connector_reconnect(d, room)
  BY Zenon
<1>4. /\ e \in CrRecords /\ SameButTimer(d, e)
      /\ room => e.timer # 0
      /\ ~room => e.timer = d.timer
  BY <1>2, <1>3, ScheduleFields, Zenon
<1>5. PICK n : n = Min({e.failures + 1, CountedFailures})
  BY Zenon
<1>6. n \in Nat
  <2>1. {e.failures + 1, CountedFailures} \in SUBSET Nat
    BY <1>4, CrAssumption DEF CrRecords
  <2>2. {e.failures + 1, CountedFailures} # {}
    BY Zenon
  <2> QED
    BY <1>5, <2>1, <2>2, LeastElement, Zenon
<1>7. s = [e EXCEPT !.failures = n]
  BY <1>1, <1>3, <1>5, Zenon DEF Lost
<1>8. s \in CrRecords
  BY <1>4, <1>6, <1>7, Zenon DEF CrRecords
<1>9. SameButTimer(e, s) /\ s.timer = e.timer
  BY <1>4, <1>7, Zenon DEF CrRecords, SameButTimer
<1> QED
  BY <1>2, <1>4, <1>8, <1>9, Zenon DEF LostFrom, SameButTimer

(* close() of the client.                                                  *)
LEMMA ClientClosedFields ==
    ASSUME NEW r \in CrRecords, NEW s, s = ClientClosed(r)
    PROVE  /\ s \in CrRecords /\ s.client = "Idle" /\ ~s.valid
           /\ s.started = r.started /\ s.timer = r.timer /\ s.session = r.session
<1>1. PICK p : p = IF r.partial = "own" THEN "old" ELSE r.partial
  BY Zenon
<1>2. p \in {"none", "own", "old"}
  BY <1>1, Zenon DEF CrRecords
<1>3. s = [r EXCEPT !.client = "Idle", !.valid = FALSE, !.partial = p]
  BY <1>1, Zenon DEF ClientClosed
<1>4. PICK t : t = [r EXCEPT !.client = "Idle"]
  BY Zenon
<1>5. t \in CrRecords
  BY <1>4, Zenon DEF CrRecords
<1>6. PICK u : u = [t EXCEPT !.valid = FALSE]
  BY Zenon
<1>7. u \in CrRecords
  BY <1>5, <1>6, Zenon DEF CrRecords
<1>8. s = [u EXCEPT !.partial = p]
  BY <1>3, <1>4, <1>6, Zenon
<1>9. s \in CrRecords
  BY <1>2, <1>7, <1>8, Zenon DEF CrRecords
<1> QED
  BY <1>3, <1>9 DEF CrRecords

(* How a record is left by an attempt to connect: up, on its way, or with  *)
(* a timer, if there is an event slot for it.                              *)
Attempted(k, r, s, room) ==
    /\ s \in CrRecords /\ s.started = r.started
    /\ StreamOK(k, s)
    /\ s.timer # 0 => ~IsUp(s) /\ s.client # "Connecting"
    /\ room => IsUp(s) \/ s.client = "Connecting" \/ s.timer # 0

(* A connector that had neither a connection nor an attempt is, once it is *)
(* closed again, where a failed attempt leaves it.                         *)
LEMMA LostAttempted ==
    ASSUME NEW k, NEW r \in CrRecords, NEW room \in BOOLEAN, NEW s, LostFrom(k, r, s, room),
           ~r.valid, r.client # "Connecting"
    PROVE  Attempted(k, r, s, room)
<1>1. ~IsUp(s) /\ s.client # "Connecting"
  BY Zenon DEF IsUp, LostFrom
<1> QED
  BY <1>1, Zenon DEF Attempted, LostFrom, StreamOK

(* To schedule the reconnect of a failed attempt once more keeps what an   *)
(* attempt guarantees.                                                     *)
LEMMA ScheduledAgain ==
    ASSUME NEW k, NEW r, NEW t \in CrRecords, NEW room \in BOOLEAN, NEW s,
           s = schedule_connector_reconnect(t, room), Attempted(k, r, t, room),
           ~IsUp(t), t.client # "Connecting"
    PROVE  Attempted(k, r, s, room)
<1>1. s \in CrRecords /\ SameButTimer(t, s) /\ (room => s.timer # 0)
  BY ScheduleFields, Zenon
<1>2. ~IsUp(s) /\ s.client # "Connecting" /\ StreamOK(k, s)
  BY <1>1, Zenon DEF Attempted, StreamOK, IsUp, SameButTimer
<1> QED
  BY <1>1, <1>2, Zenon DEF Attempted, SameButTimer

(* on_connect of a connector.                                              *)
LEMMA ConnectedAttempted ==
    ASSUME SetFacts, NEW k, NEW r \in CrRecords, NEW room \in BOOLEAN, NEW fails \in BOOLEAN, NEW s,
           s = on_connector_tcp_connected(k, r, room, fails),
           r.client = "Connected", r.valid, r.timer = 0
    PROVE  Attempted(k, r, s, room)
<1>1. PICK t : t = reset_connector_binary_stream(r)
  BY Zenon
<1>2. /\ t \in CrRecords /\ t.started = r.started /\ t.client = "Connected" /\ t.valid
      /\ t.timer = 0 /\ t.partial = "none" /\ t.session = "Disconnected"
  <2>1. t = [r EXCEPT !.partial = "none", !.session = "Disconnected"]
    BY <1>1, Zenon DEF reset_connector_binary_stream
  <2>2. PICK u : u = [r EXCEPT !.partial = "none"]
    BY Zenon
  <2>3. u \in CrRecords
    BY <2>2, Zenon DEF CrRecords
  <2>4. t = [u EXCEPT !.session = "Disconnected"]
    BY <2>1, <2>2, Zenon
  <2>5. t \in CrRecords
    BY <2>3, <2>4, Zenon DEF CrRecords
  <2> QED
    BY <2>1, <2>5 DEF CrRecords
<1>3. PICK new : new = [t EXCEPT !.delay = InitialDelay, !.failures = 0, !.watched = FALSE]
  BY Zenon
<1>4. /\ new \in CrRecords /\ new.started = r.started /\ new.client = "Connected" /\ new.valid
      /\ new.timer = 0 /\ new.partial = "none" /\ new.session = "Disconnected"
  <2>1. PICK u : u = [t EXCEPT !.delay = InitialDelay]
    BY Zenon
  <2>2. u \in CrRecords
    BY <1>2, <2>1, CrAssumption, Zenon DEF CrRecords
  <2>3. PICK v : v = [u EXCEPT !.failures = 0]
    BY Zenon
  <2>4. v \in CrRecords
    BY <2>2, <2>3, Zenon DEF CrRecords
  <2>5. new = [v EXCEPT !.watched = FALSE]
    BY <1>3, <2>1, <2>3, Zenon
  <2>6. new \in CrRecords
    BY <2>4, <2>5, Zenon DEF CrRecords
  <2> QED
    BY <1>2, <1>3, <2>6 DEF CrRecords
<1>5. CASE ~Gpsd(k)
  <2>1. s = new
    BY <1>1, <1>3, <1>5, Zenon DEF on_connector_tcp_connected
  <2> QED
    BY <1>4, <1>5, <2>1, Zenon DEF Attempted, StreamOK, IsUp
<1>6. CASE Gpsd(k) /\ fails
  <2>1. PICK u : u = [new EXCEPT !.valid = FALSE, !.faults = @ + 1]
    BY Zenon
  <2>2. u \in CrRecords /\ u.started = r.started /\ ~u.valid /\ u.client # "Connecting"
    <3>1. PICK v : v = [new EXCEPT !.valid = FALSE]
      BY Zenon
    <3>2. v \in CrRecords
      BY <1>4, <3>1, Zenon DEF CrRecords
    <3>3. u = [v EXCEPT !.faults = @ + 1]
      BY <2>1, <3>1, Zenon
    <3>4. u \in CrRecords
      BY <3>2, <3>3 DEF CrRecords
    <3> QED
      BY <1>4, <2>1, <3>4 DEF CrRecords
  <2>3. s = Lost(k, u, room)
    BY <1>1, <1>3, <1>6, <2>1, Zenon DEF on_connector_tcp_connected
  <2>4. LostFrom(k, u, s, room)
    BY <2>2, <2>3, LostFields, Zenon
  <2>5. Attempted(k, u, s, room)
    BY <2>2, <2>4, LostAttempted, Zenon
  <2> QED
    BY <2>2, <2>5, Zenon DEF Attempted
<1>7. CASE Gpsd(k) /\ ~fails
  <2>1. s = [new EXCEPT !.session = "WaitingForVersion", !.watched = TRUE]
    BY <1>1, <1>3, <1>7, Zenon DEF on_connector_tcp_connected
  <2>2. PICK u : u = [new EXCEPT !.session = "WaitingForVersion"]
    BY Zenon
  <2>3. u \in CrRecords
    BY <1>4, <2>2, Zenon DEF CrRecords
  <2>4. s = [u EXCEPT !.watched = TRUE]
    BY <2>1, <2>2, Zenon
  <2>5. s \in CrRecords
    BY <2>3, <2>4, Zenon DEF CrRecords
  <2>6. /\ s.started = r.started /\ s.client = "Connected" /\ s.valid /\ s.timer = 0
        /\ s.partial = "none" /\ s.session = "WaitingForVersion" /\ s.watched
    BY <1>4, <2>1 DEF CrRecords
  <2> QED
    BY <2>5, <2>6, Zenon DEF Attempted, StreamOK, IsUp
<1> QED
  BY <1>5, <1>6, <1>7, Zenon

(* Activating a connected descriptor is an attempt to connect, and one     *)
(* that fails to register it ends without a connection.                    *)
LEMMA ActivateAttempted ==
    ASSUME SetFacts, NEW k, NEW r \in CrRecords, NEW room \in BOOLEAN, NEW fault, NEW s,
           s = activate_connected_fd(k, r, room, fault), r.timer = 0
    PROVE  /\ Attempted(k, r, s, room)
           /\ fault = "register" => ~IsUp(s) /\ s.client # "Connecting"
<1>1. CASE fault = "register"
  <2>1. PICK c : c = ClientClosed(r)
    BY Zenon
  <2>2. c \in CrRecords /\ c.client = "Idle" /\ ~c.valid /\ c.started = r.started
    BY <2>1, ClientClosedFields, Zenon
  <2>3. PICK u : u = [c EXCEPT !.faults = @ + 1]
    BY Zenon
  <2>4. u \in CrRecords /\ u.client = "Idle" /\ ~u.valid /\ u.started = r.started
    BY <2>2, <2>3 DEF CrRecords
  <2>5. s = Lost(k, u, room)
    BY <1>1, <2>1, <2>3, Zenon DEF activate_connected_fd
  <2>6. LostFrom(k, u, s, room)
    BY <2>4, <2>5, LostFields, Zenon
  <2>7. u.client # "Connecting"
    BY <2>4, Zenon
  <2>8. Attempted(k, u, s, room)
    BY <2>4, <2>6, <2>7, LostAttempted, Zenon
  <2>9. ~IsUp(s) /\ s.client # "Connecting"
    BY <2>4, <2>6, Zenon DEF LostFrom, IsUp
  <2> QED
    BY <2>4, <2>8, <2>9, Zenon DEF Attempted
<1>2. CASE fault # "register"
  <2>1. PICK u : u = [r EXCEPT !.client = "Connected", !.valid = TRUE]
    BY Zenon
  <2>2. u \in CrRecords /\ u.client = "Connected" /\ u.valid /\ u.timer = 0 /\ u.started = r.started
    <3>1. PICK v : v = [r EXCEPT !.client = "Connected"]
      BY Zenon
    <3>2. v \in CrRecords
      BY <3>1, Zenon DEF CrRecords
    <3>3. u = [v EXCEPT !.valid = TRUE]
      BY <2>1, <3>1, Zenon
    <3>4. u \in CrRecords
      BY <3>2, <3>3, Zenon DEF CrRecords
    <3> QED
      BY <2>1, <3>4 DEF CrRecords
  <2>3. PICK fails \in BOOLEAN : fails = (fault = "write")
    BY Zenon
  <2>4. s = on_connector_tcp_connected(k, u, room, fails)
    BY <1>2, <2>1, <2>3 DEF activate_connected_fd
  <2>5. Attempted(k, u, s, room)
    BY <2>2, <2>4, ConnectedAttempted, Zenon
  <2> QED
    BY <1>2, <2>2, <2>5, Zenon DEF Attempted
<1> QED
  BY <1>1, <1>2, Zenon

(* connect_tcp_client is an attempt to connect, whatever the socket        *)
(* answers.                                                                *)
LEMMA ConnectAttempted ==
    ASSUME SetFacts, NEW k, NEW r \in CrRecords, NEW room \in BOOLEAN,
           NEW outcome \in {"error", "pending", "connected"}, NEW fault, NEW s,
           s = connect_tcp_client(k, r, room, outcome, fault), r.timer = 0,
           Gpsd(k) => r.session = "Disconnected"
    PROVE  Attempted(k, r, s, room)
<1>1. PICK c : c = ClientClosed(r)
  BY Zenon
<1>2. /\ c \in CrRecords /\ c.client = "Idle" /\ ~c.valid /\ c.started = r.started
      /\ c.timer = 0 /\ c.session = r.session
  BY <1>1, ClientClosedFields, Zenon
<1>3. CASE outcome = "error"
  <2>1. PICK t : t = Lost(k, c, room)
    BY Zenon
  <2>2. LostFrom(k, c, t, room)
    BY <1>2, <2>1, LostFields, Zenon
  <2>3. c.client # "Connecting"
    BY <1>2, Zenon
  <2>4. Attempted(k, c, t, room)
    BY <1>2, <2>2, <2>3, LostAttempted, Zenon
  <2>5. t \in CrRecords /\ ~IsUp(t) /\ t.client # "Connecting"
    BY <1>2, <2>2, Zenon DEF LostFrom, IsUp
  <2>6. s = schedule_connector_reconnect(t, room)
    BY <1>1, <1>3, <2>1, Zenon DEF connect_tcp_client
  <2>7. Attempted(k, c, s, room)
    BY <2>4, <2>5, <2>6, ScheduledAgain, Zenon
  <2> QED
    BY <1>2, <2>7, Zenon DEF Attempted
<1>4. CASE outcome = "pending"
  <2>1. s = [c EXCEPT !.client = "Connecting"]
    BY <1>1, <1>4, Zenon DEF connect_tcp_client
  <2>2. s \in CrRecords
    BY <1>2, <2>1, Zenon DEF CrRecords
  <2>3. /\ s.client = "Connecting" /\ ~s.valid /\ s.started = r.started
        /\ s.timer = 0 /\ s.session = r.session
    BY <1>2, <2>1 DEF CrRecords
  <2> QED
    BY <2>2, <2>3, Zenon DEF Attempted, StreamOK, IsUp
<1>5. CASE outcome = "connected"
  <2>1. PICK t : t = activate_connected_fd(k, c, room, fault)
    BY Zenon
  <2>2. /\ Attempted(k, c, t, room)
        /\ fault = "register" => ~IsUp(t) /\ t.client # "Connecting"
    BY <1>2, <2>1, ActivateAttempted, Zenon
  <2>3. s = IF fault = "register" THEN schedule_connector_reconnect(t, room) ELSE t
    BY <1>1, <1>5, <2>1, Zenon DEF connect_tcp_client
  <2>4. t \in CrRecords
    BY <2>2, Zenon DEF Attempted
  <2>5. Attempted(k, c, s, room)
    BY <2>2, <2>3, <2>4, ScheduledAgain, Zenon
  <2> QED
    BY <1>2, <2>5, Zenon DEF Attempted
<1> QED
  BY <1>3, <1>4, <1>5, Zenon

-----------------------------------------------------------------------------
(* The steps of a connector.                                               *)

(* What a step may make of a connector's record, with an event slot left   *)
(* for its timer or without.                                               *)
CrStepped(k, r, s, room) ==
    /\ CrOK(k, s)
    /\ room /\ Retried(r) => Retried(s)

(* Some step of connector k, and no other connector is touched.            *)
CrChanged(k, room) ==
    \E s : cr' = [cr EXCEPT ![k] = s] /\ CrStepped(k, cr[k], s, room)

(* An attempt leaves a connector that was started in order.                *)
LEMMA AttemptedOK ==
    ASSUME NEW k, NEW r, NEW q, NEW s, NEW room, Attempted(k, q, s, room), q.started
    PROVE  CrStepped(k, r, s, room)
<1>1. s.started
  BY Zenon DEF Attempted
<1>2. CrOK(k, s)
  BY <1>1, Zenon DEF Attempted, CrOK
<1>3. room => Retried(s)
  BY <1>1, Zenon DEF Attempted, Retried
<1> QED
  BY <1>2, <1>3, Zenon DEF CrStepped

(* There is room for a timer of every connector but the one that runs.     *)
SlotsSuffice == EventSlots > Cardinality(Connectors)

(* There are no more pending timers than connectors.                       *)
LEMMA PendingBound ==
    ASSUME SetFacts, NEW S \in SUBSET Connectors
    PROVE  IsFiniteSet(S) /\ PendingTimers(S) \in Nat /\ PendingTimers(S) <= Cardinality(S)
<1>1. IsFiniteSet(S)
  BY CrAssumption, Zenon DEF SetFacts
<1>2. PICK T : T = {j \in S : cr[j].timer # 0}
  BY Zenon
<1>3. T \in SUBSET S
  BY <1>2, Zenon
<1>4. IsFiniteSet(T) /\ Cardinality(T) <= Cardinality(S)
  BY <1>1, <1>3, Zenon DEF SetFacts
<1>5. Cardinality(T) \in Nat
  BY <1>4, Zenon DEF SetFacts
<1>6. PendingTimers(S) = Cardinality(T)
  BY <1>2, Zenon DEF PendingTimers
<1> QED
  BY <1>1, <1>4, <1>5, <1>6, Zenon

(* Whether the event loop has a slot left is a Boolean.                    *)
LEMMA RoomOrNot ==
    ASSUME SetFacts, NEW S \in SUBSET Connectors
    PROVE  /\ \E room \in BOOLEAN : room = (PendingTimers(S) < EventSlots)
           /\ \E room \in BOOLEAN : room = (PendingTimers(S) + 1 < EventSlots)
<1>1. PICK n \in Nat, m \in Nat : n = PendingTimers(S) /\ m = EventSlots
  BY PendingBound, CrAssumption, Zenon
<1>2. (n < m) \in BOOLEAN /\ (n + 1 < m) \in BOOLEAN
  OBVIOUS
<1> QED
  BY <1>1, <1>2, Zenon

(* With more slots than connectors there is always one for a reconnect     *)
(* timer.                                                                  *)
LEMMA RoomForTimer ==
    ASSUME SetFacts, SlotsSuffice, NEW k \in Connectors
    PROVE  PendingTimers(Connectors) < EventSlots /\ PendingTimers(Connectors \ {k}) + 1 < EventSlots
<1>1. IsFiniteSet(Connectors) /\ EventSlots \in Nat
  BY CrAssumption, Zenon
<1>2. Cardinality(Connectors) \in Nat
  BY <1>1, Zenon DEF SetFacts
<1>3. IsFiniteSet(Connectors \ {k}) /\ Cardinality(Connectors \ {k}) = Cardinality(Connectors) - 1
  BY <1>1, Zenon DEF SetFacts
<1>5. PendingTimers(Connectors) \in Nat /\ PendingTimers(Connectors) <= Cardinality(Connectors)
  BY PendingBound, Zenon
<1>6. PendingTimers(Connectors \ {k}) \in Nat /\ PendingTimers(Connectors \ {k}) <= Cardinality(Connectors \ {k})
  BY PendingBound, Zenon
<1> QED
  BY <1>1, <1>2, <1>3, <1>5, <1>6 DEF SlotsSuffice

(* Starting a connector changes it as CrChanged allows.                    *)
LEMMA StartChanges ==
    ASSUME SetFacts, CrInv, NEW k \in Connectors, Start(k)
    PROVE  CrChanged(k, PendingTimers(Connectors) < EventSlots)
<1>1. PICK room \in BOOLEAN : room = (PendingTimers(Connectors) < EventSlots)
  BY RoomOrNot, Zenon
<1>2. PICK r : r = [cr[k] EXCEPT !.started = TRUE]
  BY Zenon
<1>3. cr[k] \in CrRecords /\ CrOK(k, cr[k]) /\ ~cr[k].started
  BY Zenon DEF CrInv, Start
<1>4. r \in CrRecords
  BY <1>2, <1>3, Zenon DEF CrRecords
<1>5. r.started /\ r.timer = cr[k].timer /\ r.session = cr[k].session
  BY <1>2, <1>3, Zenon DEF CrRecords
<1>6. r.timer = 0 /\ (Gpsd(k) => r.session = "Disconnected")
  BY <1>3, <1>5, Zenon DEF CrOK, StreamOK
<1>7. PICK outcome \in Outcomes(k), fault \in Faults(k) :
         cr' = [cr EXCEPT ![k] = connect_tcp_client(k, r, room, outcome, fault)]
  BY <1>1, <1>2, <1>3, Zenon DEF Start, CrInv
<1>8. outcome \in {"error", "pending", "connected"}
  BY Zenon DEF Outcomes
<1>9. PICK s : s = connect_tcp_client(k, r, room, outcome, fault)
  OBVIOUS
<1>10. Attempted(k, r, s, room)
  BY <1>4, <1>6, <1>8, <1>9, ConnectAttempted, Zenon
<1>11. CrStepped(k, cr[k], s, room)
  BY <1>5, <1>10, AttemptedOK, Zenon
<1>12. cr' = [cr EXCEPT ![k] = s]
  BY <1>7, <1>9, Zenon
<1> QED
  BY <1>1, <1>11, <1>12, Zenon DEF CrChanged

(* So does its reconnect timer,                                            *)
LEMMA TimerChanges ==
    ASSUME SetFacts, CrInv, NEW k \in Connectors, TimerFires(k)
    PROVE  CrChanged(k, PendingTimers(Connectors \ {k}) + 1 < EventSlots)
<1>1. PICK room \in BOOLEAN : room = (PendingTimers(Connectors \ {k}) + 1 < EventSlots)
  BY RoomOrNot, Zenon
<1>2. PICK r : r = [cr[k] EXCEPT !.timer = 0]
  BY Zenon
<1>3. cr[k] \in CrRecords /\ CrOK(k, cr[k]) /\ cr[k].timer # 0
  BY Zenon DEF CrInv, TimerFires
<1>4. r \in CrRecords
  BY <1>2, <1>3, Zenon DEF CrRecords
<1>5. r.timer = 0 /\ r.started = cr[k].started /\ r.session = cr[k].session
  BY <1>2, <1>3 DEF CrRecords
<1>6. r.started /\ (Gpsd(k) => r.session = "Disconnected")
  BY <1>3, <1>5, Zenon DEF CrOK, StreamOK
<1>7. PICK outcome \in Outcomes(k), fault \in Faults(k) :
         cr' = [cr EXCEPT ![k] = connect_tcp_client(k, r, room, outcome, fault)]
  BY <1>1, <1>2, <1>3, Zenon DEF TimerFires, CrInv
<1>8. outcome \in {"error", "pending", "connected"}
  BY Zenon DEF Outcomes
<1>9. PICK s : s = connect_tcp_client(k, r, room, outcome, fault)
  BY Zenon
<1>10. Attempted(k, r, s, room)
  BY <1>4, <1>5, <1>6, <1>8, <1>9, ConnectAttempted, Zenon
<1>11. CrStepped(k, cr[k], s, room)
  BY <1>6, <1>10, AttemptedOK, Zenon
<1>12. cr' = [cr EXCEPT ![k] = s]
  BY <1>7, <1>9, Zenon
<1> QED
  BY <1>1, <1>11, <1>12, Zenon DEF CrChanged

(* poll() that finds the connection lost, or not to be had.                *)
LEMMA LostClosed ==
    ASSUME SetFacts, NEW k, NEW r, CrOK(k, r), r.started, NEW room \in BOOLEAN, NEW s,
           s = ClientClosed(Lost(k, r, room))
    PROVE  CrStepped(k, r, s, room)
<1>1. PICK t : t = Lost(k, r, room)
  BY Zenon
<1>2. r \in CrRecords
  BY Zenon DEF CrOK
<1>3. LostFrom(k, r, t, room)
  BY <1>1, <1>2, LostFields, Zenon
<1>4. t \in CrRecords
  BY <1>3, Zenon DEF LostFrom
<1>5. s = ClientClosed(t)
  BY <1>1, Zenon
<1>6. /\ s \in CrRecords /\ s.client = "Idle" /\ ~s.valid
      /\ s.started = t.started /\ s.timer = t.timer /\ s.session = t.session
  BY <1>4, <1>5, ClientClosedFields, Zenon
<1>7. ~IsUp(s) /\ s.client # "Connecting"
  BY <1>6 DEF IsUp
<1>8. s.started /\ (Gpsd(k) => s.session = "Disconnected") /\ (room => s.timer # 0)
  BY <1>3, <1>6, Zenon DEF LostFrom
<1> QED
  BY <1>6, <1>7, <1>8, Zenon DEF CrStepped, CrOK, StreamOK, Retried

(* the completion of its connect,                                          *)
LEMMA CompleteChanges ==
    ASSUME SetFacts, CrInv, NEW k \in Connectors, CompleteConnect(k)
    PROVE  CrChanged(k, PendingTimers(Connectors) < EventSlots)
<1>1. PICK room \in BOOLEAN : room = (PendingTimers(Connectors) < EventSlots)
  BY RoomOrNot, Zenon
<1>2. PICK r : r = cr[k]
  BY Zenon
<1>3. r \in CrRecords /\ CrOK(k, r) /\ r.client = "Connecting"
  BY <1>2, Zenon DEF CrInv, CompleteConnect
<1>4. r.started /\ r.timer = 0
  BY <1>3, Zenon DEF CrOK
<1>5. PICK fault \in Faults(k) :
         cr' = [cr EXCEPT ![k] = IF r.up THEN activate_connected_fd(k, r, room, fault)
                                 ELSE ClientClosed(Lost(k, r, room))]
  BY <1>1, <1>2, Zenon DEF CompleteConnect, CrInv
<1>6. PICK s : s = IF r.up THEN activate_connected_fd(k, r, room, fault)
                   ELSE ClientClosed(Lost(k, r, room))
  BY Zenon
<1>7. CASE r.up
  <2>1. s = activate_connected_fd(k, r, room, fault)
    BY <1>6, <1>7, Zenon
  <2>2. Attempted(k, r, s, room)
    BY <1>3, <1>4, <2>1, ActivateAttempted, Zenon
  <2> QED
    BY <1>4, <2>2, AttemptedOK, <1>1, <1>2, <1>5, <1>6, Zenon DEF CrChanged
<1>8. CASE ~r.up
  <2>1. s = ClientClosed(Lost(k, r, room))
    BY <1>6, <1>8, Zenon
  <2>2. CrStepped(k, r, s, room)
    BY <1>3, <1>4, <2>1, LostClosed, Zenon
  <2> QED
    BY <2>2, <1>1, <1>2, <1>5, <1>6, Zenon DEF CrChanged
<1> QED
  BY <1>7, <1>8, Zenon

(* a poll that finds the connection lost,                                  *)
LEMMA PollLostChanges ==
    ASSUME SetFacts, CrInv, NEW k \in Connectors, PollLost(k)
    PROVE  CrChanged(k, PendingTimers(Connectors) < EventSlots)
<1>1. PICK room \in BOOLEAN : room = (PendingTimers(Connectors) < EventSlots)
  BY RoomOrNot, Zenon
<1>2. PICK r : r = cr[k]
  BY Zenon
<1>3. CrOK(k, r) /\ r.client = "Connected" /\ r.valid
  BY <1>2, Zenon DEF CrInv, PollLost
<1>4. r.started
  BY <1>3, Zenon DEF CrOK, IsUp
<1>5. PICK s : s = ClientClosed(Lost(k, r, room))
  BY Zenon
<1>6. cr' = [cr EXCEPT ![k] = s]
  BY <1>1, <1>2, <1>5 DEF PollLost, CrInv
<1>7. CrStepped(k, r, s, room)
  BY <1>3, <1>4, <1>5, LostClosed, Zenon
<1> QED
  BY <1>1, <1>2, <1>6, <1>7, Zenon DEF CrChanged

(* a poll that finds data,                                                 *)
LEMMA PollDataChanges ==
    ASSUME CrInv, NEW k \in Connectors, NEW partial \in BOOLEAN, PollData(k, partial)
    PROVE  CrChanged(k, TRUE)
<1>1. PICK r : r = cr[k]
  BY Zenon
<1>2. r \in CrRecords /\ CrOK(k, r) /\ r.client = "Connected" /\ r.valid
  BY <1>1, Zenon DEF CrInv, PollData
<1>3. PICK p : p = IF r.partial = "old" THEN r.partial ELSE IF partial THEN "own" ELSE "none"
  BY Zenon
<1>4. PICK n : n = IF Gpsd(k) /\ ~partial THEN "Watching" ELSE r.session
  BY Zenon
<1>5. r.partial # "old"
  BY <1>2, Zenon DEF CrOK, StreamOK, IsUp
<1>6. /\ p \in {"none", "own", "old"} /\ p # "old"
      /\ n \in {"Disconnected", "WaitingForVersion", "Watching"}
      /\ r.session # "Disconnected" => n # "Disconnected"
      /\ Gpsd(k) => n # "Disconnected"
  <2>1. Gpsd(k) => r.session # "Disconnected"
    BY <1>2, Zenon DEF CrOK, StreamOK, IsUp
  <2> QED
    BY <1>2, <1>3, <1>4, <1>5, <2>1, Zenon DEF CrRecords
<1>7. PICK t : t = [r EXCEPT !.partial = p]
  BY Zenon
<1>8. PICK s : s = [t EXCEPT !.session = n]
  BY Zenon
<1>9. t \in CrRecords
  BY <1>2, <1>6, <1>7 DEF CrRecords
<1>10. s \in CrRecords
  BY <1>6, <1>8, <1>9, Zenon DEF CrRecords
<1>11. s = [r EXCEPT !.partial = p, !.session = n]
  BY <1>7, <1>8, Zenon
<1>12. /\ s.started = r.started /\ s.client = r.client /\ s.valid = r.valid /\ s.timer = r.timer
       /\ s.watched = r.watched /\ s.partial = p /\ s.session = n
  BY <1>2, <1>11, Zenon DEF CrRecords
<1>13. cr' = [cr EXCEPT ![k] = s]
  BY <1>1, <1>2, <1>3, <1>4, <1>11, Zenon DEF PollData, CrInv
<1>14. IsUp(r) /\ IsUp(s)
  BY <1>2, <1>12, Zenon DEF IsUp
<1>15. StreamOK(k, s)
  BY <1>2, <1>6, <1>12, <1>14, Zenon DEF StreamOK, CrOK
<1>16. CrStepped(k, r, s, TRUE)
  BY <1>2, <1>10, <1>12, <1>14, <1>15, Zenon DEF CrStepped, CrOK, Retried
<1> QED
  BY <1>1, <1>13, <1>16, Zenon DEF CrChanged

(* and the peer going down or coming up.                                   *)
LEMMA PeerChanges ==
    ASSUME CrInv, NEW k \in Connectors, PeerDown(k) \/ PeerUp(k)
    PROVE  CrChanged(k, TRUE)
<1>1. PICK r : r = cr[k]
  BY Zenon
<1>2. r \in CrRecords /\ CrOK(k, r)
  BY <1>1, Zenon DEF CrInv
<1>3. PICK up \in BOOLEAN, flaps \in Nat : cr' = [cr EXCEPT ![k] = [r EXCEPT !.up = up, !.flaps = flaps]]
  <2>1. CASE PeerDown(k)
    <3>1. cr' = [cr EXCEPT ![k] = [r EXCEPT !.up = FALSE, !.flaps = r.flaps + 1]]
      BY <1>1, <1>2, <2>1, Zenon DEF PeerDown, CrInv, CrRecords
    <3>2. r.flaps + 1 \in Nat
      BY <1>2 DEF CrRecords
    <3> QED
      BY <3>1, <3>2, Zenon
  <2>2. CASE PeerUp(k)
    <3>1. cr' = [cr EXCEPT ![k] = [r EXCEPT !.up = TRUE, !.flaps = r.flaps]]
      BY <1>1, <1>2, <2>2, Zenon DEF PeerUp, CrInv, CrRecords
    <3>2. r.flaps \in Nat
      BY <1>2, Zenon DEF CrRecords
    <3> QED
      BY <3>1, <3>2, Zenon
  <2> QED
    BY <2>1, <2>2, Zenon
<1>4. PICK t : t = [r EXCEPT !.up = up]
  BY Zenon
<1>5. PICK s : s = [t EXCEPT !.flaps = flaps]
  BY Zenon
<1>6. t \in CrRecords
  BY <1>2, <1>4, Zenon DEF CrRecords
<1>7. s \in CrRecords
  BY <1>5, <1>6 DEF CrRecords
<1>8. s = [r EXCEPT !.up = up, !.flaps = flaps]
  BY <1>4, <1>5, Zenon
<1>9. SameButTimer(r, s) /\ s.timer = r.timer
  BY <1>2, <1>8, Zenon DEF CrRecords, SameButTimer
<1>10. IsUp(s) <=> IsUp(r)
  BY <1>9, Zenon DEF IsUp, SameButTimer
<1>11. StreamOK(k, s)
  BY <1>2, <1>9, <1>10, Zenon DEF StreamOK, CrOK, SameButTimer
<1>12. CrStepped(k, r, s, TRUE)
  BY <1>2, <1>7, <1>9, <1>10, <1>11, Zenon DEF CrStepped, CrOK, Retried, SameButTimer
<1>13. cr' = [cr EXCEPT ![k] = s]
  BY <1>3, <1>8, Zenon
<1> QED
  BY <1>1, <1>12, <1>13, Zenon DEF CrChanged

(* A change of one connector keeps the invariant and, when there was a     *)
(* slot for its timer, that every started connector is retried.            *)
LEMMA ChangedKeeps ==
    ASSUME CrInv, NEW k \in Connectors, NEW room \in BOOLEAN, CrChanged(k, room)
    PROVE  CrInv' /\ (room /\ CrTimed => CrTimed')
<1>1. PICK s : cr' = [cr EXCEPT ![k] = s] /\ CrStepped(k, cr[k], s, room)
  BY Zenon DEF CrChanged
<1>2. s \in CrRecords /\ CrOK(k, s) /\ (room /\ Retried(cr[k]) => Retried(s))
  BY <1>1, Zenon DEF CrStepped, CrOK
<1>3. cr \in [Connectors -> CrRecords] /\ \A j \in Connectors : CrOK(j, cr[j])
  BY Zenon DEF CrInv
<1>4. cr' \in [Connectors -> CrRecords]
  BY <1>1, <1>2, <1>3, Zenon
<1>5. cr'[k] = s /\ \A j \in Connectors : j # k => cr'[j] = cr[j]
  BY <1>1, <1>3, Zenon
<1>6. \A j \in Connectors : CrOK(j, cr'[j])
  <2> TAKE j \in Connectors
  <2>1. CASE j = k
    BY <1>2, <1>5, <2>1, Zenon
  <2>2. CASE j # k
    BY <1>3, <1>5, <2>2, Zenon
  <2> QED
    BY <2>1, <2>2, Zenon
<1>7. ASSUME room, CrTimed
      PROVE  \A j \in Connectors : Retried(cr'[j])
  <2> TAKE j \in Connectors
  <2>1. CASE j = k
    BY <1>2, <1>5, <1>7, <2>1, Zenon DEF CrTimed
  <2>2. CASE j # k
    BY <1>5, <1>7, <2>2, Zenon DEF CrTimed
  <2> QED
    BY <2>1, <2>2, Zenon
<1>8. CrInv'
  BY <1>4, <1>6, Zenon DEF CrInv, CrOK, StreamOK, IsUp
<1>9. room /\ CrTimed => CrTimed'
  BY <1>7, Zenon DEF CrTimed, Retried, IsUp
<1> QED
  BY <1>8, <1>9, Zenon

-----------------------------------------------------------------------------
(* All steps of the connectors.                                            *)

(* Every step keeps the invariant of the connectors and, with enough       *)
(* slots, that every started connector is retried.                         *)
LEMMA CrStep ==
    ASSUME SetFacts
    PROVE  CrInv /\ [CrNext]_crVars => CrInv' /\ (SlotsSuffice /\ CrTimed => CrTimed')
<1> SUFFICES ASSUME CrInv, [CrNext]_crVars
             PROVE  CrInv' /\ (SlotsSuffice /\ CrTimed => CrTimed')
  BY Zenon
<1>1. ASSUME NEW k \in Connectors,
             NEW room \in BOOLEAN, SlotsSuffice => room, CrChanged(k, room)
      PROVE  CrInv' /\ (SlotsSuffice /\ CrTimed => CrTimed')
  BY <1>1, ChangedKeeps, Zenon
<1>2. ASSUME NEW k \in Connectors,
             \/ Start(k) \/ CompleteConnect(k) \/ PollLost(k)
      PROVE  CrInv' /\ (SlotsSuffice /\ CrTimed => CrTimed')
  <2>1. PICK room \in BOOLEAN : room = (PendingTimers(Connectors) < EventSlots)
    BY RoomOrNot, Zenon
  <2>2. CrChanged(k, room)
    BY <1>2, <2>1, StartChanges, CompleteChanges, PollLostChanges, Zenon
  <2>3. SlotsSuffice => room
    BY <2>1, RoomForTimer, Zenon
  <2> QED
    BY <1>1, <2>2, <2>3, Zenon
<1>3. ASSUME NEW k \in Connectors, TimerFires(k)
      PROVE  CrInv' /\ (SlotsSuffice /\ CrTimed => CrTimed')
  <2>1. PICK room \in BOOLEAN : room = (PendingTimers(Connectors \ {k}) + 1 < EventSlots)
    BY RoomOrNot, Zenon
  <2>2. CrChanged(k, room)
    BY <1>3, <2>1, TimerChanges, Zenon
  <2>3. SlotsSuffice => room
    BY <2>1, RoomForTimer, Zenon
  <2> QED
    BY <1>1, <2>2, <2>3, Zenon
<1>4. ASSUME NEW k \in Connectors, NEW partial \in BOOLEAN,
             PollData(k, partial) \/ PeerDown(k) \/ PeerUp(k)
      PROVE  CrInv' /\ (SlotsSuffice /\ CrTimed => CrTimed')
  BY <1>1, <1>4, PollDataChanges, PeerChanges, Zenon
<1>5. CASE UNCHANGED crVars
  BY <1>5, Zenon DEF crVars, CrInv, CrTimed, CrOK, StreamOK, IsUp, Retried
<1>6. CASE CrNext
  <2>1. PICK k \in Connectors :
            \/ Start(k) \/ TimerFires(k) \/ CompleteConnect(k) \/ PollLost(k)
            \/ \E partial \in BOOLEAN : PollData(k, partial)
            \/ PeerDown(k) \/ PeerUp(k)
    BY <1>6, Zenon DEF CrNext
  <2> QED
    BY <1>2, <1>3, <1>4, <2>1, Zenon
<1> QED
  BY <1>5, <1>6, Zenon

(* Both hold before any connector is started.                              *)
LEMMA CrInitial == CrInit => CrInv /\ CrTimed
<1> SUFFICES ASSUME CrInit
             PROVE  CrInv /\ CrTimed
  BY Zenon
<1>1. PICK r : r = [started |-> FALSE, client |-> "Idle", valid |-> FALSE,
                    timer |-> 0, delay |-> 0, failures |-> 0,
                    partial |-> "none", session |-> "Disconnected", watched |-> FALSE,
                    up |-> TRUE, flaps |-> 0, faults |-> 0]
  BY Zenon
<1>2. cr = [k \in Connectors |-> r]
  BY <1>1, Zenon DEF CrInit
<1>3. r \in CrRecords
  BY <1>1, Zenon DEF CrRecords
<1>4. ~r.started /\ r.client = "Idle" /\ ~r.valid /\ r.timer = 0 /\ r.session = "Disconnected"
  BY <1>1
<1>5. \A k \in Connectors : CrOK(k, r) /\ Retried(r)
  BY <1>3, <1>4 DEF CrOK, StreamOK, IsUp, Retried
<1> QED
  BY <1>2, <1>3, <1>5, Zenon DEF CrInv, CrTimed

-----------------------------------------------------------------------------
(* What needs the theorems on finite sets.                                 *)

INSTANCE FiniteSetTheorems

Less == {ss \in Nat \X Nat : ss[1] < ss[2]}

(* The hypothesis of the lemmas holds.                                     *)
LEMMA SetFactsHold == SetFacts
<1>1. IsWellFoundedOn(Less, Nat)
  <2>1. OpToRel(<, Nat) = Less
    BY Zenon DEF OpToRel, Less
  <2> QED
    BY <2>1, NatLessThanWellFounded, Zenon
<1>2. ASSUME NEW S \in SUBSET Nat, S # {}
      PROVE  \E x \in S : \A y \in S : x <= y
  <2>1. PICK x \in S : \A y \in S : ~ (<<y, x>> \in Less)
    BY <1>1, <1>2, WFMin, Zenon
  <2>2. \A y \in S : x <= y
    <3> TAKE y \in S
    <3>1. x \in Nat /\ y \in Nat
      BY Zenon
    <3>2. y < x => <<y, x>> \in Less
      BY <3>1, Zenon DEF Less
    <3>3. ~(<<y, x>> \in Less)
      BY <2>1, Zenon
    <3> QED
      BY <3>1, <3>2, <3>3
  <2> QED
    BY <2>2, Zenon
<1>3. \A S : IsFiniteSet(S) => Cardinality(S) \in Nat
  BY FS_CardinalityType, Zenon
<1>4. \A S : IsFiniteSet(S) => \A T \in SUBSET S : IsFiniteSet(T) /\ Cardinality(T) <= Cardinality(S)
  BY FS_Subset, Zenon
<1>5. \A S : IsFiniteSet(S) => \A x \in S :
          IsFiniteSet(S \ {x}) /\ Cardinality(S \ {x}) = Cardinality(S) - 1
  BY FS_RemoveElement, Zenon
<1> QED
  BY <1>2, <1>3, <1>4, <1>5, Zenon DEF SetFacts

(* libevent returns from a callback into the registration it was called    *)
(* for, whatever the task removed: exactly one is being called back while  *)
(* a task runs.                                                            *)
THEOREM ItemAlwaysOutlivesCall == LvSpec => []LvItemOutlivesCall
<1>1. ASSUME LvInv PROVE LvItemOutlivesCall
  <2>1. CASE lv_polling = NullTask
    <3>1. {e \in lv_events : e.running} = {}
      BY <1>1, <2>1 DEF LvInv, ItemOK
    <3> QED
      BY <2>1, <3>1, FS_EmptySet DEF LvItemOutlivesCall
  <2>2. CASE lv_polling # NullTask
    <3>1. PICK e \in lv_events : e.running
      BY <1>1, <2>2 DEF LvInv
    <3>2. {d \in lv_events : d.running} = {e}
      BY <1>1, <3>1 DEF LvInv, Unique
    <3> QED
      BY <2>2, <3>2, FS_Singleton, Zenon DEF LvItemOutlivesCall
  <2> QED
    BY <2>1, <2>2, Zenon
<1> QED
  BY LvInvariant, <1>1, PTL

(* CrInv is an inductive invariant of the connectors: what a client object *)
(* holds of a connection, its stream parser and its GPSD session agree.    *)
THEOREM CrInvariant == CrSpec => []CrInv
<1>1. CrInit => CrInv
  BY CrInitial, Zenon
<1>2. CrInv /\ [CrNext]_crVars => CrInv'
  BY SetFactsHold, CrStep, Zenon
<1> QED
  BY <1>1, <1>2, PTL DEF CrSpec

(* No frame is put together from the bytes of two connections, and a GPSD  *)
(* session exists exactly while its connection is up, on which its WATCH   *)
(* command was sent: on_connect resets the streams before anything is      *)
(* read, and every way a connection ends goes through                      *)
(* on_connector_tcp_disconnected.                                          *)
THEOREM NothingOutlivesConnection == CrSpec => [](CrOwnBytes /\ CrSubscribed)
<1>1. CrInv => CrOwnBytes /\ CrSubscribed
  <2> SUFFICES ASSUME CrInv
               PROVE  CrOwnBytes /\ CrSubscribed
    BY Zenon
  <2>1. \A k \in Connectors : IsUp(cr[k]) <=> Up(k)
    BY Zenon DEF IsUp, Up
  <2>2. \A k \in GpsdConnectors : k \in Connectors /\ Gpsd(k)
    BY DEF Connectors, Gpsd
  <2> QED
    BY <2>1, <2>2, Zenon DEF CrInv, CrOK, StreamOK, CrOwnBytes, CrSubscribed
<1> QED
  BY <1>1, CrInvariant, PTL

(* With one event slot more than there are connectors no connector is left *)
(* behind: a started one is connected, connecting or has its reconnect     *)
(* timer pending, however its connection failed or ended.  The slot more   *)
(* is that of the timer whose callback is running.                         *)
THEOREM NoConnectorLeftBehind ==
    ASSUME SlotsSuffice
    PROVE  CrSpec => []CrRetried
<1>1. CrInit => CrInv /\ CrTimed
  BY CrInitial, Zenon
<1>2. (CrInv /\ CrTimed) /\ [CrNext]_crVars => (CrInv /\ CrTimed)'
  BY SetFactsHold, CrStep, Zenon
<1>3. CrTimed => CrRetried
  BY Zenon DEF CrTimed, CrRetried, Retried, IsUp, Up
<1> QED
  BY <1>1, <1>2, <1>3, PTL DEF CrSpec

=============================================================================
