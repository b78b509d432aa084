---------------------------- MODULE ArduinoLoop ----------------------------
(***************************************************************************)
(* ArduinoLoopImpl of async_event_loop_arduino/arduino_loop.hpp, the       *)
(* cooperative scheduler: an array of tasks that run_once() walks through  *)
(* from the first to the last, running those that are due.  A task that    *)
(* runs may add and remove tasks.                                          *)
(***************************************************************************)
EXTENDS Integers, Sequences

CONSTANTS
    Tasks,              \* IRuntimeTask objects
    NoTask,             \* nullptr
    Periods,            \* the periods asked for
    Delays,             \* the delays of one-shot tasks
    MaxTasks,           \* the template parameter
    AddsInCallbacks,    \* some callback adds tasks: a connector schedules its reconnection
    MaxNow              \* bound of the model on the clock

ASSUME LoopAssumption ==
    /\ NoTask \notin Tasks
    /\ Periods \subseteq Nat \ {0} /\ Delays \subseteq Nat
    /\ MaxTasks \in Nat \ {0} /\ AddsInCallbacks \in BOOLEAN /\ MaxNow \in Nat

VARIABLES
    tasks,       \* tasks_ up to task_count_
    now,         \* clock_.micros()
    index,       \* the loop variable of run_once(), 0 while it is not running
    pass_time,   \* now_us of run_once()
    polling      \* the task whose poll() is in progress

vars == <<tasks, now, index, pass_time, polling>>

(* TaskSlot{}, and a slot whose task was removed or is over.               *)
Vacant == [task |-> NoTask, periodic |-> FALSE, period |-> 0, next_due |-> 0]

Init ==
    /\ tasks = << >>
    /\ now = 0
    /\ index = 0
    /\ pass_time = 0
    /\ polling = NoTask

(* The program runs: between two passes, or inside a callback.             *)
InProgram == index = 0 \/ polling # NoTask

compact_inactive(s) == SelectSeq(s, LAMBDA slot : slot.task # NoTask)

Registered(t) == \E k \in DOMAIN tasks : tasks[k].task = t

(* add() that does not look at the capacity, for a mutation run.           *)
add_unbounded(slot) ==
    /\ InProgram
    /\ polling # NoTask => AddsInCallbacks
    /\ ~Registered(slot.task) /\ slot.task # polling
    /\ tasks' = Append(compact_inactive(tasks), slot)
    /\ UNCHANGED <<now, index, pass_time, polling>>

(* add_periodic and add_one_shot.  A task is added once at a time, and not *)
(* from its own callback: CallbackTask::set refuses while it is invoked,   *)
(* and the WiFi server and client are added when they are constructed.     *)
add(slot) ==
    LET active == compact_inactive(tasks)
    IN  /\ InProgram
        /\ polling # NoTask => AddsInCallbacks
        /\ ~Registered(slot.task) /\ slot.task # polling
        /\ tasks' = IF Len(active) < MaxTasks THEN Append(active, slot) ELSE active
        /\ UNCHANGED <<now, index, pass_time, polling>>

add_periodic(t, period) ==
    add([task |-> t, periodic |-> TRUE, period |-> period, next_due |-> now])

add_one_shot(t, due) ==
    add([task |-> t, periodic |-> FALSE, period |-> 0, next_due |-> due])

(* remove() that compacts the array under the loop, for a mutation run.    *)
remove_compacts(t) ==
    /\ InProgram
    /\ Registered(t)
    /\ tasks' = SelectSeq(tasks, LAMBDA slot : slot.task \notin {t, NoTask})
    /\ UNCHANGED <<now, index, pass_time, polling>>

remove(t) ==
    LET without == [k \in DOMAIN tasks |-> IF tasks[k].task = t THEN Vacant ELSE tasks[k]]
    IN  /\ InProgram
        /\ Registered(t)
        /\ tasks' = IF index = 0 THEN compact_inactive(without) ELSE without
        /\ UNCHANGED <<now, index, pass_time, polling>>

-----------------------------------------------------------------------------
(* run_once()                                                              *)

BeginPass ==
    /\ index = 0
    /\ tasks' = compact_inactive(tasks)
    /\ index' = 1
    /\ pass_time' = now
    /\ UNCHANGED <<now, polling>>

Due == tasks[index].task # NoTask /\ pass_time >= tasks[index].next_due

(* `break` for `continue`: the tasks behind one that is not due wait, for  *)
(* a mutation run.                                                         *)
Skip_breaks ==
    /\ index \in DOMAIN tasks /\ polling = NoTask
    /\ ~Due
    /\ index' = Len(tasks) + 1
    /\ UNCHANGED <<tasks, now, pass_time, polling>>

Skip ==
    /\ index \in DOMAIN tasks /\ polling = NoTask
    /\ ~Due
    /\ index' = index + 1
    /\ UNCHANGED <<tasks, now, pass_time, polling>>

Poll ==
    /\ index \in DOMAIN tasks /\ polling = NoTask
    /\ Due
    /\ polling' = tasks[index].task
    /\ UNCHANGED <<tasks, now, index, pass_time>>

(* One period later, and further ones until it is after this pass.         *)
NextDue(slot) ==
    LET missed == IF pass_time < slot.next_due THEN 0
                  ELSE (pass_time - slot.next_due) \div slot.period
    IN  slot.next_due + slot.period * (missed + 1)

(* What becomes of the slot after its task returned.                       *)
Finished(slot) ==
    IF slot.task = NoTask THEN slot
    ELSE IF slot.periodic THEN [slot EXCEPT !.next_due = NextDue(slot)]
    ELSE Vacant

(* After a callback the loop goes by its index: if the callback made the   *)
(* array shorter, tasks_[index] is another slot or a vacant one.           *)
EndPoll ==
    /\ polling # NoTask
    /\ tasks' = [k \in DOMAIN tasks |-> IF k = index THEN Finished(tasks[k]) ELSE tasks[k]]
    /\ polling' = NoTask
    /\ index' = index + 1
    /\ UNCHANGED <<now, pass_time>>

EndPass ==
    /\ index > Len(tasks) /\ polling = NoTask
    /\ tasks' = compact_inactive(tasks)
    /\ index' = 0
    /\ UNCHANGED <<now, pass_time, polling>>

Tick ==
    /\ now < MaxNow
    /\ now' = now + 1
    /\ UNCHANGED <<tasks, index, pass_time, polling>>

RunOnce == BeginPass \/ Skip \/ Poll \/ EndPoll \/ EndPass

Next ==
    \/ \E t \in Tasks, period \in Periods : add_periodic(t, period)
    \/ \E t \in Tasks, delay \in Delays : add_one_shot(t, now + delay)
    \/ \E t \in Tasks : remove(t)
    \/ RunOnce
    \/ Tick

Spec == Init /\ [][Next]_vars

(* loop() calls run_once() again and again, and callbacks return.          *)
FairSpec == Spec /\ WF_vars(RunOnce)

-----------------------------------------------------------------------------

(* Every variable has its type, and the array stays within its capacity.   *)
LoopTypeOK ==
    /\ Len(tasks) <= MaxTasks
    /\ \A k \in DOMAIN tasks : tasks[k].task \in Tasks \cup {NoTask} /\ tasks[k].next_due \in Nat
    /\ now \in 0 .. MaxNow /\ pass_time \in 0 .. now
    /\ index \in 0 .. MaxTasks + 1
    /\ polling \in Tasks \cup {NoTask}

(* The registration of a task, as IScheduler presents it.                  *)
Entry(t) ==
    IF ~Registered(t) THEN [kind |-> "none", due |-> 0, period |-> 0]
    ELSE LET slot == tasks[CHOOSE k \in DOMAIN tasks : tasks[k].task = t]
         IN  [kind |-> IF slot.periodic THEN "periodic" ELSE "one_shot",
              due |-> slot.next_due, period |-> slot.period]

Abstract == INSTANCE Scheduler WITH
    entry <- [t \in Tasks |-> Entry(t)],
    kept <- polling # NoTask /\ index \in DOMAIN tasks /\ tasks[index].task = polling

(* The array with its loop variable implements IScheduler: tasks removed   *)
(* by another task in the same pass do not run, one-shots run once and     *)
(* periodic ones keep their phase.                                         *)
ImplementsScheduler == Abstract!Spec

(* "Schedule a task to run once at absolute due_us": a one-shot leaves the *)
(* schedule only by being removed or when its own run ends, never with the *)
(* run of another task.                                                    *)
OneShotRuns ==
    [][polling # NoTask /\ polling' = NoTask =>
          \A t \in Tasks \ {polling} : Entry(t).kind = "one_shot" => Entry(t)' = Entry(t)]_vars

(* A task that is due is run or removed, whatever the other tasks do.      *)
DueRuns ==
    \A t \in Tasks : Registered(t) /\ Entry(t).due <= now ~> polling = t \/ ~Registered(t)

=============================================================================
