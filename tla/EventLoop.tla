----------------------------- MODULE EventLoop -----------------------------
(***************************************************************************)
(* EventLoop of async_event_loop/event_loop.hpp: callback slots with       *)
(* generations over CallbackTask (scheduler.hpp), scheduled by whatever    *)
(* implements IScheduler (module Scheduler, whose tasks are the slots).    *)
(* Everything the program calls, it calls between two callbacks or from    *)
(* inside one.                                                             *)
(*                                                                         *)
(* Registrations are numbered so that the properties can tell them apart:  *)
(* `id` stands for the callable that was given.                            *)
(***************************************************************************)
EXTENDS Integers

CONSTANTS
    MaxCallbacks,       \* the template parameter
    Generations,        \* values of the generation counter, 2^16
    NoTask,
    Periods,
    Delays,
    DisablesOneShots,   \* the program disables callbacks registered with on_delay
    MaxRegistrations,   \* bound of the model on registrations
    MaxNow              \* bound of the model on the clock

CallbackSlots == 1 .. MaxCallbacks

ASSUME EventLoopAssumption ==
    /\ MaxCallbacks \in Nat \ {0} /\ NoTask \notin CallbackSlots
    /\ MaxRegistrations \in Nat /\ Generations \in Nat /\ MaxRegistrations < Generations
    /\ Periods \subseteq Nat \ {0} /\ Delays \subseteq Nat
    /\ DisablesOneShots \in BOOLEAN /\ MaxNow \in Nat

VARIABLES
    used,            \* callback_used_
    generation,      \* callback_generations_
    task,            \* callback_tasks_
    handles,         \* the handles the program was given
    registrations,   \* how many registrations were tried
    now, entry, polling, kept    \* the scheduler

slotVars == <<used, generation, task, handles, registrations>>
vars == <<slotVars, now, entry, polling, kept>>

Backend == INSTANCE Scheduler WITH Tasks <- CallbackSlots

NoCallable == [id |-> 0, one_shot |-> FALSE, generation |-> 0]

(* CallbackTask{}                                                          *)
EmptyTask == [callable |-> NoCallable, active |-> FALSE, enabled |-> FALSE,
              invoking |-> FALSE, clear_requested |-> FALSE]

Init ==
    /\ used = [s \in CallbackSlots |-> FALSE]
    /\ generation = [s \in CallbackSlots |-> 0]
    /\ task = [s \in CallbackSlots |-> EmptyTask]
    /\ handles = {}
    /\ registrations = 0
    /\ Backend!Init

-----------------------------------------------------------------------------
(* CallbackTask                                                            *)

destroy_now(t) == [EmptyTask EXCEPT !.invoking = t.invoking]

(* clear() that does not wait for the callable to return, for a mutation   *)
(* run.                                                                    *)
clear_at_once(t) == destroy_now(t)

(* clear() that leaves the callback enabled, for a mutation run.           *)
clear_enabled(t) ==
    IF t.invoking THEN [t EXCEPT !.active = FALSE, !.clear_requested = TRUE] ELSE destroy_now(t)

clear(t) ==
    IF t.invoking THEN [t EXCEPT !.active = FALSE, !.enabled = FALSE, !.clear_requested = TRUE]
    ELSE destroy_now(t)

(* set() while it is not invoked.                                          *)
set(t, callable) == [clear(t) EXCEPT !.callable = callable, !.active = TRUE, !.enabled = TRUE]

(* The rest of poll() after the callable has returned.                     *)
Returned(t) ==
    IF t.clear_requested THEN destroy_now([t EXCEPT !.invoking = FALSE])
    ELSE [t EXCEPT !.invoking = FALSE]

-----------------------------------------------------------------------------
(* EventLoop                                                               *)

(* No callback is running, or the callable of one is.                      *)
InProgram == polling # NoTask => task[polling].invoking

valid(h) == used[h.slot] /\ task[h.slot].active /\ generation[h.slot] = h.generation

NextGeneration(s) == [generation EXCEPT ![s] = (@ + 1) % Generations]

(* release_registered that keeps the generation, for a mutation run.       *)
Release_same_generation(s, t) ==
    /\ used' = [used EXCEPT ![s] = FALSE]
    /\ task' = [task EXCEPT ![s] = t]
    /\ UNCHANGED generation

(* release_registered and release_unregistered; t is what becomes of the   *)
(* task.                                                                   *)
Release(s, t) ==
    /\ used' = [used EXCEPT ![s] = FALSE]
    /\ task' = [task EXCEPT ![s] = t]
    /\ generation' = NextGeneration(s)

(* The slot a registration takes: the first unused one.                    *)
FirstFree(s) == ~used[s] /\ \A r \in 1 .. s - 1 : used[r]

(* A registration with a slot: allocate_callback and the scheduler's       *)
(* add_..., which is `schedule`.                                           *)
Register(s, one_shot, schedule) ==
    LET id == registrations + 1
    IN  /\ InProgram
        /\ registrations < MaxRegistrations /\ registrations' = id
        /\ FirstFree(s) /\ ~task[s].invoking
        /\ schedule
        /\ used' = [used EXCEPT ![s] = TRUE]
        /\ task' = [task EXCEPT ![s] = set(@, [id |-> id, one_shot |-> one_shot, generation |-> generation[s]])]
        /\ handles' = handles \cup {[slot |-> s, generation |-> generation[s], id |-> id]}
        /\ UNCHANGED generation

on_repeat_us(s, period) ==
    Register(s, FALSE, Backend!AddPeriodic(s, now, period) \/ Backend!AddPeriodic(s, now + period, period))

on_delay_us(s, delay) == Register(s, TRUE, Backend!AddOneShot(s, now + delay))

(* on_bytes_ready and on_pin_event with a descriptor; without one they are *)
(* periodic.                                                               *)
on_ready(s) == Register(s, FALSE, Backend!AddReadable(s))

(* The scheduler refuses the task: release_unregistered.                   *)
RegisterRefused(s) ==
    /\ InProgram
    /\ registrations < MaxRegistrations /\ registrations' = registrations + 1
    /\ FirstFree(s) /\ ~task[s].invoking
    /\ Release(s, EmptyTask)
    /\ UNCHANGED <<handles, now, entry, polling, kept>>

(* The first unused slot is the one whose callable is running and removed  *)
(* itself: set() answers false, and so does the registration.  A set()     *)
(* that is refused has called clear().                                     *)
RegisterInOwnSlot(s) ==
    /\ InProgram
    /\ registrations < MaxRegistrations /\ registrations' = registrations + 1
    /\ FirstFree(s) /\ task[s].invoking
    /\ task' = [task EXCEPT ![s] = clear(@)]
    /\ UNCHANGED <<used, generation, handles, now, entry, polling, kept>>

(* remove() that leaves the task with the scheduler, for a mutation run.   *)
remove_scheduled(h) ==
    /\ InProgram
    /\ valid(h)
    /\ Release(h.slot, clear(task[h.slot]))
    /\ UNCHANGED <<handles, registrations, now, entry, polling, kept>>

(* Without effect, and false, if the handle is not valid or the scheduler  *)
(* does not have the task.                                                 *)
remove(h) ==
    /\ InProgram
    /\ valid(h)
    /\ Backend!Remove(h.slot)
    /\ Release(h.slot, clear(task[h.slot]))
    /\ UNCHANGED <<handles, registrations>>

(* enable and disable                                                      *)
set_enabled(h, enabled) ==
    /\ InProgram
    /\ valid(h)
    /\ task[h.slot].callable.one_shot => DisablesOneShots
    /\ task' = [task EXCEPT ![h.slot].enabled = enabled]
    /\ UNCHANGED <<used, generation, handles, registrations, now, entry, polling, kept>>

-----------------------------------------------------------------------------
(* The scheduler polls a slot: CallbackTask::poll                          *)

BeginPoll(s) ==
    /\ Backend!BeginPoll(s)
    /\ task' = [task EXCEPT ![s].invoking = task[s].active /\ task[s].enabled]
    /\ UNCHANGED <<used, generation, handles, registrations>>

(* OneShotCallback's complete_one_shot left out, for a mutation run.       *)
EndPoll_unreleased ==
    /\ Backend!EndPoll
    /\ task' = [task EXCEPT ![polling] = Returned(@)]
    /\ UNCHANGED <<used, generation, handles, registrations>>

(* The callable returns; a one-shot's own wrapper then releases the slot   *)
(* it was registered in, unless that was done during the call.             *)
EndPoll ==
    LET t == task[polling]
        completes == /\ t.invoking /\ t.callable.one_shot
                     /\ used[polling] /\ generation[polling] = t.callable.generation
    IN  /\ Backend!EndPoll
        /\ \/ completes /\ Release(polling, Returned(clear(t)))
           \/ ~completes /\ task' = [task EXCEPT ![polling] = Returned(t)]
              /\ UNCHANGED <<used, generation>>
        /\ UNCHANGED <<handles, registrations>>

Tick ==
    /\ now < MaxNow
    /\ Backend!Tick
    /\ UNCHANGED slotVars

Next ==
    \/ \E s \in CallbackSlots :
          \/ \E period \in Periods : on_repeat_us(s, period)
          \/ \E delay \in Delays : on_delay_us(s, delay)
          \/ on_ready(s)
          \/ RegisterRefused(s)
          \/ RegisterInOwnSlot(s)
          \/ BeginPoll(s)
    \/ \E h \in handles : remove(h) \/ \E enabled \in BOOLEAN : set_enabled(h, enabled)
    \/ EndPoll
    \/ Tick

Spec == Init /\ [][Next]_vars

-----------------------------------------------------------------------------

Callables == [id : 0 .. MaxRegistrations, one_shot : BOOLEAN, generation : 0 .. Generations - 1]

(* Every variable has its type, and an enabled callback is an active one.  *)
EventLoopTypeOK ==
    /\ used \in [CallbackSlots -> BOOLEAN]
    /\ generation \in [CallbackSlots -> 0 .. Generations - 1]
    /\ task \in [CallbackSlots -> [callable : Callables, active : BOOLEAN, enabled : BOOLEAN,
                           invoking : BOOLEAN, clear_requested : BOOLEAN]]
    /\ handles \subseteq [slot : CallbackSlots, generation : 0 .. Generations - 1, id : 1 .. MaxRegistrations]
    /\ registrations \in 0 .. MaxRegistrations
    /\ polling \in CallbackSlots \cup {NoTask}
    /\ \A s \in CallbackSlots : task[s].enabled => task[s].active

(* A valid handle controls the callback it was given for, however often    *)
(* its slot was released and taken again.                                  *)
HandleIsOwn == \A h \in handles : valid(h) => task[h.slot].callable.id = h.id

(* The scheduler only has the tasks of slots in use, each as its present   *)
(* callable was registered: nothing that was removed or is over runs.      *)
ScheduledAreUsed ==
    \A s \in CallbackSlots : entry[s] # Backend!Unregistered =>
        /\ used[s] /\ task[s].active
        /\ task[s].callable.one_shot <=> entry[s].kind = "one_shot"

(* The callable that is running is not destroyed under its own feet, even  *)
(* if it removes itself or another one does so.                            *)
CallableOutlivesCall ==
    \A s \in CallbackSlots :
        /\ task[s].invoking => polling = s /\ task[s].callable # NoCallable
        /\ task[s].clear_requested => task[s].invoking

(* Every slot in use is scheduled: none is lost, and remove() of a valid   *)
(* handle succeeds.                                                        *)
RemoveWorks == \A h \in handles : valid(h) => entry[h.slot] # Backend!Unregistered

(* The slot table, the handles that were given out and the scheduler are   *)
(* in step, whatever callbacks register, remove, disable or complete, in   *)
(* slots that are taken again: a handle controls its own callback or       *)
(* nothing, nothing removed is scheduled and no slot in use is lost.       *)
SlotsInStep == EventLoopTypeOK /\ HandleIsOwn /\ ScheduledAreUsed /\ RemoveWorks

============================================================================
