----------------------------- MODULE Scheduler -----------------------------
(***************************************************************************)
(* What IScheduler of async_event_loop/scheduler.hpp promises the event    *)
(* loop, whichever backend implements it: a task runs repeatedly, or once  *)
(* at its due time, or whenever its descriptor is ready, until it is       *)
(* removed, and never while another one runs.  A task may add and remove   *)
(* tasks, itself included, while it runs.                                  *)
(***************************************************************************)
EXTENDS Naturals

CONSTANTS
    Tasks,       \* IRuntimeTask objects
    NoTask,
    Periods,     \* the periods asked for
    Delays       \* the delays of one-shot tasks

VARIABLES
    now,         \* IClock::micros()
    entry,       \* how each task is registered, and when it is due
    polling,     \* the task that is running
    kept         \* the registration it was started for still stands

vars == <<now, entry, polling, kept>>

Unregistered == [kind |-> "none", due |-> 0, period |-> 0]

Init ==
    /\ now = 0
    /\ entry = [t \in Tasks |-> Unregistered]
    /\ polling = NoTask
    /\ kept = FALSE

(* A task is registered by whoever owns it, once at a time.                *)
Add(t, e) ==
    /\ entry[t] = Unregistered
    /\ entry' = [entry EXCEPT ![t] = e]
    /\ UNCHANGED <<now, polling, kept>>

AddPeriodic(t, first, period) == Add(t, [kind |-> "periodic", due |-> first, period |-> period])
AddOneShot(t, due) == Add(t, [kind |-> "one_shot", due |-> due, period |-> 0])
AddReadable(t) == Add(t, [kind |-> "readable", due |-> 0, period |-> 0])

Remove(t) ==
    /\ entry[t] # Unregistered
    /\ entry' = [entry EXCEPT ![t] = Unregistered]
    /\ kept' = (kept /\ t # polling)
    /\ UNCHANGED <<now, polling>>

(* A task starts no earlier than it is due.                                *)
BeginPoll(t) ==
    /\ polling = NoTask
    /\ entry[t] # Unregistered /\ entry[t].due <= now
    /\ polling' = t
    /\ kept' = TRUE
    /\ UNCHANGED <<now, entry>>

(* When it returns, a one-shot is over and a periodic task is due again    *)
(* after a whole number of periods.                                        *)
EndPoll ==
    /\ polling # NoTask
    /\ polling' = NoTask
    /\ kept' = FALSE
    /\ \/ ~kept /\ UNCHANGED entry
       \/ kept /\ entry[polling].kind = "readable" /\ UNCHANGED entry
       \/ /\ kept /\ entry[polling].kind = "one_shot"
          /\ entry' = [entry EXCEPT ![polling] = Unregistered]
       \/ /\ kept /\ entry[polling].kind = "periodic"
          /\ \E k \in 1 .. now - entry[polling].due + 1 :
                entry' = [entry EXCEPT ![polling].due = @ + k * entry[polling].period]
    /\ UNCHANGED now

Tick ==
    /\ now' = now + 1
    /\ UNCHANGED <<entry, polling, kept>>

Next ==
    \/ \E t \in Tasks :
          \/ \E period \in Periods : AddPeriodic(t, now, period) \/ AddPeriodic(t, now + period, period)
          \/ \E delay \in Delays : AddOneShot(t, now + delay)
          \/ AddReadable(t)
          \/ Remove(t)
          \/ BeginPoll(t)
    \/ EndPoll
    \/ Tick

Spec == Init /\ [][Next]_vars

============================================================================
