---------------------------- MODULE LibeventLoop ----------------------------
(***************************************************************************)
(* LinuxLibeventLoop of async_event_loop_linux/libevent_loop.hpp, the      *)
(* scheduler of the daemon.  Every registration owns a libevent event; a   *)
(* task may add and remove registrations, its own included, while libevent *)
(* is inside the callback of one of them, so removal only marks a          *)
(* registration there and it is freed once no callback runs.               *)
(***************************************************************************)
EXTENDS Integers, FiniteSets

CONSTANTS
    LvTasks,        \* IRuntimeTask objects
    NullTask,       \* nullptr
    LvPeriods,      \* the periods asked for
    LvDelays,       \* the delays of one-shot tasks
    LvMaxNow        \* bound of the model on the clock

ASSUME LibeventAssumption ==
    /\ NullTask \notin LvTasks
    /\ LvPeriods \subseteq Nat /\ LvDelays \subseteq Nat /\ LvMaxNow \in Nat

VARIABLES
    lv_events,      \* periodic_events_, one_shot_events_ and fd_events_
    lv_now,         \* clock_.micros()
    lv_polling      \* the task whose poll() is in progress: callback_depth_ > 0

lvVars == <<lv_events, lv_now, lv_polling>>

(* TimerEvent and FdEvent: when libevent is to call back, whether it has   *)
(* taken the event for this pass, and whether it is inside its callback.   *)
Item(t, kind, period, due, deadline) ==
    [task |-> t, kind |-> kind, period |-> period, next_due |-> due, deadline |-> deadline,
     removed |-> FALSE, active |-> FALSE, running |-> FALSE]

LvInit == lv_events = {} /\ lv_now = 0 /\ lv_polling = NullTask

(* As if a removed registration were freed inside a callback too.          *)
compact_removed_events_Now(events, depth) == {e \in events : ~e.removed}

compact_removed_events(events, depth) ==
    IF depth # 0 THEN events ELSE {e \in events : ~e.removed}

callback_depth == IF lv_polling = NullTask THEN 0 ELSE 1

LvRegistered(t) == \E e \in lv_events : e.task = t

(* An owner registers its task once at a time: a CallbackTask slot is in   *)
(* use until it is removed, and LinuxTcpClient unregisters before it       *)
(* registers again, which it also does inside its own callback when a      *)
(* connect completes.                                                      *)
LvAdd(item) ==
    /\ ~LvRegistered(item.task)
    /\ lv_events' = compact_removed_events(lv_events, callback_depth) \cup {item}
    /\ UNCHANGED <<lv_now, lv_polling>>

lv_add_periodic(t, period) ==
    LvAdd(Item(t, "periodic", period, lv_now + period, lv_now + period))

lv_add_one_shot(t, due) ==
    LvAdd(Item(t, "one_shot", 0, due, IF due > lv_now THEN due ELSE lv_now))

add_fd(t) == LvAdd(Item(t, "readable", 0, 0, 0))

(* The timing of a removed registration is not read again.                 *)
mark_removed(e) ==
    [e EXCEPT !.removed = TRUE, !.task = NullTask, !.period = 0, !.next_due = 0, !.deadline = 0]

lv_remove(t) ==
    /\ LvRegistered(t)
    /\ lv_events' = compact_removed_events(
          {IF e.task = t THEN mark_removed(e) ELSE e : e \in lv_events}, callback_depth)
    /\ UNCHANGED <<lv_now, lv_polling>>

-----------------------------------------------------------------------------
(* event_base_loop: libevent takes the descriptors that are ready and the  *)
(* timers that are due, and calls them back one after the other.  An event *)
(* that is freed meanwhile is not called.                                  *)

GatherActive ==
    /\ lv_polling = NullTask /\ \A e \in lv_events : ~e.active
    /\ \E ready \in SUBSET {e \in lv_events : e.kind = "readable"} :
          lv_events' = {[e EXCEPT !.active = IF e.kind = "readable" THEN e \in ready
                                             ELSE e.deadline <= lv_now] : e \in lv_events}
    /\ UNCHANGED <<lv_now, lv_polling>>

(* timer_callback and fd_callback up to poll().  A removed registration is *)
(* never met here: it was freed when the callback that removed it ended.   *)
EnterCallback ==
    /\ lv_polling = NullTask
    /\ \E e \in lv_events :
          /\ e.active /\ ~e.removed
          /\ lv_events' = (lv_events \ {e}) \cup {[e EXCEPT !.active = FALSE, !.running = TRUE]}
          /\ lv_polling' = e.task
    /\ UNCHANGED lv_now

(* As if a late task were not armed again.                                 *)
Rearmed_Once(e) ==
    LET overdue == IF lv_now > e.next_due THEN lv_now - e.next_due ELSE 0
    IN  [e EXCEPT !.next_due = @ + e.period,
                  !.deadline = IF overdue = 0 THEN lv_now + e.period ELSE LvMaxNow + 1]

(* As if the period were counted from the end of the callback.             *)
Rearmed_Drifts(e) == [e EXCEPT !.next_due = lv_now + e.period, !.deadline = lv_now + e.period]

(* periodic_timer_next_delay_us and evtimer_add: one period later, at once *)
(* if that is over already.                                                *)
Rearmed(e) ==
    LET overdue == IF lv_now > e.next_due THEN lv_now - e.next_due ELSE 0
    IN  [e EXCEPT !.next_due = @ + e.period,
                  !.deadline = lv_now + IF e.period > overdue THEN e.period - overdue ELSE 0]

(* The rest of timer_callback and fd_callback.                             *)
LeaveCallback ==
    /\ lv_polling # NullTask
    /\ \E e \in lv_events :
          /\ e.running
          /\ LET back == [e EXCEPT !.running = FALSE]
                 after == IF ~e.removed /\ e.kind = "periodic" THEN Rearmed(back)
                          ELSE IF e.kind = "one_shot" THEN mark_removed(back)
                          ELSE back
             IN  lv_events' = compact_removed_events((lv_events \ {e}) \cup {after}, 0)
    /\ lv_polling' = NullTask
    /\ UNCHANGED lv_now

LvTick ==
    /\ lv_now < LvMaxNow
    /\ lv_now' = lv_now + 1
    /\ UNCHANGED <<lv_events, lv_polling>>

LvRun == GatherActive \/ EnterCallback \/ LeaveCallback

LvNext ==
    \/ \E t \in LvTasks, period \in LvPeriods : lv_add_periodic(t, period)
    \/ \E t \in LvTasks, delay \in LvDelays : lv_add_one_shot(t, lv_now + delay)
    \/ \E t \in LvTasks : add_fd(t) \/ lv_remove(t)
    \/ LvRun
    \/ LvTick

LvSpec == LvInit /\ [][LvNext]_lvVars

(* run_forever(): libevent keeps calling back, and callbacks return.       *)
LvFairness == WF_lvVars(LvRun)

-----------------------------------------------------------------------------

(* libevent returns from a callback into the registration it was called    *)
(* for: it is still there, whatever the task removed, and no other one is  *)
(* being called.                                                           *)
LvItemOutlivesCall ==
    Cardinality({e \in lv_events : e.running}) = IF lv_polling = NullTask THEN 0 ELSE 1

LvEntry(t) ==
    IF ~LvRegistered(t) THEN [kind |-> "none", due |-> 0, period |-> 0]
    ELSE LET e == CHOOSE x \in lv_events : x.task = t
         IN  [kind |-> e.kind, due |-> e.next_due, period |-> e.period]

LvAbstract == INSTANCE Scheduler WITH
    Tasks <- LvTasks, NoTask <- NullTask, Periods <- LvPeriods, Delays <- LvDelays,
    now <- lv_now,
    entry <- [t \in LvTasks |-> LvEntry(t)],
    polling <- lv_polling,
    kept <- \E e \in lv_events : e.running /\ ~e.removed

(* The libevent backend implements IScheduler as the cooperative one does: *)
(* no task runs before its time or after its removal, none runs inside     *)
(* another, and a periodic task that was late keeps its phase.             *)
LvImplementsScheduler == LvAbstract!Spec

(* A timer that is due is run or removed, however often descriptors are    *)
(* ready and however late the other tasks make it.                         *)
LvDueRuns ==
    \A t \in LvTasks : LvEntry(t).kind \in {"periodic", "one_shot"} /\ LvEntry(t).due <= lv_now
                        ~> lv_polling = t \/ ~LvRegistered(t)

=============================================================================
