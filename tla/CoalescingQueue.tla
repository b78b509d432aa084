-------------------------- MODULE CoalescingQueue --------------------------
(***************************************************************************)
(* What the queue of pending model changes promises, without its ring      *)
(* buffer: a bounded sequence of changes with distinct keys (field,        *)
(* source).  A push of a key that is already pending replaces that change  *)
(* where it stands; any other push goes to the end and, when the queue is  *)
(* full, the oldest change gives way.  A pop hands out the oldest change.  *)
(***************************************************************************)
EXTENDS Naturals, Sequences

CONSTANTS
    Change,      \* the changes that may be pushed: records with field, source_id, sequence
    Capacity,    \* the number of changes the queue holds
    NoChange     \* what the consumer holds before its first pop

VARIABLES
    pending,     \* the pending changes, oldest first
    change       \* the change the consumer popped last

vars == <<pending, change>>

SameKey(c, d) == c.field = d.field /\ c.source_id = d.source_id

Init ==
    /\ pending = << >>
    /\ change = NoChange

(* A change with the key of a pending one takes its place.                 *)
Replace(c) ==
    /\ \E i \in 1 .. Len(pending) :
          /\ SameKey(pending[i], c)
          /\ pending' = [pending EXCEPT ![i] = c]
    /\ UNCHANGED change

(* A change with a new key joins at the end of a queue that has room.      *)
Join(c) ==
    /\ \A i \in 1 .. Len(pending) : ~SameKey(pending[i], c)
    /\ Len(pending) < Capacity
    /\ pending' = Append(pending, c)
    /\ UNCHANGED change

(* In a full queue it displaces the oldest change.                         *)
Displace(c) ==
    /\ \A i \in 1 .. Len(pending) : ~SameKey(pending[i], c)
    /\ Len(pending) = Capacity
    /\ pending' = Append(Tail(pending), c)
    /\ UNCHANGED change

Take ==
    /\ pending # << >>
    /\ change' = Head(pending)
    /\ pending' = Tail(pending)

Next ==
    \/ \E c \in Change : Replace(c) \/ Join(c) \/ Displace(c)
    \/ Take

Spec == Init /\ [][Next]_vars

============================================================================
