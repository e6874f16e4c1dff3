------------------------------ MODULE Contiki ------------------------------
(***************************************************************************)
(* The pieces of the Contiki operating system that the gateway's           *)
(* components are written with: the event queue (core/sys/process.c),      *)
(* linked lists (core/lib/list.c) and memory pools (core/lib/memb.c).      *)
(***************************************************************************)
EXTENDS Integers, SequencesExt

CONSTANT NumEvents   \* PROCESS_CONF_NUMEVENTS, the event queue's length (32)

ASSUME NumEventsAssumption == NumEvents \in Nat

\* process_post: the event is lost when the queue is full.
Post(q, e) == IF Len(q) < NumEvents THEN Append(q, e) ELSE q
PostIf(cond, q, e) == IF cond THEN Post(q, e) ELSE q

\* list_remove of an element that is in the list.
list_remove(q, s) ==
  LET k == CHOOSE k \in 1..Len(q) : q[k] = s
  IN  [n \in 1..(Len(q) - 1) |-> IF n < k THEN q[n] ELSE q[n + 1]]

\* memb_alloc takes the free block s of the lowest address.
memb_alloc(s, blocks, used) ==
  s \in blocks \ used /\ \A t \in blocks \ used : s <= t
============================================================================
