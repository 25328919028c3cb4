---------------------------- MODULE QueueContract ----------------------------
(***************************************************************************)
(* What the Queue trait promises its consumers (the semantics listed at    *)
(* the top of input/queue/transport.rs), for any backend: no order of      *)
(* delivery, no tables, no clock.  A message is a member of Msg; a message *)
(* put back from the dead-letter queue is a new one.                       *)
(***************************************************************************)
EXTENDS Integers

CONSTANTS Msg, MaxReceive

VARIABLES state, deliveries

vars == <<state, deliveries>>

Init ==
  /\ state = [m \in Msg |-> "unsent"]
  /\ deliveries = [m \in Msg |-> 0]

Move(m, s) ==
  /\ state' = [state EXCEPT ![m] = s]
  /\ UNCHANGED deliveries

\* enqueue is atomic; the message is visible to a later pop.
Send(m) == state[m] = "unsent" /\ Move(m, "visible")

\* Messages that have used up their deliveries are moved to the dead-letter
\* queue, before a pop returns.
Spent == {m \in Msg : state[m] = "visible" /\ deliveries[m] >= MaxReceive}

Buried(D) == [m \in Msg |-> IF m \in D THEN "dead" ELSE state[m]]

\* pop hides the message it returns.
Deliver(m) ==
  /\ state[m] = "visible"
  /\ deliveries[m] < MaxReceive
  /\ \E D \in SUBSET Spent : state' = [Buried(D) EXCEPT ![m] = "invisible"]
  /\ deliveries' = [deliveries EXCEPT ![m] = @ + 1]

\* A pop that returns nothing.
Bury ==
  /\ \E D \in SUBSET Spent : state' = Buried(D)
  /\ UNCHANGED deliveries

\* Without ack in that window the message becomes visible again.
Reappear(m) == state[m] = "invisible" /\ Move(m, "visible")

\* A message can be settled once it has been delivered, by any consumer that
\* received it: ack removes it permanently, nack_with_delay hides it.
Settleable(m) == state[m] \in {"visible", "invisible"} /\ deliveries[m] > 0

Remove(m) == Settleable(m) /\ Move(m, "removed")

Postpone(m) == Settleable(m) /\ Move(m, "invisible")

\* The administrator puts a dead message back.
Revive(m, n) ==
  /\ state[m] = "dead"
  /\ state[n] = "unsent"
  /\ state' = [state EXCEPT ![m] = "removed", ![n] = "visible"]
  /\ UNCHANGED deliveries

Next ==
  \/ \E m \in Msg :
       \/ Send(m) \/ Deliver(m) \/ Reappear(m) \/ Remove(m) \/ Postpone(m)
       \/ \E n \in Msg : Revive(m, n)
  \/ Bury

Spec == Init /\ [][Next]_vars
=============================================================================
