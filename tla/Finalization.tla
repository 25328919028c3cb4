---------------------------- MODULE Finalization ----------------------------
(***************************************************************************)
(* What the worker promises of every job, whatever the number of replicas: *)
(* the order record, notify, ack, delete.  A row may be settled only when  *)
(* the outcome of its dedup_key has been decided and told, and the audio   *)
(* of a job erased only when, besides, a row that carried the job is off   *)
(* the queue.  Whatever was decided, told or taken off the queue stays so. *)
(* Nothing is said of deliveries, retries or processes.                    *)
(***************************************************************************)
CONSTANTS Job, Key, KeyOf, AudioOf, Code, Row,
          NoJob,              \* a row that holds no job yet
          Undecided           \* a key without an outcome

VARIABLES content,            \* the job of each row
          settled,            \* rows whose job is over
          gone,               \* rows that are off the queue: settled or given up
          outcome,            \* per key
          told,               \* keys whose outcome has been told, or given up
          stored              \* audio in the bucket

vars == <<content, settled, gone, outcome, told, stored>>

Init ==
  /\ content = [r \in Row |-> NoJob]
  /\ settled = {}
  /\ gone = {}
  /\ outcome = [k \in Key |-> Undecided]
  /\ told = {}
  /\ stored = {}

\* A job arrives, again or for the first time, with or without its audio.
Submit(r, j) ==
  /\ content[r] = NoJob
  /\ content' = [content EXCEPT ![r] = j]
  /\ stored' \in {stored, stored \cup {AudioOf[j]}}
  /\ UNCHANGED <<settled, gone, outcome, told>>

Decide(k, c) ==
  /\ outcome' = [outcome EXCEPT ![k] = c]
  /\ UNCHANGED <<content, settled, gone, told, stored>>

Tell(k) ==
  /\ outcome[k] # Undecided
  /\ told' = told \cup {k}
  /\ UNCHANGED <<content, settled, gone, outcome, stored>>

Settle(r) ==
  /\ content[r] # NoJob
  /\ KeyOf[content[r]] \in told
  /\ settled' = settled \cup {r}
  /\ gone' = gone \cup {r}
  /\ UNCHANGED <<content, outcome, told, stored>>

\* The queue gives rows up: nobody has told anything, and nobody needs to.
GiveUp(R) ==
  /\ \A r \in R : content[r] # NoJob
  /\ gone' = gone \cup R
  /\ UNCHANGED <<content, settled, outcome, told, stored>>

\* An ack of a row that is off the queue already has no effect and is no error,
\* so the erasure may follow it as well.
Erase(j) ==
  /\ KeyOf[j] \in told
  /\ \E r \in gone : content[r] = j
  /\ stored' = stored \ {AudioOf[j]}
  /\ UNCHANGED <<content, settled, gone, outcome, told>>

Next ==
  \/ \E r \in Row : Settle(r) \/ \E j \in Job : Submit(r, j)
  \/ \E k \in Key : Tell(k) \/ \E c \in Code : Decide(k, c)
  \/ \E R \in SUBSET Row : GiveUp(R)
  \/ \E j \in Job : Erase(j)

Spec == Init /\ [][Next]_vars
=============================================================================
