----------------------------- MODULE AudioBucket -----------------------------
(***************************************************************************)
(* What a bucket promises its clients (input/queue/bucket.rs): every call  *)
(* takes effect at one instant between the request and the answer, put is  *)
(* atomic and fails on a collision, get and delete take a missing key as   *)
(* such, and a call that fails changes nothing.                            *)
(***************************************************************************)
CONSTANTS Key, Body, Client, Nothing

VARIABLES
  object,  \* the bytes under each key, or Nothing
  asked,   \* the call each client waits for, or Nothing
  answer   \* what its last call returned

Bvars == <<object, asked, answer>>

Call == [op : {"put"}, key : Key, body : Body] \union
        [op : {"get", "delete", "head"}, key : Key, body : {Nothing}]

BucketInit ==
  /\ object = [k \in Key |-> Nothing]
  /\ asked = [c \in Client |-> Nothing]
  /\ answer = [c \in Client |-> Nothing]

Ask(c, call) ==
  /\ asked[c] = Nothing
  /\ asked' = [asked EXCEPT ![c] = call]
  /\ answer' = [answer EXCEPT ![c] = Nothing]
  /\ UNCHANGED object

Answer(c, a) ==
  /\ asked' = [asked EXCEPT ![c] = Nothing]
  /\ answer' = [answer EXCEPT ![c] = a]

Put(c) ==
  /\ asked[c] # Nothing /\ asked[c].op = "put" /\ object[asked[c].key] = Nothing
  /\ object' = [object EXCEPT ![asked[c].key] = asked[c].body]
  /\ Answer(c, "ok")

PutCollides(c) ==
  /\ asked[c] # Nothing /\ asked[c].op = "put" /\ object[asked[c].key] # Nothing
  /\ Answer(c, "already_exists")
  /\ UNCHANGED object

Delete(c) ==
  /\ asked[c] # Nothing /\ asked[c].op = "delete"
  /\ object' = [object EXCEPT ![asked[c].key] = Nothing]
  /\ Answer(c, "ok")

\* Nothing for a missing key; the metadata name the body they describe.
Read(c) ==
  /\ asked[c] # Nothing /\ asked[c].op \in {"get", "head"}
  /\ Answer(c, object[asked[c].key])
  /\ UNCHANGED object

Fail(c) ==
  /\ asked[c] # Nothing
  /\ Answer(c, "error")
  /\ UNCHANGED object

Die(c) ==
  /\ asked[c] # Nothing
  /\ asked' = [asked EXCEPT ![c] = Nothing]
  /\ UNCHANGED <<object, answer>>

BucketNext ==
  \E c \in Client :
    \/ \E call \in Call : Ask(c, call)
    \/ Put(c) \/ PutCollides(c) \/ Delete(c) \/ Read(c) \/ Fail(c) \/ Die(c)

BucketSpec == BucketInit /\ [][BucketNext]_Bvars
=============================================================================
