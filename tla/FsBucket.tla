------------------------------- MODULE FsBucket -------------------------------
(***************************************************************************)
(* The bucket in a directory that the bot and the worker share             *)
(* (input/queue/backends/fs.rs), system call by system call: put looks for *)
(* the key, writes a temporary file and renames it; head reads the         *)
(* metadata and then the file.  Clients are processes that may be killed   *)
(* between two calls; a temporary file of a dead one stays, under a name   *)
(* nobody reads.                                                           *)
(*                                                                         *)
(* Assumed of the clients (fs.rs:89, "single bot, single worker"): puts    *)
(* and deletes of one key do not overlap, and a key, which is a ULID, is   *)
(* not used again after its object was deleted.  Without the first         *)
(* assumption the rename replaces the other client's object.               *)
(***************************************************************************)
CONSTANTS
  Key, Body, Client,
  Nothing,
  Partial,  \* a file that is not written to its end
  Mixed     \* the size of one object with the etag of another

ASSUME BucketAssumption ==
  /\ Nothing \notin Body \union {Partial}
  /\ Nothing \notin [op : {"put", "get", "delete", "head"}, key : Key, body : Body \union {Nothing}]

VARIABLES
  stored,   \* the file of each key
  tmp,      \* the temporary file of each client's put
  call,     \* what each client is doing, with the step it is at
  answer,   \* what its last call returned
  spent     \* the keys whose object was deleted

fvars == <<stored, tmp, call, answer, spent>>

Idle == [at |-> "idle"]
At(c, s) == call[c].at = s
Goto(c, s) == call' = [call EXCEPT ![c].at = s]
Return(c, a) ==
  /\ call' = [call EXCEPT ![c] = Idle]
  /\ answer' = [answer EXCEPT ![c] = a]

BInit ==
  /\ stored = [k \in Key |-> Nothing]
  /\ tmp = [c \in Client |-> Nothing]
  /\ call = [c \in Client |-> Idle]
  /\ answer = [c \in Client |-> Nothing]
  /\ spent = {}

Changing == {"put", "create", "write", "rename", "delete"}

\* A key that does not resolve inside the root is refused before any call.
Request(c, at, k, b) ==
  /\ At(c, "idle") /\ (b = Nothing <=> at # "put")
  /\ at = "put" => k \notin spent
  /\ at \in Changing => \A d \in Client : call[d].at \in Changing => call[d].key # k
  /\ call' = [call EXCEPT ![c] = [at |-> at, key |-> k, body |-> b, size |-> Nothing]]
  /\ answer' = [answer EXCEPT ![c] = Nothing]
  /\ UNCHANGED <<stored, tmp, spent>>

\* Mutant of PutChecks: put does not look for the key.
PutChecksNothing(c) ==
  /\ At(c, "put")
  /\ Goto(c, "create")
  /\ UNCHANGED <<stored, tmp, answer, spent>>

\* put: try_exists, then the directory.
PutChecks(c) ==
  /\ At(c, "put")
  /\ IF stored[call[c].key] # Nothing
     THEN Return(c, "already_exists")
     ELSE Goto(c, "create") /\ UNCHANGED answer
  /\ UNCHANGED <<stored, tmp, spent>>

PutCreates(c) ==
  /\ At(c, "create")
  /\ tmp' = [tmp EXCEPT ![c] = Partial]
  /\ Goto(c, "write")
  /\ UNCHANGED <<stored, answer, spent>>

\* write_all and fsync.
PutWrites(c) ==
  /\ At(c, "write")
  /\ tmp' = [tmp EXCEPT ![c] = call[c].body]
  /\ Goto(c, "rename")
  /\ UNCHANGED <<stored, answer, spent>>

PutRenames(c) ==
  /\ At(c, "rename")
  /\ stored' = [stored EXCEPT ![call[c].key] = tmp[c]]
  /\ tmp' = [tmp EXCEPT ![c] = Nothing]
  /\ Return(c, "ok")
  /\ UNCHANGED spent

\* The file is open from here on: no later rename or removal is seen.
Gets(c) ==
  /\ At(c, "get")
  /\ Return(c, stored[call[c].key])
  /\ UNCHANGED <<stored, tmp, spent>>

Deletes(c) ==
  /\ At(c, "delete")
  /\ stored' = [stored EXCEPT ![call[c].key] = Nothing]
  /\ spent' = IF stored[call[c].key] = Nothing THEN spent ELSE spent \union {call[c].key}
  /\ Return(c, "ok")
  /\ UNCHANGED tmp

\* head: the size first ...
HeadStats(c) ==
  /\ At(c, "head")
  /\ IF stored[call[c].key] = Nothing
     THEN Return(c, Nothing)
     ELSE /\ call' = [call EXCEPT ![c].at = "etag", ![c].size = stored[call[c].key]]
          /\ UNCHANGED answer
  /\ UNCHANGED <<stored, tmp, spent>>

\* ... then the etag; a file that is gone by now is an error, not None.
HeadReads(c) ==
  /\ At(c, "etag")
  /\ Return(c, CASE stored[call[c].key] = Nothing -> "error"
                 [] stored[call[c].key] = call[c].size -> call[c].size
                 [] OTHER -> Mixed)
  /\ UNCHANGED <<stored, tmp, spent>>

Errs(c) ==
  /\ ~At(c, "idle")
  /\ Return(c, "error")
  /\ UNCHANGED <<stored, tmp, spent>>

Dies(c) ==
  /\ ~At(c, "idle")
  /\ call' = [call EXCEPT ![c] = Idle]
  /\ UNCHANGED <<stored, tmp, answer, spent>>

BNext ==
  \E c \in Client :
    \/ \E at \in {"put", "get", "delete", "head"}, k \in Key,
         b \in Body \union {Nothing} : Request(c, at, k, b)
    \/ PutChecks(c) \/ PutCreates(c) \/ PutWrites(c) \/ PutRenames(c)
    \/ Gets(c) \/ Deletes(c) \/ HeadStats(c) \/ HeadReads(c)
    \/ Errs(c) \/ Dies(c)

BSpec == BInit /\ [][BNext]_fvars

-----------------------------------------------------------------------------
\* The call as the client made it; put takes effect at its rename, and what is
\* between the system calls is never seen.
Asked(c) ==
  IF At(c, "idle") THEN Nothing
  ELSE [op |-> CASE At(c, "etag") -> "head"
                 [] call[c].at \in {"create", "write", "rename"} -> "put"
                 [] OTHER -> call[c].at,
        key |-> call[c].key, body |-> call[c].body]

Bucket == INSTANCE AudioBucket WITH object <- stored, asked <- [c \in Client |-> Asked(c)]

\* Whatever the interleaving of system calls and deaths, every answer is one that
\* an atomic bucket gives: no get or head sees a partial or a mixed object, a put
\* of an existing key fails, an object changes only by its deletion (bucket.rs:13).
KeepsBucketContract == Bucket!BucketSpec

\* Types; a process that dies leaves a temporary file and never a partial object.
BTypeOK ==
  /\ stored \in [Key -> Body \union {Nothing}]
  /\ tmp \in [Client -> Body \union {Nothing, Partial}]
  /\ call \in [Client -> {Idle} \union
        [at : {"put", "create", "write", "rename", "get", "delete", "head", "etag"},
         key : Key, body : Body \union {Nothing}, size : Body \union {Nothing}]]
  /\ answer \in [Client -> Body \union {Nothing, "ok", "already_exists", "error"}]
  /\ spent \subseteq Key
=============================================================================
