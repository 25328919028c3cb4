----------------------------- MODULE CouchdbSink -----------------------------
(***************************************************************************)
(* Notes in CouchDB: the name of a note (note_stem and collision_free_path *)
(* of commands/run/queue.rs) and the requests that write it (doc_exists,   *)
(* put_chunk_if_absent and put_main of output/couchdb.rs).  Several        *)
(* replicas and the user's own editor work on one database.                *)
(*                                                                         *)
(* An action is one HTTP request and what follows its answer.  A request   *)
(* that fails, or that takes effect while its answer is lost, a crash and  *)
(* any other error of the delivery are GiveUp at the next step: the job is *)
(* delivered again.                                                        *)
(***************************************************************************)
EXTENDS Integers

CONSTANTS Replica,     \* worker containers
          Message,     \* messages, one job each, named by their dedup_key
          Editor,      \* the author of what the user's editor writes
          Nothing,     \* no message, no text
          Doc,         \* ids of main documents (lowercased paths)
          MessageDoc,  \* MessageDoc[m]: the document of m, named by dedup_key
          TimeDoc,     \* TimeDoc[m][n]: its n-th candidate, named by time
          MaxSuffix,   \* bound on the suffix -n
          Text,        \* note bodies; a chunk id is the hash of its text
          TextOf,      \* the transcripts that m may have
          MaxReceive,  \* bound on the deliveries of a job
          MaxEdits,    \* bound on what the user does
          Vaults,      \* what may be in the database at the start
          Fleets       \* the deployments to consider

Naming == {"message_id", "datetime", "off"}

ASSUME SinkAssumption ==
  /\ Editor \notin Message
  /\ Nothing \notin Message \cup Text
  /\ MessageDoc \in [Message -> Doc]
  /\ \A m1, m2 \in Message : MessageDoc[m1] = MessageDoc[m2] => m1 = m2
  /\ MaxSuffix \in Nat /\ MaxReceive \in Nat /\ MaxEdits \in Nat
  /\ TimeDoc \in [Message -> [0 .. MaxSuffix -> Doc]]
  /\ TextOf \in [Message -> SUBSET Text]
  /\ Fleets \subseteq [Replica -> Naming]
  /\ Vaults \subseteq SUBSET Doc

VARIABLES
  naming,    \* output.name of each replica, "off" for one that does not run
  docs,      \* the main documents
  chunks,    \* the texts of which the chunk document exists
  recorded,  \* what processed_jobs says of each message
  tries,     \* deliveries of each message so far
  edited,    \* documents the user has changed
  edits,     \* how often
  pc,        \* the next request of each replica
  msg,       \* the message it works on
  suffix,    \* the candidate it has come to
  text,      \* what it writes
  rev,       \* _rev in the body of its main document, 0 for none
  attempt    \* passes of the loop in put_main

jobVars == <<recorded, tries>>
userVars == <<edited, edits>>
localVars == <<msg, suffix, text, rev, attempt>>
vars == <<naming, docs, chunks, jobVars, userVars, pc, localVars>>

\* A document that was never written has revision 0; a deleted one keeps its
\* revision count.
DocState == [rev : Nat, live : BOOLEAN, by : Message \cup {Editor}, text : Text]

\* put_main tries three times.
MaxAttempt == 3

Pc == {"idle", "head", "chunk", "put", "refresh", "written", "silent"}

SinkTypeOK ==
  /\ naming \in Fleets
  /\ docs \in [Doc -> DocState]
  /\ chunks \subseteq Text
  /\ recorded \in [Message -> {"none", "ok", "no_speech"}]
  /\ tries \in [Message -> 0 .. MaxReceive]
  /\ edited \subseteq Doc
  /\ edits \in 0 .. MaxEdits
  /\ pc \in [Replica -> Pc]
  /\ msg \in [Replica -> Message \cup {Nothing}]
  /\ suffix \in [Replica -> 0 .. MaxSuffix]
  /\ text \in [Replica -> Text \cup {Nothing}]
  /\ rev \in [Replica -> Nat]
  /\ attempt \in [Replica -> 0 .. MaxAttempt - 1]

\* The database may hold documents of the user.
Init ==
  /\ naming \in Fleets
  /\ \E t \in Text, D \in Vaults :
       /\ chunks = {t}
       /\ docs = [d \in Doc |->
                    [rev |-> IF d \in D THEN 1 ELSE 0, live |-> d \in D,
                     by |-> Editor, text |-> t]]
  /\ recorded = [m \in Message |-> "none"]
  /\ tries = [m \in Message |-> 0]
  /\ edited = {} /\ edits = 0
  /\ pc = [w \in Replica |-> "idle"]
  /\ msg = [w \in Replica |-> Nothing]
  /\ suffix = [w \in Replica |-> 0]
  /\ text = [w \in Replica |-> Nothing]
  /\ rev = [w \in Replica |-> 0]
  /\ attempt = [w \in Replica |-> 0]

\* The document that replica w writes.
Target(w) ==
  IF naming[w] = "datetime" THEN TimeDoc[msg[w]][suffix[w]] ELSE MessageDoc[msg[w]]

Goto(w, l) == pc' = [pc EXCEPT ![w] = l]

\* The end of a delivery; its locals are gone.
Leave(w) ==
  /\ Goto(w, "idle")
  /\ msg' = [msg EXCEPT ![w] = Nothing]
  /\ suffix' = [suffix EXCEPT ![w] = 0]
  /\ text' = [text EXCEPT ![w] = Nothing]
  /\ rev' = [rev EXCEPT ![w] = 0]
  /\ attempt' = [attempt EXCEPT ![w] = 0]

-----------------------------------------------------------------------------
\* Mutant: the record is not looked up.
TakeAlways(w, m) ==
  /\ pc[w] = "idle" /\ naming[w] # "off"
  /\ tries[m] < MaxReceive
  /\ tries' = [tries EXCEPT ![m] = @ + 1]
  /\ msg' = [msg EXCEPT ![w] = m]
  /\ Goto(w, IF naming[w] = "datetime" THEN "head" ELSE "chunk")
  /\ UNCHANGED <<naming, docs, chunks, recorded, userVars, suffix, text, rev, attempt>>

\* A delivery of m for which the lookup has found no record.
Take(w, m) ==
  /\ pc[w] = "idle" /\ naming[w] # "off"
  /\ recorded[m] = "none"
  /\ tries[m] < MaxReceive
  /\ tries' = [tries EXCEPT ![m] = @ + 1]
  /\ msg' = [msg EXCEPT ![w] = m]
  /\ Goto(w, IF naming[w] = "datetime" THEN "head" ELSE "chunk")
  /\ UNCHANGED <<naming, docs, chunks, recorded, userVars, suffix, text, rev, attempt>>

\* Mutant: looks at the first candidate only.
HeadOnce(w) ==
  /\ pc[w] = "head"
  /\ \/ /\ docs[Target(w)].live
        /\ suffix[w] < MaxSuffix
        /\ suffix' = [suffix EXCEPT ![w] = @ + 1]
     \/ /\ ~docs[Target(w)].live
        /\ UNCHANGED suffix
  /\ Goto(w, "chunk")
  /\ UNCHANGED <<naming, docs, chunks, jobVars, userVars, msg, text, rev, attempt>>

\* doc_exists on the next candidate of collision_free_path.
Head(w) ==
  /\ pc[w] = "head"
  /\ \/ /\ docs[Target(w)].live
        /\ suffix[w] < MaxSuffix
        /\ suffix' = [suffix EXCEPT ![w] = @ + 1]
        /\ UNCHANGED pc
     \/ /\ ~docs[Target(w)].live
        /\ Goto(w, "chunk")
        /\ UNCHANGED suffix
  /\ UNCHANGED <<naming, docs, chunks, jobVars, userVars, msg, text, rev, attempt>>

\* Mutant: the chunk is left to be written after the main document.
PutChunkLater(w) ==
  /\ pc[w] = "chunk"
  /\ \E t \in TextOf[msg[w]] : text' = [text EXCEPT ![w] = t]
  /\ Goto(w, "put")
  /\ UNCHANGED <<naming, docs, chunks, jobVars, userVars, msg, suffix, rev, attempt>>

\* run_one transcribes the audio, which takes long, then write_note puts the
\* chunk; 409 says that the same chunk is there.
PutChunk(w) ==
  /\ pc[w] = "chunk"
  /\ \E t \in TextOf[msg[w]] :
       /\ chunks' = chunks \cup {t}
       /\ text' = [text EXCEPT ![w] = t]
  /\ Goto(w, "put")
  /\ UNCHANGED <<naming, docs, jobVars, userVars, msg, suffix, rev, attempt>>

\* run_one finds no speech and writes nothing.
NoSpeech(w) ==
  /\ pc[w] = "chunk"
  /\ Goto(w, "silent")
  /\ UNCHANGED <<naming, docs, chunks, jobVars, userVars, localVars>>

\* CouchDB accepts the body when its _rev is the document's, or when it has
\* none and the document does not exist.
Accepts(d, r) == r = IF docs[d].live THEN docs[d].rev ELSE 0

\* The body is stored under its name.
Store(w) ==
  /\ Accepts(Target(w), rev[w])
  /\ docs' = [docs EXCEPT ![Target(w)] =
                [rev |-> @.rev + 1, live |-> TRUE, by |-> msg[w], text |-> text[w]]]
  /\ Goto(w, "written")
  /\ UNCHANGED localVars

\* 409: round the loop again.
Conflict(w) ==
  /\ ~Accepts(Target(w), rev[w])
  /\ attempt' = [attempt EXCEPT ![w] = @ + 1]
  /\ Goto(w, "refresh")
  /\ UNCHANGED <<docs, msg, suffix, text, rev>>

\* Mutant: a conflict is taken for a note that has been written already.
PutMainGivesIn(w) ==
  /\ pc[w] = "put"
  /\ \/ Store(w)
     \/ /\ ~Accepts(Target(w), rev[w])
        /\ Goto(w, "written")
        /\ UNCHANGED <<docs, localVars>>
  /\ UNCHANGED <<naming, chunks, jobVars, userVars>>

\* Mutant: one pass too many.
PutMainOnceMore(w) ==
  /\ pc[w] = "put"
  /\ \/ Store(w)
     \/ attempt[w] < MaxAttempt /\ Conflict(w)
     \/ /\ ~Accepts(Target(w), rev[w])
        /\ attempt[w] = MaxAttempt
        /\ Leave(w)
        /\ UNCHANGED docs
  /\ UNCHANGED <<naming, chunks, jobVars, userVars>>

\* The PUT of put_main: 409 goes round the loop, at most MaxAttempt times.
PutMain(w) ==
  /\ pc[w] = "put"
  /\ \/ Store(w)
     \/ attempt[w] + 1 < MaxAttempt /\ Conflict(w)
     \/ /\ ~Accepts(Target(w), rev[w])
        /\ attempt[w] + 1 = MaxAttempt
        /\ Leave(w)
        /\ UNCHANGED docs
  /\ UNCHANGED <<naming, chunks, jobVars, userVars>>

\* The GET of put_main.
Refresh(w) ==
  /\ pc[w] = "refresh"
  /\ rev' = [rev EXCEPT ![w] = IF docs[Target(w)].live THEN docs[Target(w)].rev ELSE 0]
  /\ Goto(w, "put")
  /\ UNCHANGED <<naming, docs, chunks, jobVars, userVars, msg, suffix, text, attempt>>

\* The driver records the outcome; the message is not taken again.
Finish(w) ==
  /\ pc[w] \in {"written", "silent"}
  /\ recorded' = [recorded EXCEPT ![msg[w]] = IF pc[w] = "written" THEN "ok" ELSE "no_speech"]
  /\ Leave(w)
  /\ UNCHANGED <<naming, docs, chunks, tries, userVars>>

GiveUp(w) ==
  /\ pc[w] # "idle"
  /\ Leave(w)
  /\ UNCHANGED <<naming, docs, chunks, jobVars, userVars>>

\* The user writes or deletes a document, through LiveSync, which puts the
\* chunk first.
Edit(d) ==
  /\ edits < MaxEdits
  /\ edits' = edits + 1
  /\ edited' = edited \cup {d}
  /\ \E t \in chunks, l \in BOOLEAN :
       docs' = [docs EXCEPT ![d] = [rev |-> @.rev + 1, live |-> l, by |-> Editor, text |-> t]]
  /\ UNCHANGED <<naming, chunks, jobVars, pc, localVars>>

Next ==
  \/ \E w \in Replica :
       \/ \E m \in Message : Take(w, m)
       \/ Head(w) \/ PutChunk(w) \/ NoSpeech(w) \/ PutMain(w) \/ Refresh(w)
       \/ Finish(w) \/ GiveUp(w)
  \/ \E d \in Doc : Edit(d)

Spec == Init /\ [][Next]_vars

-----------------------------------------------------------------------------
\* A document never names a chunk that is not there, whatever request failed
\* last (write_note puts the chunk first).
NoDanglingChunk == \A d \in Doc : docs[d].live => docs[d].text \in chunks

\* A note that is still as the worker wrote it is replaced only by a note of
\* the same message, or by the user: neither the suffix of collision_free_path
\* nor the overwriting loop of put_main hits the note of another message.
NoteKept ==
  [][\A d \in Doc :
       docs[d].live /\ docs[d].by \in Message => docs'[d].by \in {docs[d].by, Editor}]_vars

\* The documents that may be the note of m.
DocsOf(m) == {MessageDoc[m]} \cup {TimeDoc[m][n] : n \in 0 .. MaxSuffix}

\* A message that is recorded as "ok" has its note, unless the user has touched
\* a document of that name.
RecordedHasNote ==
  \A m \in Message :
    recorded[m] = "ok" =>
      \E d \in DocsOf(m) : d \in edited \/ (docs[d].live /\ docs[d].by = m)

\* With one replica nothing is written any more for a message once its outcome
\* is recorded, so that what the user makes of the note stays.
OneRuns == \A u, v \in Replica : naming[u] # "off" /\ naming[v] # "off" => u = v
NoLateWrite ==
  [][OneRuns =>
       \A d \in Doc :
         docs'[d] # docs[d] /\ docs'[d].by \in Message => recorded[docs'[d].by] = "none"]_vars
=============================================================================
