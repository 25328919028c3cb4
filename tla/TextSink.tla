------------------------------- MODULE TextSink -------------------------------
(***************************************************************************)
(* The sinks that append every note to one stream (output/file.rs,         *)
(* output/stdout.rs, output/concat.rs), as the queue mode keeps one open   *)
(* for the life of the process.  A write is several system calls; each may *)
(* fail, after a part of its bytes or before, and the process may be       *)
(* killed between any two.  A later process finds what this one left.      *)
(* One process writes to the file at a time: two that append would not see *)
(* each other's notes when they decide on their first separator.           *)
(***************************************************************************)
EXTENDS Naturals, Sequences

CONSTANT MaxNotes  \* bound: the writes of all processes together

ASSUME NotesAssumption == MaxNotes \in Nat

Sep == 0  \* a separator, or the part of it that was written; n > 0: bytes of note n

VARIABLES
  stdout,     \* the sink is standard output, a new stream for every process
  overwrite,  \* FileSink::overwrite
  separator,  \* a separator is configured
  out,        \* what the stream holds
  alive,
  primed,     \* SeparatorState::primed; "unset" while FileSink::state is None
  phase,      \* the next system call of the write in progress
  truncate,   \* it opens the file with truncate
  prefix,     \* it puts a separator first
  notes,      \* how many writes were begun
  unseen,     \* history: the notes that follow bytes the sink failed to see
  written     \* the notes whose write returned Ok, and that a later process keeps

config == <<stdout, overwrite, separator>>
tvars == <<config, out, alive, primed, phase, truncate, prefix, notes, unseen, written>>

TInit ==
  /\ stdout \in BOOLEAN /\ overwrite \in BOOLEAN /\ separator \in BOOLEAN
  /\ out = << >> /\ alive = FALSE
  /\ primed = "unset" /\ phase = "none" /\ truncate = FALSE /\ prefix = FALSE
  /\ notes = 0 /\ unseen = {} /\ written = {}

Launch ==
  /\ ~alive /\ alive' = TRUE
  /\ primed' = IF stdout THEN "no" ELSE "unset"
  /\ out' = IF stdout THEN << >> ELSE out
  /\ written' = IF stdout \/ overwrite THEN {} ELSE written
  /\ UNCHANGED <<config, phase, truncate, prefix, notes, unseen>>

\* initially_primed counts on the first write; from then on it is primed.  A file
\* whose metadata cannot be read counts as an empty one.
Primed(unread) ==
  \/ primed = "yes"
  \/ primed = "unset" /\ ~overwrite /\ out # << >> /\ ~unread

\* Mutant of Begin: content that was there before does not count.
BeginFresh ==
  /\ alive /\ phase = "none" /\ notes < MaxNotes
  /\ truncate' = (overwrite /\ primed = "unset")
  /\ prefix' = (separator /\ primed = "yes")
  /\ primed' = "yes" /\ phase' = "open" /\ notes' = notes + 1
  /\ UNCHANGED <<config, out, alive, unseen, written>>

\* Mutant of Begin: every write of an overwriting sink truncates.
BeginTruncates ==
  /\ alive /\ phase = "none" /\ notes < MaxNotes
  /\ truncate' = (overwrite /\ ~stdout)
  /\ prefix' = (separator /\ Primed(FALSE))
  /\ primed' = "yes" /\ phase' = "open" /\ notes' = notes + 1
  /\ UNCHANGED <<config, out, alive, unseen, written>>

\* The state is decided on the first write and advanced before the file is open:
\* an open that fails uses up the truncation and the missing prefix.
Begin ==
  /\ alive /\ phase = "none" /\ notes < MaxNotes
  /\ truncate' = (overwrite /\ primed = "unset")
  /\ \E unread \in BOOLEAN :
       /\ prefix' = (separator /\ Primed(unread))
       /\ unseen' = unseen \union {n \in {notes + 1} : Primed(FALSE) /\ ~Primed(unread)}
  /\ primed' = "yes" /\ phase' = "open" /\ notes' = notes + 1
  /\ UNCHANGED <<config, out, alive, written>>

Open ==
  /\ phase = "open"
  /\ out' = IF truncate THEN << >> ELSE out
  /\ phase' = IF prefix THEN "prefix" ELSE "text"
  /\ UNCHANGED <<config, alive, primed, truncate, prefix, notes, unseen, written>>

Piece == IF phase = "prefix" THEN Sep ELSE notes

WritePrefix ==
  /\ phase = "prefix"
  /\ out' = Append(out, Piece)
  /\ phase' = "text"
  /\ UNCHANGED <<config, alive, primed, truncate, prefix, notes, unseen, written>>

WriteText ==
  /\ phase = "text"
  /\ out' = Append(out, Piece)
  /\ phase' = "none" /\ written' = written \union {notes}
  /\ UNCHANGED <<config, alive, primed, truncate, prefix, notes, unseen>>

\* A call fails, or the process is killed in it; a write may have written a part.
Breaks ==
  /\ phase # "none" /\ phase' = "none"
  /\ out' \in {out} \union (IF phase = "open" THEN {} ELSE {Append(out, Piece)})
  /\ alive' \in BOOLEAN
  /\ UNCHANGED <<config, primed, truncate, prefix, notes, unseen, written>>

Exits ==
  /\ alive /\ phase = "none" /\ alive' = FALSE
  /\ UNCHANGED <<config, out, primed, phase, truncate, prefix, notes, unseen, written>>

TNext == Launch \/ Begin \/ Open \/ WritePrefix \/ WriteText \/ Breaks \/ Exits

TSpec == TInit /\ [][TNext]_tvars

-----------------------------------------------------------------------------
\* Types.
TTypeOK ==
  /\ stdout \in BOOLEAN /\ overwrite \in BOOLEAN /\ separator \in BOOLEAN
  /\ out \in Seq(0..MaxNotes) /\ alive \in BOOLEAN
  /\ primed \in {"unset", "no", "yes"} /\ phase \in {"none", "open", "prefix", "text"}
  /\ truncate \in BOOLEAN /\ prefix \in BOOLEAN
  /\ notes \in 0..MaxNotes /\ unseen \subseteq 1..MaxNotes /\ written \subseteq 1..MaxNotes

\* With a separator configured, the bytes of two notes never touch: not after a
\* write that failed in the middle, not across a restart, not when the first open
\* of the process failed (concat.rs: the state machine of the separator).  The one
\* exception is the first note of a process that could not read the metadata of
\* its file (file.rs:50-52).
Touch(i) == out[i] # Sep /\ out[i + 1] # Sep
Separated ==
  separator => \A i \in 1..Len(out) - 1 : Touch(i) => out[i + 1] \in unseen

\* A note whose write succeeded stays in the stream: overwriting empties the file
\* at most once in the life of a process, before the first note (file.rs:45).
WrittenStays == \A n \in written : \E i \in 1..Len(out) : out[i] = n
=============================================================================
