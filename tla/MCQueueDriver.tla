--------------------------- MODULE MCQueueDriver ---------------------------
(***************************************************************************)
(* Instances of QueueDriver for TLC.  A job is named for what is special   *)
(* about it; first and again are two submissions of one message, with the  *)
(* same dedup_key and an audio object each.                                *)
(***************************************************************************)
EXTENDS QueueDriver, TLC

CONSTANTS first, again, ahead, poison, unput, w1, w2

\* One key per message.
MCKey == {"m1", "m2", "m3", "m4"}
MCKeyOf ==
  [j \in Job |->
    CASE j \in {first, again} -> "m1"
      [] j = ahead -> "m2"
      [] j = poison -> "m3"
      [] j = unput -> "m4"]
MCAudio == Job
MCAudioOf == [j \in Job |-> j]

MCAhead == Job \cap {ahead}
MCPoison == Job \cap {poison}
MCUnput == Job \cap {unput}

\* Two submissions of one message are interchangeable, and so are replicas.
MCJobSymmetry == Permutations({first, again})
MCSymmetry == MCJobSymmetry \cup Permutations({w1, w2})
=============================================================================
