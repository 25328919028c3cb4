---------------------------- MODULE MCCouchdbSink ----------------------------
(***************************************************************************)
(* Two replicas, two messages received in the same second, two candidate   *)
(* names each next to their own names.                                     *)
(***************************************************************************)
EXTENDS CouchdbSink, TLC

CONSTANTS r1, r2, m1, m2, t1, t2

MCReplica == {r1, r2}
MCMessage == {m1, m2}
MCDoc == {"id1", "id2", "time", "time-1", "time-2"}
MCMessageDoc == (m1 :> "id1") @@ (m2 :> "id2")
MCTimeDoc == [m \in MCMessage |-> (0 :> "time") @@ (1 :> "time-1") @@ (2 :> "time-2")]
MCText == {t1, t2}
MCTextOf == (m1 :> {t1}) @@ (m2 :> {t2})

\* Nothing, or a document of the user under a name that the worker may choose.
MCVaults == {{}, {"time", "id1"}}

\* The deployments that the documentation speaks of: a single replica with
\* either naming, or replicas that name notes by message.
MCFleets == {(r1 :> "datetime") @@ (r2 :> "off"),
             (r1 :> "message_id") @@ (r2 :> "off"),
             (r1 :> "message_id") @@ (r2 :> "message_id")}

\* Replicas that name notes by time.
MCTimeFleet == {(r1 :> "datetime") @@ (r2 :> "datetime")}
=============================================================================
