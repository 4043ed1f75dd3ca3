----------------------------- MODULE MCSnapshot -----------------------------
(***************************************************************************)
(* The instance of SessionLog for contexts, with the history of the        *)
(* database: every state of the two tables that load_context reads.        *)
(***************************************************************************)
EXTENDS MCSessions

VARIABLE past   \* the databases so far, this one included

Database == [saved |-> saved, acts |-> acts]

RecordingInit == ScenarioInit /\ past = {Database}
RecordingNext == ScenarioNext /\ past' = past \cup {Database'}
RecordingSpec == RecordingInit /\ [][RecordingNext]_<<vars, scenario, past>>

(* "All queries run in a single read snapshot": some one state of the       *)
(* database gives both the checkpoint and the activities of a context.       *)
OneSnapshot ==
    \A c \in Caller : task[c].at = "context" =>
        \E db \in past :
            /\ task[c].checkpoint \in SavedLast(db.saved, task[c].scope)
            /\ task[c].recent \in Pages(db.acts, task[c].scope)
=============================================================================
