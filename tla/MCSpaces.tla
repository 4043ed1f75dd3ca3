------------------------------ MODULE MCSpaces ------------------------------
(***************************************************************************)
(* Instances of EmbeddingSpaces for TLC: a first model, a second one of    *)
(* the same dimension, and a wider one.                                    *)
(***************************************************************************)
EXTENDS EmbeddingSpaces, TLC

CONSTANTS first, second, wide, writer, keeper, saver, builder, partner,
          Pairs   \* the pairs of callers that meet

VARIABLE pair   \* the callers of this behaviour

Models == {first, second, wide}
Dims == [i \in Models |-> IF i = wide THEN 2 ELSE 1]
\* The two models of one dimension are interchangeable.
SameDim == Permutations({first, second})

\* Two callers meet at a time.  A writer beside a keeper, who runs cycles,
\* consolidations and reconstructions and may be dropped; one that also saves,
\* beside reconstructions; and two that write, one of whom saves, dreams and may
\* be dropped.
Callers == {writer, keeper, saver, builder, partner}
Ops == (writer :> {"add", "import", "expire", "purge"})
    @@ (keeper :> {"dream", "consolidate", "reconstruct", "crash", "abandon"})
    @@ (saver :> {"add", "expire", "purge", "flush"})
    @@ (builder :> {"reconstruct", "crash"})
    @@ (partner :> {"add", "import", "dream", "flush", "crash", "abandon"})
Meetings == {{writer, keeper}, {saver, builder}, {writer, partner}}

\* A dream cycle beside a reconstruction.
DreamCallers == {writer, keeper}
DreamOps == [t \in DreamCallers |-> IF t = writer THEN {"add", "dream"}
                                    ELSE {"reconstruct", "crash"}]
DreamMeetings == {DreamCallers}

PairInit == Init /\ pair \in Pairs
PairNext ==
    /\ (\E t \in pair : TaskNext(t)) \/ Crash \/ (\E d \in Width : Open(d))
    /\ UNCHANGED pair
PairSpec == PairInit /\ [][PairNext]_<<vars, pair>>
=============================================================================
