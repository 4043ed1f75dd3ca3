------------------------------ MODULE MCEngine ------------------------------
(***************************************************************************)
(* Instances of MemoryEngine for TLC.  Callers are interchangeable.        *)
(***************************************************************************)
EXTENDS MemoryEngine, TLC

CONSTANTS t1, t2

OneTask == {t1}
TwoTasks == {t1, t2}
TaskSymmetry == Permutations(Task)

\* Everything but the dream cycle, whose graph mirror differs from the tables,
\* and pins, which no sequential property here is about.
SerialOps == {"add", "resolve", "link", "expire_edge", "forget",
              "consolidate", "archive", "flush", "crash"}
\* Everything that touches the tables or the archive directory.
TableOps == Operation \ {"flush"}
\* The ways a fact is replaced or merged away.
SuccessionOps == {"add", "resolve", "link", "cycle", "consolidate", "abandon"}

\* What each disagreement needs, and no more.
RaceOps == {"add", "resolve", "link"}
CycleOps == {"add", "link", "cycle"}
RecoveryOps == {"add", "resolve", "abandon", "flush", "crash"}
PinOps == {"add", "pin", "forget"}

\* With flush off, nothing reads the graph: no guard and no other variable's
\* next value depends on it, so states that differ in it alone need no second
\* visit by a run that checks the tables.
TablesView == <<db, sidecar, disk, up, task>>
\* No guard and no other variable's next value depends on disk and manifest, and
\* the run with one caller asks nothing of them but their type.
SerialView == <<fact, pinned, edge, nextFact, nextEdge, graph, sidecar, up, task>>
=============================================================================
