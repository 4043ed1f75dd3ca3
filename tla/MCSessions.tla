----------------------------- MODULE MCSessions -----------------------------
(***************************************************************************)
(* Instances of SessionLog for TLC, in two scenarios.  For promotions, two *)
(* callers record and one of them archives.  For contexts, an agent        *)
(* records and checkpoints while a hook checkpoints and loads, and no tool *)
(* is promoted.  One session works in a scope below the other's.           *)
(***************************************************************************)
EXTENDS SessionLog, TLC

CONSTANTS editor, janitor, agent, hook, s1, s2, bash, read, edit, project, module,
          Scenarios   \* who meets, what they record, and how long

VARIABLE scenario     \* that of this behaviour

Callers == {editor, janitor, agent, hook}
Sessions == {s1, s2}
Keys == {bash, read, edit}
Scopes == {project, module}
SessionOfKey == (bash :> s1) @@ (read :> s1) @@ (edit :> s2)
ScopeOfKey == (bash :> project) @@ (read :> project) @@ (edit :> module)
Subtrees == (project :> Scopes) @@ (module :> {module})
PromotedKeys == {bash}
WorksOf == (editor :> {"record"}) @@ (janitor :> {"record", "archive"})
        @@ (agent :> {"record", "checkpoint"}) @@ (hook :> {"checkpoint", "load"})

Promotions == [callers |-> {editor, janitor}, keys |-> {bash, edit}, time |-> 2]
Contexts == [callers |-> {agent, hook}, keys |-> {read, edit}, time |-> 1]
BothScenarios == {Promotions, Contexts}
ContextsOnly == {Contexts}
PromotionsOnly == {Promotions}

\* The callers, keys and clock of the scenario.
Follows(s) ==
    /\ now <= s.time
    /\ \A c \in Callers : task[c] # Idle => c \in s.callers
    /\ \A c \in s.callers : task[c].at = "record" => task[c].key \in s.keys

ScenarioInit == Init /\ scenario \in Scenarios
ScenarioNext == Next /\ UNCHANGED scenario /\ Follows(scenario)'
ScenarioSpec == ScenarioInit /\ [][ScenarioNext]_<<vars, scenario>>
=============================================================================
