------------------------------- MODULE Check -------------------------------
(***************************************************************************)
(* The `reguard` command line: invocations of `reguard check` on one       *)
(* checkout and one output directory (src/compliance/cli), the resolution  *)
(* of reguard.yml into a recipe, observers and a normalizer, the run of    *)
(* the langgraph-state recipe (src/compliance/integrations), the verdict   *)
(* and the three artefacts of it.  `init` and the user's editor write the  *)
(* configuration meanwhile, and `doctor` reads it.                         *)
(*                                                                         *)
(* The recipe runs the target's code in the process of the check, and the  *)
(* observer reads the trajectory file the target's graph names, wherever   *)
(* and whenever that was written.                                          *)
(*                                                                         *)
(* Abstracted: a configuration is the set of the tests it does not pass; a *)
(* trajectory is told apart by the rows it holds; observations are a set,  *)
(* as every test of the requirement asks whether some observation exists.  *)
(***************************************************************************)
EXTENDS Naturals

CONSTANTS
  Checks,    \* invocations of `reguard check`
  Configs,   \* the configurations somebody writes
  Arguments, \* the arguments and environments the checks are given
  Targets,   \* what the target may do when it is invoked
  FailOn,    \* --fail-on
  Overlaps,  \* may a check be started while another is running?
  MaxEdits,  \* bound: edits of a configuration file
  MaxFaults  \* bound: uncaught exceptions and kills

Statuses == {"PASS", "FAIL", "UNKNOWN", "UNSUPPORTED", "ERROR"}

\* The tests of _build_integration, each of which raises IntegrationConfigError.
Defects == {"schema", "recipe", "observers", "normalizer", "entrypoint",
            "model", "scenarios"}
\* "unreadable" is a file that YAML cannot parse or that holds no mapping.
\* `keys`: does the file name forbidden variables of its own, in place of the
\* provider keys?  `needs`: does it require a variable of the environment?
AllConfigs == [file    : {"absent", "unreadable", "mapping"},
               defects : SUBSET Defects,
               mode    : {"dry-run", "factory"},
               keys    : {"default", "own"},
               needs   : BOOLEAN]
Absent == [file |-> "absent", defects |-> {}, mode |-> "dry-run",
           keys |-> "default", needs |-> FALSE]
\* What `reguard init` writes: it names no invocation_mode.
Template == [Absent EXCEPT !.file = "mapping"]

\* --config or not, a provider key in the environment or not, the variables a
\* configuration may require or not, a registered --requirement or not.
AllArguments == [explicit : BOOLEAN, key : BOOLEAN, has : BOOLEAN, known : BOOLEAN]
Usual == [explicit |-> FALSE, key |-> FALSE, has |-> TRUE, known |-> TRUE]

\* An answer "doctor: OK": was it given --config, and did it have a name for the
\* repository, without which it resolves nothing?
Answers == [explicit : BOOLEAN, named : BOOLEAN]

\* The rows of a trajectory: no file, no row that parses, rows of other events,
\* a row that is no mapping, only steps, responses or tool calls too.
Contents == {"absent", "blank", "other", "odd", "steps", "records"}
\* The messages of a final state: none, one that is no mapping, only the
\* user's, an answer.
Messages == {"none", "odd", "user", "answer"}
\* Does the graph name a trajectory?  What messages does it return?  What has it
\* written when it returns, and will it still write something?
AllTargets == [path : BOOLEAN, messages : Messages, wrote : Contents,
               late : {"no", "due"}]

ASSUME CheckAssumption ==
  /\ Configs \subseteq AllConfigs
  /\ Arguments \subseteq AllArguments
  /\ Targets \subseteq AllTargets
  /\ \A t \in Targets : t.late = "due" => t.wrote = "absent"
  /\ FailOn \subseteq Statuses
  /\ Overlaps \in BOOLEAN
  /\ MaxEdits \in Nat
  /\ MaxFaults \in Nat

VARIABLES
  config,  \* the file given with --config, and the checkout's reguard.yml
  edits,   \* edits of these two so far
  record,  \* what the trajectory file of the target holds
  files,   \* for each artefact, the turn of the check that wrote it, or 0
  started, \* checks started so far
  doctor,  \* the answers "doctor: OK" that `doctor` gave of the files as they are
  faults,  \* uncaught exceptions and kills so far
  pc,      \* per check: where it is
  turn,    \* per check: its number in the order of the starts
  args,    \* per check: its arguments and environment
  cfg,     \* per check: the configuration it resolved
  graph,   \* per check: what its recipe ran, and what it returned
  buffer,  \* per check: the observations of the observer
  status,  \* per check: the status it reports
  exit     \* per check: its exit code

shared  == <<config, edits, record, files, started, doctor, faults>>
private == <<turn, args, cfg, graph, buffer, status, exit>>
vars == <<config, edits, record, files, started, doctor, faults,
          pc, turn, args, cfg, graph, buffer, status, exit>>

\* What a check ran, and how.
Graphs == [run : {"none", "dry", "failed", "target"}, path : BOOLEAN,
           messages : Messages, wrote : Contents,
           late : {"no", "due", "done"}]
NotRun == [run |-> "none", path |-> FALSE, messages |-> "none",
           wrote |-> "absent", late |-> "no"]

Kinds == {"message", "model", "step", "tool", "checkpoint"}
Producers == {"system", "system_state", "harness"}
Observations == [kind : Kinds, producer : Producers, ref : BOOLEAN]

Artefacts == {"result", "evidence", "summary"}
PCs == {"idle", "resolve", "ready", "observe", "again", "judge", "result",
        "evidence", "summary", "exit", "returned", "over"}
Over == {"idle", "returned", "over"}
NoCode == 5

TypeOK ==
  /\ config \in [{"explicit", "local"} -> AllConfigs]
  /\ edits \in 0..MaxEdits
  /\ record \in Contents
  /\ files \in [Artefacts -> Nat]
  /\ started \in Nat
  /\ doctor \subseteq Answers
  /\ faults \in 0..MaxFaults
  /\ pc \in [Checks -> PCs]
  /\ turn \in [Checks -> Nat]
  /\ args \in [Checks -> AllArguments]
  /\ cfg \in [Checks -> AllConfigs]
  /\ graph \in [Checks -> Graphs]
  /\ buffer \in [Checks -> SUBSET Observations]
  /\ status \in [Checks -> Statuses \cup {"none"}]
  /\ exit \in [Checks -> 0..NoCode]
  /\ \A c \in Checks :
       pc[c] \in Artefacts \cup {"exit"} => status[c] # "none"

Init ==
  /\ \E k \in Configs \cup {Absent} :
       config = [which \in {"explicit", "local"} |->
                   IF which = "local" THEN k ELSE Absent]
  /\ edits = 0
  /\ record = "absent"
  /\ files = [f \in Artefacts |-> 0]
  /\ started = 0
  /\ doctor = {}
  /\ faults = 0
  /\ pc = [c \in Checks |-> "idle"]
  /\ turn = [c \in Checks |-> 0]
  /\ args = [c \in Checks |-> Usual]
  /\ cfg = [c \in Checks |-> Absent]
  /\ graph = [c \in Checks |-> NotRun]
  /\ buffer = [c \in Checks |-> {}]
  /\ status = [c \in Checks |-> "none"]
  /\ exit = [c \in Checks |-> NoCode]

-----------------------------------------------------------------------------
(* The configuration.                                                       *)

\* The registries: get_recipe, get_observer and get_normalizer.
HasRecipe(k)     == k.defects \cap {"schema", "recipe"} = {}
HasObservers(k)  == "observers" \notin k.defects
HasNormalizer(k) == "normalizer" \notin k.defects
\* ExecutionRecipe.resolve, on the target the configuration names
HasEntrypoint(k) == "entrypoint" \notin k.defects
\* _build_integration
Buildable(k) ==
  /\ k.file = "mapping"
  /\ HasRecipe(k)
  /\ HasObservers(k)
  /\ HasNormalizer(k)
  /\ HasEntrypoint(k)
  /\ k.defects \cap {"model", "scenarios"} = {}

\* IntegrationResolver.resolve without built-in manifests and without adapters,
\* as both commands create it: an explicit file, present or not, is the last word.
Selected(explicit) == IF explicit THEN config["explicit"] ELSE config["local"]

Edit ==
  /\ edits < MaxEdits
  /\ \E which \in {"explicit", "local"}, k \in Configs \cup {Absent} :
       config' = [config EXCEPT ![which] = k]
  /\ edits' = edits + 1
  /\ doctor' = {}
  /\ UNCHANGED <<record, files, started, faults, pc, private>>

\* `reguard init`, which refuses to overwrite.
CreateTemplate ==
  /\ edits < MaxEdits
  /\ config["local"].file = "absent"
  /\ config' = [config EXCEPT !["local"] = Template]
  /\ edits' = edits + 1
  /\ doctor' = {}
  /\ UNCHANGED <<record, files, started, faults, pc, private>>

\* `reguard doctor`.  The issues it returns 1 for are an explicit file that does
\* not exist, no container engine, and a named repository without any file; a
\* configuration that does not build is printed and is none.  The name is that of
\* --repo, or the checkout's remote; --repo-path may be missing.
OnlyEngine(explicit, k) == explicit /\ k.file = "absent"
                                          \* defect: the source "none" is fine
Missing(explicit, k) == k.file = "absent"
Doctor ==
  /\ \E a \in Answers, path \in BOOLEAN :
       LET k == IF a.explicit \/ path THEN Selected(a.explicit) ELSE Absent
       IN /\ a.explicit => config["explicit"].file # "absent"
          /\ a.named => k.file # "unreadable" /\ ~Missing(a.explicit, k)
          /\ doctor' = doctor \cup {a}
  /\ UNCHANGED <<config, edits, record, files, started, faults, pc, private>>

-----------------------------------------------------------------------------
(* A check: arguments, resolution, environment.                             *)

Move(c, place) == pc' = [pc EXCEPT ![c] = place]
Report(c, verdict) == /\ Move(c, "result")
                      /\ status' = [status EXCEPT ![c] = verdict]
\* The process ends, and leaves its exit code.
Leave(c, place, code) ==
  /\ Move(c, place)
  /\ exit' = [exit EXCEPT ![c] = code]
  /\ args' = [args EXCEPT ![c] = Usual]
  /\ cfg' = [cfg EXCEPT ![c] = Absent]
  /\ graph' = [graph EXCEPT ![c] = NotRun]
  /\ buffer' = [buffer EXCEPT ![c] = {}]
  /\ status' = [status EXCEPT ![c] = "none"]
End(c, code) == Leave(c, "over", code)

Start(c) ==
  /\ pc[c] = "idle"
  /\ Overlaps \/ \A d \in Checks : pc[d] \in Over
  /\ Move(c, "resolve")
  /\ \E a \in Arguments : args' = [args EXCEPT ![c] = a]
  /\ started' = started + 1
  /\ turn' = [turn EXCEPT ![c] = started + 1]
  /\ UNCHANGED <<config, edits, record, files, doctor, faults, cfg,
                 graph, buffer, status, exit>>

\* --repo-path does not exist: exit 4 and no artefact.
NoRepository(c) ==
  /\ pc[c] = "idle"
  /\ End(c, 4)
  /\ UNCHANGED <<shared, turn>>

\* _load_yml is called outside of the handler of IntegrationConfigError.
Resolve(c) ==
  /\ pc[c] = "resolve"
  /\ LET k == Selected(args[c].explicit)
     IN \/ /\ k.file = "unreadable"
           /\ End(c, 1)
        \/ /\ k.file # "unreadable"
           /\ cfg' = [cfg EXCEPT ![c] = k]
           /\ IF Buildable(k) THEN Move(c, "ready") /\ UNCHANGED status
                              ELSE Report(c, "UNSUPPORTED")
           /\ UNCHANGED <<args, graph, buffer, exit>>
  /\ UNCHANGED <<shared, turn>>

KnownOnly(c) == args[c].known             \* defect: no look at the environment
\* validate_env, and get_requirement in _run_integration
MayRun(c) ==
  /\ args[c].key => cfg[c].keys = "own"
  /\ cfg[c].needs => args[c].has
  /\ args[c].known

Refuse(c) ==
  /\ pc[c] = "ready"
  /\ ~MayRun(c)
  /\ Report(c, "ERROR")
  /\ UNCHANGED <<shared, turn, args, cfg, graph, buffer, exit>>

-----------------------------------------------------------------------------
(* The recipe.                                                              *)

\* _run_dry, which names a trajectory nobody writes.
DryRun(c) ==
  /\ pc[c] = "ready"
  /\ MayRun(c)
  /\ cfg[c].mode = "dry-run"
  /\ Move(c, "observe")
  /\ graph' = [graph EXCEPT ![c] = [NotRun EXCEPT !.run = "dry", !.path = TRUE,
                                                  !.messages = "answer"]]
  /\ UNCHANGED <<shared, turn, args, cfg, buffer, status, exit>>

\* _run_with_factory: no module, no factory, or a factory that raises.
LoadFails(c) ==
  /\ pc[c] = "ready"
  /\ MayRun(c)
  /\ cfg[c].mode = "factory"
  /\ Report(c, "ERROR")
  /\ graph' = [graph EXCEPT ![c].run = "failed"]
  /\ UNCHANGED <<shared, turn, args, cfg, buffer, exit>>

\* The graph's invocation; an exception in it, or a result that is no mapping,
\* leaves no messages.  The target may write its trajectory now, or later.
Invoke(c) ==
  /\ pc[c] = "ready"
  /\ MayRun(c)
  /\ cfg[c].mode = "factory"
  /\ Move(c, "observe")
  /\ \E t \in Targets :
       /\ graph' = [graph EXCEPT ![c] =
                      [run |-> "target", path |-> t.path, messages |-> t.messages,
                       wrote |-> t.wrote, late |-> t.late]]
       /\ record' = IF t.wrote = "absent" THEN record ELSE t.wrote
  /\ UNCHANGED <<config, edits, files, started, doctor, faults, turn,
                 args, cfg, buffer, status, exit>>

\* What the target wrote in the background, or at the exit of the process.
Flush(c) ==
  /\ pc[c] \notin Over
  /\ graph[c].late = "due"
  /\ graph' = [graph EXCEPT ![c].late = "done"]
  /\ record' \in {t.wrote : t \in Targets} \ {"absent"}
  /\ UNCHANGED <<config, edits, files, started, doctor, faults, pc,
                 turn, args, cfg, buffer, status, exit>>

\* The target calls sys.exit, which is not an Exception.
TargetExits(c) ==
  /\ pc[c] = "ready"
  /\ MayRun(c)
  /\ cfg[c].mode = "factory"
  /\ \E code \in {0, 1} : End(c, code)
  /\ UNCHANGED <<shared, turn>>

-----------------------------------------------------------------------------
(* The observer, the normalizer and the requirement.                        *)

Obs(kind, producer, ref) == [kind |-> kind, producer |-> producer, ref |-> ref]

StubIsSystem(c) ==                        \* defect: the stub's call is the system's
  {Obs("message", "system", FALSE), Obs("model", "system", FALSE),
   Obs("checkpoint", "system_state", TRUE)}
\* _dry_run_observations: the harness's own model request, the messages it made
\* up, and the trajectory
DryObservations(c) ==
  {Obs("model", "harness", FALSE), Obs("message", "system", FALSE),
   Obs("model", "system", FALSE), Obs("checkpoint", "system_state", TRUE)}

\* _graph_observations: the rows of the trajectory ...
RowObservations ==
  CASE record = "steps"   -> {Obs("step", "system_state", FALSE)}
    [] record = "records" -> {Obs("step", "system_state", FALSE),
                              Obs("model", "system_state", TRUE)}
    [] OTHER -> {}
\* ... and, when it has none, the messages of the final state, which refer to
\* the trajectory the graph names.
MessageObservations(g) ==
  (IF g.messages \in {"user", "answer"}
   THEN {Obs("message", "system_state", g.path)} ELSE {})
  \cup (IF g.messages = "answer" THEN {Obs("model", "system_state", g.path)} ELSE {})
  \cup (IF g.path THEN {Obs("checkpoint", "system_state", TRUE)} ELSE {})

HasRows(g) == g.path /\ record \in {"other", "odd", "steps", "records"}
Observed(c) == IF graph[c].run = "dry" THEN DryObservations(c)
               ELSE IF HasRows(graph[c]) THEN RowObservations
               ELSE MessageObservations(graph[c])
\* An AttributeError of row.get or msg.get.
ObserverRaises(c) ==
  /\ graph[c].run = "target"
  /\ IF HasRows(graph[c]) THEN record = "odd" ELSE graph[c].messages = "odd"

\* _run_integration calls observe twice, and each call reads the file and adds
\* to the same buffer.
Observe(c) ==
  /\ pc[c] \in {"observe", "again"}
  /\ IF ObserverRaises(c)
     THEN /\ Report(c, "ERROR")
          /\ UNCHANGED buffer
     ELSE /\ Move(c, IF pc[c] = "observe" THEN "again" ELSE "judge")
          /\ buffer' = [buffer EXCEPT ![c] = @ \cup Observed(c)]
          /\ UNCHANGED status
  /\ UNCHANGED <<shared, turn, args, cfg, graph, exit>>

Eligible == {"system", "system_state"}
NativeOnly(b) ==                          \* defect: exported state is forgotten
  \E o \in b : o.ref /\ o.producer = "system"
\* LangGraphStateNormalizer.normalize: framework_persists, category B
Persists(b) == \E o \in b : o.ref /\ o.producer \in Eligible
\* Article121AutomaticLoggingTest.assert_evidence, called without evaluate
ChecksPass(b) ==
  /\ \A o \in b : o.producer # "harness"
  /\ b # {}
  /\ Persists(b)
  /\ \E o \in b : o.kind \in {"step", "tool", "model"} /\ o.producer \in Eligible

\* _derive_status
Judge(c) ==
  /\ pc[c] = "judge"
  /\ Report(c, IF ChecksPass(buffer[c]) THEN "PASS" ELSE "FAIL")
  /\ UNCHANGED <<shared, turn, args, cfg, graph, buffer, exit>>

-----------------------------------------------------------------------------
(* The artefacts and the exit code.                                         *)

SummaryFirst(f) == CASE f = "result" -> "summary"   \* defect: another order
                     [] f = "summary" -> "evidence"
                     [] OTHER -> "exit"
StopAtEvidence(f) == IF f = "result" THEN "evidence" ELSE "exit"
                                          \* defect: the summary is forgotten
NextStage(f) == CASE f = "result" -> "evidence"
                  [] f = "evidence" -> "summary"
                  [] OTHER -> "exit"

\* _write_artefacts
Write(c) ==
  /\ pc[c] \in Artefacts
  /\ files' = [files EXCEPT ![pc[c]] = turn[c]]
  /\ Move(c, NextStage(pc[c]))
  /\ UNCHANGED <<config, edits, record, started, doctor, faults,
                 private>>

\* EXIT_CODE
ExitCode(s) == CASE s = "PASS" -> 0 [] s = "FAIL" -> 1 [] s = "UNKNOWN" -> 2
                 [] s = "UNSUPPORTED" -> 3 [] OTHER -> 4

Return(c) ==
  /\ pc[c] = "exit"
  /\ Leave(c, "returned", IF status[c] \in FailOn THEN ExitCode(status[c]) ELSE 0)
  /\ UNCHANGED <<shared, turn>>

\* An exception outside of the handlers: an output that cannot be printed,
\* evidence that JSON cannot hold, a directory that cannot be written.
Raise(c) ==
  /\ pc[c] \in Artefacts
  /\ faults < MaxFaults
  /\ faults' = faults + 1
  /\ End(c, 1)
  /\ UNCHANGED <<config, edits, record, files, started, doctor, turn>>

Kill(c) ==
  /\ pc[c] \notin Over
  /\ faults < MaxFaults
  /\ faults' = faults + 1
  /\ End(c, NoCode)
  /\ UNCHANGED <<config, edits, record, files, started, doctor, turn>>

-----------------------------------------------------------------------------
\* Everything a check does once the target has returned.
Finish(c) == Observe(c) \/ Judge(c) \/ Write(c) \/ Return(c)

CheckStep(c) ==
  \/ Start(c) \/ NoRepository(c) \/ Resolve(c) \/ Refuse(c)
  \/ DryRun(c) \/ LoadFails(c) \/ Invoke(c) \/ Flush(c) \/ TargetExits(c)
  \/ Finish(c) \/ Raise(c) \/ Kill(c)

\* Every check is over.
Done == (\A c \in Checks : pc[c] \in Over \ {"idle"}) /\ UNCHANGED vars

Next == Edit \/ CreateTemplate \/ Doctor \/ (\E c \in Checks : CheckStep(c)) \/ Done

Spec == Init /\ [][Next]_vars

-----------------------------------------------------------------------------
(* Properties.                                                              *)

\* PASS is given only when the target's graph was invoked and names the
\* trajectory it keeps: neither the messages the dry run makes up nor a final
\* state in memory pass.
PassNeedsNamedRecord ==
  \A c \in Checks : status[c] = "PASS" =>
    graph[c].run = "target" /\ graph[c].path

\* A target that, during its invocation, wrote the rows of its model and tool
\* calls to the trajectory it names is not failed, as long as no other check runs
\* meanwhile: both readings come after the target returned, and what it exports
\* of its state counts as its own.
RecordedRunPasses ==
  \A c \in Checks :
    ~Overlaps /\ graph[c].path /\ graph[c].wrote = "records" => status[c] # "FAIL"

\* The target's code runs only where a verdict can be given and the environment
\* holds what the configuration requires and no provider key, unless the
\* configuration named other variables.
NoInvocationInVain ==
  \A c \in Checks : graph[c].run \in {"failed", "target"} =>
    /\ args[c].known
    /\ args[c].key => cfg[c].keys = "own"
    /\ cfg[c].needs => args[c].has
    /\ cfg[c].mode = "factory"

\* In one output directory evidence.json is never of a later check than the
\* result.json that refers to it, nor summary.md of a later one than evidence.json,
\* whatever raises or is killed, as long as no two checks overlap.
ArtefactsInOrder ==
  ~Overlaps => /\ files["evidence"] <= files["result"]
              /\ files["summary"] <= files["evidence"]

\* A check that returned leaves no older artefact behind, whatever was killed
\* before it, as long as no two checks overlap.
ReturnedCheckLeavesAll ==
  ~Overlaps => \A c \in Checks, f \in Artefacts :
                pc[c] = "returned" => files[f] >= turn[c]

\* What "doctor: OK" is worth, as long as nobody edits the files: of a repository
\* it had a name for, a check with the same selection finds a file and can read
\* it, though it may be UNSUPPORTED all the same; without a name, a file given
\* with --config is there, and may be one that the check breaks on.
DoctorOkMeansFound ==
  [][\A c \in Checks, a \in doctor :
       pc[c] = "resolve" /\ args[c].explicit = a.explicit =>
         /\ a.named => exit'[c] # 1
         /\ (a.named \/ a.explicit) /\ pc'[c] \in {"ready", "result"} =>
              cfg'[c].file = "mapping"]_vars

\* A target passes if it left a record under the name of a trajectory, and only then.
PassMeansRecorded == PassNeedsNamedRecord /\ RecordedRunPasses

\* Checks that do not overlap leave their artefacts whole and in order, whatever is
\* killed on the way.
ArtefactsOfOneCheck == ArtefactsInOrder /\ ReturnedCheckLeavesAll
=============================================================================
