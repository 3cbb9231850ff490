------------------------------- MODULE Probe -------------------------------
(***************************************************************************)
(* One call of _run_pipeline (src/compliance/pipeline/driver.py): the      *)
(* probe of one agent framework, in a virtualenv of the host or in the     *)
(* runtime container, the search for the trajectory it left, the evidence  *)
(* the framework's adapter makes of it, and the verdict of the Article     *)
(* 12(1) requirement over that evidence.                                   *)
(*                                                                         *)
(* Abstracted: a trajectory is one of a few contents, told apart by what   *)
(* the adapters do with them.  Every adapter stamps the current schema     *)
(* version and an origin that is eligible for PASS, and makes no event of  *)
(* kind "error", so the checks of the requirement on these always succeed. *)
(***************************************************************************)
EXTENDS Naturals

CONSTANTS
  Executors, \* where the probe runs: a subset of AllExecutors
  Adapters   \* the adapter whose probe it is: a subset of AllAdapters

\* "prepared" is the container with container_skip_install.
AllExecutors == {"subprocess", "container", "prepared"}
AllAdapters  == {"minisweagent", "gptme", "nanobot", "corecoder", "pocketflow"}

ASSUME ProbeAssumption ==
  Executors \subseteq AllExecutors /\ Adapters \subseteq AllAdapters

VARIABLES
  executor,   \* parameter of the call
  adapter,    \* parameter of the call
  bundle,     \* the evidence file of path mode: "unwanted", "wanted", "written"
  pc,         \* where the call is
  installed,  \* can the probe import the framework?
  agent,      \* what the framework's agent did under the probe
  durable,    \* did the framework itself write a durable record of its run?
  dropped,    \* the files the framework left in its working directory
  output,     \* the file the probe wrote at COMPLIANCE_TRAJECTORY_PATH
  result,     \* is there a container_result.json next to it?
  returncode, \* ProbeOutputs.returncode
  trajectory, \* the file collect_evidence finds at trajectory_path
  evidence,   \* the Evidence
  verdict,    \* RunRecord.status
  hostError   \* has a write of the pipeline itself, on the host, failed?

vars == <<executor, adapter, bundle, pc, installed, agent, durable, dropped, output,
          result, returncode, trajectory, evidence, verdict, hostError>>
call  == <<executor, adapter>>
truth == <<agent, durable, dropped>>
host  == <<bundle, hostError>>

\* Trajectories by the entries (messages, turns, events) they hold: none, only
\* ones the adapter leaves out, only terminal ones, or steps as well.
Trajectories == {"none", "ignored", "terminal", "steps"}
\* And: no file, no JSON, JSON the adapter raises on, the report of a probe
\* that caught an exception, the result file of the container's runtime.
Contents == Trajectories \cup {"absent", "garbage", "odd", "error", "result"}

\* A file a framework left, by what _scan_artifacts tells files apart by: the
\* format its suffix names, its base name, the directory it is in.
Files == [format : {"recording", "other"},    \* .json, .jsonl, .log and .txt
          name   : {"own", "harness"},
          place  : {"visited", "skipped"}]    \* venv, .git, node_modules, ...

ProbeStatuses == {"ok", "probe_failed", "no_trajectory", "adapter_raised"}
Evidences == [status   : ProbeStatuses \cup {"none"},
              events   : {"none", "terminal", "steps"},
              persists : BOOLEAN,   \* framework_persists_durably, with a path
              absence  : BOOLEAN]   \* observation_quality: "observed_absence"
Verdicts == {"PASS", "FAIL", "UNKNOWN", "ERROR"}
PCs == {"prepare", "install", "run", "report", "locate", "collect", "bundle",
        "evaluate", "done", "raised"}

NoEvents(status) == [status |-> status, events |-> "none",
                     persists |-> FALSE, absence |-> FALSE]

\* What collect_evidence gets is the outcome of a process that has ended.
TypeOK ==
  /\ executor \in Executors
  /\ adapter \in Adapters
  /\ bundle \in {"unwanted", "wanted", "written"}
  /\ pc \in PCs
  /\ installed \in BOOLEAN
  /\ agent \in {"idle", "failed", "ended"}
  /\ durable \in BOOLEAN
  /\ dropped \subseteq Files
  /\ output \in Contents \ {"result"}
  /\ result \in BOOLEAN
  /\ returncode \in {"none", "zero", "nonzero"}
  /\ trajectory \in Contents
  /\ evidence \in Evidences
  /\ verdict \in Verdicts \cup {"none"}
  /\ hostError \in BOOLEAN
  /\ pc \in {"report", "locate", "collect"} => returncode # "none"
  /\ pc = "raised" => hostError
  /\ pc = "done" => evidence.status # "none" /\ verdict # "none"

Init ==
  /\ executor \in Executors
  /\ adapter \in Adapters
  /\ bundle \in {"unwanted", "wanted"}
  /\ pc = "prepare"
  /\ installed = FALSE
  /\ agent = "idle"
  /\ durable = FALSE
  /\ dropped = {}
  /\ output = "absent"
  /\ result = FALSE
  /\ returncode = "none"
  /\ trajectory = "absent"
  /\ evidence = NoEvents("none")
  /\ verdict = "none"
  /\ hostError = FALSE

-----------------------------------------------------------------------------
(* The host's own files: the work directory of the call, and the evidence   *)
(* file that path mode asks for.  Neither write is within the try that      *)
(* turns an exception into evidence, so the call ends without a record.     *)

Prepare ==
  /\ pc = "prepare"
  /\ pc' = "install"
  /\ UNCHANGED <<call, host, installed, truth, output, result, returncode, trajectory,
                 evidence, verdict>>

WriteBundle ==
  /\ pc = "bundle"
  /\ pc' = "evaluate"
  /\ bundle' = "written"
  /\ UNCHANGED <<call, installed, truth, output, result, returncode, trajectory, evidence,
                 verdict, hostError>>

HostFails ==
  /\ pc \in {"prepare", "bundle"}
  /\ pc' = "raised"
  /\ hostError' = TRUE
  /\ UNCHANGED <<call, bundle, installed, truth, output, result, returncode, trajectory,
                 evidence, verdict>>

-----------------------------------------------------------------------------
(* The exceptions of run_probe: no virtualenv, no container engine, a       *)
(* timeout of the host.                                                     *)

LetItRaise(rc) == /\ pc' = "raised"         \* defect: not caught
                  /\ UNCHANGED <<trajectory, returncode>>
\* _stub_probe_outputs_from_error
Stub(rc) ==
  /\ pc' = "collect"
  /\ trajectory' = "absent"
  /\ returncode' = rc

Raise ==
  /\ pc \in {"install", "run", "report"}
  /\ Stub("nonzero")
  /\ agent' = IF pc = "run" THEN "failed" ELSE agent
  /\ UNCHANGED <<call, host, installed, durable, dropped, output, result, evidence,
                 verdict>>

-----------------------------------------------------------------------------
(* Installation.  Nobody reads the exit status of pip in the virtualenv, and *)
(* a prepared image has the framework or not; `exec` of the runtime goes on  *)
(* only when the installation succeeded.                                     *)

ContainerExits(rc, written) ==
  /\ pc' = "locate"
  /\ returncode' = rc
  /\ result' = written

Install ==
  /\ pc = "install"
  /\ pc' = "run"
  /\ installed' \in IF executor = "container" THEN {TRUE} ELSE BOOLEAN
  /\ UNCHANGED <<call, host, truth, output, result, returncode, trajectory, evidence,
                 verdict>>

\* The setup or the installation fails in the container, or the engine does.
InstallFails ==
  /\ pc = "install"
  /\ executor # "subprocess"
  /\ \E written \in BOOLEAN : ContainerExits("nonzero", written)
  /\ UNCHANGED <<call, host, truth, installed, output, trajectory, evidence, verdict>>

\* A repository without a build strategy that `exec` supports.
Unsupported ==
  /\ pc = "install"
  /\ executor = "container"
  /\ ContainerExits("zero", TRUE)
  /\ UNCHANGED <<call, host, truth, installed, output, trajectory, evidence, verdict>>

-----------------------------------------------------------------------------
(* The probe.                                                               *)

Records == Trajectories \ {"none"}

\* What a probe leaves whose agent ran to its end.  mini-swe-agent writes the
\* trajectory itself; the other probes write it, and that of gptme holds what
\* it read back from the framework's log.
Written(a) ==
  CASE a = "minisweagent" -> {"absent", "garbage", "odd"} \cup Trajectories
    [] a = "gptme"        -> {"none", "odd", "steps"}
    [] a = "nanobot"      -> Trajectories
    [] a = "corecoder"    -> {"none", "ignored", "steps"}
    [] a = "pocketflow"   -> {"none"}

\* What a probe leaves that failed: its report, when it caught the exception.
Leftovers ==
  {"absent"}
    \cup (IF adapter \in {"nanobot", "pocketflow", "gptme"} THEN {"error"} ELSE {})
    \cup (IF installed THEN {"garbage"} ELSE {})
    \cup (IF installed /\ adapter = "minisweagent" THEN Trajectories ELSE {})

ProbeExits(rc) ==
  /\ returncode' = rc
  /\ IF executor = "subprocess"
     THEN pc' = "collect" /\ trajectory' = output'
     ELSE pc' = "report" /\ UNCHANGED trajectory

Drops == IF installed /\ adapter = "pocketflow" THEN SUBSET Files ELSE {{}}

\* The probe of gptme raises when the framework's log is missing or empty.
AgentEnds ==
  /\ pc = "run"
  /\ installed
  /\ agent' = "ended"
  /\ output' \in Written(adapter)
  /\ durable' = \/ adapter = "gptme"
                \/ adapter = "minisweagent" /\ output' \in Records
  /\ dropped' \in Drops
  /\ ProbeExits("zero")
  /\ UNCHANGED <<call, host, installed, result, evidence, verdict>>

\* The import or the agent raises, or the framework ends the process.
AgentFails ==
  /\ pc = "run"
  /\ agent' = "failed"
  /\ dropped' \in Drops
  /\ \/ /\ output' \in Leftovers
        /\ ProbeExits("nonzero")
     \/ /\ installed
        /\ output' = "absent"
        /\ ProbeExits("zero")
  /\ durable' = (adapter = "minisweagent" /\ output' \in Records)
  /\ UNCHANGED <<call, host, installed, result, evidence, verdict>>

\* The runtime writes its result and exits 0 iff the probe did; or it cannot.
Report ==
  /\ pc = "report"
  /\ \/ ContainerExits(returncode, TRUE)
     \/ ContainerExits("nonzero", FALSE)
  /\ UNCHANGED <<call, host, truth, installed, output, trajectory, evidence, verdict>>

\* _find_trajectory: the exact name, or the last other JSON file of the
\* directory but "result.json", which is not what the runtime's file is called.
Found == IF output # "absent" THEN output ELSE IF result THEN "result" ELSE "absent"

\* The copy into the work directory, whose OSError is ignored.
Locate ==
  /\ pc = "locate"
  /\ trajectory' \in {Found, "absent"}
  /\ pc' = "collect"
  /\ UNCHANGED <<call, host, truth, installed, output, result, returncode, evidence,
                 verdict>>

-----------------------------------------------------------------------------
(* collect_evidence and the adapters.                                       *)

Category(a) ==
  CASE a = "minisweagent" -> "A"
    [] a = "gptme"        -> "B"
    [] a = "nanobot"      -> "C"
    [] a = "corecoder"    -> "D"
    [] a = "pocketflow"   -> "E"

LogNotVisible(a, c) == a = "minisweagent" /\ c \in Records   \* defect: no proxy
\* mini-swe-agent: a trajectory with messages.  gptme: the log file next to the
\* trajectory, where no executor puts it, or the size the probe reports.
Persists(a, c) ==
  \/ a = "minisweagent" /\ c \in Records
  \/ a = "gptme" /\ c \in Trajectories

ScansArtifacts == FALSE                     \* defect: the wrong directory
\* _scan_artifacts of the directory of the trajectory: the working directory of
\* the probe, unless that is in the container.
ScanFinds ==
  /\ executor = "subprocess"
  /\ \E f \in dropped :
       f.format = "recording" /\ f.name = "own" /\ f.place = "visited"

\* parse_trajectory.  A file that is not JSON is caught: an empty bundle.  The
\* probe of PocketFlow takes its baseline after the flow has run, so it reports
\* no file; nor does a result file that is taken for its trajectory.
Parsed(a, c) ==
  [status   |-> "ok",
   events   |-> IF c \in {"terminal", "steps"} THEN c ELSE "none",
   persists |-> Persists(a, c),
   absence  |-> a = "pocketflow" /\ c \in {"none", "result"} /\ ~ScanFinds]

IgnoreStatus ==                             \* defect: exit status not read
  CASE trajectory = "absent" -> NoEvents("no_trajectory")
    [] trajectory = "odd"    -> NoEvents("adapter_raised")
    [] OTHER                 -> Parsed(adapter, trajectory)
Collected ==
  CASE returncode # "zero"                           -> NoEvents("probe_failed")
    [] returncode = "zero" /\ trajectory = "absent"  -> NoEvents("no_trajectory")
    [] returncode = "zero" /\ trajectory = "odd"     -> NoEvents("adapter_raised")
    [] returncode = "zero" /\ trajectory \notin {"absent", "odd"} ->
         Parsed(adapter, trajectory)

Collect ==
  /\ pc = "collect"
  /\ pc' = IF bundle = "wanted" THEN "bundle" ELSE "evaluate"
  /\ evidence' = Collected
  /\ UNCHANGED <<call, host, truth, installed, output, result, returncode, trajectory,
                 verdict>>

-----------------------------------------------------------------------------
(* The requirement.                                                         *)

HarnessRecordCounts(a, ev) == ev.events = "steps"   \* defect: who wrote it?
\* assert_evidence: whether every check passes.
ChecksPass(a, ev) ==
  /\ ev.events # "none"
  /\ Category(a) \in {"A", "B"}
  /\ ev.persists
  /\ ev.events = "steps"

\* RequirementTest.evaluate
Evaluated(a, ev) ==
  IF ev.status # "ok" THEN "ERROR"
  ELSE IF ev.events = "none" /\ ~ev.absence THEN "UNKNOWN"
  ELSE IF ChecksPass(a, ev) THEN "PASS" ELSE "FAIL"

Evaluate ==
  /\ pc = "evaluate"
  /\ pc' = "done"
  /\ verdict' = Evaluated(adapter, evidence)
  /\ UNCHANGED <<call, host, truth, installed, output, result, returncode, trajectory,
                 evidence>>

-----------------------------------------------------------------------------
Pipeline ==
  \/ Prepare \/ WriteBundle \/ HostFails
  \/ Raise
  \/ Install \/ InstallFails \/ Unsupported
  \/ AgentEnds \/ AgentFails
  \/ Report \/ Locate
  \/ Collect \/ Evaluate

Returned == pc \in {"done", "raised"} /\ UNCHANGED vars

Next == Pipeline \/ Returned

Spec     == Init /\ [][Next]_vars
\* Every process the pipeline waits for has a timeout.
FairSpec == Spec /\ WF_vars(Pipeline)

-----------------------------------------------------------------------------
(***************************************************************************)
(* Properties.                                                             *)
(***************************************************************************)

\* "A probe that crashed, never wrote a trajectory, or tripped the adapter
\* parser is a setup problem ... never FAIL": the agent ran to its end.
\* It holds as long as no result file of the runtime was taken for the trajectory
\* of a probe that had written none.
OnlyTrajectoriesDecide ==
  verdict \in {"PASS", "FAIL"} /\ trajectory # "result" => agent = "ended"

\* PASS means that the framework itself, not the probe, left a durable record
\* with a step in it, whatever was installed, copied or found on the way.
PassNeedsDurableRecord ==
  verdict = "PASS" => agent = "ended" /\ durable /\ output = "steps"

\* And whoever left such a record, and whose trajectory arrived, passes: the
\* verdict is the same in the virtualenv and in the container, although the
\* adapter of gptme can see the framework's log in neither.
RecordedRunPasses ==
  verdict # "none" /\ agent = "ended" /\ durable
    /\ returncode = "zero" /\ trajectory = "steps" => verdict = "PASS"

\* "A real framework recorder would have left at least one such file": on the
\* host, whatever PocketFlow left of the run it is failed for is of no format
\* that records are kept in, or bears the name of a file of the harness, or lies
\* in a directory that no framework records in.
AbsenceIsAbsence ==
  verdict = "FAIL" /\ adapter = "pocketflow" /\ executor = "subprocess" =>
    \A f \in dropped :
      f.format = "other" \/ f.name = "harness" \/ f.place = "skipped"

\* "Always returns a fully populated RunRecord", whatever the framework, its
\* probe, the virtualenv or the container engine raise; only a host on which the
\* pipeline cannot make its own directory or file ends a call without one.
EventuallyDecided == <>(pc = "done" \/ hostError)

\* A framework passes if it left a durable record that arrived, and only then.
PassMeansRecorded == PassNeedsDurableRecord /\ RecordedRunPasses
=============================================================================
