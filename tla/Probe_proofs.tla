---------------------------- MODULE Probe_proofs ----------------------------
(***************************************************************************)
(* Proofs about Probe, for any executors and adapters: type correctness,   *)
(* and what a verdict says about what the framework really did.            *)
(***************************************************************************)
EXTENDS Probe, TLAPS

-----------------------------------------------------------------------------
(***************************************************************************)
(* The inductive invariant.  A verdict is a function of the evidence, the  *)
(* evidence of what was collected, and what was collected came from a      *)
(* probe that left it; so each link is kept until the last one is made.    *)
(***************************************************************************)

\* A probe that exited with status 0 and left a file has run its agent.
CleanExit ==
  /\ returncode = "zero" /\ output # "absent" => agent = "ended"
  /\ agent = "ended" => output \in Written(adapter)
  /\ pc \in {"prepare", "install"} =>
       agent = "idle" /\ output = "absent" /\ returncode = "none"
  /\ pc = "run" => agent = "idle" /\ output = "absent" /\ returncode = "none"

\* The file that is collected is the probe's, or the runtime's of a container.
Provenance ==
  /\ trajectory \in {output, "result", "absent"}
  /\ trajectory = "result" => executor # "subprocess" /\ output = "absent"
  /\ pc \in {"prepare", "install", "run", "report", "locate"} => trajectory = "absent"
  /\ executor = "subprocess" => pc \notin {"report", "locate"}

\* The framework wrote a record if mini-swe-agent's trajectory has one, and
\* whenever a gptme probe ended.
DurableMeans ==
  agent = "ended" =>
    (durable <=> \/ adapter = "gptme"
                 \/ adapter = "minisweagent" /\ output \in Records)

\* Evidence and verdict are what collect_evidence and evaluate make of it.
EvidenceCollected == pc \in {"bundle", "evaluate", "done"} => evidence = Collected
VerdictEvaluated ==
  /\ pc = "done"   => verdict = Evaluated(adapter, evidence)
  /\ verdict # "none" => pc = "done"

IInv ==
  /\ TypeOK
  /\ CleanExit
  /\ Provenance
  /\ DurableMeans
  /\ EvidenceCollected
  /\ VerdictEvaluated

-----------------------------------------------------------------------------
\* collect_evidence yields well-formed evidence whatever it is given.
LEMMA CollectedType ==
  ASSUME TypeOK
  PROVE  Collected \in Evidences /\ Collected.status # "none"
<1>1. returncode # "zero" \/ trajectory = "absent" \/ trajectory = "odd"
      \/ (returncode = "zero" /\ trajectory \notin {"absent", "odd"})
  OBVIOUS
<1>2. Parsed(adapter, trajectory) \in Evidences
      /\ Parsed(adapter, trajectory).status = "ok"
  <2>1. Persists(adapter, trajectory) \in BOOLEAN
    BY DEF Persists
  <2>2. ScanFinds \in BOOLEAN
    BY DEF ScanFinds, TypeOK
  <2>3. QED
    BY <2>1, <2>2 DEF Parsed, Evidences, ProbeStatuses
<1>3. \A s \in ProbeStatuses : NoEvents(s) \in Evidences /\ NoEvents(s).status = s
  BY DEF NoEvents, Evidences
<1>4. QED
  BY <1>1, <1>2, <1>3 DEF Collected, ProbeStatuses

\* The requirement returns a verdict on any evidence.
LEMMA EvaluatedType ==
  ASSUME NEW a, NEW ev
  PROVE  Evaluated(a, ev) \in Verdicts
BY DEF Evaluated, Verdicts

\* Whatever a probe leaves is a file content.
LEMMA FilesTyped ==
  /\ \A a \in AllAdapters : Written(a) \subseteq Contents \ {"result", "error"}
  /\ Leftovers \subseteq Contents \ {"result"}
BY DEF Written, Leftovers, Contents, Trajectories, AllAdapters

\* A probe that has not begun has left no file.
LEMMA InitIInv == ASSUME Init PROVE IInv
<1>1. TypeOK
  BY DEF Init, TypeOK, NoEvents, Evidences, PCs, Contents
<1>2. QED
  BY <1>1 DEF Init, IInv, CleanExit, Provenance, DurableMeans,
              EvidenceCollected, VerdictEvaluated

-----------------------------------------------------------------------------
\* The host's directory and file are nothing the verdict is made of.
LEMMA HostStep == ASSUME IInv, Prepare \/ WriteBundle \/ HostFails PROVE IInv'
<1>1. TypeOK'
  <2>1. CASE Prepare
    BY <2>1 DEF IInv, Prepare, TypeOK, call, host, truth, PCs
  <2>2. CASE WriteBundle
    BY <2>2 DEF IInv, WriteBundle, TypeOK, call, truth, PCs
  <2>3. CASE HostFails
    BY <2>3 DEF IInv, HostFails, TypeOK, call, truth, PCs
  <2>4. QED
    BY <2>1, <2>2, <2>3
<1>2. Collected' = Collected
  BY DEF Prepare, WriteBundle, HostFails, Collected, Parsed, Persists, ScanFinds, call, truth
<1>3. (CleanExit /\ Provenance /\ DurableMeans)'
  BY DEF IInv, Prepare, WriteBundle, HostFails, call, truth, CleanExit, Provenance,
         DurableMeans
<1>4. (EvidenceCollected /\ VerdictEvaluated)'
  BY <1>2 DEF IInv, Prepare, WriteBundle, HostFails, call, EvidenceCollected,
              VerdictEvaluated
<1>5. QED
  BY <1>1, <1>3, <1>4 DEF IInv

\* An exception leaves what the probe has done as it is.
LEMMA RaiseStep == ASSUME IInv, Raise PROVE IInv'
<1>1. TypeOK'
  BY DEF IInv, Raise, Stub, TypeOK, call, host, PCs, Contents
<1>2. QED
  BY <1>1 DEF IInv, Raise, Stub, TypeOK, call, host, CleanExit, Provenance, DurableMeans,
              EvidenceCollected, VerdictEvaluated

\* Nothing of the agent has run before the installation is over.
LEMMA InstallStep ==
  ASSUME IInv, Install \/ InstallFails \/ Unsupported
  PROVE  IInv'
<1>1. TypeOK'
  <2>1. CASE Install
    <3>1. installed' \in BOOLEAN
      BY <2>1 DEF Install
    <3>2. QED
      BY <2>1, <3>1 DEF IInv, Install, TypeOK, call, host, truth, PCs
  <2>2. CASE InstallFails
    BY <2>2 DEF IInv, InstallFails, ContainerExits, TypeOK, call, host, truth, PCs
  <2>3. CASE Unsupported
    BY <2>3 DEF IInv, Unsupported, ContainerExits, TypeOK, call, host, truth, PCs
  <2>4. QED
    BY <2>1, <2>2, <2>3
<1>2. (CleanExit /\ Provenance)'
  BY DEF IInv, Install, InstallFails, Unsupported, ContainerExits, TypeOK, call, host,
         truth, CleanExit, Provenance
<1>3. DurableMeans'
  BY DEF IInv, Install, InstallFails, Unsupported, call, host, truth, DurableMeans, CleanExit
<1>4. (EvidenceCollected /\ VerdictEvaluated)'
  BY DEF IInv, Install, InstallFails, Unsupported, ContainerExits, EvidenceCollected,
         VerdictEvaluated
<1>5. QED
  BY <1>1, <1>2, <1>3, <1>4 DEF IInv

\* How the agent ends decides which files it leaves.
LEMMA AgentStep == ASSUME IInv, ProbeAssumption, AgentEnds \/ AgentFails PROVE IInv'
<1>1. adapter \in AllAdapters
  BY DEF IInv, TypeOK, ProbeAssumption
<1>2. CASE AgentEnds
  <2>1. output' \in Contents \ {"result"}
    BY <1>1, <1>2, FilesTyped DEF AgentEnds
  <2>2. TypeOK'
    BY <1>2, <2>1 DEF IInv, AgentEnds, ProbeExits, Drops, TypeOK, call, host, PCs
  <2>3. CleanExit'
    BY <1>2 DEF IInv, AgentEnds, ProbeExits, TypeOK, call, host, CleanExit
  <2>4. Provenance'
    BY <1>2, <2>1 DEF IInv, AgentEnds, ProbeExits, call, host, Provenance
  <2>5. DurableMeans'
    BY <1>2 DEF AgentEnds, call, host, DurableMeans
  <2>6. (EvidenceCollected /\ VerdictEvaluated)'
    BY <1>2 DEF IInv, AgentEnds, ProbeExits, EvidenceCollected, VerdictEvaluated
  <2>7. QED
    BY <2>2, <2>3, <2>4, <2>5, <2>6 DEF IInv
<1>3. CASE AgentFails
  <2>1. output' \in Contents \ {"result"}
    BY <1>3, FilesTyped DEF AgentFails, Contents
  <2>2. TypeOK'
    BY <1>3, <2>1 DEF IInv, AgentFails, ProbeExits, Drops, TypeOK, call, host, PCs
  <2>3. CleanExit'
    BY <1>3 DEF IInv, AgentFails, ProbeExits, TypeOK, call, host, CleanExit
  <2>4. Provenance'
    BY <1>3, <2>1 DEF IInv, AgentFails, ProbeExits, call, host, Provenance
  <2>5. DurableMeans'
    BY <1>3 DEF AgentFails, call, host, DurableMeans
  <2>6. (EvidenceCollected /\ VerdictEvaluated)'
    BY <1>3 DEF IInv, AgentFails, ProbeExits, EvidenceCollected, VerdictEvaluated
  <2>7. QED
    BY <2>2, <2>3, <2>4, <2>5, <2>6 DEF IInv
<1>4. QED
  BY <1>2, <1>3

\* The report of a container, and the file that is located in it, come from the agent.
LEMMA ContainerStep == ASSUME IInv, Report \/ Locate PROVE IInv'
<1>1. TypeOK'
  <2>1. CASE Report
    BY <2>1 DEF IInv, Report, ContainerExits, TypeOK, call, host, truth, PCs
  <2>2. CASE Locate
    <3>1. Found \in Contents
      BY DEF IInv, TypeOK, Found, Contents
    <3>2. trajectory' \in Contents
      BY <2>2, <3>1 DEF Locate, Contents
    <3>3. QED
      BY <2>2, <3>2 DEF IInv, Locate, TypeOK, call, host, truth, PCs
  <2>3. QED
    BY <2>1, <2>2
<1>2. (CleanExit /\ Provenance)'
  BY DEF IInv, Report, Locate, Found, ContainerExits, TypeOK, call, host, truth, CleanExit,
         Provenance
<1>3. (DurableMeans /\ EvidenceCollected /\ VerdictEvaluated)'
  BY DEF IInv, Report, Locate, ContainerExits, TypeOK, call, host, truth, DurableMeans,
         EvidenceCollected, VerdictEvaluated
<1>4. QED
  BY <1>1, <1>2, <1>3 DEF IInv

\* Nothing the evidence is made of changes any more.
LEMMA CollectStep == ASSUME IInv, Collect PROVE IInv'
<1>1. Collected' = Collected
  BY DEF Collect, Collected, Parsed, Persists, ScanFinds, call, host, truth
<1>2. TypeOK'
  BY CollectedType DEF IInv, Collect, TypeOK, call, host, truth, PCs
<1>3. QED
  BY <1>1, <1>2 DEF IInv, Collect, TypeOK, call, host, truth, CleanExit, Provenance,
                    DurableMeans, EvidenceCollected, VerdictEvaluated

\* The verdict is that of the evidence.
LEMMA EvaluateStep == ASSUME IInv, Evaluate PROVE IInv'
<1>1. Collected' = Collected
  BY DEF Evaluate, Collected, Parsed, Persists, ScanFinds, call, host, truth
<1>2. evidence' = evidence /\ evidence = Collected
  BY DEF IInv, Evaluate, EvidenceCollected
<1>3. TypeOK'
  BY <1>2, CollectedType, EvaluatedType DEF IInv, Evaluate, TypeOK, call, host, truth, PCs, Verdicts
<1>4. (EvidenceCollected /\ VerdictEvaluated)'
  BY <1>1, <1>2 DEF Evaluate, call, host, EvidenceCollected, VerdictEvaluated
<1>5. (CleanExit /\ Provenance /\ DurableMeans)'
  BY DEF IInv, Evaluate, call, host, truth, CleanExit, Provenance, DurableMeans
<1>6. QED
  BY <1>3, <1>4, <1>5 DEF IInv

\* The invariant speaks of the variables only.
LEMMA StutterStep == ASSUME IInv, UNCHANGED vars PROVE IInv'
BY DEF IInv, vars, TypeOK, CleanExit, Provenance, DurableMeans, EvidenceCollected,
       VerdictEvaluated, Collected, Parsed, Persists, ScanFinds

\* The inductive invariant holds in every reachable state of every call.
THEOREM ProbeInvariance == Spec => []IInv
<1>1. Init => IInv
  BY InitIInv
<1>2. IInv /\ [Next]_vars => IInv'
  BY HostStep, RaiseStep, InstallStep, AgentStep, ContainerStep, CollectStep, EvaluateStep,
     StutterStep, ProbeAssumption DEF Next, Pipeline, Returned
<1>3. QED
  BY <1>1, <1>2, PTL DEF Spec

\* Type correctness: collect_evidence is only given processes that ended, and
\* a call that is done has evidence and a verdict.
THEOREM ProbeTypeCorrect == Spec => []TypeOK
<1>1. IInv => TypeOK
  BY DEF IInv
<1>2. QED
  BY <1>1, ProbeInvariance, PTL

-----------------------------------------------------------------------------
\* What a PASS or FAIL rests on: a probe that exited with status 0, and a file.
LEMMA DecidedByFile ==
  ASSUME IInv, verdict \in {"PASS", "FAIL"}
  PROVE  /\ returncode = "zero"
         /\ trajectory \notin {"absent", "odd"}
         /\ evidence = Parsed(adapter, trajectory)
         /\ verdict = Evaluated(adapter, evidence)
<1>1. pc = "done" /\ verdict = Evaluated(adapter, evidence) /\ evidence = Collected
  BY DEF IInv, VerdictEvaluated, EvidenceCollected
<1>2. evidence.status = "ok"
  BY <1>1 DEF Evaluated
<1>3. \A s \in ProbeStatuses : NoEvents(s).status = s
  BY DEF NoEvents
<1>4. returncode = "zero" /\ trajectory \notin {"absent", "odd"}
  BY <1>1, <1>2, <1>3 DEF Collected, ProbeStatuses
<1>5. QED
  BY <1>1, <1>4 DEF Collected

\* Infrastructure decides nothing, unless the runtime's result file was taken
\* for a trajectory.
THEOREM OnlyTrajectories == Spec => []OnlyTrajectoriesDecide
<1>1. ASSUME IInv, verdict \in {"PASS", "FAIL"}, trajectory # "result"
      PROVE  agent = "ended"
  BY <1>1, DecidedByFile DEF IInv, CleanExit, Provenance
<1>2. IInv => OnlyTrajectoriesDecide
  BY <1>1 DEF OnlyTrajectoriesDecide
<1>3. QED
  BY <1>2, ProbeInvariance, PTL

\* A PASS is earned by the framework: it wrote a durable record with a step.
THEOREM PassSound == Spec => []PassNeedsDurableRecord
<1>1. ASSUME IInv, verdict = "PASS"
      PROVE  agent = "ended" /\ durable /\ output = "steps"
  <2>1. ChecksPass(adapter, evidence) /\ evidence = Parsed(adapter, trajectory)
        /\ returncode = "zero"
    BY <1>1, DecidedByFile DEF Evaluated
  <2>2. trajectory = "steps" /\ Persists(adapter, trajectory)
    BY <2>1 DEF ChecksPass, Parsed
  <2>3. output = "steps" /\ agent = "ended"
    BY <1>1, <2>1, <2>2 DEF IInv, Provenance, CleanExit
  <2>4. durable
    BY <1>1, <2>2, <2>3 DEF IInv, DurableMeans, Persists, Records
  <2>5. QED
    BY <2>3, <2>4
<1>2. IInv => PassNeedsDurableRecord
  BY <1>1 DEF PassNeedsDurableRecord
<1>3. QED
  BY <1>2, ProbeInvariance, PTL

\* And a framework that wrote one, and whose trajectory arrived, passes on any
\* executor.
THEOREM PassComplete == Spec => []RecordedRunPasses
<1>1. ASSUME IInv, verdict # "none", agent = "ended", durable,
             returncode = "zero", trajectory = "steps"
      PROVE  verdict = "PASS"
  <2>1. verdict = Evaluated(adapter, Parsed(adapter, trajectory))
    BY <1>1 DEF IInv, VerdictEvaluated, EvidenceCollected, Collected
  <2>2. adapter \in {"gptme", "minisweagent"}
    BY <1>1 DEF IInv, DurableMeans
  <2>3. Persists(adapter, trajectory) /\ Category(adapter) \in {"A", "B"}
    BY <1>1, <2>2 DEF Persists, Category, Records, Trajectories
  <2>4. ChecksPass(adapter, Parsed(adapter, trajectory))
    BY <1>1, <2>3 DEF ChecksPass, Parsed
  <2>5. QED
    BY <1>1, <2>1, <2>4 DEF Evaluated, Parsed
<1>2. IInv => RecordedRunPasses
  BY <1>1 DEF RecordedRunPasses
<1>3. QED
  BY <1>2, ProbeInvariance, PTL

\* PocketFlow is failed on the host for an absence only: whatever it left is
\* nothing that the search for records looks at.
THEOREM AbsenceSound == Spec => []AbsenceIsAbsence
<1>1. ASSUME IInv, verdict = "FAIL", adapter = "pocketflow", executor = "subprocess",
             NEW f \in dropped,
             ~(f.format = "other" \/ f.name = "harness" \/ f.place = "skipped")
      PROVE  FALSE
  <2>1. evidence = Parsed(adapter, trajectory) /\ verdict = Evaluated(adapter, evidence)
    BY <1>1, DecidedByFile
  <2>2. evidence.absence = FALSE
    <3>1. f.format = "recording" /\ f.name = "own" /\ f.place = "visited"
      BY <1>1 DEF IInv, TypeOK, Files
    <3>2. ScanFinds
      BY <1>1, <3>1 DEF ScanFinds
    <3>3. QED
      BY <2>1, <3>2 DEF Parsed
  <2>3. evidence.events # "none"
    BY <1>1, <2>1, <2>2 DEF Evaluated
  <2>4. trajectory \in {"terminal", "steps"} /\ trajectory = output
    BY <1>1, <2>1, <2>3 DEF IInv, Parsed, Provenance
  <2>5. agent = "ended" /\ output \in Written(adapter)
    BY <1>1, <2>4, DecidedByFile DEF IInv, CleanExit
  <2>6. QED
    BY <1>1, <2>4, <2>5 DEF Written
<1>2. IInv => AbsenceIsAbsence
  BY <1>1 DEF AbsenceIsAbsence, IInv, TypeOK
<1>3. QED
  BY <1>2, ProbeInvariance, PTL

\* A framework passes for what it recorded and if what it recorded arrived.
THEOREM PassIsRecord == Spec => []PassMeansRecorded
<1>1. PassNeedsDurableRecord /\ RecordedRunPasses => PassMeansRecorded
  BY DEF PassMeansRecorded
<1>2. QED
  BY <1>1, PassSound, PassComplete, PTL
=============================================================================
