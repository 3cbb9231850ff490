------------------------------ MODULE Runtime ------------------------------
(***************************************************************************)
(* One invocation of the container's runtime (runtime/entrypoint.py): the  *)
(* build strategy is detected, the checkout copied, the installation and   *)
(* the caller's command run one after the other, each under its share of   *)
(* --timeout-seconds, and the result is written for the host to read.      *)
(*                                                                         *)
(* Time is counted in seconds, from when detection is done; a command      *)
(* takes any of the durations in Durations that its budget allows.  What   *)
(* detection only reports (layout, build system, versions), the inventory  *)
(* of `inspect`, and logs are left out.                                    *)
(***************************************************************************)
EXTENDS Integers

CONSTANTS
  Modes,          \* the subcommands: a subset of AllModes
  Checkouts,      \* the repositories, each the set of Signs it shows
  InstallTimeout, \* AdapterCapabilities.install_timeout_seconds
  RunTimeout,     \* AdapterCapabilities.run_timeout_seconds
  Grace,          \* how long a killed process group may take to go
  CopyTime,       \* how long the copy of a checkout may take
  Durations       \* how long a command may take

AllModes == {"inspect", "build", "test", "exec"}

\* What detection finds, the packaging ones in the order it asks for them.
PackagingSigns == <<"uv.lock", "poetry.lock", "Pipfile", "tool.poetry",
                    "pyproject.toml", "requirements.txt", "setup.py/cfg">>
TestSigns == {"tool.pytest", "tool.unittest", "tests"}
Signs == {PackagingSigns[i] : i \in DOMAIN PackagingSigns} \cup TestSigns

Larger(a, b) == IF a >= b THEN a ELSE b

\* The budget _run_probe_container asks for, and the guard run_in_container
\* sets around it.
TimeoutSeconds == Larger(300, InstallTimeout + RunTimeout)
OuterGuard     == TimeoutSeconds + 60

ASSUME RuntimeAssumption ==
  /\ Modes \subseteq AllModes
  /\ Checkouts \subseteq SUBSET Signs
  /\ Durations \subseteq Nat
  /\ InstallTimeout \in Nat /\ RunTimeout \in Nat
  /\ Grace \in Nat /\ CopyTime \in Nat

\* What the adapters and hosts of the repository keep to.
ASSUME BudgetAssumption ==
  /\ CopyTime + Grace <= 60
  /\ RunTimeout <= TimeoutSeconds \div 3

VARIABLES
  mode,      \* parameter: the subcommand
  checkout,  \* parameter: the signs of the repository
  command,   \* parameter: was --command given?
  autoSetup, \* parameter: not --no-auto-setup
  pc,        \* where the invocation is; while a command runs, its label
  hangs,     \* will the running command never end by itself?
  last,      \* how the last recorded command ended
  ran,       \* labels of the recorded commands that exited 0
  spent,     \* the time of the recorded commands
  clock,     \* the time of everything since detection
  status,    \* Result.status
  output,    \* the file at --output
  exit       \* exit status of the process

vars   == <<mode, checkout, command, autoSetup, pc, hangs, last, ran, spent,
            clock, status, output, exit>>
params == <<mode, checkout, command, autoSetup>>
work   == <<hangs, last, ran, spent, clock>>

Labels   == {"setup", "install", "probe", "pytest", "command"}
Statuses == {"success", "failed", "unsupported", "timeout", "error"}
PCs == Labels \cup {"detect", "copy", "report", "publish", "exit", "raised",
                    "rewrite", "ended", "killed"}
Over == pc \in {"ended", "killed"}

TypeOK ==
  /\ mode \in Modes
  /\ checkout \in Checkouts
  /\ command \in BOOLEAN
  /\ autoSetup \in BOOLEAN
  /\ pc \in PCs
  /\ hangs \in BOOLEAN
  /\ last \in {"none", "ok", "failed", "timeout"}
  /\ ran \subseteq Labels
  /\ spent \in Nat
  /\ clock \in Nat
  /\ status \in Statuses \cup {"none"}
  /\ output \in Statuses \cup {"absent", "earlier", "half"}
  /\ exit \in {-1, 0, 1, 2}

-----------------------------------------------------------------------------
(* Detection (runtime/detect.py).                                          *)

UnsupportedStrategies == {"pipenv", "none"}
StrategyOf == [s \in {PackagingSigns[i] : i \in DOMAIN PackagingSigns} |->
  CASE s = "uv.lock"                         -> "uv"
    [] s \in {"poetry.lock", "tool.poetry"}  -> "poetry"
    [] s = "Pipfile"                         -> "pipenv"
    [] s \in {"pyproject.toml", "requirements.txt"} -> "pip"
    [] s = "setup.py/cfg"                    -> "setuptools"]

\* _build_strategy: the first packaging sign decides, and no other is tried.
Strategy ==
  LET shown == {i \in DOMAIN PackagingSigns : PackagingSigns[i] \in checkout}
  IN  IF shown = {} THEN "none"
      ELSE StrategyOf[PackagingSigns[CHOOSE i \in shown : \A j \in shown : i <= j]]

Supported == Strategy \notin UnsupportedStrategies
HasSetup  == Strategy \in {"uv", "poetry"}

\* _detect_test_framework: pyproject.toml outranks the files of tests.
TestsWithPytest ==
  \/ "tool.pytest" \in checkout
  \/ "tests" \in checkout /\ "tool.unittest" \notin checkout

\* The status of an invocation that ends with detection, or "none".
Refusal ==
  IF mode = "inspect" THEN "success"
  ELSE IF \/ mode # "test" /\ ~Supported
          \/ mode = "test" /\ ~command /\ ~TestsWithPytest
       THEN "unsupported"
  ELSE IF mode = "exec" /\ ~command THEN "error" ELSE "none"

\* The installation `test` leaves out when it was told to, or cannot do it.
Installs == Supported /\ (mode = "test" => autoSetup)

\* How the corpus runs it: `exec`, or `test` in a prepared image.
HostRun == command /\ (mode = "exec" \/ ~autoSetup)

Init ==
  /\ mode \in Modes
  /\ checkout \in Checkouts
  /\ command \in IF mode \in {"test", "exec"} THEN BOOLEAN ELSE {FALSE}
  /\ autoSetup \in IF mode = "test" THEN BOOLEAN ELSE {TRUE}
  /\ pc = "detect"
  /\ hangs = FALSE
  /\ last = "none"
  /\ ran = {}
  /\ spent = 0
  /\ clock = 0
  /\ status = "none"
  /\ output \in IF HostRun THEN {"absent"} ELSE {"absent", "earlier"}
  /\ exit = -1

\* The commands ask for the test framework and the strategy before all else.
Detect ==
  /\ pc = "detect"
  /\ status' = Refusal
  /\ pc' = IF Refusal = "none" THEN "copy" ELSE "report"
  /\ UNCHANGED <<params, work, output, exit>>

-----------------------------------------------------------------------------
(* The commands, in the copy of the checkout.                              *)

\* The copy is made from nothing; an OSError ends the invocation.
Copy ==
  /\ pc = "copy"
  /\ \E d \in Durations : d <= CopyTime /\ clock' = clock + d
  /\ pc' = IF ~Installs THEN "command" ELSE IF HasSetup THEN "setup" ELSE "install"
  /\ hangs' \in BOOLEAN
  /\ UNCHANGED <<params, last, ran, spent, status, output, exit>>

CopyFails ==
  /\ pc = "copy"
  /\ status' = "error"
  /\ pc' = "report"
  /\ UNCHANGED <<params, work, output, exit>>

\* The timeout of a command.
Left == Larger(5, TimeoutSeconds - spent)
Half == Larger(30, TimeoutSeconds \div 2)
ExecBudget(l) ==
  IF l = "command" THEN Left
  ELSE Larger(IF l = "setup" THEN 30 ELSE 60, TimeoutSeconds \div 3)
BuildBudget(l) == IF l = "setup" THEN Half ELSE Left
TestBudget(l) ==
  IF l = "probe" THEN 10
  ELSE IF l # "command" THEN Half
  ELSE IF Installs THEN Larger(5, TimeoutSeconds - Half) ELSE TimeoutSeconds
FullBudget(l) ==                      \* defect: forgets the time spent
  IF mode = "exec" /\ l = "command" THEN TimeoutSeconds
  ELSE IF l = "probe" THEN 10 ELSE Larger(60, TimeoutSeconds \div 3)
GreedyInstall(l) ==                   \* defect: an installation may take it all
  IF l = "probe" THEN 10 ELSE Left
Budget(l) ==
  IF mode = "exec" THEN ExecBudget(l)
  ELSE IF mode = "build" THEN BuildBudget(l) ELSE TestBudget(l)

\* What follows a command: nothing follows one that did not exit with 0, but
\* the import of pytest, which is installed if it failed.
Installed ==
  IF mode = "build" THEN "report"
  ELSE IF mode = "test" /\ ~command THEN "probe" ELSE "command"
CarryOn(l, result) ==                 \* defect: a failed setup is ignored
  IF l = "setup" THEN "install"
  ELSE IF l = "install" /\ mode # "build" THEN "command" ELSE "report"
After(l, result) ==
  IF l = "probe" THEN IF result = "ok" THEN "command" ELSE "pytest"
  ELSE IF result # "ok" \/ l = "command" THEN "report"
  ELSE IF l = "setup" THEN "install"
  ELSE IF l = "install" THEN Installed ELSE "command"

StatusOf == [ok |-> "success", failed |-> "failed", timeout |-> "timeout"]

\* A command ends with a result after d seconds.  The probe is not recorded.
Ends(result, d) ==
  /\ pc' = After(pc, result)
  /\ hangs' \in IF pc' \in Labels THEN BOOLEAN ELSE {FALSE}
  /\ clock' = clock + d
  /\ IF pc = "probe" THEN UNCHANGED <<last, ran, spent>>
     ELSE /\ last' = result
          /\ ran' = IF result = "ok" THEN ran \cup {pc} ELSE ran
          /\ spent' = spent + d
  /\ status' = IF pc' = "report" THEN StatusOf[result] ELSE status
  /\ UNCHANGED <<params, output, exit>>

Run ==
  /\ pc \in Labels
  /\ ~hangs
  /\ \E d \in Durations, result \in {"ok", "failed"} :
       d <= Budget(pc) /\ Ends(result, d)

NoTimeout == FALSE                    \* defect: waits without a timeout
TimeOut ==
  /\ pc \in Labels
  /\ \E k \in 0 .. Grace : Ends("timeout", Budget(pc) + k)

-----------------------------------------------------------------------------
(* The result, and the error result of main for whatever was raised.       *)

\* log_artifacts, and the temporary file of write_result_atomic.
Report ==
  /\ pc = "report"
  /\ pc' = "publish"
  /\ UNCHANGED <<params, work, status, output, exit>>

OnlySuccess ==                        \* defect: other results are not written
  /\ pc = "publish"
  /\ pc' = "exit"
  /\ output' = IF status = "success" THEN status ELSE output
  /\ UNCHANGED <<params, work, status, exit>>
Publish ==
  /\ pc = "publish"
  /\ pc' = "exit"
  /\ output' = status
  /\ UNCHANGED <<params, work, status, exit>>

Exit ==
  /\ pc = "exit"
  /\ exit' = IF status \in {"success", "unsupported"} THEN 0 ELSE 1
  /\ pc' = "ended"
  /\ UNCHANGED <<params, work, status, output>>

\* Detection raises on a malformed file, a command is not executable, the
\* result cannot be written.
Raise ==
  /\ pc \in {"detect", "report", "publish"} \cup Labels
  /\ pc' = "raised"
  /\ UNCHANGED <<params, work, status, output, exit>>

\* The error result is written in place.
OpenReport ==
  /\ pc = "raised"
  /\ pc' = "rewrite"
  /\ output' = "half"
  /\ UNCHANGED <<params, work, status, exit>>

Rewrite ==
  /\ pc = "rewrite"
  /\ pc' = "ended"
  /\ output' = "error"
  /\ exit' = 2
  /\ UNCHANGED <<params, work, status>>

RewriteFails ==
  /\ pc \in {"raised", "rewrite"}
  /\ pc' = "ended"
  /\ exit' = 2
  /\ UNCHANGED <<params, work, status, output>>

\* The engine, the host's guard or the kernel ends the container.
Kill ==
  /\ ~Over
  /\ pc' = "killed"
  /\ UNCHANGED <<params, work, status, output, exit>>

AllOver == Over /\ UNCHANGED vars

Main == \/ Detect \/ Copy \/ CopyFails \/ Run \/ TimeOut \/ Report \/ Publish
        \/ Exit \/ OpenReport \/ Rewrite

Next == Main \/ Raise \/ RewriteFails \/ Kill \/ AllOver

Spec == Init /\ [][Next]_vars

\* The process runs; nothing forces an exception or a kill.
FairSpec == Spec /\ WF_vars(Main)

-----------------------------------------------------------------------------
\* An exit status of the process tells what the file at --output is: the result
\* of this invocation, or after an exception its error or what was there before.
\* An earlier result is never taken for this one's (entrypoint.py main,
\* write_result_atomic).
ExitNamesReport ==
  /\ exit \in {0, 1} => output = status /\ output \in Statuses
  /\ exit = 0 => status \in {"success", "unsupported"}
  /\ exit = 2 => output \in {"error", "half", "absent", "earlier"}

\* A result says "success" only if everything the invocation was to run ran,
\* and exited with 0: the set-up and the installation that the strategy calls
\* for, and then the caller's command (runtime/commands).
SuccessMeansAllRan ==
  output = "success" /\ mode # "inspect" =>
    /\ mode # "build" => "command" \in ran
    /\ Installs => "install" \in ran /\ (HasSetup => "setup" \in ran)
    /\ last = "ok"

\* In the modes the corpus uses, the runtime is done, whatever was slow and
\* whatever timed out on the way, before the guard around the container ends it
\* and its result is lost ("outer guard above runtime's inner one",
\* container_runner.py:303).
InnerEndsFirst == HostRun => clock <= OuterGuard

\* A slow installation never eats the time of the probe: when it starts, at
\* least what the adapter asks for a run is left (orchestrator.py:684).
ProbeKeepsItsTime == HostRun /\ pc = "command" => Budget("command") >= RunTimeout

\* Whatever the command does, the invocation ends (_common.py run_subprocess).
EventuallyOver == <>Over

\* The exit status and the result file tell the host what happened inside.
ResultIsTrue == ExitNamesReport /\ SuccessMeansAllRan

\* The shares of the budget fit into it, in the order they are used up.
BudgetIsKept == InnerEndsFirst /\ ProbeKeepsItsTime
=============================================================================
