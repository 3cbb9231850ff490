-------------------------- MODULE Runtime_proofs --------------------------
(***************************************************************************)
(* Proofs about Runtime: type correctness, what a result and an exit       *)
(* status say, and that the shares of the budget add up, for every budget, *)
(* repository and duration that the assumptions allow.                     *)
(***************************************************************************)
EXTENDS Runtime, TLAPS

-----------------------------------------------------------------------------
(***************************************************************************)
(* The inductive invariant.  The result depends on the whole path of an    *)
(* invocation, so the path is kept: which command may run, what ran before *)
(* it, and how much of the budget that took.                               *)
(***************************************************************************)

\* Only an invocation that detection did not end runs commands; each one when
\* those before it exited with 0.
Path ==
  /\ command => mode \in {"test", "exec"}
  /\ ~autoSetup => mode = "test"
  /\ pc \in {"detect", "copy"} => last = "none" /\ ran = {}
  /\ pc = "copy" \/ pc \in Labels => Refusal = "none" /\ mode # "inspect"
  /\ pc \in Labels \ {"command"} => Installs
  /\ pc = "setup" => HasSetup
  /\ pc = "install" => (HasSetup => "setup" \in ran)
  /\ pc \in {"probe", "pytest"} => mode = "test" /\ ~command
  /\ pc \in {"probe", "pytest", "command"} =>
       /\ mode # "build"
       /\ Installs => "install" \in ran /\ (HasSetup => "setup" \in ran)

AllRan ==
  /\ mode # "build" => "command" \in ran
  /\ Installs => "install" \in ran /\ (HasSetup => "setup" \in ran)
  /\ last = "ok"

\* The result is decided before it is published, and published once.
Result ==
  /\ pc \in {"detect", "copy"} \cup Labels => status = "none"
  /\ pc \in {"report", "publish", "exit"} => status \in Statuses
  /\ status = "success" /\ mode # "inspect" => AllRan
  /\ pc \in {"detect", "copy", "report", "publish", "raised"} \cup Labels =>
       output \in {"absent", "earlier"}
  /\ pc = "rewrite" => output = "half"
  /\ pc = "exit" => output = status
  /\ output \in Statuses => output = status \/ output = "error"

Exited ==
  /\ exit # -1 => pc = "ended"
  /\ ExitNamesReport

\* What the commands of an invocation by the corpus took.
Third == TimeoutSeconds \div 3
Time ==
  HostRun =>
    /\ pc \in {"detect", "copy"} => clock = 0 /\ spent = 0
    /\ pc \in Labels => clock <= CopyTime + spent
    /\ pc = "setup" => spent = 0
    /\ pc = "install" => spent <= Third
    /\ pc = "command" => spent <= IF mode = "exec" THEN 2 * Third ELSE 0
    /\ clock <= CopyTime + TimeoutSeconds + Grace

IInv == TypeOK /\ Path /\ Result /\ Exited /\ Time

-----------------------------------------------------------------------------
\* The budget is a number, and at least 300.
LEMMA BudgetNumbers ==
  /\ TimeoutSeconds \in Nat /\ TimeoutSeconds >= 300
  /\ Third \in Nat /\ Third >= 100 /\ 3 * Third <= TimeoutSeconds
  /\ Half \in Nat
<1>1. TimeoutSeconds \in Nat /\ TimeoutSeconds >= 300
  BY RuntimeAssumption DEF TimeoutSeconds, Larger
<1>2. Third \in Nat /\ Third >= 100 /\ 3 * Third <= TimeoutSeconds
  BY <1>1 DEF Third
<1> QED BY <1>1, <1>2 DEF Half, Larger

\* The share of a command never depends on more than the time spent.
LEMMA BudgetType ==
  ASSUME TypeOK, NEW l \in Labels
  PROVE  Budget(l) \in Nat
<1>1. Left \in Nat BY BudgetNumbers DEF TypeOK, Left, Larger
<1>2. Larger(30, Third) \in Nat /\ Larger(60, Third) \in Nat
      /\ Larger(5, TimeoutSeconds - Half) \in Nat
  BY BudgetNumbers DEF Larger
<1>3. Half \in Nat /\ TimeoutSeconds \in Nat BY BudgetNumbers
<1> QED BY <1>1, <1>2, <1>3 DEF Budget, ExecBudget, BuildBudget, TestBudget, Third, Larger

\* The shares of the modes the corpus uses.
LEMMA HostShares ==
  ASSUME TypeOK, HostRun
  PROVE  /\ mode = "exec" => Budget("setup") = Third /\ Budget("install") = Third
         /\ mode = "exec" => Budget("command") = Left
         /\ mode = "test" => Budget("command") = TimeoutSeconds
<1>1. Larger(30, Third) = Third /\ Larger(60, Third) = Third
  BY BudgetNumbers DEF Larger
<1>2. mode = "test" => ~Installs BY DEF HostRun, Installs
<1> QED BY <1>1, <1>2 DEF Budget, ExecBudget, TestBudget, Third

-----------------------------------------------------------------------------
\* An invocation begins with its whole budget.
LEMMA InitIInv == Init => IInv
<1> SUFFICES ASSUME Init PROVE IInv OBVIOUS
<1>1. TypeOK
  BY DEF Init, TypeOK, PCs, HostRun
<1>2. Path
  <2>1. command => mode \in {"test", "exec"} BY DEF Init
  <2>2. ~autoSetup => mode = "test" BY DEF Init
  <2> QED BY <2>1, <2>2 DEF Init, Path, Labels
<1>3. Result /\ Exited
  <2>1. output \in {"absent", "earlier"} BY DEF Init
  <2> QED BY <2>1 DEF Init, Result, Exited, ExitNamesReport, Labels, Statuses
<1>4. Time
  BY BudgetNumbers, RuntimeAssumption DEF Init, Time, Labels
<1> QED BY <1>1, <1>2, <1>3, <1>4 DEF IInv

\* How a command ends: what Run and TimeOut have in common.
LEMMA EndsStep ==
  ASSUME IInv, pc \in Labels,
         NEW result \in {"ok", "failed", "timeout"}, NEW d \in Nat,
         d <= Budget(pc) + IF result = "timeout" THEN Grace ELSE 0,
         Ends(result, d)
  PROVE  IInv'
<1> USE DEF IInv
<1>0. UNCHANGED <<mode, checkout, command, autoSetup, output, exit>>
  BY DEF Ends, params
<1>1. pc' = After(pc, result) /\ pc' \in Labels \cup {"report"}
  BY DEF Ends, After, Installed, Labels
<1>2. /\ Installs' = Installs /\ HasSetup' = HasSetup /\ Refusal' = Refusal
      /\ HostRun' = HostRun
  BY <1>0 DEF Installs, HasSetup, Refusal, HostRun, Supported, Strategy,
              TestsWithPytest
<1>3. /\ last' \in {"none", "ok", "failed", "timeout"}
      /\ ran \subseteq ran' /\ ran' \subseteq Labels
      /\ pc # "probe" => last' = result
      /\ pc # "probe" /\ result = "ok" => pc \in ran'
  BY DEF Ends, TypeOK
<1>4. spent' \in Nat /\ clock' \in Nat /\ clock' = clock + d
      /\ (pc # "probe" => spent' = spent + d)
  BY DEF Ends, TypeOK
<1>5. status' = IF pc' = "report" THEN StatusOf[result] ELSE "none"
  BY DEF Ends, Result
<1>6. StatusOf[result] \in Statuses
      /\ (StatusOf[result] = "success" => result = "ok")
  BY DEF StatusOf, Statuses
<1>7. TypeOK'
  <2>1. hangs' \in BOOLEAN BY DEF Ends
  <2>2. pc' \in PCs BY <1>1 DEF PCs
  <2>3. status' \in Statuses \cup {"none"} BY <1>5, <1>6
  <2> QED BY <1>0, <1>3, <1>4, <2>1, <2>2, <2>3 DEF TypeOK
<1>8. Path'
  <2>1. CASE result # "ok" /\ pc # "probe"
    <3>1. pc' = "report" BY <1>1, <2>1 DEF After, Installed, Labels
    <3> QED BY <1>0, <1>2, <3>1 DEF Path, Labels
  <2>2. CASE result = "ok" /\ pc = "setup"
    <3>1. pc' = "install" /\ "setup" \in ran' BY <1>1, <1>3, <2>2 DEF After, Installed
    <3> QED BY <1>0, <1>2, <2>2, <3>1 DEF Path, Labels
  <2>3. CASE result = "ok" /\ pc = "install"
    <3>1. /\ pc' \in {"report", "probe", "command"}
          /\ mode = "build" => pc' = "report"
          /\ pc' = "probe" => mode = "test" /\ ~command
      BY <1>1, <2>3 DEF After, Installed
    <3>2. "install" \in ran' /\ (HasSetup => "setup" \in ran')
      BY <1>3, <2>3 DEF Path
    <3> QED BY <1>0, <1>2, <2>3, <3>1, <3>2 DEF Path, Labels
  <2>4. CASE pc = "probe" \/ (result = "ok" /\ pc = "pytest")
    <3>1. pc' \in {"pytest", "command"} BY <1>1, <2>4 DEF After, Installed
    <3>2. pc' = "pytest" => mode = "test" /\ ~command /\ Installs
      BY <2>4 DEF Path, Labels
    <3>3. mode # "build" /\ (Installs => "install" \in ran' /\ (HasSetup => "setup" \in ran'))
      BY <1>3, <2>4 DEF Path
    <3> QED BY <1>0, <1>2, <2>4, <3>1, <3>2, <3>3 DEF Path, Labels
  <2>5. CASE result = "ok" /\ pc = "command"
    <3>1. pc' = "report" BY <1>1, <2>5 DEF After, Installed
    <3> QED BY <1>0, <1>2, <3>1 DEF Path, Labels
  <2> QED BY <2>1, <2>2, <2>3, <2>4, <2>5 DEF Labels
<1>9. Result'
  <2>1. status' = "success" /\ mode # "inspect" => AllRan'
    <3> SUFFICES ASSUME status' = "success" PROVE AllRan'
      OBVIOUS
    <3>1. pc' = "report" /\ result = "ok" BY <1>5, <1>6
    <3>2. pc \in {"install", "command"} /\ (pc = "install" => mode = "build")
      BY <1>1, <3>1 DEF After, Installed, Labels
    <3>3. last' = "ok" /\ pc \in ran' BY <1>3, <3>1, <3>2
    <3> QED BY <1>0, <1>2, <1>3, <3>2, <3>3 DEF AllRan, Path
  <2>2. output' \in {"absent", "earlier"} BY <1>0 DEF Result
  <2> QED BY <1>0, <1>1, <1>5, <1>6, <2>1, <2>2 DEF Result, Labels, Statuses
<1>10. Exited'
  <2>1. exit = -1 BY DEF Exited, Labels
  <2> QED BY <1>0, <2>1 DEF Exited, ExitNamesReport
<1>11. Time'
  <2> SUFFICES ASSUME HostRun PROVE Time' BY <1>2 DEF Time
  <2>1. pc \in {"setup", "install", "command"} BY DEF Path, HostRun, Labels
  <2>2. CASE result = "timeout" \/ pc = "command"
    <3>1. pc' = "report"
      <4>1. CASE result = "timeout" BY <1>1, <2>1, <4>1 DEF After, Installed
      <4>2. CASE result # "timeout" /\ pc = "command" BY <1>1, <4>2 DEF After, Installed
      <4> QED BY <2>2, <4>1, <4>2
    <3>2. Budget(pc) <= TimeoutSeconds - spent
      <4>1. CASE mode = "exec"
        BY <2>1, <4>1, HostShares, BudgetNumbers
           DEF Time, TypeOK, Left, Larger
      <4>2. CASE mode = "test"
        BY <2>1, <4>2, HostShares, BudgetNumbers
           DEF Time, TypeOK, Path, HostRun, Installs
      <4> QED BY <4>1, <4>2 DEF HostRun, Path
    <3>3. clock' <= CopyTime + TimeoutSeconds + Grace
      BY <1>4, <2>1, <3>2, BudgetNumbers, BudgetType, RuntimeAssumption
         DEF Time, TypeOK
    <3> QED BY <1>0, <3>1, <3>3 DEF Time, Labels
  <2>3. CASE result # "timeout" /\ pc \in {"setup", "install"}
    <3>1. mode = "exec" BY <2>3 DEF Path, Installs, HostRun, Labels
    <3>2. pc' \in {"install", "command", "report"} /\ (pc = "setup" => pc' # "command")
      BY <1>1, <2>3, <3>1 DEF After, Installed
    <3>3. d <= Third BY <2>3, <3>1, HostShares, BudgetNumbers
    <3>4. clock' <= CopyTime + spent' /\ spent' <= 2 * Third
          /\ (pc = "setup" => spent' <= Third)
      <4>1. clock <= CopyTime + spent BY DEF Time
      <4>2. spent <= Third /\ (pc = "setup" => spent = 0)
        BY <2>3, BudgetNumbers DEF Time
      <4>3. spent' = spent + d /\ clock' = clock + d BY <1>4, <2>3
      <4>4. /\ clock \in Nat /\ spent \in Nat /\ CopyTime \in Nat /\ Third \in Nat
        BY BudgetNumbers, RuntimeAssumption DEF TypeOK
      <4> QED BY <3>3, <4>1, <4>2, <4>3, <4>4
    <3>5. clock' <= CopyTime + TimeoutSeconds + Grace
      BY <1>4, <3>4, BudgetNumbers, RuntimeAssumption
    <3>6. pc' = "install" => pc = "setup" BY <1>1, <2>3 DEF After, Installed
    <3> QED BY <1>0, <3>1, <3>2, <3>4, <3>5, <3>6 DEF Time, Labels
  <2> QED BY <2>1, <2>2, <2>3
<1> QED BY <1>7, <1>8, <1>9, <1>10, <1>11

-----------------------------------------------------------------------------
\* The parameters never change, nor does what depends on nothing else.
LEMMA ParamsFrame ==
  ASSUME UNCHANGED params
  PROVE  /\ UNCHANGED <<mode, checkout, command, autoSetup>>
         /\ Installs' = Installs /\ HasSetup' = HasSetup /\ Refusal' = Refusal
         /\ HostRun' = HostRun
<1>1. UNCHANGED <<mode, checkout, command, autoSetup>> BY DEF params
<1> QED BY <1>1 DEF Installs, HasSetup, Refusal, HostRun, Supported, Strategy,
                    TestsWithPytest

\* The steps that run no command leave the time alone.
LEMMA TimeFrame ==
  ASSUME IInv, UNCHANGED params, UNCHANGED work,
         pc' \notin Labels, pc' \in {"detect", "copy"} => pc \in {"detect", "copy"}
  PROVE  Time'
<1>1. UNCHANGED <<spent, clock>> BY DEF work
<1>2. pc' \notin {"setup", "install", "command"} BY DEF Labels
<1> QED BY <1>1, <1>2, ParamsFrame DEF IInv, Time, Labels

\* What is detected is refused, or determines the path from here on.
LEMMA DetectStep == ASSUME IInv, Detect PROVE IInv'
<1> USE DEF IInv
<1>1. UNCHANGED <<params, work, output, exit>> /\ pc' \in {"copy", "report"}
      /\ (pc' = "copy" <=> Refusal = "none") /\ status' = Refusal
  BY DEF Detect
<1>2. Refusal \in {"none", "success", "unsupported", "error"}
      /\ (Refusal = "success" <=> mode = "inspect")
  BY DEF Refusal
<1>3. TypeOK'
  BY <1>1, <1>2, ParamsFrame DEF TypeOK, PCs, Statuses, work
<1>4. Path'
  BY <1>1, <1>2, ParamsFrame DEF Path, Labels, Detect, work
<1>5. Result' /\ Exited'
  <2>1. output' \in {"absent", "earlier"} BY <1>1 DEF Result, Detect
  <2>2. exit' = -1 BY <1>1 DEF Exited, Detect
  <2>3. status' = "success" => mode' = "inspect" BY <1>1, <1>2, ParamsFrame
  <2>4. pc' = "report" => status' \in Statuses BY <1>1, <1>2 DEF Statuses
  <2>5. pc' = "copy" => status' = "none" BY <1>1
  <2> QED BY <1>1, <2>1, <2>2, <2>3, <2>4, <2>5
          DEF Result, Exited, ExitNamesReport, Labels, Statuses
<1>6. Time' BY <1>1, TimeFrame DEF Labels, Detect
<1> QED BY <1>3, <1>4, <1>5, <1>6

\* The copy takes time, but none of the budget.
LEMMA CopyStep == ASSUME IInv, Copy PROVE IInv'
<1> USE DEF IInv
<1>1. UNCHANGED <<params, last, ran, spent, status, output, exit>>
      /\ pc' \in {"command", "setup", "install"} /\ pc = "copy"
      /\ (pc' # "command" => Installs) /\ (pc' = "command" => ~Installs)
      /\ (pc' = "setup" => HasSetup) /\ (pc' = "install" => ~HasSetup)
  BY DEF Copy
<1>2. PICK d \in Durations : d <= CopyTime /\ clock' = clock + d BY DEF Copy
<1>3. d \in Nat /\ CopyTime \in Nat /\ Grace \in Nat BY RuntimeAssumption
<1>4. TypeOK'
  BY <1>1, <1>2, <1>3, ParamsFrame DEF TypeOK, PCs, Labels, Copy
<1>5. Path'
  <2>1. Refusal = "none" /\ mode # "inspect" BY <1>1 DEF Path
  <2>2. pc' = "command" => mode # "build"
    <3>1. mode = "build" => Installs BY <2>1 DEF Installs, Refusal
    <3> QED BY <1>1, <3>1
  <2> QED BY <1>1, <2>1, <2>2, ParamsFrame DEF Path, Labels
<1>6. Result' /\ Exited'
  BY <1>1, ParamsFrame DEF Result, Exited, ExitNamesReport, Labels, Statuses
<1>7. Time'
  <2> SUFFICES ASSUME HostRun PROVE Time' BY <1>1, ParamsFrame DEF Time
  <2>1. clock = 0 /\ spent = 0 BY <1>1 DEF Time
  <2>2. spent' = 0 /\ clock' <= CopyTime BY <1>1, <1>2, <1>3, <2>1
  <2>3. /\ spent' <= Third /\ spent' <= 2 * Third
        /\ clock' <= CopyTime + spent' /\ clock' <= CopyTime + TimeoutSeconds + Grace
    BY <1>3, <1>4, <2>2, BudgetNumbers DEF TypeOK
  <2> QED BY <1>1, <2>2, <2>3 DEF Time, Labels
<1> QED BY <1>4, <1>5, <1>6, <1>7

\* A copy that fails is reported before any command has run.
LEMMA CopyFailsStep == ASSUME IInv, CopyFails PROVE IInv'
<1> USE DEF IInv
<1>1. UNCHANGED <<params, work, output, exit>> /\ pc = "copy" /\ pc' = "report"
      /\ status' = "error"
  BY DEF CopyFails
<1>2. TypeOK' BY <1>1, ParamsFrame DEF TypeOK, PCs, Statuses, work
<1>3. Path' BY <1>1, ParamsFrame DEF Path, Labels
<1>4. Result' /\ Exited'
  BY <1>1, ParamsFrame DEF Result, Exited, ExitNamesReport, Labels, Statuses
<1>5. Time' BY <1>1, TimeFrame DEF Labels
<1> QED BY <1>2, <1>3, <1>4, <1>5

\* A command that ended by itself took what it was given at most.
LEMMA RunStep == ASSUME IInv, Run PROVE IInv'
<1>1. PICK d \in Durations, result \in {"ok", "failed"} :
        d <= Budget(pc) /\ Ends(result, d)
  BY DEF Run
<1>2. d \in Nat /\ pc \in Labels BY RuntimeAssumption DEF Run
<1>3. Budget(pc) \in Nat BY <1>2, BudgetType DEF IInv
<1>4. d <= Budget(pc) + IF result = "timeout" THEN Grace ELSE 0 BY <1>1, <1>2, <1>3
<1> QED BY <1>1, <1>2, <1>4, EndsStep

\* One that was killed took what a process group takes to go besides.
LEMMA TimeOutStep == ASSUME IInv, TimeOut PROVE IInv'
<1>1. pc \in Labels /\ Grace \in Nat BY RuntimeAssumption DEF TimeOut
<1>2. PICK k \in 0 .. Grace : Ends("timeout", Budget(pc) + k) BY DEF TimeOut
<1>3. Budget(pc) \in Nat BY <1>1, BudgetType DEF IInv
<1>4. Budget(pc) + k \in Nat /\ Budget(pc) + k <= Budget(pc) + Grace BY <1>1, <1>3
<1> QED BY <1>1, <1>2, <1>4, EndsStep

\* What is left of an invocation: the result, and the ways it may end.
LEMMA TailStep ==
  ASSUME IInv,
         Report \/ Publish \/ Exit \/ Raise \/ OpenReport \/ Rewrite \/ RewriteFails
           \/ Kill
  PROVE  IInv'
<1> USE DEF IInv
<1>0. UNCHANGED params /\ UNCHANGED work /\ UNCHANGED status
      /\ pc' \in {"publish", "exit", "ended", "raised", "rewrite", "killed"}
  BY DEF Report, Publish, Exit, Raise, OpenReport, Rewrite, RewriteFails, Kill
<1>1. UNCHANGED <<hangs, last, ran, spent, clock>> BY <1>0 DEF work
<1>2. Path' BY <1>0, <1>1, ParamsFrame DEF Path, Labels
<1>3. Time' BY <1>0, TimeFrame DEF Labels
<1>4. AllRan' <=> AllRan BY <1>0, <1>1, ParamsFrame DEF AllRan
<1>5. output' \in Statuses \cup {"absent", "earlier", "half"} /\ exit' \in {-1, 0, 1, 2}
  BY DEF TypeOK, Statuses, Result,
         Report, Publish, Exit, Raise, OpenReport, Rewrite, RewriteFails, Kill
<1>6. TypeOK' BY <1>0, <1>1, <1>5, ParamsFrame DEF TypeOK, PCs
<1>7. CASE Report \/ Raise \/ Kill
  <2>1. UNCHANGED <<output, exit>> /\ exit = -1
        /\ pc' \in {"publish", "raised", "killed"}
        /\ (pc' = "publish" => pc = "report")
        /\ (pc' = "raised" => pc \in {"detect", "report", "publish"} \cup Labels)
    BY <1>7 DEF Report, Raise, Kill, Over, Exited, Labels
  <2>2. Result' BY <1>0, <1>4, <2>1, ParamsFrame DEF Result, Labels, Statuses
  <2>3. Exited' BY <1>0, <2>1 DEF Exited, ExitNamesReport
  <2> QED BY <1>2, <1>3, <1>6, <2>2, <2>3
<1>8. CASE Publish
  <2>1. pc = "publish" /\ pc' = "exit" /\ output' = status /\ exit' = -1
        /\ status \in Statuses
    BY <1>8 DEF Publish, Exited, Result
  <2>2. Result' BY <1>0, <1>4, <2>1, ParamsFrame DEF Result, Labels, Statuses
  <2>3. Exited' BY <1>0, <2>1 DEF Exited, ExitNamesReport
  <2> QED BY <1>2, <1>3, <1>6, <2>2, <2>3
<1>9. CASE Exit
  <2>1. pc = "exit" /\ pc' = "ended" /\ output' = output /\ output = status
        /\ status \in Statuses
        /\ exit' = IF status \in {"success", "unsupported"} THEN 0 ELSE 1
    BY <1>9 DEF Exit, Result
  <2>2. Result' BY <1>0, <1>4, <2>1, ParamsFrame DEF Result, Labels, Statuses
  <2>3. Exited' BY <1>0, <2>1 DEF Exited, ExitNamesReport
  <2> QED BY <1>2, <1>3, <1>6, <2>2, <2>3
<1>10. CASE OpenReport
  <2>1. pc' = "rewrite" /\ output' = "half" /\ exit' = -1
    BY <1>10 DEF OpenReport, Exited
  <2>2. Result' BY <1>0, <1>4, <2>1, ParamsFrame DEF Result, Labels, Statuses
  <2>3. Exited' BY <2>1 DEF Exited, ExitNamesReport
  <2> QED BY <1>2, <1>3, <1>6, <2>2, <2>3
<1>11. CASE Rewrite \/ RewriteFails
  <2>1. pc \in {"raised", "rewrite"} /\ pc' = "ended" /\ exit' = 2
        /\ output' \in {"absent", "earlier", "half", "error"}
    BY <1>11 DEF Rewrite, RewriteFails, Result
  <2>2. Result' BY <1>0, <1>4, <2>1, ParamsFrame DEF Result, Labels, Statuses
  <2>3. Exited' BY <2>1 DEF Exited, ExitNamesReport
  <2> QED BY <1>2, <1>3, <1>6, <2>2, <2>3
<1> QED BY <1>7, <1>8, <1>9, <1>10, <1>11

\* The invariant is kept by every step.
LEMMA NextIInv == IInv /\ [Next]_vars => IInv'
<1> SUFFICES ASSUME IInv, [Next]_vars PROVE IInv' OBVIOUS
<1>1. CASE Main
  BY <1>1, DetectStep, CopyStep, CopyFailsStep, RunStep, TimeOutStep, TailStep
     DEF Main
<1>2. CASE Raise \/ RewriteFails \/ Kill BY <1>2, TailStep
<1>3. CASE UNCHANGED vars
  <2>1. UNCHANGED params /\ UNCHANGED <<pc, hangs, last, ran, spent, clock, status, output, exit>>
    BY <1>3 DEF vars, params
  <2>2. TypeOK' /\ Path' BY <2>1, ParamsFrame DEF IInv, TypeOK, Path
  <2>3. Result' /\ Exited'
    BY <2>1, ParamsFrame DEF IInv, Result, AllRan, Exited, ExitNamesReport
  <2>4. Time' BY <2>1, ParamsFrame DEF IInv, Time
  <2> QED BY <2>2, <2>3, <2>4 DEF IInv
<1> QED BY <1>1, <1>2, <1>3 DEF Next, AllOver

-----------------------------------------------------------------------------
\* The inductive invariant holds of every invocation.
THEOREM RuntimeInvariance == Spec => []IInv
BY InitIInv, NextIInv, PTL DEF Spec

\* Type correctness of an invocation.
THEOREM RuntimeTypeCorrect == Spec => []TypeOK
<1>1. IInv => TypeOK BY DEF IInv
<1> QED BY <1>1, RuntimeInvariance, PTL

\* What the host may conclude from the exit status of the runtime about the file
\* it reads (entrypoint.py main).
THEOREM ExitTrue == Spec => []ExitNamesReport
<1>1. IInv => ExitNamesReport BY DEF IInv, Exited
<1> QED BY <1>1, RuntimeInvariance, PTL

\* A success is the success of everything that was to run (runtime/commands).
THEOREM SuccessSound == Spec => []SuccessMeansAllRan
<1>1. IInv => SuccessMeansAllRan
  BY DEF IInv, Result, AllRan, SuccessMeansAllRan, Statuses
<1> QED BY <1>1, RuntimeInvariance, PTL

\* The shares of the budget add up to no more than the guard allows, whatever
\* the budget (container_runner.py:303).
THEOREM InnerFirst == Spec => []InnerEndsFirst
<1>1. IInv => InnerEndsFirst
  BY BudgetNumbers, BudgetAssumption, RuntimeAssumption
     DEF IInv, TypeOK, Time, InnerEndsFirst, OuterGuard
<1> QED BY <1>1, RuntimeInvariance, PTL

\* Two thirds of the budget is what all installation may take (exec.py:131).
THEOREM ProbeTime == Spec => []ProbeKeepsItsTime
<1>1. ASSUME IInv, HostRun, pc = "command" PROVE Budget("command") >= RunTimeout
  <2>1. RunTimeout <= Third /\ RunTimeout \in Nat
    BY BudgetAssumption, RuntimeAssumption DEF Third
  <2>2. CASE mode = "exec"
    <3>1. spent <= 2 * Third BY <1>1, <2>2 DEF IInv, Time
    <3>2. Budget("command") = Left BY <1>1, <2>2, HostShares DEF IInv
    <3>3. TimeoutSeconds - spent >= Third
      BY <1>1, <3>1, BudgetNumbers DEF IInv, TypeOK
    <3>4. Left >= Third
      BY <1>1, <3>3, BudgetNumbers DEF IInv, TypeOK, Left, Larger
    <3>5. Left \in Int BY <1>1, BudgetNumbers DEF IInv, TypeOK, Left, Larger
    <3> QED BY <2>1, <3>2, <3>4, <3>5, BudgetNumbers
  <2>3. CASE mode = "test"
    <3>1. Budget("command") = TimeoutSeconds BY <1>1, <2>3, HostShares DEF IInv
    <3> QED BY <2>1, <3>1, BudgetNumbers
  <2> QED BY <1>1, <2>2, <2>3 DEF IInv, Path, HostRun
<1>2. IInv => ProbeKeepsItsTime BY <1>1 DEF ProbeKeepsItsTime
<1> QED BY <1>2, RuntimeInvariance, PTL

\* What the host reads of an invocation, exit status and result file, is true.
THEOREM ResultTrue == Spec => []ResultIsTrue
<1>1. ExitNamesReport /\ SuccessMeansAllRan => ResultIsTrue
  BY DEF ResultIsTrue
<1> QED BY <1>1, ExitTrue, SuccessSound, PTL

\* The shares of any budget fit into it.
THEOREM BudgetKept == Spec => []BudgetIsKept
<1>1. InnerEndsFirst /\ ProbeKeepsItsTime => BudgetIsKept
  BY DEF BudgetIsKept
<1> QED BY <1>1, InnerFirst, ProbeTime, PTL
=============================================================================
