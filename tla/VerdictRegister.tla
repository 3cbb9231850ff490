-------------------------- MODULE VerdictRegister --------------------------
(***************************************************************************)
(* What the corpus runner promises about compliance verdicts, with no      *)
(* scheduler, threads, attempts or crashes: every evaluation job of a run  *)
(* owns one register that is undecided at first and is decided at most     *)
(* once.  CorpusRun implements this specification.                         *)
(***************************************************************************)
CONSTANTS
  Jobs,        \* the evaluation jobs of one corpus run
  Verdicts,    \* the values of RunStatus a job may end with
  Undecided    \* compliance_status IS NULL

VARIABLE verdict

Init == verdict = [j \in Jobs |-> Undecided]

\* terminalize_job: the first payload decides; a different one is refused.
Decide(j, v) ==
  /\ verdict[j] = Undecided
  /\ verdict' = [verdict EXCEPT ![j] = v]

Next == \E j \in Jobs, v \in Verdicts : Decide(j, v)

Spec == Init /\ [][Next]_verdict
=============================================================================
