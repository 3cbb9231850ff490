---------------------------- MODULE MCCorpusRun ----------------------------
(***************************************************************************)
(* Instances of CorpusRun for TLC.                                         *)
(***************************************************************************)
EXTENDS CorpusRun

\* One row of every kind, and a second runnable one.
EveryKind == <<"sha_error", "unsupported_scenario", "no_adapter", "runnable",
               "runnable">>
TwoRunnable == <<"runnable", "runnable">>
=============================================================================
