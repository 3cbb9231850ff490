--------------------------- MODULE MCResultStore ---------------------------
(***************************************************************************)
(* Instances of ResultStore for TLC.                                       *)
(***************************************************************************)
EXTENDS ResultStore

CONSTANTS w1, w2, cli, action, v1, v2

\* Two workers of the corpus runner, one of them still on the old adapter, a
\* clone-mode run and a path-mode run.
ModeOf    == [c \in Callers |-> IF c = cli THEN "clone"
                                ELSE IF c = action THEN "path" ELSE "prepared"]
VersionOf == [c \in Callers |-> IF c = w2 THEN v2 ELSE v1]
=============================================================================
