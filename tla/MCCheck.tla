------------------------------ MODULE MCCheck ------------------------------
(***************************************************************************)
(* Instances of Check for TLC.                                             *)
(***************************************************************************)
EXTENDS Check

Graph(keys, needs) == [file |-> "mapping", defects |-> {}, mode |-> "factory",
                       keys |-> keys, needs |-> needs]
\* A file of every kind but the template of `reguard init`: broken, invalid, and
\* two that run the target, of which one names forbidden and required variables
\* of its own.
EveryConfig == {[Absent EXCEPT !.file = "unreadable"],
                [Template EXCEPT !.defects = {"observers"}],
                Graph("default", FALSE), Graph("own", TRUE)}
\* The common ones, an explicit file, a provider key, a missing variable, an
\* unknown requirement.
EveryArgument == {Usual,
                  [Usual EXCEPT !.explicit = TRUE],
                  [Usual EXCEPT !.key = TRUE],
                  [Usual EXCEPT !.has = FALSE],
                  [Usual EXCEPT !.known = FALSE]}

Target(path, messages, wrote, late) ==
  [path |-> path, messages |-> messages, wrote |-> wrote, late |-> late]
\* Graphs that keep a trajectory, that only name one, that write it when they end,
\* that keep their state in memory, and ones with something odd in either.
EveryTarget == {Target(TRUE, "answer", "absent", "no"),
                Target(TRUE, "answer", "records", "no"),
                Target(TRUE, "none", "steps", "no"),
                Target(TRUE, "none", "absent", "due"),
                Target(TRUE, "user", "odd", "no"),
                Target(FALSE, "answer", "absent", "no"),
                Target(FALSE, "odd", "absent", "no")}
=============================================================================
