----------------------------- MODULE MCRuntime -----------------------------
(***************************************************************************)
(* Instances of Runtime for TLC.                                           *)
(***************************************************************************)
EXTENDS Runtime

\* One repository for each strategy, some with signs of a second one, and with
\* each way to tell a test framework.
SomeCheckouts ==
  { {}, {"uv.lock", "pyproject.toml", "tool.pytest"},
    {"poetry.lock", "tool.poetry", "pyproject.toml", "tests"},
    {"tool.poetry", "pyproject.toml"},
    {"Pipfile", "pyproject.toml", "tests"},
    {"pyproject.toml", "requirements.txt", "tool.unittest", "tests"},
    {"requirements.txt", "setup.py/cfg", "tests"},
    {"setup.py/cfg"}, {"tests"} }

\* Times about the shares of a budget of 720 and of 300 seconds.
SomeDurations == {0, 10, 55, 100, 240, 360}
=============================================================================
