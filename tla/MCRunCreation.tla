--------------------------- MODULE MCRunCreation ---------------------------
(***************************************************************************)
(* Instances of RunCreation for TLC.                                       *)
(***************************************************************************)
EXTENDS RunCreation, TLC

Fact(matches, categories, popular) ==
  [SeedFacts EXCEPT !.pushed = TRUE, !.matches = matches, !.categories = categories,
                    !.popular = popular]
\* An agent, and what it may become: a tool for others.
Agent == Fact({"runtime"}, {"coding_agent", "multi_agent"}, TRUE)
Toolset == Fact({"runtime", "toolset"}, {"coding_agent"}, TRUE)
EveryFact == {Agent, Toolset}
TwoRepositories ==
  {{[name |-> "a", number |-> "n1", facts |-> Agent],
    [name |-> "b", number |-> "n2", facts |-> Agent]}}
EveryPinning == {[n \in Names |-> "nothing"],
                 [n \in Names |-> IF n = "a" THEN "commit" ELSE "garbage"]}
EveryInclude == {<<"b">>, <<"b", "b">>}
Symmetry == Permutations(Commands) \cup Permutations(Drivers)
=============================================================================
