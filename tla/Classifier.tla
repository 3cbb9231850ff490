----------------------------- MODULE Classifier -----------------------------
(***************************************************************************)
(* The relevance classifier of the repository corpus                       *)
(* (src/compliance/corpus/classifier.py): an ordered list of rejections,   *)
(* then three tiers of acceptance.                                         *)
(*                                                                         *)
(* Abstracted: the tables of regular expressions.  What GitHub says of a   *)
(* repository is the set of the tables of which some pattern matches it,   *)
(* and the set of the categories its texts and topics match.               *)
(***************************************************************************)
EXTENDS Naturals, Sequences

Statuses == {"accepted", "candidate", "rejected"}

\* _CATEGORY_PRIORITY, the more specific first
Priority == <<"coding_agent", "browser_agent", "computer_use_agent", "multi_agent",
              "tool_using_agent", "workflow_agent", "agent_framework",
              "general_agent", "other_agent">>
Ranks == DOMAIN Priority
AgentCategories == {Priority[i] : i \in Ranks}
Categories == AgentCategories \cup {"not_agent", "unknown"}

\* _HARD_EXCLUDE_NAME_PATTERNS, of which "awesome" is told apart, and the name of
\* a frontend
NameTables == {"excluded_name", "awesome", "web_ui"}
\* _HARD_EXCLUDE_TOPIC_PATTERNS, _INDUSTRIAL_TOPICS
TopicTables == {"excluded_topic", "industrial"}
\* The tables of what a description may say: papers, packs and servers ...
PackTables == {"paper", "skill_pack", "mcp_server", "frontend", "memory"}
\* ... tools for other agents, teaching material, platforms ...
ToolTables == {"toolset", "observability", "educational", "platform"}
\* ... and agents of reinforcement learning.
LearningTables == {"non_llm", "rl", "world_model"}
\* _AGENT_RUNTIME_TOPICS, and _GENERIC_AGENT_DESC_HINTS
AgentTables == {"runtime", "hint"}
Tables == NameTables \cup TopicTables \cup PackTables \cup ToolTables
          \cup LearningTables \cup AgentTables

\* What classify reads.  _categories_from_haystack and _categories_from_topics
\* never name "other_agent".
Facts == [archived : BOOLEAN, fork : BOOLEAN, blank : BOOLEAN, pushed : BOOLEAN,
          language : {"Python", "none", "other"}, matches : SUBSET Tables,
          categories : SUBSET (AgentCategories \ {"other_agent"}),
          popular : BOOLEAN]

\* The rejections in their order, each named for its reason, which is often the
\* table that decides it alone.
Order == <<"archived", "fork", "blank", "no_push_date", "language",
           "excluded_name", "awesome", "excluded_topic", "industrial", "paper",
           "skill_pack", "mcp_server", "non_llm", "web_ui", "frontend", "memory",
           "observability", "toolset", "educational", "platform", "rl",
           "world_model">>
Reasons == {Order[i] : i \in DOMAIN Order}
           \cup {"topic_and_category", "topic_only", "description_and_category",
                 "description_only", "no_signal"}

Classifications == [status : Statuses, category : Categories, confidence : Nat,
                    reason : Reasons]
\* Confidences in hundredths of a per cent
Classified(status, category, confidence, reason) ==
  [status |-> status, category |-> category, confidence |-> confidence,
   reason |-> reason]

\* What speaks against a repository
Objections(f) ==
  {o \in {"archived", "fork", "blank", "no_push_date", "language"} :
     CASE o = "archived" -> f.archived
       [] o = "fork" -> f.fork
       [] o = "blank" -> f.blank
       [] o = "no_push_date" -> ~f.pushed
       [] o = "language" -> f.language = "other"}
  \cup {t \in f.matches \ AgentTables :
          /\ t = "awesome" => "runtime" \notin f.matches
          /\ t \in {"rl", "world_model"} => "hint" \notin f.matches}

Confidence(reason) ==
  IF reason \in {"archived", "fork", "language"} THEN 10000
  ELSE IF reason \in {"excluded_name", "paper"} THEN 9000
  ELSE IF reason \in {"awesome", "skill_pack", "mcp_server", "non_llm",
                      "observability", "rl", "world_model"} THEN 8500
  ELSE IF reason = "no_push_date" THEN 6000 ELSE 8000

\* The first objection decides.
Applying(f) == {i \in DOMAIN Order : Order[i] \in Objections(f)}
Reject(f) ==
  LET first == Order[CHOOSE i \in Applying(f) : \A j \in Applying(f) : i <= j]
  IN Classified("rejected", "not_agent", Confidence(first), first)

\* _best_category: a popular repository is believed more.
Matched(f) == {i \in Ranks : Priority[i] \in f.categories}
Best(f) == Priority[CHOOSE i \in Matched(f) : \A j \in Matched(f) : i <= j]
Base(f) == IF f.popular THEN 8500 ELSE 6500

\* A topic of agent runtimes
ByTopic(f) ==
  IF f.categories # {}
    THEN Classified("accepted", Best(f), Base(f), "topic_and_category")
    ELSE Classified("accepted", "other_agent", IF f.popular THEN 7500 ELSE 6000,
                    "topic_only")
\* A description of an agent
ByDescription(f) ==
  IF f.categories # {}
    THEN Classified("accepted", Best(f), (Base(f) * 85) \div 100,
                    "description_and_category")
    ELSE Classified("candidate", "unknown", 4500, "description_only")
Accept(f) ==
  IF "runtime" \in f.matches THEN ByTopic(f)
  ELSE IF "hint" \in f.matches THEN ByDescription(f)
  ELSE Classified("candidate", "unknown", 2000, "no_signal")

Classify(f) == IF Applying(f) # {} THEN Reject(f) ELSE Accept(f)
=============================================================================
