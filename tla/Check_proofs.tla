---------------------------- MODULE Check_proofs ----------------------------
(***************************************************************************)
(* Proofs about Check, for any checks, configurations, targets, numbers of *)
(* edits and of faults: type correctness; what a PASS needs and that a     *)
(* recorded run is not failed; where the target's code may run; and the    *)
(* order of the artefacts of checks that do not overlap.                   *)
(***************************************************************************)
EXTENDS Check, TLAPS

Steps == [Next]_vars

USE DEF Over, Artefacts, NoCode

-----------------------------------------------------------------------------
(* Type correctness.                                                        *)

\* The values the actions use are of the types TypeOK names.
LEMMA Values ==
  /\ Absent \in AllConfigs /\ Template \in AllConfigs
  /\ NotRun \in Graphs /\ Usual \in AllArguments
  /\ [NotRun EXCEPT !.run = "dry", !.path = TRUE, !.messages = "answer"] \in Graphs
BY DEF Absent, Template, AllConfigs, NotRun, Graphs, Usual, AllArguments,
       Messages, Contents

\* Types hold when nothing has been started.
LEMMA TypeInit == Init => TypeOK
BY CheckAssumption, Values DEF Init, TypeOK, Contents, PCs

\* Editing, reguard init and doctor keep the types.
LEMMA TypeShared ==
  ASSUME TypeOK, Edit \/ CreateTemplate \/ Doctor
  PROVE  TypeOK'
<1>1. CASE Edit
  BY <1>1, CheckAssumption, Values DEF Edit, TypeOK, private
<1>2. CASE CreateTemplate
  BY <1>2, CheckAssumption, Values DEF CreateTemplate, TypeOK, private
<1>3. CASE Doctor
  BY <1>3 DEF Doctor, TypeOK, private
<1>4. QED
  BY <1>1, <1>2, <1>3

\* Leaving a check, in whatever way, keeps the types.
LEMMA TypeLeave ==
  ASSUME TypeOK, NEW c \in Checks, NEW place \in {"returned", "over"},
         NEW code \in 0..NoCode, Leave(c, place, code), UNCHANGED turn,
         UNCHANGED <<config, edits, record, files, started, doctor>>,
         faults' \in 0..MaxFaults
  PROVE  TypeOK'
BY Values DEF Leave, Move, TypeOK, PCs

\* Whatever the observer makes of a trajectory is an observation.
LEMMA TypeObserved ==
  ASSUME TypeOK, NEW c \in Checks
  PROVE  Observed(c) \subseteq Observations
<1>1. graph[c].path \in BOOLEAN
  BY DEF TypeOK, Graphs
<1>2. \A k \in Kinds, p \in Producers, r \in BOOLEAN : Obs(k, p, r) \in Observations
  BY DEF Obs, Observations
<1>3. DryObservations(c) \subseteq Observations
  BY <1>2 DEF DryObservations, Kinds, Producers
<1>4. RowObservations \subseteq Observations
  BY <1>2 DEF RowObservations, Kinds, Producers
<1>5. MessageObservations(graph[c]) \subseteq Observations
  BY <1>1, <1>2 DEF MessageObservations, Kinds, Producers
<1>6. QED
  BY <1>3, <1>4, <1>5 DEF Observed

\* Every step of a check keeps the types.
LEMMA TypeStep ==
  ASSUME TypeOK, NEW c \in Checks, CheckStep(c)
  PROVE  TypeOK'
<1>1. CASE Start(c)
  BY <1>1, CheckAssumption DEF Start, Move, TypeOK, PCs
<1>2. CASE NoRepository(c)
  BY <1>2, TypeLeave DEF NoRepository, End, shared, TypeOK
<1>3. CASE Resolve(c)
  <2> DEFINE k == Selected(args[c].explicit)
  <2>1. k \in AllConfigs
    BY DEF TypeOK, Selected, AllArguments
  <2>2. CASE k.file = "unreadable" /\ End(c, 1)
    BY <1>3, <2>2, TypeLeave DEF Resolve, End, shared, TypeOK
  <2>3. CASE Move(c, "ready") /\ UNCHANGED status /\ cfg' = [cfg EXCEPT ![c] = k]
             /\ UNCHANGED <<args, graph, buffer, exit, shared, turn>>
    BY <2>1, <2>3 DEF Move, TypeOK, PCs, shared
  <2>4. CASE Report(c, "UNSUPPORTED") /\ cfg' = [cfg EXCEPT ![c] = k]
             /\ UNCHANGED <<args, graph, buffer, exit, shared, turn>>
    BY <2>1, <2>4 DEF Report, Move, TypeOK, PCs, shared, Statuses
  <2>5. QED
    BY <1>3, <2>2, <2>3, <2>4 DEF Resolve
<1>4. CASE Refuse(c)
  BY <1>4 DEF Refuse, Report, Move, TypeOK, PCs, shared, Statuses
<1>5. CASE DryRun(c)
  BY <1>5, Values DEF DryRun, Move, TypeOK, PCs, shared
<1>6. CASE LoadFails(c)
  <2>1. [graph[c] EXCEPT !.run = "failed"] \in Graphs
    <3>1. graph[c] \in Graphs
      BY DEF TypeOK
    <3>2. QED
      BY <3>1 DEF Graphs
  <2>2. graph' \in [Checks -> Graphs]
    BY <1>6, <2>1 DEF LoadFails, TypeOK
  <2>3. QED
    BY <1>6, <2>2 DEF LoadFails, Report, Move, TypeOK, PCs, shared, Statuses
<1>7. CASE Invoke(c)
  BY <1>7, CheckAssumption DEF Invoke, Move, TypeOK, PCs, Graphs, AllTargets
<1>8. CASE Flush(c)
  <2>1. [graph[c] EXCEPT !.late = "done"] \in Graphs
    <3>1. graph[c] \in Graphs
      BY DEF TypeOK
    <3>2. QED
      BY <3>1 DEF Graphs
  <2>2. graph' \in [Checks -> Graphs]
    BY <1>8, <2>1 DEF Flush, TypeOK
  <2>3. record' \in Contents
    BY <1>8, CheckAssumption DEF Flush, AllTargets
  <2>4. QED
    BY <1>8, <2>2, <2>3 DEF Flush, TypeOK
<1>9. CASE TargetExits(c)
  BY <1>9, TypeLeave DEF TargetExits, End, shared, TypeOK
<1>10. CASE Observe(c)
  BY <1>10, TypeObserved DEF Observe, Report, Move, TypeOK, PCs, shared,
       Statuses
<1>11. CASE Judge(c)
  BY <1>11 DEF Judge, Report, Move, TypeOK, PCs, shared, Statuses
<1>12. CASE Write(c)
  BY <1>12 DEF Write, Move, NextStage, TypeOK, PCs, private
<1>13. CASE Return(c)
  BY <1>13, TypeLeave DEF Return, ExitCode, shared, TypeOK
<1>14. CASE Raise(c)
  BY <1>14, CheckAssumption, TypeLeave DEF Raise, End, TypeOK
<1>15. CASE Kill(c)
  BY <1>15, CheckAssumption, TypeLeave DEF Kill, End, TypeOK
<1>16. QED
  BY <1>1, <1>2, <1>3, <1>4, <1>5, <1>6, <1>7, <1>8, <1>9, <1>10, <1>11, <1>12,
     <1>13, <1>14, <1>15 DEF CheckStep, Finish

\* Every step keeps the types.
LEMMA TypeNext == TypeOK /\ Steps => TypeOK'
<1> SUFFICES ASSUME TypeOK, Steps
             PROVE  TypeOK'
  OBVIOUS
<1>1. CASE UNCHANGED vars
  BY <1>1 DEF vars, TypeOK
<1>2. CASE Next
  BY <1>1, <1>2, TypeShared, TypeStep DEF Next, Done
<1>3. QED
  BY <1>1, <1>2 DEF Steps

\* Every state of the checks and of the files they share has its type, and a
\* check that writes its artefacts has a status to write.
THEOREM TypeCorrect == Spec => []TypeOK
BY TypeInit, TypeNext, PTL DEF Spec, Steps

-----------------------------------------------------------------------------
(* What a check has run, and what it may say of it.                         *)

\* Before the recipe runs, and after the process ended, nothing is known.
Fresh == \A c \in Checks :
  pc[c] \in Over \cup {"resolve", "ready"} =>
    graph[c] = NotRun /\ buffer[c] = {} /\ status[c] = "none"
Running == \A c \in Checks :
  pc[c] \in {"observe", "again", "judge"} => graph[c].run \in {"dry", "target"}
\* A dry run leaves the harness's own request in the buffer ...
DryMarked == \A c \in Checks :
  pc[c] \in {"again", "judge"} /\ graph[c].run = "dry" =>
    Obs("model", "harness", FALSE) \in buffer[c]
\* ... and a graph that names no trajectory leaves no reference to one.
RefNeedsPath == \A c \in Checks :
  graph[c].run = "target" /\ ~graph[c].path => \A o \in buffer[c] : ~o.ref

RunInv == Fresh /\ Running /\ DryMarked /\ RefNeedsPath /\ NoInvocationInVain
          /\ PassNeedsNamedRecord

\* No check has begun, so each is where RunInv says.
LEMMA RunInit == Init => RunInv
<1> SUFFICES ASSUME Init PROVE RunInv
  OBVIOUS
<1>1. Fresh
  BY DEF Init, Fresh, NotRun
<1>2. Running
  BY DEF Init, Running, NotRun
<1>3. DryMarked
  BY DEF Init, DryMarked, NotRun
<1>4. RefNeedsPath
  BY DEF Init, RefNeedsPath, NotRun
<1>5. NoInvocationInVain
  BY DEF Init, NoInvocationInVain, NotRun
<1>6. PassNeedsNamedRecord
  BY DEF Init, PassNeedsNamedRecord, NotRun
<1>7. QED
  BY <1>1, <1>2, <1>3, <1>4, <1>5, <1>6 DEF RunInv

\* A check that leaves holds what RunInv says of one that has ended.
LEMMA RunLeave ==
  ASSUME TypeOK, RunInv, NEW c \in Checks, NEW place \in {"returned", "over"},
         NEW code \in 0..NoCode, Leave(c, place, code)
  PROVE  RunInv'
<1>1. Fresh'
  BY DEF Leave, Move, TypeOK, RunInv, Fresh, NotRun
<1>2. Running'
  BY DEF Leave, Move, TypeOK, RunInv, Running, NotRun
<1>3. DryMarked'
  BY DEF Leave, Move, TypeOK, RunInv, DryMarked, NotRun
<1>4. RefNeedsPath'
  BY DEF Leave, Move, TypeOK, RunInv, RefNeedsPath, NotRun
<1>5. NoInvocationInVain'
  BY DEF Leave, Move, TypeOK, RunInv, NoInvocationInVain, NotRun
<1>6. PassNeedsNamedRecord'
  BY DEF Leave, Move, TypeOK, RunInv, PassNeedsNamedRecord, NotRun
<1>7. QED
  BY <1>1, <1>2, <1>3, <1>4, <1>5, <1>6 DEF RunInv

\* What a check holds after a step is what RunInv says of its new place.
LEMMA RunStep ==
  ASSUME TypeOK, RunInv, NEW c \in Checks, CheckStep(c)
  PROVE  RunInv'
<1>1. CASE Start(c)
  <2>1. Fresh'
    BY <1>1 DEF Start, Move, TypeOK, RunInv, Fresh, NotRun
  <2>2. Running'
    BY <1>1 DEF Start, Move, TypeOK, RunInv, Fresh, Running, NotRun
  <2>3. DryMarked'
    BY <1>1 DEF Start, Move, TypeOK, RunInv, Fresh, DryMarked, NotRun
  <2>4. RefNeedsPath'
    BY <1>1 DEF Start, Move, TypeOK, RunInv, Fresh, RefNeedsPath, NotRun
  <2>5. NoInvocationInVain'
    BY <1>1 DEF Start, Move, TypeOK, RunInv, Fresh, NoInvocationInVain, NotRun
  <2>6. PassNeedsNamedRecord'
    BY <1>1 DEF Start, Move, TypeOK, RunInv, Fresh, PassNeedsNamedRecord,
         NotRun
  <2>7. QED
    BY <2>1, <2>2, <2>3, <2>4, <2>5, <2>6 DEF RunInv
<1>2. CASE Refuse(c)
  <2>1. Fresh'
    BY <1>2 DEF Refuse, Report, Move, TypeOK, RunInv, Fresh, NotRun
  <2>2. Running'
    BY <1>2 DEF Refuse, Report, Move, TypeOK, RunInv, Fresh, Running, NotRun
  <2>3. DryMarked'
    BY <1>2 DEF Refuse, Report, Move, TypeOK, RunInv, Fresh, DryMarked, NotRun
  <2>4. RefNeedsPath'
    BY <1>2 DEF Refuse, Report, Move, TypeOK, RunInv, Fresh, RefNeedsPath,
         NotRun
  <2>5. NoInvocationInVain'
    BY <1>2 DEF Refuse, Report, Move, TypeOK, RunInv, Fresh,
         NoInvocationInVain, NotRun
  <2>6. PassNeedsNamedRecord'
    BY <1>2 DEF Refuse, Report, Move, TypeOK, RunInv, Fresh,
         PassNeedsNamedRecord, NotRun
  <2>7. QED
    BY <2>1, <2>2, <2>3, <2>4, <2>5, <2>6 DEF RunInv
<1>3. CASE DryRun(c)
  <2>1. Fresh'
    BY <1>3 DEF DryRun, Move, TypeOK, RunInv, Fresh, NotRun
  <2>2. Running'
    BY <1>3 DEF DryRun, Move, TypeOK, RunInv, Fresh, Running, NotRun
  <2>3. DryMarked'
    BY <1>3 DEF DryRun, Move, TypeOK, RunInv, Fresh, DryMarked, NotRun
  <2>4. RefNeedsPath'
    BY <1>3 DEF DryRun, Move, TypeOK, RunInv, Fresh, RefNeedsPath, NotRun
  <2>5. NoInvocationInVain'
    BY <1>3 DEF DryRun, Move, TypeOK, RunInv, Fresh, NoInvocationInVain, NotRun
  <2>6. PassNeedsNamedRecord'
    BY <1>3 DEF DryRun, Move, TypeOK, RunInv, Fresh, PassNeedsNamedRecord,
         NotRun
  <2>7. QED
    BY <2>1, <2>2, <2>3, <2>4, <2>5, <2>6 DEF RunInv
<1>4. CASE LoadFails(c)
  <2>1. Fresh'
    BY <1>4 DEF LoadFails, MayRun, Report, Move, TypeOK, RunInv, Fresh,
         NotRun, Graphs
  <2>2. Running'
    BY <1>4 DEF LoadFails, MayRun, Report, Move, TypeOK, RunInv, Fresh,
         Running, NotRun, Graphs
  <2>3. DryMarked'
    BY <1>4 DEF LoadFails, MayRun, Report, Move, TypeOK, RunInv, Fresh,
         DryMarked, NotRun, Graphs
  <2>4. RefNeedsPath'
    BY <1>4 DEF LoadFails, MayRun, Report, Move, TypeOK, RunInv, Fresh,
         RefNeedsPath, NotRun, Graphs
  <2>5. NoInvocationInVain'
    BY <1>4 DEF LoadFails, MayRun, Report, Move, TypeOK, RunInv, Fresh,
         NoInvocationInVain, NotRun, Graphs
  <2>6. PassNeedsNamedRecord'
    BY <1>4 DEF LoadFails, MayRun, Report, Move, TypeOK, RunInv, Fresh,
         PassNeedsNamedRecord, NotRun, Graphs
  <2>7. QED
    BY <2>1, <2>2, <2>3, <2>4, <2>5, <2>6 DEF RunInv
<1>5. CASE Invoke(c)
  <2>1. Fresh'
    BY <1>5 DEF Invoke, MayRun, Move, TypeOK, RunInv, Fresh, NotRun
  <2>2. Running'
    BY <1>5 DEF Invoke, MayRun, Move, TypeOK, RunInv, Fresh, Running, NotRun
  <2>3. DryMarked'
    BY ZenonT(40), <1>5 DEF Invoke, MayRun, Move, TypeOK, RunInv, Fresh, DryMarked, NotRun
  <2>4. RefNeedsPath'
    BY <1>5 DEF Invoke, MayRun, Move, TypeOK, RunInv, Fresh, RefNeedsPath,
         NotRun
  <2>5. NoInvocationInVain'
    BY <1>5 DEF Invoke, MayRun, Move, TypeOK, RunInv, Fresh,
         NoInvocationInVain, NotRun
  <2>6. PassNeedsNamedRecord'
    BY <1>5 DEF Invoke, MayRun, Move, TypeOK, RunInv, Fresh,
         PassNeedsNamedRecord, NotRun
  <2>7. QED
    BY <2>1, <2>2, <2>3, <2>4, <2>5, <2>6 DEF RunInv
<1>6. CASE Flush(c)
  <2>1. Fresh'
    <3>1. graph[c] # NotRun
      BY <1>6 DEF Flush, NotRun
    <3>2. QED
      BY <1>6, <3>1 DEF Flush, TypeOK, RunInv, Fresh
  <2>2. Running'
    BY <1>6 DEF Flush, TypeOK, RunInv, Fresh, Running, NotRun, Graphs
  <2>3. DryMarked'
    BY ZenonT(40), <1>6 DEF Flush, TypeOK, RunInv, Fresh, DryMarked, NotRun, Graphs
  <2>4. RefNeedsPath'
    BY <1>6 DEF Flush, TypeOK, RunInv, Fresh, RefNeedsPath, NotRun, Graphs
  <2>5. NoInvocationInVain'
    BY <1>6 DEF Flush, TypeOK, RunInv, Fresh, NoInvocationInVain, NotRun,
         Graphs
  <2>6. PassNeedsNamedRecord'
    BY <1>6 DEF Flush, TypeOK, RunInv, Fresh, PassNeedsNamedRecord, NotRun,
         Graphs
  <2>7. QED
    BY <2>1, <2>2, <2>3, <2>4, <2>5, <2>6 DEF RunInv
<1>7. CASE Write(c)
  <2>1. Fresh'
    BY <1>7 DEF Write, Move, NextStage, private, TypeOK, RunInv, Fresh, NotRun
  <2>2. Running'
    BY <1>7 DEF Write, Move, NextStage, private, TypeOK, RunInv, Fresh,
         Running, NotRun
  <2>3. DryMarked'
    BY <1>7 DEF Write, Move, NextStage, private, TypeOK, RunInv, Fresh,
         DryMarked, NotRun
  <2>4. RefNeedsPath'
    BY <1>7 DEF Write, Move, NextStage, private, TypeOK, RunInv, Fresh,
         RefNeedsPath, NotRun
  <2>5. NoInvocationInVain'
    BY <1>7 DEF Write, Move, NextStage, private, TypeOK, RunInv, Fresh,
         NoInvocationInVain, NotRun
  <2>6. PassNeedsNamedRecord'
    BY <1>7 DEF Write, Move, NextStage, private, TypeOK, RunInv, Fresh,
         PassNeedsNamedRecord, NotRun
  <2>7. QED
    BY <2>1, <2>2, <2>3, <2>4, <2>5, <2>6 DEF RunInv
<1>8. CASE Resolve(c)
  <2>1. CASE End(c, 1)
    BY <2>1, RunLeave DEF End
  <2>2. CASE ~End(c, 1)
    <3>1. Fresh'
      BY ZenonT(40), <1>8, <2>2 DEF Resolve, Report, Move, TypeOK, RunInv, Fresh, NotRun
    <3>2. Running'
      BY <1>8, <2>2 DEF Resolve, Report, Move, TypeOK, RunInv, Fresh, Running,
           NotRun
    <3>3. DryMarked'
      BY ZenonT(40), <1>8, <2>2 DEF Resolve, Report, Move, TypeOK, RunInv, Fresh,
           DryMarked, NotRun
    <3>4. RefNeedsPath'
      BY <1>8, <2>2 DEF Resolve, Report, Move, TypeOK, RunInv, Fresh,
           RefNeedsPath, NotRun
    <3>5. NoInvocationInVain'
      BY <1>8, <2>2 DEF Resolve, Report, Move, TypeOK, RunInv, Fresh,
           NoInvocationInVain, NotRun
    <3>6. PassNeedsNamedRecord'
      BY <1>8, <2>2 DEF Resolve, Report, Move, TypeOK, RunInv, Fresh,
           PassNeedsNamedRecord, NotRun
    <3>7. QED
      BY <3>1, <3>2, <3>3, <3>4, <3>5, <3>6 DEF RunInv
  <2>3. QED
    BY <2>1, <2>2
<1>9. CASE Observe(c)
  <2>1. graph[c].run = "dry" => Obs("model", "harness", FALSE) \in Observed(c)
    BY DEF Observed, DryObservations
  <2>2. graph[c].run = "target" /\ ~graph[c].path => \A o \in Observed(c) : ~o.ref
    BY DEF TypeOK, Graphs, Observed, HasRows, MessageObservations, Obs
  <2>3. CASE ObserverRaises(c)
    <3>1. Fresh'
      BY <1>9, <2>3 DEF Observe, Report, Move, TypeOK, RunInv, Fresh
    <3>2. Running'
      BY <1>9, <2>3 DEF Observe, Report, Move, TypeOK, RunInv, Running
    <3>3. DryMarked'
      BY <1>9, <2>3 DEF Observe, Report, Move, TypeOK, RunInv, DryMarked
    <3>4. RefNeedsPath'
      BY <1>9, <2>3 DEF Observe, Report, Move, TypeOK, RunInv, RefNeedsPath
    <3>5. NoInvocationInVain'
      BY <1>9, <2>3 DEF Observe, Report, Move, TypeOK, RunInv,
           NoInvocationInVain
    <3>6. PassNeedsNamedRecord'
      BY <1>9, <2>3 DEF Observe, Report, Move, TypeOK, RunInv,
           PassNeedsNamedRecord
    <3>7. QED
      BY <3>1, <3>2, <3>3, <3>4, <3>5, <3>6 DEF RunInv
  <2>4. CASE ~ObserverRaises(c)
    <3>1. Fresh'
      BY <1>9, <2>4 DEF Observe, Move, TypeOK, RunInv, Fresh
    <3>2. Running'
      BY <1>9, <2>4 DEF Observe, Move, TypeOK, RunInv, Running
    <3>3. DryMarked'
      <4> DEFINE o == Obs("model", "harness", FALSE)
      <4>0. buffer'[c] = buffer[c] \cup Observed(c)
        BY <1>9, <2>4 DEF Observe, TypeOK
      <4>1. graph[c].run = "dry" => o \in buffer'[c]
        BY <4>0, <2>1
      <4>2. \A d \in Checks \ {c} : pc'[d] = pc[d] /\ buffer'[d] = buffer[d]
        BY <1>9, <2>4 DEF Observe, Move, TypeOK
      <4>3. graph' = graph
        BY <1>9 DEF Observe
      <4> HIDE DEF o
      <4>4. \A d \in Checks : pc'[d] \in {"again", "judge"} /\ graph'[d].run = "dry"
                               => o \in buffer'[d]
        BY <4>1, <4>2, <4>3 DEF RunInv, DryMarked, o
      <4>5. QED
        BY <4>4 DEF DryMarked, o
    <3>4. RefNeedsPath'
      BY <1>9, <2>2, <2>4 DEF Observe, Move, TypeOK, RunInv, RefNeedsPath
    <3>5. NoInvocationInVain'
      BY <1>9, <2>4 DEF Observe, Move, TypeOK, RunInv, NoInvocationInVain
    <3>6. PassNeedsNamedRecord'
      BY <1>9, <2>4 DEF Observe, Move, TypeOK, RunInv, PassNeedsNamedRecord
    <3>7. QED
      BY <3>1, <3>2, <3>3, <3>4, <3>5, <3>6 DEF RunInv
  <2>5. QED
    BY <2>3, <2>4
<1>10. CASE Judge(c)
  <2>1. ChecksPass(buffer[c]) => graph[c].run = "target" /\ graph[c].path
    BY <1>10 DEF Judge, ChecksPass, Persists, RunInv, Running, DryMarked,
                RefNeedsPath, Obs, TypeOK, Graphs
  <2>2. Fresh'
    BY <1>10 DEF Judge, Report, Move, TypeOK, RunInv, Fresh
  <2>3. Running'
    BY <1>10 DEF Judge, Report, Move, TypeOK, RunInv, Running
  <2>4. DryMarked'
    BY <1>10 DEF Judge, Report, Move, TypeOK, RunInv, DryMarked
  <2>5. RefNeedsPath'
    BY <1>10 DEF Judge, Report, Move, TypeOK, RunInv, RefNeedsPath
  <2>6. NoInvocationInVain'
    BY <1>10 DEF Judge, Report, Move, TypeOK, RunInv, NoInvocationInVain
  <2>7. PassNeedsNamedRecord'
    BY <1>10, <2>1 DEF Judge, Report, Move, TypeOK, RunInv,
         PassNeedsNamedRecord
  <2>8. QED
    BY <2>2, <2>3, <2>4, <2>5, <2>6, <2>7 DEF RunInv
<1>11. CASE NoRepository(c) \/ TargetExits(c) \/ Return(c) \/ Raise(c) \/ Kill(c)
  BY <1>11, RunLeave DEF NoRepository, TargetExits, Return, Raise, Kill, End,
       ExitCode
<1>12. QED
  BY <1>1, <1>2, <1>3, <1>4, <1>5, <1>6, <1>7, <1>8, <1>9, <1>10, <1>11 DEF
       CheckStep, Finish

\* RunInv is kept by every step.
LEMMA RunNext == TypeOK /\ RunInv /\ Steps => RunInv'
<1> SUFFICES ASSUME TypeOK, RunInv, Steps
             PROVE  RunInv'
  OBVIOUS
<1>1. CASE UNCHANGED <<pc, args, cfg, graph, buffer, status>>
  BY <1>1 DEF RunInv, Fresh, Running, DryMarked, RefNeedsPath,
              NoInvocationInVain, PassNeedsNamedRecord
<1>2. CASE Edit \/ CreateTemplate \/ Doctor \/ UNCHANGED vars
  BY <1>1, <1>2 DEF Edit, CreateTemplate, Doctor, private, vars
<1>3. QED
  BY <1>2, RunStep DEF Steps, Next, Done

\* PASS needs a graph that was invoked and names its trajectory: for every target,
\* configuration and interleaving of checks.
THEOREM PassNeedsNamedRecordHolds == Spec => []PassNeedsNamedRecord
<1>1. RunInv => PassNeedsNamedRecord
  BY DEF RunInv
<1>2. QED
  BY <1>1, TypeCorrect, RunInit, RunNext, PTL DEF Spec, Steps

\* The target's code runs only for a known requirement, in an environment that
\* is clean by the configuration's own account.
THEOREM NoInvocationInVainHolds == Spec => []NoInvocationInVain
<1>1. RunInv => NoInvocationInVain
  BY DEF RunInv
<1>2. QED
  BY <1>1, TypeCorrect, RunInit, RunNext, PTL DEF Spec, Steps

-----------------------------------------------------------------------------
(* One check at a time.                                                     *)

Alone == ~Overlaps =>
  \A c, d \in Checks : pc[c] \notin Over /\ pc[d] \notin Over => c = d

\* At first no check is running.
LEMMA AloneInit == Init => Alone
BY DEF Init, Alone

\* Checks that wait for their turn never overlap.
LEMMA AloneNext == TypeOK /\ Alone /\ Steps => Alone'
<1> SUFFICES ASSUME TypeOK, Alone, Steps
             PROVE  Alone'
  OBVIOUS
<1>1. CASE UNCHANGED pc
  BY <1>1 DEF Alone
<1>2. ASSUME NEW c \in Checks, CheckStep(c)
      PROVE  Alone'
  <2>1. CASE Start(c)
    BY <2>1 DEF Start, Move, TypeOK, Alone
  <2>2. CASE Flush(c)
    BY <1>1, <2>2 DEF Flush
  <2>3. CASE ~Start(c) /\ ~Flush(c)
    <3>1. PICK p \in PCs : pc' = [pc EXCEPT ![c] = p] /\ (pc[c] \in Over => p \in Over)
      BY <1>2, <2>3 DEF CheckStep, Finish, NoRepository, Resolve, Refuse,
           DryRun,
         LoadFails, Invoke, TargetExits, Observe, Judge, Write, NextStage, Return,
         Raise, Kill, End, Leave, Report, Move, PCs
    <3>2. QED
      BY <3>1 DEF TypeOK, Alone
  <2>4. QED
    BY <2>1, <2>2, <2>3
<1>3. QED
  BY <1>1, <1>2 DEF Steps, Next, Done, Edit, CreateTemplate, Doctor, vars

-----------------------------------------------------------------------------
(* The artefacts.                                                           *)

\* The check that runs is the last one started, and each artefact behind it is
\* its own.
StagesInOrder == ~Overlaps =>
  /\ \A f \in Artefacts : files[f] <= started
  /\ \A c \in Checks :
       /\ turn[c] <= started
       /\ pc[c] \notin Over => turn[c] = started
       /\ pc[c] \in {"evidence", "summary", "exit"} => files["result"] = turn[c]
       /\ pc[c] \in {"summary", "exit"} => files["evidence"] = turn[c]
       /\ pc[c] = "exit" => files["summary"] = turn[c]
FilesInv == StagesInOrder /\ ArtefactsInOrder /\ ReturnedCheckLeavesAll

\* At first no file belongs to a check.
LEMMA FilesInit == Init => FilesInv
BY DEF Init, FilesInv, StagesInOrder, ArtefactsInOrder, ReturnedCheckLeavesAll

\* With no overlap, the files are those of the check that is running.
LEMMA FilesNext == TypeOK /\ Alone /\ FilesInv /\ Steps => FilesInv'
<1> SUFFICES ASSUME TypeOK, Alone, FilesInv, Steps, ~Overlaps
             PROVE  FilesInv'
  BY DEF FilesInv, StagesInOrder, ArtefactsInOrder, ReturnedCheckLeavesAll
<1>1. CASE UNCHANGED <<pc, turn, files, started>>
  BY <1>1 DEF FilesInv, StagesInOrder, ArtefactsInOrder, ReturnedCheckLeavesAll
<1>2. ASSUME NEW c \in Checks, CheckStep(c)
      PROVE  FilesInv'
  <2>1. CASE Start(c)
    BY <2>1 DEF Start, Move, TypeOK, FilesInv, StagesInOrder, ArtefactsInOrder,
                ReturnedCheckLeavesAll
  <2>2. CASE Write(c)
    BY <2>2 DEF Write, Move, NextStage, private, TypeOK, Alone, FilesInv,
                StagesInOrder, ArtefactsInOrder, ReturnedCheckLeavesAll
  <2>3. CASE Return(c)
    BY <2>3 DEF Return, Leave, Move, shared, TypeOK, FilesInv, StagesInOrder,
                ArtefactsInOrder, ReturnedCheckLeavesAll
  <2>4. CASE Flush(c)
    BY <1>1, <2>4 DEF Flush
  <2>5. CASE ~Start(c) /\ ~Write(c) /\ ~Return(c) /\ ~Flush(c)
    <3>1. UNCHANGED <<turn, files, started>>
      BY <1>2, <2>5 DEF CheckStep, Finish, NoRepository, Resolve, Refuse,
           DryRun,
         LoadFails, Invoke, TargetExits, Observe, Judge, Raise, Kill, shared
    <3>2. PICK p \in {"over", "ready", "result", "observe", "again", "judge"} :
            pc' = [pc EXCEPT ![c] = p] /\ (pc[c] \in Over => p = "over")
      BY <1>2, <2>5 DEF CheckStep, Finish, NoRepository, Resolve, Refuse,
           DryRun,
         LoadFails, Invoke, TargetExits, Observe, Judge, Raise, Kill, End, Leave,
         Report, Move
    <3>3. QED
      BY <3>1, <3>2 DEF TypeOK, FilesInv, StagesInOrder, ArtefactsInOrder,
         ReturnedCheckLeavesAll
  <2>6. QED
    BY <2>1, <2>2, <2>3, <2>4, <2>5
<1>3. QED
  BY <1>1, <1>2 DEF Steps, Next, Done, Edit, CreateTemplate, Doctor, private,
       vars

\* With one check at a time on an output directory, no artefact is of a later
\* check than the one written before it, wherever a check raises or is killed.
THEOREM ArtefactsInOrderHolds == Spec => []ArtefactsInOrder
<1>1. FilesInv => ArtefactsInOrder
  BY DEF FilesInv
<1>2. QED
  BY <1>1, TypeCorrect, AloneInit, AloneNext, FilesInit, FilesNext, PTL
  DEF Spec, Steps

\* With one check at a time on an output directory, a check that returned left
\* all three artefacts, which only later checks replace.
THEOREM ReturnedCheckLeavesAllHolds == Spec => []ReturnedCheckLeavesAll
<1>1. FilesInv => ReturnedCheckLeavesAll
  BY DEF FilesInv
<1>2. QED
  BY <1>1, TypeCorrect, AloneInit, AloneNext, FilesInit, FilesNext, PTL
  DEF Spec, Steps

\* Whatever was killed before, a check that returned alone leaves its artefacts, and
\* an older artefact never refers to a newer one.
THEOREM ArtefactsWhole == Spec => []ArtefactsOfOneCheck
<1>1. ArtefactsInOrder /\ ReturnedCheckLeavesAll => ArtefactsOfOneCheck
  BY DEF ArtefactsOfOneCheck
<1>2. QED
  BY <1>1, ArtefactsInOrderHolds, ReturnedCheckLeavesAllHolds, PTL

-----------------------------------------------------------------------------
(* A recorded run.                                                          *)

\* A target that wrote its records has nothing more to write, nobody else writes
\* while its check runs, and what the observer has read is in the buffer.
Recorded(c) == graph[c].path /\ graph[c].wrote = "records"
FromTarget == \A c \in Checks :
  /\ graph[c].wrote = "records" => graph[c].run = "target" /\ graph[c].late = "no"
  /\ graph[c].run = "target" => \A o \in buffer[c] : o.producer # "harness"
Stays == ~Overlaps => \A c \in Checks :
  Recorded(c) /\ pc[c] \in {"observe", "again", "judge"} => record = "records"
HasBeenRead == ~Overlaps => \A c \in Checks :
  Recorded(c) /\ pc[c] \in {"again", "judge"} =>
    Obs("model", "system_state", TRUE) \in buffer[c]
RecordInv == FromTarget /\ Stays /\ HasBeenRead /\ RecordedRunPasses

\* At first there is no record to follow.
LEMMA RecordInit == Init => RecordInv
<1> SUFFICES ASSUME Init PROVE RecordInv
  OBVIOUS
<1>1. \A c \in Checks : graph[c].wrote = "absent" /\ graph[c].run = "none"
                        /\ buffer[c] = {}
  BY DEF Init, NotRun
<1>2. QED
  BY <1>1 DEF RecordInv, FromTarget, Stays, HasBeenRead, RecordedRunPasses, Recorded

\* Leaving a check does not touch the record.
LEMMA RecordLeave ==
  ASSUME TypeOK, RecordInv, NEW c \in Checks, NEW place \in {"returned", "over"},
         NEW code \in 0..NoCode, Leave(c, place, code), UNCHANGED record
  PROVE  RecordInv'
<1>1. /\ graph'[c].wrote = "absent" /\ graph'[c].run = "none" /\ record' = record
      /\ \A d \in Checks \ {c} : /\ graph'[d] = graph[d] /\ buffer'[d] = buffer[d]
                                 /\ pc'[d] = pc[d] /\ status'[d] = status[d]
  BY DEF Leave, Move, TypeOK, NotRun
<1>2. FromTarget'
  BY <1>1 DEF RecordInv, FromTarget
<1>3. Stays'
  BY <1>1 DEF RecordInv, Stays, Recorded
<1>4. HasBeenRead'
  BY <1>1 DEF RecordInv, HasBeenRead, Recorded
<1>5. RecordedRunPasses'
  BY <1>1 DEF RecordInv, RecordedRunPasses
<1>6. QED
  BY <1>2, <1>3, <1>4, <1>5 DEF RecordInv

\* A step that leaves what was run, read and recorded alone, gives no FAIL and
\* does not go on to the readings.
LEMMA RecordQuiet ==
  ASSUME RecordInv, UNCHANGED <<record, graph, buffer>>,
         \A c \in Checks : pc'[c] \in {pc[c]} \cup {"resolve", "ready", "exit"} \cup Artefacts,
         \A c \in Checks : status'[c] \in {status[c], "ERROR", "UNSUPPORTED"}
  PROVE  RecordInv'
<1>1. FromTarget'
  BY DEF RecordInv, FromTarget
<1>2. Stays'
  BY DEF RecordInv, Stays, Recorded
<1>3. HasBeenRead'
  BY DEF RecordInv, HasBeenRead, Recorded
<1>4. RecordedRunPasses'
  BY DEF RecordInv, RecordedRunPasses
<1>5. QED
  BY <1>1, <1>2, <1>3, <1>4 DEF RecordInv

\* What a check does with its own graph, its own buffer and its own status.
Only(c) == \A d \in Checks \ {c} :
  graph'[d] = graph[d] /\ buffer'[d] = buffer[d] /\ pc'[d] = pc[d] /\ status'[d] = status[d]

\* The check that runs its recipe is the only one between start and end.
LEMMA OnlyReader ==
  ASSUME Alone, ~Overlaps, NEW c \in Checks, pc[c] \notin Over, NEW d \in Checks \ {c}
  PROVE  pc[d] \in Over
BY DEF Alone

\* While the target runs, the record comes from the target.
LEMMA RecordGraph ==
  ASSUME TypeOK, RunInv, Alone, RecordInv, NEW c \in Checks,
         DryRun(c) \/ LoadFails(c) \/ Invoke(c) \/ Flush(c)
  PROVE  RecordInv'
<1>1. Only(c) /\ buffer' = buffer /\ pc[c] \notin Over
  BY DEF DryRun, LoadFails, Invoke, Flush, Report, Move, Only, TypeOK
<1>2. CASE DryRun(c) \/ LoadFails(c)
  <2>1. /\ graph'[c].wrote = "absent" /\ graph'[c].run # "target" /\ record' = record
    <3>1. record' = record /\ graph[c] = NotRun
      BY <1>2 DEF DryRun, LoadFails, shared, RunInv, Fresh
    <3>2. CASE DryRun(c)
      BY <3>1, <3>2 DEF DryRun, TypeOK, NotRun
    <3>3. CASE LoadFails(c)
      BY <3>1, <3>3 DEF LoadFails, TypeOK, NotRun
    <3>4. QED
      BY <1>2, <3>1, <3>2, <3>3
  <2>2. FromTarget'
    BY <1>1, <2>1 DEF RecordInv, FromTarget, Only
  <2>3. Stays' /\ HasBeenRead' /\ RecordedRunPasses'
    BY <1>1, <2>1 DEF RecordInv, Stays, HasBeenRead, RecordedRunPasses, Recorded, Only
  <2>4. QED
    BY <2>2, <2>3 DEF RecordInv
<1>3. CASE Invoke(c)
  <2>1. PICK t \in Targets :
          /\ graph' = [graph EXCEPT ![c] =
                         [run |-> "target", path |-> t.path, messages |-> t.messages,
                          wrote |-> t.wrote, late |-> t.late]]
          /\ record' = IF t.wrote = "absent" THEN record ELSE t.wrote
    BY <1>3 DEF Invoke
  <2>2. /\ graph'[c].run = "target" /\ graph'[c].wrote = t.wrote
        /\ graph'[c].late = t.late
    BY <2>1 DEF TypeOK
  <2>3. t.wrote = "records" => t.late = "no" /\ record' = "records"
    BY <2>1, CheckAssumption DEF AllTargets
  <2>4. buffer[c] = {} /\ status'[c] = "none" /\ pc'[c] = "observe"
    BY <1>3 DEF Invoke, Move, TypeOK, RunInv, Fresh
  <2>5. FromTarget'
    BY <1>1, <2>2, <2>3, <2>4 DEF RecordInv, FromTarget, Only
  <2>6. Stays'
    BY <1>1, <2>2, <2>3, OnlyReader DEF Stays, Recorded, Only
  <2>7. HasBeenRead' /\ RecordedRunPasses'
    BY <1>1, <2>4 DEF RecordInv, HasBeenRead, RecordedRunPasses, Recorded, Only
  <2>8. QED
    BY <2>5, <2>6, <2>7 DEF RecordInv
<1>4. CASE Flush(c)
  <2>1. /\ graph' = [graph EXCEPT ![c].late = "done"] /\ UNCHANGED <<pc, status>>
        /\ graph[c].late = "due"
    BY <1>4 DEF Flush
  <2>2. graph[c].wrote # "records"
    BY <2>1 DEF RecordInv, FromTarget
  <2>3. graph'[c].wrote = graph[c].wrote /\ graph'[c].run = graph[c].run
    BY <2>1 DEF TypeOK, Graphs
  <2>4. FromTarget'
    BY <1>1, <2>2, <2>3 DEF RecordInv, FromTarget, Only
  <2>5. Stays'
    BY <1>1, <2>2, <2>3, OnlyReader DEF Stays, Recorded, Only
  <2>6. HasBeenRead' /\ RecordedRunPasses'
    BY <1>1, <2>1, <2>2, <2>3 DEF RecordInv, HasBeenRead, RecordedRunPasses, Recorded, Only
  <2>7. QED
    BY <2>4, <2>5, <2>6 DEF RecordInv
<1>5. QED
  BY <1>2, <1>3, <1>4

\* The observer reads the record that is there.
LEMMA RecordObserve ==
  ASSUME TypeOK, RecordInv, NEW c \in Checks, Observe(c)
  PROVE  RecordInv'
<1>1. /\ Only(c) /\ graph' = graph /\ record' = record
      /\ pc[c] \in {"observe", "again"}
  BY DEF Observe, Report, Move, Only, TypeOK, shared
<1>2. CASE ObserverRaises(c)
  <2>1. buffer' = buffer /\ pc'[c] = "result" /\ status'[c] = "ERROR"
    BY <1>2 DEF Observe, Report, Move, TypeOK
  <2>2. QED
    BY <1>1, <2>1, RecordQuiet DEF Only
<1>3. CASE ~ObserverRaises(c)
  <2>1. /\ buffer'[c] = buffer[c] \cup Observed(c) /\ status' = status
        /\ pc'[c] \in {"again", "judge"}
    BY <1>3 DEF Observe, Move, TypeOK
  <2>2. graph[c].run = "target" => \A o \in Observed(c) : o.producer # "harness"
    BY DEF Observed, RowObservations, MessageObservations, Obs
  <2>3. FromTarget'
    BY <1>1, <2>1, <2>2 DEF RecordInv, FromTarget, Only
  <2>4. Stays'
    BY <1>1, <2>1 DEF RecordInv, Stays, Recorded, Only
  <2>5. ASSUME ~Overlaps, Recorded(c)
        PROVE  Obs("model", "system_state", TRUE) \in Observed(c)
    <3>1. record = "records" /\ graph[c].run = "target"
      BY <1>1, <2>5 DEF RecordInv, Stays, FromTarget, Recorded
    <3>2. HasRows(graph[c])
      BY <2>5, <3>1 DEF HasRows, Recorded
    <3>3. QED
      BY <3>1, <3>2 DEF Observed, RowObservations
  <2>6. HasBeenRead'
    BY <1>1, <2>1, <2>5 DEF RecordInv, HasBeenRead, Recorded, Only
  <2>7. RecordedRunPasses'
    BY <1>1, <2>1 DEF RecordInv, RecordedRunPasses
  <2>8. QED
    BY <2>3, <2>4, <2>6, <2>7 DEF RecordInv
<1>4. QED
  BY <1>2, <1>3

\* The verdict is about what the observer has read.
LEMMA RecordJudge ==
  ASSUME TypeOK, RecordInv, NEW c \in Checks, Judge(c)
  PROVE  RecordInv'
<1>1. /\ Only(c) /\ UNCHANGED <<record, graph, buffer>>
      /\ pc[c] = "judge" /\ pc'[c] = "result"
      /\ status'[c] = IF ChecksPass(buffer[c]) THEN "PASS" ELSE "FAIL"
  BY DEF Judge, Report, Move, Only, TypeOK, shared
<1>2. ASSUME ~Overlaps, Recorded(c) PROVE ChecksPass(buffer[c])
  <2> DEFINE o == Obs("model", "system_state", TRUE)
  <2>1. o \in buffer[c] /\ \A p \in buffer[c] : p.producer # "harness"
    BY <1>1, <1>2 DEF RecordInv, FromTarget, HasBeenRead, Recorded
  <2>2. o.kind = "model" /\ o.producer = "system_state" /\ o.ref
    BY DEF Obs
  <2> HIDE DEF o
  <2>3. QED
    BY <2>1, <2>2 DEF ChecksPass, Persists, Eligible
<1>3. FromTarget'
  BY <1>1 DEF RecordInv, FromTarget
<1>4. Stays' /\ HasBeenRead'
  BY <1>1 DEF RecordInv, Stays, HasBeenRead, Recorded, Only
<1>5. RecordedRunPasses'
  BY <1>1, <1>2 DEF RecordInv, RecordedRunPasses, Recorded, Only
<1>6. QED
  BY <1>3, <1>4, <1>5 DEF RecordInv

\* RecordInv is kept by every step.
LEMMA RecordNext == TypeOK /\ RunInv /\ Alone /\ RecordInv /\ Steps => RecordInv'
<1> SUFFICES ASSUME TypeOK, RunInv, Alone, RecordInv, Steps
             PROVE  RecordInv'
  OBVIOUS
<1>1. CASE UNCHANGED <<record, graph, buffer, pc, status>>
  BY <1>1, RecordQuiet
<1>2. ASSUME NEW c \in Checks, Start(c) \/ Refuse(c) \/ Write(c) \/ Resolve(c), ~End(c, 1)
      PROVE  RecordInv'
  <2>1. UNCHANGED <<record, graph, buffer>>
    BY <1>2 DEF Start, Refuse, Write, Resolve, shared, private
  <2>2. \A d \in Checks :
          pc'[d] \in {pc[d]} \cup {"resolve", "ready", "exit"} \cup Artefacts
    BY <1>2 DEF Start, Refuse, Write, Resolve, Report, Move, NextStage, TypeOK
  <2>3. \A d \in Checks : status'[d] \in {status[d], "ERROR", "UNSUPPORTED"}
    BY <1>2 DEF Start, Refuse, Write, Resolve, Report, private, TypeOK
  <2>4. QED
    BY <2>1, <2>2, <2>3, RecordQuiet
<1>3. ASSUME NEW c \in Checks,
             NoRepository(c) \/ (Resolve(c) /\ End(c, 1)) \/ TargetExits(c) \/ Return(c)
             \/ Raise(c) \/ Kill(c)
      PROVE  RecordInv'
  <2>1. UNCHANGED record
    BY <1>3 DEF NoRepository, Resolve, TargetExits, Return, Raise, Kill, shared
  <2>2. PICK place \in {"returned", "over"}, code \in 0..NoCode : Leave(c, place, code)
    BY <1>3 DEF NoRepository, TargetExits, Return, Raise, Kill, End, ExitCode
  <2>3. QED
    BY <2>1, <2>2, RecordLeave
<1>4. ASSUME NEW c \in Checks, CheckStep(c) PROVE RecordInv'
  <2>1. CASE Start(c) \/ Refuse(c) \/ Write(c) \/ Resolve(c)
    <3>1. CASE End(c, 1)
      BY <1>3, <2>1, <3>1 DEF Start, Refuse, Write, End, Leave, Report, Move, TypeOK,
         NextStage
    <3>2. CASE ~End(c, 1)
      BY <1>2, <2>1, <3>2
    <3>3. QED
      BY <3>1, <3>2
  <2>2. CASE NoRepository(c) \/ TargetExits(c) \/ Return(c) \/ Raise(c) \/ Kill(c)
    BY <1>3, <2>2
  <2>3. CASE DryRun(c) \/ LoadFails(c) \/ Invoke(c) \/ Flush(c)
    BY <2>3, RecordGraph
  <2>4. CASE Observe(c) \/ Judge(c)
    BY <2>4, RecordObserve, RecordJudge
  <2>5. QED
    BY <1>4, <2>1, <2>2, <2>3, <2>4 DEF CheckStep, Finish
<1>5. QED
  BY <1>1, <1>4 DEF Steps, Next, Done, Edit, CreateTemplate, Doctor, private, vars

\* A target passes only if it names a trajectory, and is not failed if it wrote its
\* records there before it returned and no other check ran meanwhile.
THEOREM PassIsRecorded == Spec => []PassMeansRecorded
<1>1. RunInv /\ RecordInv => PassMeansRecorded
  BY DEF RunInv, RecordInv, PassMeansRecorded
<1>2. QED
  BY <1>1, TypeCorrect, RunInit, RunNext, AloneInit, AloneNext, RecordInit, RecordNext, PTL
  DEF Spec, Steps

-----------------------------------------------------------------------------
(* `doctor` and the check after it.                                         *)

\* What `doctor` found in order is there as long as its answer stands; a check
\* that has not resolved has no configuration, and one that runs no exit code.
DoctorInv ==
  /\ \A a \in doctor :
       /\ a.named => Selected(a.explicit).file = "mapping"
       /\ a.explicit => Selected(a.explicit).file # "absent"
  /\ \A c \in Checks : pc[c] \in {"idle", "resolve"} => cfg[c] = Absent
  /\ \A c \in Checks : pc[c] \notin {"returned", "over"} => exit[c] = NoCode

\* At first doctor has said nothing.
LEMMA DoctorInit == Init => DoctorInv
BY DEF Init, DoctorInv

\* A check changes nothing that doctor has looked at.
LEMMA DoctorStep ==
  ASSUME TypeOK, DoctorInv, NEW c \in Checks, CheckStep(c)
  PROVE  DoctorInv'
<1>1. UNCHANGED <<config, doctor>>
  BY DEF CheckStep, Start, NoRepository, Resolve, Refuse, DryRun, LoadFails, Invoke, Flush,
     TargetExits, Finish, Observe, Judge, Write, Return, Raise, Kill, shared
<1>2. \A d \in Checks \ {c} : pc'[d] = pc[d] /\ cfg'[d] = cfg[d] /\ exit'[d] = exit[d]
  BY DEF CheckStep, Start, NoRepository, Resolve, Refuse, DryRun, LoadFails, Invoke, Flush,
     TargetExits, Finish, Observe, Judge, Write, Return, Raise, Kill, End, Leave, Report,
     Move, private, TypeOK
<1>3. pc'[c] \in {"idle", "resolve"} => cfg'[c] = Absent
  BY DEF DoctorInv, CheckStep, Start, NoRepository, Resolve, Refuse, DryRun, LoadFails,
     Invoke, Flush, TargetExits, Finish, Observe, Judge, Write, NextStage, Return, Raise,
     Kill, End, Leave, Report, Move, private, TypeOK
<1>4. pc'[c] \notin {"returned", "over"} => exit'[c] = NoCode
  BY DEF DoctorInv, CheckStep, Start, NoRepository, Resolve, Refuse, DryRun, LoadFails,
     Invoke, Flush, TargetExits, Finish, Observe, Judge, Write, Return, Raise, Kill, End,
     Leave, Report, Move, private, TypeOK
<1>5. QED
  BY <1>1, <1>2, <1>3, <1>4 DEF DoctorInv, Selected

\* What doctor found stays so until the next edit.
LEMMA DoctorNext == TypeOK /\ DoctorInv /\ Steps => DoctorInv'
<1> SUFFICES ASSUME TypeOK, DoctorInv, Steps
             PROVE  DoctorInv'
  OBVIOUS
<1>1. CASE Edit \/ CreateTemplate
  BY <1>1 DEF Edit, CreateTemplate, private, DoctorInv
<1>2. CASE Doctor
  <2>1. UNCHANGED <<config, pc, cfg, exit>>
    BY <1>2 DEF Doctor, private
  <2>2. PICK a \in Answers, path \in BOOLEAN :
          LET k == IF a.explicit \/ path THEN Selected(a.explicit) ELSE Absent
          IN /\ a.explicit => config["explicit"].file # "absent"
             /\ a.named => k.file # "unreadable" /\ ~Missing(a.explicit, k)
             /\ doctor' = doctor \cup {a}
    BY <1>2 DEF Doctor
  <2>3. Selected(a.explicit) \in AllConfigs
    BY DEF Selected, TypeOK
  <2>4. a.named => Selected(a.explicit).file = "mapping"
    BY <2>2, <2>3 DEF Missing, Absent, AllConfigs
  <2>5. a.explicit => Selected(a.explicit).file # "absent"
    BY <2>2 DEF Selected
  <2>6. \A b \in doctor' : b \in doctor \/ b = a
    BY <2>2
  <2>7. QED
    BY <2>1, <2>4, <2>5, <2>6 DEF DoctorInv, Selected
<1>3. CASE UNCHANGED vars
  BY <1>3 DEF vars, DoctorInv, Selected
<1>4. QED
  BY <1>1, <1>2, <1>3, DoctorStep DEF Steps, Next, Done

\* A check with a selection that `doctor` found in order finds the file and can
\* read it, if `doctor` had a name; without one, an explicit file is there.
THEOREM DoctorIsRight == Spec => DoctorOkMeansFound
<1>1. ASSUME TypeOK, DoctorInv, Steps, NEW c \in Checks, NEW a \in doctor,
             pc[c] = "resolve", args[c].explicit = a.explicit
      PROVE  /\ a.named => exit'[c] # 1
             /\ (a.named \/ a.explicit) /\ pc'[c] \in {"ready", "result"} =>
                  cfg'[c].file = "mapping"
  <2>1. /\ exit[c] = NoCode
        /\ a.named => Selected(args[c].explicit).file = "mapping"
        /\ a.explicit => Selected(args[c].explicit).file # "absent"
    BY <1>1 DEF DoctorInv
  <2>2. CASE exit'[c] = exit[c] /\ pc'[c] = pc[c]
    BY <1>1, <2>1, <2>2 DEF NoCode
  <2>3. ASSUME NEW d \in Checks, CheckStep(d), d # c
        PROVE  exit'[c] = exit[c] /\ pc'[c] = pc[c]
    BY <1>1, <2>3 DEF CheckStep, Start, NoRepository, Resolve, Refuse, DryRun, LoadFails,
       Invoke, Flush, TargetExits, Finish, Observe, Judge, Write, Return, Raise, Kill, End,
       Leave, Report, Move, private, TypeOK
  <2>4. CASE Resolve(c)
    <3>1. Selected(args[c].explicit) \in AllConfigs
      BY <1>1 DEF Selected, TypeOK, AllArguments
    <3>2. CASE Selected(args[c].explicit).file = "unreadable"
      <4>1. exit'[c] = 1 /\ pc'[c] = "over"
        BY <1>1, <2>4, <3>2 DEF Resolve, End, Leave, Move, TypeOK
      <4>2. QED
        BY <2>1, <3>2, <4>1
    <3>3. CASE Selected(args[c].explicit).file # "unreadable"
      <4>1. cfg'[c] = Selected(args[c].explicit) /\ exit' = exit
        BY <1>1, <2>4, <3>3 DEF Resolve, TypeOK
      <4>2. a.named \/ a.explicit => cfg'[c].file = "mapping"
        BY <2>1, <3>1, <3>3, <4>1 DEF AllConfigs
      <4>3. QED
        BY <2>1, <4>1, <4>2 DEF NoCode
    <3>4. QED
      BY <3>2, <3>3
  <2>5. CASE Kill(c)
    BY <1>1, <2>1, <2>5 DEF Kill, End, Leave, Move, NoCode, TypeOK
  <2>6. CASE CheckStep(c) /\ ~Resolve(c) /\ ~Kill(c)
    <3>1. Flush(c)
      BY <1>1, <2>6 DEF CheckStep, Start, NoRepository, Refuse, DryRun, LoadFails, Invoke,
         TargetExits, Finish, Observe, Judge, Write, Return, Raise
    <3>2. QED
      BY <2>2, <3>1 DEF Flush
  <2>7. CASE Edit \/ CreateTemplate \/ Doctor \/ UNCHANGED vars
    BY <2>2, <2>7 DEF Edit, CreateTemplate, Doctor, private, vars
  <2>8. CASE \E d \in Checks : CheckStep(d)
    BY <1>1, <2>2, <2>3, <2>4, <2>5, <2>6, <2>8
  <2>9. QED
    BY <1>1, <2>7, <2>8 DEF Steps, Next, Done
<1>2. TypeOK /\ DoctorInv /\ Steps =>
        [\A c \in Checks, a \in doctor :
           pc[c] = "resolve" /\ args[c].explicit = a.explicit =>
             /\ a.named => exit'[c] # 1
             /\ (a.named \/ a.explicit) /\ pc'[c] \in {"ready", "result"} =>
                  cfg'[c].file = "mapping"]_vars
  BY <1>1
<1>3. QED
  BY <1>2, TypeCorrect, DoctorInit, DoctorNext, PTL DEF Spec, Steps, DoctorOkMeansFound
=============================================================================
