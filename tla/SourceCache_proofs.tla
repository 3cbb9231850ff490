------------------------- MODULE SourceCache_proofs -------------------------
(***************************************************************************)
(* Proofs about SourceCache, for any number of attempts, collectors,       *)
(* commits, crashes and failures.  The inductive invariant says who holds  *)
(* the entry's lock where, and what a workspace holds once it has been     *)
(* extracted or its attempt has failed.                                    *)
(***************************************************************************)
EXTENDS SourceCache, TLAPS

\* Whoever fills, reads or removes the mirror is the holder of its lock, or an
\* attempt whose flock has failed.
HolderInv ==
  /\ \A a \in Attempts : pc[a] \in Fetching \cup Reading => lock = a \/ a \in bare
  /\ \A g \in Collectors : gc[g] \in Removing => lock = g

\* What a workspace holds after the extraction, and after a failure.
Extracted == {"settle", "mark", "publish_mark", "prepared"}
WorkspaceInv ==
  \A a \in Attempts :
    /\ pc[a] \in Extracted => workspace[a] = Wanted[a]
    /\ pc[a] = "failed" => workspace[a] = "none" \/ raised[a] = "create"

IInv == TypeOK /\ HolderInv /\ WorkspaceInv

\* The mirrors that clones, fetches and removals make are mirrors.
LEMMA MirrorTypes ==
  /\ {Absent, Hollow, Headless, Configless} \subseteq Mirrors
  /\ \A S \in SUBSET Shas : Holding(S) \in Mirrors
  /\ \A m \in Mirrors : [m EXCEPT !.shas = @ \cup Remote] \in Mirrors
  /\ \A m \in Mirrors : Remains(m) \subseteq Mirrors
  /\ \A m \in Mirrors : Holding(m.shas \cup Remote) \in Mirrors
  /\ \A m \in Mirrors : HalfCloned(m) \subseteq Mirrors
<1>1. {Absent, Hollow, Headless, Configless} \subseteq Mirrors
  BY DEF Mirrors, Absent, Hollow, Headless, Configless
<1>2. \A S \in SUBSET Shas : Holding(S) \in Mirrors
  BY DEF Mirrors, Holding
<1>3. \A m \in Mirrors : [m EXCEPT !.shas = @ \cup Remote] \in Mirrors
  BY CacheAssumption DEF Mirrors
<1>4. \A m \in Mirrors : m.shas \in SUBSET Shas
  BY DEF Mirrors
<1>5. \A m \in Mirrors : Remains(m) \subseteq Mirrors
  BY <1>1, <1>2, <1>4 DEF Remains
<1>6. \A m \in Mirrors : Holding(m.shas \cup Remote) \in Mirrors
  BY <1>2, <1>4, CacheAssumption
<1>7. \A m \in Mirrors : HalfCloned(m) \subseteq Mirrors
  BY <1>5, <1>6 DEF HalfCloned
<1>8. QED  BY <1>1, <1>2, <1>3, <1>5, <1>6, <1>7

\* Counters of crashes and failures stay within their bounds as they count down.
LEMMA Countdown ==
  /\ MaxCrashes \in 0..MaxCrashes /\ MaxFailures \in 0..MaxFailures
  /\ \A n \in 0..MaxCrashes : n > 0 => n - 1 \in 0..MaxCrashes
  /\ \A n \in 0..MaxFailures : n > 0 => n - 1 \in 0..MaxFailures
<1>1. MaxCrashes \in Nat /\ MaxFailures \in Nat
  BY CacheAssumption
<1>2. QED  BY ONLY <1>1

\* The initial states satisfy the inductive invariant: nobody holds the lock
\* and every attempt is idle.
LEMMA InitInv == Init => IInv
<1> SUFFICES ASSUME Init PROVE IInv
  OBVIOUS
<1>1. \A a \in Attempts : pc[a] = "idle"
  BY DEF Init
<1>2. \A g \in Collectors : gc[g] = "list"
  BY DEF Init
<1>3. TypeOK
  <2>1. mirror \in Mirrors
    BY MirrorTypes DEF Init
  <2>2. pc \in [Attempts -> PCs]
    BY DEF Init, PCs
  <2>3. gc \in [Collectors -> {"list", "try", "done"} \cup Removing]
    BY DEF Init
  <2>4. /\ meta \in MetaStates /\ tmp \in {"absent", "fresh"}
        /\ lock = Nobody /\ bare \in SUBSET Attempts
        /\ orphan \in [Attempts -> {"none", "fetch", "clone", "cloned"}]
    BY DEF Init
  <2>5. /\ site \in [Attempts -> {"prepare", "checkout"}]
        /\ recheck \in [Attempts -> BOOLEAN]
        /\ workspace \in [Attempts -> {"none", "empty"} \cup Shas]
        /\ \A a \in Attempts : workspace[a] \in {"none", "empty", Wanted[a]}
        /\ raised \in [Attempts -> Reasons] /\ met \in SUBSET Attempts
    BY DEF Init, Reasons
  <2>6. crashes \in 0..MaxCrashes /\ failures \in 0..MaxFailures
    BY Countdown DEF Init
  <2>7. QED  BY <2>1, <2>2, <2>3, <2>4, <2>5, <2>6 DEF TypeOK
<1>4. HolderInv
  BY <1>1, <1>2 DEF HolderInv, Fetching, Reading, Removing
<1>5. WorkspaceInv
  BY <1>1 DEF WorkspaceInv, Extracted
<1>6. QED  BY <1>3, <1>4, <1>5 DEF IInv

-----------------------------------------------------------------------------
(***************************************************************************)
(* The steps.                                                              *)
(***************************************************************************)

\* A step of attempt a keeps the lock's discipline when it moves a alone, takes
\* the lock only from nobody, and goes where the mirror is used only with it.
LEMMA HolderStep ==
  ASSUME HolderInv, NEW a \in Attempts,
         \A b \in Attempts \ {a} : pc'[b] = pc[b],
         gc' = gc,
         pc'[a] \in Fetching \cup Reading => lock' = a \/ a \in bare',
         lock' # lock => lock \in {Nobody, a},
         bare \ {a} \subseteq bare'
  PROVE  HolderInv'
BY CacheAssumption DEF HolderInv, Nobody

\* A step of attempt a keeps the workspaces right when it touches a's alone.
LEMMA WorkspaceStep ==
  ASSUME WorkspaceInv, NEW a \in Attempts,
         \A b \in Attempts \ {a} :
           pc'[b] = pc[b] /\ workspace'[b] = workspace[b] /\ raised'[b] = raised[b],
         pc'[a] \in Extracted => workspace'[a] = Wanted[a],
         pc'[a] = "failed" => workspace'[a] = "none" \/ raised'[a] = "create"
  PROVE  WorkspaceInv'
BY DEF WorkspaceInv

\* Every step of an attempt's thread preserves the inductive invariant.
LEMMA AttemptStepInv ==
  ASSUME IInv, NEW a \in Attempts, AttemptStep(a)
  PROVE  IInv'
<1> USE DEF cacheVars, attemptVars
<1>0. TypeOK /\ HolderInv /\ WorkspaceInv
  BY DEF IInv
<1>1. CASE Start(a)
  <2> USE <1>1 DEF Start, Goto
  <2>1. pc'[a] \in {"look"} /\ \A b \in Attempts \ {a} : pc'[b] = pc[b]
    BY <1>0 DEF TypeOK
  <2>2. pc' \in [Attempts -> PCs]
    <3>1. pc'[a] \in PCs
      BY ONLY <2>1 DEF PCs, Fetching, Reading, Ended
    <3>2. pc \in [Attempts -> PCs]
      BY ONLY <1>0 DEF TypeOK
    <3>3. QED  BY <3>1, <3>2
  <2>3. met' \in SUBSET Attempts
    BY <1>0 DEF TypeOK, AtWork
  <2>4. TypeOK'
    <3>1. UNCHANGED <<cacheVars, site, recheck, workspace, raised, gc, crashes, failures>>
      OBVIOUS
    <3>2. QED  BY ONLY <1>0, <2>2, <2>3, <3>1 DEF TypeOK, MetaStates, cacheVars
  <2>6. HolderInv'
    BY <1>0, <2>1, HolderStep DEF Fetching, Reading, Nobody
  <2>7. WorkspaceInv'
    <3>1. \A b \in Attempts \ {a} :
            pc'[b] = pc[b] /\ workspace'[b] = workspace[b] /\ raised'[b] = raised[b]
      BY <1>0, <2>1 DEF TypeOK
    <3>2. /\ pc'[a] \in Extracted => workspace'[a] = Wanted[a]
          /\ pc'[a] = "failed" => workspace'[a] = "none" \/ raised'[a] = "create"
      BY <1>0, <2>1 DEF TypeOK, WorkspaceInv, Extracted
    <3>3. QED  BY ONLY <1>0, <3>1, <3>2, WorkspaceStep
  <2>8. QED  BY <2>4, <2>6, <2>7 DEF IInv
<1>2. CASE Look(a)
  <2> USE <1>2 DEF Look, Goto
  <2>1. pc'[a] \in {"verify", "lock_fetch"} /\ \A b \in Attempts \ {a} : pc'[b] = pc[b]
    BY <1>0 DEF TypeOK
  <2>2. pc' \in [Attempts -> PCs]
    <3>1. pc'[a] \in PCs
      BY ONLY <2>1 DEF PCs, Fetching, Reading, Ended
    <3>2. pc \in [Attempts -> PCs]
      BY ONLY <1>0 DEF TypeOK
    <3>3. QED  BY <3>1, <3>2
  <2>4. TypeOK'
    BY <1>0, <2>2 DEF TypeOK, MetaStates
  <2>6. HolderInv'
    BY <1>0, <2>1, HolderStep DEF Fetching, Reading, Nobody
  <2>7. WorkspaceInv'
    <3>1. \A b \in Attempts \ {a} :
            pc'[b] = pc[b] /\ workspace'[b] = workspace[b] /\ raised'[b] = raised[b]
      BY <1>0, <2>1 DEF TypeOK
    <3>2. /\ pc'[a] \in Extracted => workspace'[a] = Wanted[a]
          /\ pc'[a] = "failed" => workspace'[a] = "none" \/ raised'[a] = "create"
      BY <1>0, <2>1 DEF TypeOK, WorkspaceInv, Extracted
    <3>3. QED  BY ONLY <1>0, <3>1, <3>2, WorkspaceStep
  <2>8. QED  BY <2>4, <2>6, <2>7 DEF IInv
<1>3. CASE Verify(a)
  <2> USE <1>3 DEF Verify, Proceed, MayFetch, Raise, Fails
  <2>1. pc'[a] \in {"create", "lock_archive", "lock_fetch", "failed"} /\ \A b \in Attempts \ {a} : pc'[b] = pc[b]
    BY <1>0 DEF TypeOK
  <2>2. pc' \in [Attempts -> PCs]
    <3>1. pc'[a] \in PCs
      BY ONLY <2>1 DEF PCs, Fetching, Reading, Ended
    <3>2. pc \in [Attempts -> PCs]
      BY ONLY <1>0 DEF TypeOK
    <3>3. QED  BY <3>1, <3>2
  <2>4. TypeOK'
    <3>1. raised' \in [Attempts -> Reasons]
      BY <1>0 DEF TypeOK, Reasons
    <3>2. /\ workspace' \in [Attempts -> {"none", "empty"} \cup Shas]
          /\ \A b \in Attempts : workspace'[b] \in {"none", "empty", Wanted[b]}
      BY <1>0 DEF TypeOK
    <3>3. failures' \in 0..MaxFailures /\ recheck' \in [Attempts -> BOOLEAN]
      BY <1>0, Countdown DEF TypeOK
    <3>4. /\ lock' \in Attempts \cup Collectors \cup {Nobody}
          /\ meta' \in MetaStates /\ tmp' \in {"absent", "fresh"}
      BY <1>0 DEF TypeOK, MetaStates
    <3>5. bare' \in SUBSET Attempts /\ site' \in [Attempts -> {"prepare", "checkout"}]
      BY <1>0 DEF TypeOK
    <3>6. orphan' = orphan /\ gc' = gc /\ crashes' = crashes /\ mirror' = mirror
      OBVIOUS
    <3>7. met' \in SUBSET Attempts
      BY <1>0 DEF TypeOK
    <3>8. QED  BY ONLY <1>0, <2>2, <3>1, <3>2, <3>3, <3>4, <3>5, <3>6, <3>7 DEF TypeOK
  <2>6. HolderInv'
    BY <1>0, <2>1, HolderStep DEF Fetching, Reading, Nobody
  <2>7. WorkspaceInv'
    <3>1. \A b \in Attempts \ {a} :
            pc'[b] = pc[b] /\ workspace'[b] = workspace[b] /\ raised'[b] = raised[b]
      BY <1>0, <2>1 DEF TypeOK
    <3>2. /\ pc'[a] \in Extracted => workspace'[a] = Wanted[a]
          /\ pc'[a] = "failed" => workspace'[a] = "none" \/ raised'[a] = "create"
      BY <1>0, <2>1 DEF TypeOK, WorkspaceInv, Extracted
    <3>3. QED  BY ONLY <1>0, <3>1, <3>2, WorkspaceStep
  <2>8. QED  BY <2>4, <2>6, <2>7 DEF IInv
<1>4. CASE CreateWorkspace(a)
  <2> USE <1>4 DEF CreateWorkspace, Goto, Fails
  <2>1. pc'[a] \in {"look", "failed"} /\ \A b \in Attempts \ {a} : pc'[b] = pc[b]
    BY <1>0 DEF TypeOK
  <2>2. pc' \in [Attempts -> PCs]
    <3>1. pc'[a] \in PCs
      BY ONLY <2>1 DEF PCs, Fetching, Reading, Ended
    <3>2. pc \in [Attempts -> PCs]
      BY ONLY <1>0 DEF TypeOK
    <3>3. QED  BY <3>1, <3>2
  <2>4. TypeOK'
    <3>1. raised' \in [Attempts -> Reasons]
      BY <1>0 DEF TypeOK, Reasons
    <3>2. /\ workspace' \in [Attempts -> {"none", "empty"} \cup Shas]
          /\ \A b \in Attempts : workspace'[b] \in {"none", "empty", Wanted[b]}
      BY <1>0 DEF TypeOK
    <3>3. failures' \in 0..MaxFailures /\ recheck' \in [Attempts -> BOOLEAN]
      BY <1>0, Countdown DEF TypeOK
    <3>4. /\ lock' \in Attempts \cup Collectors \cup {Nobody}
          /\ meta' \in MetaStates /\ tmp' \in {"absent", "fresh"}
      BY <1>0 DEF TypeOK, MetaStates
    <3>5. bare' \in SUBSET Attempts /\ site' \in [Attempts -> {"prepare", "checkout"}]
      BY <1>0 DEF TypeOK
    <3>6. orphan' = orphan /\ gc' = gc /\ crashes' = crashes /\ mirror' = mirror
      OBVIOUS
    <3>7. met' \in SUBSET Attempts
      BY <1>0 DEF TypeOK
    <3>8. QED  BY ONLY <1>0, <2>2, <3>1, <3>2, <3>3, <3>4, <3>5, <3>6, <3>7 DEF TypeOK
  <2>6. HolderInv'
    BY <1>0, <2>1, HolderStep DEF Fetching, Reading, Nobody
  <2>7. WorkspaceInv'
    <3>1. \A b \in Attempts \ {a} :
            pc'[b] = pc[b] /\ workspace'[b] = workspace[b] /\ raised'[b] = raised[b]
      BY <1>0, <2>1 DEF TypeOK
    <3>2. /\ pc'[a] \in Extracted => workspace'[a] = Wanted[a]
          /\ pc'[a] = "failed" => workspace'[a] = "none" \/ raised'[a] = "create"
      BY <1>0, <2>1 DEF TypeOK, WorkspaceInv, Extracted
    <3>3. QED  BY ONLY <1>0, <3>1, <3>2, WorkspaceStep
  <2>8. QED  BY <2>4, <2>6, <2>7 DEF IInv
<1>5. CASE LockFetch(a)
  <2> USE <1>5 DEF LockFetch, Lock, Goto, Fails
  <2>1. pc'[a] \in {"pull", "clone"} /\ \A b \in Attempts \ {a} : pc'[b] = pc[b]
    BY <1>0 DEF TypeOK
  <2>2. pc' \in [Attempts -> PCs]
    <3>1. pc'[a] \in PCs
      BY ONLY <2>1 DEF PCs, Fetching, Reading, Ended
    <3>2. pc \in [Attempts -> PCs]
      BY ONLY <1>0 DEF TypeOK
    <3>3. QED  BY <3>1, <3>2
  <2>4. TypeOK'
    <3>1. raised' \in [Attempts -> Reasons]
      BY <1>0 DEF TypeOK, Reasons
    <3>2. /\ workspace' \in [Attempts -> {"none", "empty"} \cup Shas]
          /\ \A b \in Attempts : workspace'[b] \in {"none", "empty", Wanted[b]}
      BY <1>0 DEF TypeOK
    <3>3. failures' \in 0..MaxFailures /\ recheck' \in [Attempts -> BOOLEAN]
      BY <1>0, Countdown DEF TypeOK
    <3>4. /\ lock' \in Attempts \cup Collectors \cup {Nobody}
          /\ meta' \in MetaStates /\ tmp' \in {"absent", "fresh"}
      BY <1>0 DEF TypeOK, MetaStates
    <3>5. bare' \in SUBSET Attempts /\ site' \in [Attempts -> {"prepare", "checkout"}]
      BY <1>0 DEF TypeOK
    <3>6. orphan' = orphan /\ gc' = gc /\ crashes' = crashes /\ mirror' = mirror
      OBVIOUS
    <3>7. met' \in SUBSET Attempts
      BY <1>0 DEF TypeOK
    <3>8. QED  BY ONLY <1>0, <2>2, <3>1, <3>2, <3>3, <3>4, <3>5, <3>6, <3>7 DEF TypeOK
  <2>6. HolderInv'
    <3>1. pc'[a] \in Fetching \cup Reading => lock' = a \/ a \in bare'
      BY <1>0, <2>1 DEF TypeOK, Fetching, Reading
    <3>2. (lock' # lock => lock \in {Nobody, a}) /\ bare \ {a} \subseteq bare'
      OBVIOUS
    <3>3. gc' = gc
      OBVIOUS
    <3>4. QED  BY ONLY <1>0, <2>1, <3>1, <3>2, <3>3, HolderStep
  <2>7. WorkspaceInv'
    <3>1. \A b \in Attempts \ {a} :
            pc'[b] = pc[b] /\ workspace'[b] = workspace[b] /\ raised'[b] = raised[b]
      BY <1>0, <2>1 DEF TypeOK
    <3>2. /\ pc'[a] \in Extracted => workspace'[a] = Wanted[a]
          /\ pc'[a] = "failed" => workspace'[a] = "none" \/ raised'[a] = "create"
      BY <1>0, <2>1 DEF TypeOK, WorkspaceInv, Extracted
    <3>3. QED  BY ONLY <1>0, <3>1, <3>2, WorkspaceStep
  <2>8. QED  BY <2>4, <2>6, <2>7 DEF IInv
<1>6. CASE StartClone(a)
  <2> USE <1>6 DEF StartClone, Goto, FetchFails
  <2>1. pc'[a] \in {"cloning", "stamp_error"} /\ \A b \in Attempts \ {a} : pc'[b] = pc[b]
    BY <1>0 DEF TypeOK
  <2>2. pc' \in [Attempts -> PCs]
    <3>1. pc'[a] \in PCs
      BY ONLY <2>1 DEF PCs, Fetching, Reading, Ended
    <3>2. pc \in [Attempts -> PCs]
      BY ONLY <1>0 DEF TypeOK
    <3>3. QED  BY <3>1, <3>2
  <2>3. mirror' \in Mirrors
    BY ZenonT(40), <1>0, MirrorTypes, CacheAssumption DEF TypeOK
  <2>4. TypeOK'
    <3>1. raised' \in [Attempts -> Reasons]
      BY <1>0 DEF TypeOK, Reasons
    <3>2. /\ workspace' \in [Attempts -> {"none", "empty"} \cup Shas]
          /\ \A b \in Attempts : workspace'[b] \in {"none", "empty", Wanted[b]}
      BY <1>0 DEF TypeOK
    <3>3. failures' \in 0..MaxFailures /\ recheck' \in [Attempts -> BOOLEAN]
      BY <1>0, Countdown DEF TypeOK
    <3>4. /\ lock' \in Attempts \cup Collectors \cup {Nobody}
          /\ meta' \in MetaStates /\ tmp' \in {"absent", "fresh"}
      BY <1>0 DEF TypeOK, MetaStates
    <3>5. bare' \in SUBSET Attempts /\ site' \in [Attempts -> {"prepare", "checkout"}]
      BY <1>0 DEF TypeOK
    <3>6. orphan' = orphan /\ gc' = gc /\ crashes' = crashes
      OBVIOUS
    <3>7. met' \in SUBSET Attempts
      BY <1>0 DEF TypeOK
    <3>8. QED  BY ONLY <1>0, <2>2, <2>3, <3>1, <3>2, <3>3, <3>4, <3>5, <3>6, <3>7 DEF TypeOK
  <2>5. lock = a \/ a \in bare
    BY <1>0 DEF HolderInv, Fetching, Reading
  <2>6. HolderInv'
    <3>1. pc'[a] \in Fetching \cup Reading => lock' = a \/ a \in bare'
      BY <1>0, <2>1, <2>5 DEF TypeOK, Fetching, Reading
    <3>2. (lock' # lock => lock \in {Nobody, a}) /\ bare \ {a} \subseteq bare'
      OBVIOUS
    <3>3. gc' = gc
      OBVIOUS
    <3>4. QED  BY ONLY <1>0, <2>1, <3>1, <3>2, <3>3, HolderStep
  <2>7. WorkspaceInv'
    <3>1. \A b \in Attempts \ {a} :
            pc'[b] = pc[b] /\ workspace'[b] = workspace[b] /\ raised'[b] = raised[b]
      BY <1>0, <2>1 DEF TypeOK
    <3>2. /\ pc'[a] \in Extracted => workspace'[a] = Wanted[a]
          /\ pc'[a] = "failed" => workspace'[a] = "none" \/ raised'[a] = "create"
      BY <1>0, <2>1 DEF TypeOK, WorkspaceInv, Extracted
    <3>3. QED  BY ONLY <1>0, <3>1, <3>2, WorkspaceStep
  <2>8. QED  BY <2>4, <2>6, <2>7 DEF IInv
<1>7. CASE FinishClone(a)
  <2> USE <1>7 DEF FinishClone, Goto, FetchFails, Fails
  <2>1. pc'[a] \in {"pull", "stamp_error"} /\ \A b \in Attempts \ {a} : pc'[b] = pc[b]
    BY <1>0 DEF TypeOK
  <2>2. pc' \in [Attempts -> PCs]
    <3>1. pc'[a] \in PCs
      BY ONLY <2>1 DEF PCs, Fetching, Reading, Ended
    <3>2. pc \in [Attempts -> PCs]
      BY ONLY <1>0 DEF TypeOK
    <3>3. QED  BY <3>1, <3>2
  <2>3. mirror' \in Mirrors
    BY ZenonT(40), <1>0, MirrorTypes, CacheAssumption DEF TypeOK
  <2>4. TypeOK'
    <3>1. raised' \in [Attempts -> Reasons]
      BY <1>0 DEF TypeOK, Reasons
    <3>2. /\ workspace' \in [Attempts -> {"none", "empty"} \cup Shas]
          /\ \A b \in Attempts : workspace'[b] \in {"none", "empty", Wanted[b]}
      BY <1>0 DEF TypeOK
    <3>3. failures' \in 0..MaxFailures /\ recheck' \in [Attempts -> BOOLEAN]
      BY <1>0, Countdown DEF TypeOK
    <3>4. /\ lock' \in Attempts \cup Collectors \cup {Nobody}
          /\ meta' \in MetaStates /\ tmp' \in {"absent", "fresh"}
      BY <1>0 DEF TypeOK, MetaStates
    <3>5. bare' \in SUBSET Attempts /\ site' \in [Attempts -> {"prepare", "checkout"}]
      BY <1>0 DEF TypeOK
    <3>6. orphan' = orphan /\ gc' = gc /\ crashes' = crashes
      OBVIOUS
    <3>7. met' \in SUBSET Attempts
      BY <1>0 DEF TypeOK
    <3>8. QED  BY ONLY <1>0, <2>2, <2>3, <3>1, <3>2, <3>3, <3>4, <3>5, <3>6, <3>7 DEF TypeOK
  <2>5. lock = a \/ a \in bare
    BY <1>0 DEF HolderInv, Fetching, Reading
  <2>6. HolderInv'
    <3>1. pc'[a] \in Fetching \cup Reading => lock' = a \/ a \in bare'
      BY <1>0, <2>1, <2>5 DEF TypeOK, Fetching, Reading
    <3>2. (lock' # lock => lock \in {Nobody, a}) /\ bare \ {a} \subseteq bare'
      OBVIOUS
    <3>3. gc' = gc
      OBVIOUS
    <3>4. QED  BY ONLY <1>0, <2>1, <3>1, <3>2, <3>3, HolderStep
  <2>7. WorkspaceInv'
    <3>1. \A b \in Attempts \ {a} :
            pc'[b] = pc[b] /\ workspace'[b] = workspace[b] /\ raised'[b] = raised[b]
      BY <1>0, <2>1 DEF TypeOK
    <3>2. /\ pc'[a] \in Extracted => workspace'[a] = Wanted[a]
          /\ pc'[a] = "failed" => workspace'[a] = "none" \/ raised'[a] = "create"
      BY <1>0, <2>1 DEF TypeOK, WorkspaceInv, Extracted
    <3>3. QED  BY ONLY <1>0, <3>1, <3>2, WorkspaceStep
  <2>8. QED  BY <2>4, <2>6, <2>7 DEF IInv
<1>8. CASE Pull(a)
  <2> USE <1>8 DEF Pull, Goto, FetchFails, Fails
  <2>1. pc'[a] \in {"stamp", "stamp_error"} /\ \A b \in Attempts \ {a} : pc'[b] = pc[b]
    BY <1>0 DEF TypeOK
  <2>2. pc' \in [Attempts -> PCs]
    <3>1. pc'[a] \in PCs
      BY ONLY <2>1 DEF PCs, Fetching, Reading, Ended
    <3>2. pc \in [Attempts -> PCs]
      BY ONLY <1>0 DEF TypeOK
    <3>3. QED  BY <3>1, <3>2
  <2>3. mirror' \in Mirrors
    BY <1>0, MirrorTypes, CacheAssumption DEF TypeOK
  <2>4. TypeOK'
    <3>1. raised' \in [Attempts -> Reasons]
      BY <1>0 DEF TypeOK, Reasons
    <3>2. /\ workspace' \in [Attempts -> {"none", "empty"} \cup Shas]
          /\ \A b \in Attempts : workspace'[b] \in {"none", "empty", Wanted[b]}
      BY <1>0 DEF TypeOK
    <3>3. failures' \in 0..MaxFailures /\ recheck' \in [Attempts -> BOOLEAN]
      BY <1>0, Countdown DEF TypeOK
    <3>4. /\ lock' \in Attempts \cup Collectors \cup {Nobody}
          /\ meta' \in MetaStates /\ tmp' \in {"absent", "fresh"}
      BY <1>0 DEF TypeOK, MetaStates
    <3>5. bare' \in SUBSET Attempts /\ site' \in [Attempts -> {"prepare", "checkout"}]
      BY <1>0 DEF TypeOK
    <3>6. orphan' = orphan /\ gc' = gc /\ crashes' = crashes
      OBVIOUS
    <3>7. met' \in SUBSET Attempts
      BY <1>0 DEF TypeOK
    <3>8. QED  BY ONLY <1>0, <2>2, <2>3, <3>1, <3>2, <3>3, <3>4, <3>5, <3>6, <3>7 DEF TypeOK
  <2>5. lock = a \/ a \in bare
    BY <1>0 DEF HolderInv, Fetching, Reading
  <2>6. HolderInv'
    <3>1. pc'[a] \in Fetching \cup Reading => lock' = a \/ a \in bare'
      BY <1>0, <2>1, <2>5 DEF TypeOK, Fetching, Reading
    <3>2. (lock' # lock => lock \in {Nobody, a}) /\ bare \ {a} \subseteq bare'
      OBVIOUS
    <3>3. gc' = gc
      OBVIOUS
    <3>4. QED  BY ONLY <1>0, <2>1, <3>1, <3>2, <3>3, HolderStep
  <2>7. WorkspaceInv'
    <3>1. \A b \in Attempts \ {a} :
            pc'[b] = pc[b] /\ workspace'[b] = workspace[b] /\ raised'[b] = raised[b]
      BY <1>0, <2>1 DEF TypeOK
    <3>2. /\ pc'[a] \in Extracted => workspace'[a] = Wanted[a]
          /\ pc'[a] = "failed" => workspace'[a] = "none" \/ raised'[a] = "create"
      BY <1>0, <2>1 DEF TypeOK, WorkspaceInv, Extracted
    <3>3. QED  BY ONLY <1>0, <3>1, <3>2, WorkspaceStep
  <2>8. QED  BY <2>4, <2>6, <2>7 DEF IInv
<1>9. CASE Stamp(a)
  <2> USE <1>9 DEF Stamp, WriteTmp, Goto
  <2>1. pc'[a] \in {"publish"} /\ \A b \in Attempts \ {a} : pc'[b] = pc[b]
    BY <1>0 DEF TypeOK
  <2>2. pc' \in [Attempts -> PCs]
    <3>1. pc'[a] \in PCs
      BY ONLY <2>1 DEF PCs, Fetching, Reading, Ended
    <3>2. pc \in [Attempts -> PCs]
      BY ONLY <1>0 DEF TypeOK
    <3>3. QED  BY <3>1, <3>2
  <2>4. TypeOK'
    BY <1>0, <2>2 DEF TypeOK, MetaStates
  <2>5. lock = a \/ a \in bare
    BY <1>0 DEF HolderInv, Fetching, Reading
  <2>6. HolderInv'
    <3>1. pc'[a] \in Fetching \cup Reading => lock' = a \/ a \in bare'
      BY <1>0, <2>1, <2>5 DEF TypeOK, Fetching, Reading
    <3>2. (lock' # lock => lock \in {Nobody, a}) /\ bare \ {a} \subseteq bare'
      OBVIOUS
    <3>3. gc' = gc
      OBVIOUS
    <3>4. QED  BY ONLY <1>0, <2>1, <3>1, <3>2, <3>3, HolderStep
  <2>7. WorkspaceInv'
    <3>1. \A b \in Attempts \ {a} :
            pc'[b] = pc[b] /\ workspace'[b] = workspace[b] /\ raised'[b] = raised[b]
      BY <1>0, <2>1 DEF TypeOK
    <3>2. /\ pc'[a] \in Extracted => workspace'[a] = Wanted[a]
          /\ pc'[a] = "failed" => workspace'[a] = "none" \/ raised'[a] = "create"
      BY <1>0, <2>1 DEF TypeOK, WorkspaceInv, Extracted
    <3>3. QED  BY ONLY <1>0, <3>1, <3>2, WorkspaceStep
  <2>8. QED  BY <2>4, <2>6, <2>7 DEF IInv
<1>10. CASE Publish(a)
  <2> USE <1>10 DEF Publish, Replace, Unlock, Proceed
  <2>1. pc'[a] \in {"verify", "create", "lock_archive", "stamp_error"} /\ \A b \in Attempts \ {a} : pc'[b] = pc[b]
    BY <1>0 DEF TypeOK
  <2>2. pc' \in [Attempts -> PCs]
    <3>1. pc'[a] \in PCs
      BY ONLY <2>1 DEF PCs, Fetching, Reading, Ended
    <3>2. pc \in [Attempts -> PCs]
      BY ONLY <1>0 DEF TypeOK
    <3>3. QED  BY <3>1, <3>2
  <2>4. TypeOK'
    <3>1. raised' \in [Attempts -> Reasons]
      BY <1>0 DEF TypeOK, Reasons
    <3>2. /\ workspace' \in [Attempts -> {"none", "empty"} \cup Shas]
          /\ \A b \in Attempts : workspace'[b] \in {"none", "empty", Wanted[b]}
      BY <1>0 DEF TypeOK
    <3>3. failures' \in 0..MaxFailures /\ recheck' \in [Attempts -> BOOLEAN]
      BY <1>0, Countdown DEF TypeOK
    <3>4. /\ lock' \in Attempts \cup Collectors \cup {Nobody}
          /\ meta' \in MetaStates /\ tmp' \in {"absent", "fresh"}
      BY <1>0 DEF TypeOK, MetaStates
    <3>5. bare' \in SUBSET Attempts /\ site' \in [Attempts -> {"prepare", "checkout"}]
      BY <1>0 DEF TypeOK
    <3>6. orphan' = orphan /\ gc' = gc /\ crashes' = crashes /\ mirror' = mirror
      OBVIOUS
    <3>7. met' \in SUBSET Attempts
      BY <1>0 DEF TypeOK
    <3>8. QED  BY ONLY <1>0, <2>2, <3>1, <3>2, <3>3, <3>4, <3>5, <3>6, <3>7 DEF TypeOK
  <2>5. lock = a \/ a \in bare
    BY <1>0 DEF HolderInv, Fetching, Reading
  <2>6. HolderInv'
    <3>1. pc'[a] \in Fetching \cup Reading => lock' = a \/ a \in bare'
      BY <1>0, <2>1, <2>5 DEF TypeOK, Fetching, Reading
    <3>2. (lock' # lock => lock \in {Nobody, a}) /\ bare \ {a} \subseteq bare'
      OBVIOUS
    <3>3. gc' = gc
      OBVIOUS
    <3>4. QED  BY ONLY <1>0, <2>1, <3>1, <3>2, <3>3, HolderStep
  <2>7. WorkspaceInv'
    <3>1. \A b \in Attempts \ {a} :
            pc'[b] = pc[b] /\ workspace'[b] = workspace[b] /\ raised'[b] = raised[b]
      BY <1>0, <2>1 DEF TypeOK
    <3>2. /\ pc'[a] \in Extracted => workspace'[a] = Wanted[a]
          /\ pc'[a] = "failed" => workspace'[a] = "none" \/ raised'[a] = "create"
      BY <1>0, <2>1 DEF TypeOK, WorkspaceInv, Extracted
    <3>3. QED  BY ONLY <1>0, <3>1, <3>2, WorkspaceStep
  <2>8. QED  BY <2>4, <2>6, <2>7 DEF IInv
<1>11. CASE StampError(a)
  <2> USE <1>11 DEF StampError, WriteTmp, Goto
  <2>1. pc'[a] \in {"publish_error"} /\ \A b \in Attempts \ {a} : pc'[b] = pc[b]
    BY <1>0 DEF TypeOK
  <2>2. pc' \in [Attempts -> PCs]
    <3>1. pc'[a] \in PCs
      BY ONLY <2>1 DEF PCs, Fetching, Reading, Ended
    <3>2. pc \in [Attempts -> PCs]
      BY ONLY <1>0 DEF TypeOK
    <3>3. QED  BY <3>1, <3>2
  <2>4. TypeOK'
    BY <1>0, <2>2 DEF TypeOK, MetaStates
  <2>5. lock = a \/ a \in bare
    BY <1>0 DEF HolderInv, Fetching, Reading
  <2>6. HolderInv'
    <3>1. pc'[a] \in Fetching \cup Reading => lock' = a \/ a \in bare'
      BY <1>0, <2>1, <2>5 DEF TypeOK, Fetching, Reading
    <3>2. (lock' # lock => lock \in {Nobody, a}) /\ bare \ {a} \subseteq bare'
      OBVIOUS
    <3>3. gc' = gc
      OBVIOUS
    <3>4. QED  BY ONLY <1>0, <2>1, <3>1, <3>2, <3>3, HolderStep
  <2>7. WorkspaceInv'
    <3>1. \A b \in Attempts \ {a} :
            pc'[b] = pc[b] /\ workspace'[b] = workspace[b] /\ raised'[b] = raised[b]
      BY <1>0, <2>1 DEF TypeOK
    <3>2. /\ pc'[a] \in Extracted => workspace'[a] = Wanted[a]
          /\ pc'[a] = "failed" => workspace'[a] = "none" \/ raised'[a] = "create"
      BY <1>0, <2>1 DEF TypeOK, WorkspaceInv, Extracted
    <3>3. QED  BY ONLY <1>0, <3>1, <3>2, WorkspaceStep
  <2>8. QED  BY <2>4, <2>6, <2>7 DEF IInv
<1>12. CASE PublishError(a)
  <2> USE <1>12 DEF PublishError, Replace, Unlock, Raise
  <2>1. pc'[a] \in {"failed"} /\ \A b \in Attempts \ {a} : pc'[b] = pc[b]
    BY <1>0 DEF TypeOK
  <2>2. pc' \in [Attempts -> PCs]
    <3>1. pc'[a] \in PCs
      BY ONLY <2>1 DEF PCs, Fetching, Reading, Ended
    <3>2. pc \in [Attempts -> PCs]
      BY ONLY <1>0 DEF TypeOK
    <3>3. QED  BY <3>1, <3>2
  <2>4. TypeOK'
    <3>1. raised' \in [Attempts -> Reasons]
      BY <1>0 DEF TypeOK, Reasons
    <3>2. /\ workspace' \in [Attempts -> {"none", "empty"} \cup Shas]
          /\ \A b \in Attempts : workspace'[b] \in {"none", "empty", Wanted[b]}
      BY <1>0 DEF TypeOK
    <3>3. failures' \in 0..MaxFailures /\ recheck' \in [Attempts -> BOOLEAN]
      BY <1>0, Countdown DEF TypeOK
    <3>4. /\ lock' \in Attempts \cup Collectors \cup {Nobody}
          /\ meta' \in MetaStates /\ tmp' \in {"absent", "fresh"}
      BY <1>0 DEF TypeOK, MetaStates
    <3>5. bare' \in SUBSET Attempts /\ site' \in [Attempts -> {"prepare", "checkout"}]
      BY <1>0 DEF TypeOK
    <3>6. orphan' = orphan /\ gc' = gc /\ crashes' = crashes /\ mirror' = mirror
      OBVIOUS
    <3>7. met' \in SUBSET Attempts
      BY <1>0 DEF TypeOK
    <3>8. QED  BY ONLY <1>0, <2>2, <3>1, <3>2, <3>3, <3>4, <3>5, <3>6, <3>7 DEF TypeOK
  <2>5. lock = a \/ a \in bare
    BY <1>0 DEF HolderInv, Fetching, Reading
  <2>6. HolderInv'
    <3>1. pc'[a] \in Fetching \cup Reading => lock' = a \/ a \in bare'
      BY <1>0, <2>1, <2>5 DEF TypeOK, Fetching, Reading
    <3>2. (lock' # lock => lock \in {Nobody, a}) /\ bare \ {a} \subseteq bare'
      OBVIOUS
    <3>3. gc' = gc
      OBVIOUS
    <3>4. QED  BY ONLY <1>0, <2>1, <3>1, <3>2, <3>3, HolderStep
  <2>7. WorkspaceInv'
    <3>1. \A b \in Attempts \ {a} :
            pc'[b] = pc[b] /\ workspace'[b] = workspace[b] /\ raised'[b] = raised[b]
      BY <1>0, <2>1 DEF TypeOK
    <3>2. /\ pc'[a] \in Extracted => workspace'[a] = Wanted[a]
          /\ pc'[a] = "failed" => workspace'[a] = "none" \/ raised'[a] = "create"
      BY <1>0, <2>1 DEF TypeOK, WorkspaceInv, Extracted
    <3>3. QED  BY ONLY <1>0, <3>1, <3>2, WorkspaceStep
  <2>8. QED  BY <2>4, <2>6, <2>7 DEF IInv
<1>13. CASE LockArchive(a)
  <2> USE <1>13 DEF LockArchive, Lock, Goto, Fails
  <2>1. pc'[a] \in {"archive"} /\ \A b \in Attempts \ {a} : pc'[b] = pc[b]
    BY <1>0 DEF TypeOK
  <2>2. pc' \in [Attempts -> PCs]
    <3>1. pc'[a] \in PCs
      BY ONLY <2>1 DEF PCs, Fetching, Reading, Ended
    <3>2. pc \in [Attempts -> PCs]
      BY ONLY <1>0 DEF TypeOK
    <3>3. QED  BY <3>1, <3>2
  <2>4. TypeOK'
    <3>1. raised' \in [Attempts -> Reasons]
      BY <1>0 DEF TypeOK, Reasons
    <3>2. /\ workspace' \in [Attempts -> {"none", "empty"} \cup Shas]
          /\ \A b \in Attempts : workspace'[b] \in {"none", "empty", Wanted[b]}
      BY <1>0 DEF TypeOK
    <3>3. failures' \in 0..MaxFailures /\ recheck' \in [Attempts -> BOOLEAN]
      BY <1>0, Countdown DEF TypeOK
    <3>4. /\ lock' \in Attempts \cup Collectors \cup {Nobody}
          /\ meta' \in MetaStates /\ tmp' \in {"absent", "fresh"}
      BY <1>0 DEF TypeOK, MetaStates
    <3>5. bare' \in SUBSET Attempts /\ site' \in [Attempts -> {"prepare", "checkout"}]
      BY <1>0 DEF TypeOK
    <3>6. orphan' = orphan /\ gc' = gc /\ crashes' = crashes /\ mirror' = mirror
      OBVIOUS
    <3>7. met' \in SUBSET Attempts
      BY <1>0 DEF TypeOK
    <3>8. QED  BY ONLY <1>0, <2>2, <3>1, <3>2, <3>3, <3>4, <3>5, <3>6, <3>7 DEF TypeOK
  <2>6. HolderInv'
    <3>1. pc'[a] \in Fetching \cup Reading => lock' = a \/ a \in bare'
      BY <1>0, <2>1 DEF TypeOK, Fetching, Reading
    <3>2. (lock' # lock => lock \in {Nobody, a}) /\ bare \ {a} \subseteq bare'
      OBVIOUS
    <3>3. gc' = gc
      OBVIOUS
    <3>4. QED  BY ONLY <1>0, <2>1, <3>1, <3>2, <3>3, HolderStep
  <2>7. WorkspaceInv'
    <3>1. \A b \in Attempts \ {a} :
            pc'[b] = pc[b] /\ workspace'[b] = workspace[b] /\ raised'[b] = raised[b]
      BY <1>0, <2>1 DEF TypeOK
    <3>2. /\ pc'[a] \in Extracted => workspace'[a] = Wanted[a]
          /\ pc'[a] = "failed" => workspace'[a] = "none" \/ raised'[a] = "create"
      BY <1>0, <2>1 DEF TypeOK, WorkspaceInv, Extracted
    <3>3. QED  BY ONLY <1>0, <3>1, <3>2, WorkspaceStep
  <2>8. QED  BY <2>4, <2>6, <2>7 DEF IInv
<1>14. CASE StartArchive(a)
  <2> USE <1>14 DEF StartArchive, Goto, Raise, Unlock
  <2>1. pc'[a] \in {"reading", "failed"} /\ \A b \in Attempts \ {a} : pc'[b] = pc[b]
    BY <1>0 DEF TypeOK
  <2>2. pc' \in [Attempts -> PCs]
    <3>1. pc'[a] \in PCs
      BY ONLY <2>1 DEF PCs, Fetching, Reading, Ended
    <3>2. pc \in [Attempts -> PCs]
      BY ONLY <1>0 DEF TypeOK
    <3>3. QED  BY <3>1, <3>2
  <2>4. TypeOK'
    <3>1. raised' \in [Attempts -> Reasons]
      BY <1>0 DEF TypeOK, Reasons
    <3>2. /\ workspace' \in [Attempts -> {"none", "empty"} \cup Shas]
          /\ \A b \in Attempts : workspace'[b] \in {"none", "empty", Wanted[b]}
      BY <1>0 DEF TypeOK
    <3>3. failures' \in 0..MaxFailures /\ recheck' \in [Attempts -> BOOLEAN]
      BY <1>0, Countdown DEF TypeOK
    <3>4. /\ lock' \in Attempts \cup Collectors \cup {Nobody}
          /\ meta' \in MetaStates /\ tmp' \in {"absent", "fresh"}
      BY <1>0 DEF TypeOK, MetaStates
    <3>5. bare' \in SUBSET Attempts /\ site' \in [Attempts -> {"prepare", "checkout"}]
      BY <1>0 DEF TypeOK
    <3>6. orphan' = orphan /\ gc' = gc /\ crashes' = crashes /\ mirror' = mirror
      OBVIOUS
    <3>7. met' \in SUBSET Attempts
      BY <1>0 DEF TypeOK
    <3>8. QED  BY ONLY <1>0, <2>2, <3>1, <3>2, <3>3, <3>4, <3>5, <3>6, <3>7 DEF TypeOK
  <2>5. lock = a \/ a \in bare
    BY <1>0 DEF HolderInv, Fetching, Reading
  <2>6. HolderInv'
    <3>1. pc'[a] \in Fetching \cup Reading => lock' = a \/ a \in bare'
      BY <1>0, <2>1, <2>5 DEF TypeOK, Fetching, Reading
    <3>2. (lock' # lock => lock \in {Nobody, a}) /\ bare \ {a} \subseteq bare'
      OBVIOUS
    <3>3. gc' = gc
      OBVIOUS
    <3>4. QED  BY ONLY <1>0, <2>1, <3>1, <3>2, <3>3, HolderStep
  <2>7. WorkspaceInv'
    <3>1. \A b \in Attempts \ {a} :
            pc'[b] = pc[b] /\ workspace'[b] = workspace[b] /\ raised'[b] = raised[b]
      BY <1>0, <2>1 DEF TypeOK
    <3>2. /\ pc'[a] \in Extracted => workspace'[a] = Wanted[a]
          /\ pc'[a] = "failed" => workspace'[a] = "none" \/ raised'[a] = "create"
      BY <1>0, <2>1 DEF TypeOK, WorkspaceInv, Extracted
    <3>3. QED  BY ONLY <1>0, <3>1, <3>2, WorkspaceStep
  <2>8. QED  BY <2>4, <2>6, <2>7 DEF IInv
<1>15. CASE Extract(a)
  <2> USE <1>15 DEF Extract, Fails, Raise, Unlock
  <2>1. pc'[a] \in {"settle", "failed"} /\ \A b \in Attempts \ {a} : pc'[b] = pc[b]
    BY <1>0 DEF TypeOK
  <2>2. pc' \in [Attempts -> PCs]
    <3>1. pc'[a] \in PCs
      BY ONLY <2>1 DEF PCs, Fetching, Reading, Ended
    <3>2. pc \in [Attempts -> PCs]
      BY ONLY <1>0 DEF TypeOK
    <3>3. QED  BY <3>1, <3>2
  <2>4. TypeOK'
    <3>1. raised' \in [Attempts -> Reasons]
      BY <1>0 DEF TypeOK, Reasons
    <3>2. /\ workspace' \in [Attempts -> {"none", "empty"} \cup Shas]
          /\ \A b \in Attempts : workspace'[b] \in {"none", "empty", Wanted[b]}
      <4>1. Wanted[a] \in Shas
        BY CacheAssumption
      <4>2. workspace' = [workspace EXCEPT ![a] = Wanted[a]]
            \/ workspace' = [workspace EXCEPT ![a] = "none"]
        OBVIOUS
      <4>3. QED  BY ONLY <1>0, <4>1, <4>2 DEF TypeOK
    <3>3. failures' \in 0..MaxFailures /\ recheck' \in [Attempts -> BOOLEAN]
      BY <1>0, Countdown DEF TypeOK
    <3>4. /\ lock' \in Attempts \cup Collectors \cup {Nobody}
          /\ meta' \in MetaStates /\ tmp' \in {"absent", "fresh"}
      BY <1>0 DEF TypeOK, MetaStates
    <3>5. bare' \in SUBSET Attempts /\ site' \in [Attempts -> {"prepare", "checkout"}]
      BY <1>0 DEF TypeOK
    <3>6. orphan' = orphan /\ gc' = gc /\ crashes' = crashes /\ mirror' = mirror
      OBVIOUS
    <3>7. met' \in SUBSET Attempts
      BY <1>0 DEF TypeOK
    <3>8. QED  BY ONLY <1>0, <2>2, <3>1, <3>2, <3>3, <3>4, <3>5, <3>6, <3>7 DEF TypeOK
  <2>5. lock = a \/ a \in bare
    BY <1>0 DEF HolderInv, Fetching, Reading
  <2>6. HolderInv'
    <3>1. pc'[a] \in Fetching \cup Reading => lock' = a \/ a \in bare'
      BY <1>0, <2>1, <2>5 DEF TypeOK, Fetching, Reading
    <3>2. (lock' # lock => lock \in {Nobody, a}) /\ bare \ {a} \subseteq bare'
      OBVIOUS
    <3>3. gc' = gc
      OBVIOUS
    <3>4. QED  BY ONLY <1>0, <2>1, <3>1, <3>2, <3>3, HolderStep
  <2>7. WorkspaceInv'
    <3>1. \A b \in Attempts \ {a} :
            pc'[b] = pc[b] /\ workspace'[b] = workspace[b] /\ raised'[b] = raised[b]
      BY <1>0, <2>1 DEF TypeOK
    <3>2. /\ pc'[a] \in Extracted => workspace'[a] = Wanted[a]
          /\ pc'[a] = "failed" => workspace'[a] = "none" \/ raised'[a] = "create"
      BY <1>0, <2>1 DEF TypeOK, WorkspaceInv, Extracted
    <3>3. QED  BY ONLY <1>0, <3>1, <3>2, WorkspaceStep
  <2>8. QED  BY <2>4, <2>6, <2>7 DEF IInv
<1>16. CASE Settle(a)
  <2> USE <1>16 DEF Settle, Goto, Fails, Raise
  <2>1. pc'[a] \in {"mark", "failed"} /\ \A b \in Attempts \ {a} : pc'[b] = pc[b]
    BY <1>0 DEF TypeOK
  <2>2. pc' \in [Attempts -> PCs]
    <3>1. pc'[a] \in PCs
      BY ONLY <2>1 DEF PCs, Fetching, Reading, Ended
    <3>2. pc \in [Attempts -> PCs]
      BY ONLY <1>0 DEF TypeOK
    <3>3. QED  BY <3>1, <3>2
  <2>4. TypeOK'
    <3>1. raised' \in [Attempts -> Reasons]
      BY <1>0 DEF TypeOK, Reasons
    <3>2. /\ workspace' \in [Attempts -> {"none", "empty"} \cup Shas]
          /\ \A b \in Attempts : workspace'[b] \in {"none", "empty", Wanted[b]}
      BY <1>0 DEF TypeOK
    <3>3. failures' \in 0..MaxFailures /\ recheck' \in [Attempts -> BOOLEAN]
      BY <1>0, Countdown DEF TypeOK
    <3>4. /\ lock' \in Attempts \cup Collectors \cup {Nobody}
          /\ meta' \in MetaStates /\ tmp' \in {"absent", "fresh"}
      BY <1>0 DEF TypeOK, MetaStates
    <3>5. bare' \in SUBSET Attempts /\ site' \in [Attempts -> {"prepare", "checkout"}]
      BY <1>0 DEF TypeOK
    <3>6. orphan' = orphan /\ gc' = gc /\ crashes' = crashes /\ mirror' = mirror
      OBVIOUS
    <3>7. met' \in SUBSET Attempts
      BY <1>0 DEF TypeOK
    <3>8. QED  BY ONLY <1>0, <2>2, <3>1, <3>2, <3>3, <3>4, <3>5, <3>6, <3>7 DEF TypeOK
  <2>6. HolderInv'
    <3>1. pc'[a] \in Fetching \cup Reading => lock' = a \/ a \in bare'
      BY <1>0, <2>1 DEF TypeOK, Fetching, Reading
    <3>2. (lock' # lock => lock \in {Nobody, a}) /\ bare \ {a} \subseteq bare'
      OBVIOUS
    <3>3. gc' = gc
      OBVIOUS
    <3>4. QED  BY ONLY <1>0, <2>1, <3>1, <3>2, <3>3, HolderStep
  <2>7. WorkspaceInv'
    <3>1. \A b \in Attempts \ {a} :
            pc'[b] = pc[b] /\ workspace'[b] = workspace[b] /\ raised'[b] = raised[b]
      BY <1>0, <2>1 DEF TypeOK
    <3>2. /\ pc'[a] \in Extracted => workspace'[a] = Wanted[a]
          /\ pc'[a] = "failed" => workspace'[a] = "none" \/ raised'[a] = "create"
      BY <1>0, <2>1 DEF TypeOK, WorkspaceInv, Extracted
    <3>3. QED  BY ONLY <1>0, <3>1, <3>2, WorkspaceStep
  <2>8. QED  BY <2>4, <2>6, <2>7 DEF IInv
<1>17. CASE Mark(a)
  <2> USE <1>17 DEF Mark, WriteTmp, Goto
  <2>1. pc'[a] \in {"publish_mark"} /\ \A b \in Attempts \ {a} : pc'[b] = pc[b]
    BY <1>0 DEF TypeOK
  <2>2. pc' \in [Attempts -> PCs]
    <3>1. pc'[a] \in PCs
      BY ONLY <2>1 DEF PCs, Fetching, Reading, Ended
    <3>2. pc \in [Attempts -> PCs]
      BY ONLY <1>0 DEF TypeOK
    <3>3. QED  BY <3>1, <3>2
  <2>4. TypeOK'
    BY <1>0, <2>2 DEF TypeOK, MetaStates
  <2>6. HolderInv'
    <3>1. pc'[a] \in Fetching \cup Reading => lock' = a \/ a \in bare'
      BY <1>0, <2>1 DEF TypeOK, Fetching, Reading
    <3>2. (lock' # lock => lock \in {Nobody, a}) /\ bare \ {a} \subseteq bare'
      OBVIOUS
    <3>3. gc' = gc
      OBVIOUS
    <3>4. QED  BY ONLY <1>0, <2>1, <3>1, <3>2, <3>3, HolderStep
  <2>7. WorkspaceInv'
    <3>1. \A b \in Attempts \ {a} :
            pc'[b] = pc[b] /\ workspace'[b] = workspace[b] /\ raised'[b] = raised[b]
      BY <1>0, <2>1 DEF TypeOK
    <3>2. /\ pc'[a] \in Extracted => workspace'[a] = Wanted[a]
          /\ pc'[a] = "failed" => workspace'[a] = "none" \/ raised'[a] = "create"
      BY <1>0, <2>1 DEF TypeOK, WorkspaceInv, Extracted
    <3>3. QED  BY ONLY <1>0, <3>1, <3>2, WorkspaceStep
  <2>8. QED  BY <2>4, <2>6, <2>7 DEF IInv
<1>18. CASE PublishMark(a)
  <2> USE <1>18 DEF PublishMark, Replace, Raise
  <2>1. pc'[a] \in {"prepared", "failed"} /\ \A b \in Attempts \ {a} : pc'[b] = pc[b]
    BY <1>0 DEF TypeOK
  <2>2. pc' \in [Attempts -> PCs]
    <3>1. pc'[a] \in PCs
      BY ONLY <2>1 DEF PCs, Fetching, Reading, Ended
    <3>2. pc \in [Attempts -> PCs]
      BY ONLY <1>0 DEF TypeOK
    <3>3. QED  BY <3>1, <3>2
  <2>4. TypeOK'
    <3>1. raised' \in [Attempts -> Reasons]
      BY <1>0 DEF TypeOK, Reasons
    <3>2. /\ workspace' \in [Attempts -> {"none", "empty"} \cup Shas]
          /\ \A b \in Attempts : workspace'[b] \in {"none", "empty", Wanted[b]}
      BY <1>0 DEF TypeOK
    <3>3. failures' \in 0..MaxFailures /\ recheck' \in [Attempts -> BOOLEAN]
      BY <1>0, Countdown DEF TypeOK
    <3>4. /\ lock' \in Attempts \cup Collectors \cup {Nobody}
          /\ meta' \in MetaStates /\ tmp' \in {"absent", "fresh"}
      BY <1>0 DEF TypeOK, MetaStates
    <3>5. bare' \in SUBSET Attempts /\ site' \in [Attempts -> {"prepare", "checkout"}]
      BY <1>0 DEF TypeOK
    <3>6. orphan' = orphan /\ gc' = gc /\ crashes' = crashes /\ mirror' = mirror
      OBVIOUS
    <3>7. met' \in SUBSET Attempts
      BY <1>0 DEF TypeOK
    <3>8. QED  BY ONLY <1>0, <2>2, <3>1, <3>2, <3>3, <3>4, <3>5, <3>6, <3>7 DEF TypeOK
  <2>6. HolderInv'
    <3>1. pc'[a] \in Fetching \cup Reading => lock' = a \/ a \in bare'
      BY <1>0, <2>1 DEF TypeOK, Fetching, Reading
    <3>2. (lock' # lock => lock \in {Nobody, a}) /\ bare \ {a} \subseteq bare'
      OBVIOUS
    <3>3. gc' = gc
      OBVIOUS
    <3>4. QED  BY ONLY <1>0, <2>1, <3>1, <3>2, <3>3, HolderStep
  <2>7. WorkspaceInv'
    <3>1. \A b \in Attempts \ {a} :
            pc'[b] = pc[b] /\ workspace'[b] = workspace[b] /\ raised'[b] = raised[b]
      BY <1>0, <2>1 DEF TypeOK
    <3>2. /\ pc'[a] \in Extracted => workspace'[a] = Wanted[a]
          /\ pc'[a] = "failed" => workspace'[a] = "none" \/ raised'[a] = "create"
      BY <1>0, <2>1 DEF TypeOK, WorkspaceInv, Extracted
    <3>3. QED  BY ONLY <1>0, <3>1, <3>2, WorkspaceStep
  <2>8. QED  BY <2>4, <2>6, <2>7 DEF IInv
<1>19. QED
  BY <1>1, <1>2, <1>3, <1>4, <1>5, <1>6, <1>7, <1>8, <1>9, <1>10, <1>11,
     <1>12, <1>13, <1>14, <1>15, <1>16, <1>17, <1>18 DEF AttemptStep

\* Every step of `cache gc` preserves the inductive invariant.
LEMMA CollectorStepInv ==
  ASSUME IInv, NEW g \in Collectors, CollectorStep(g)
  PROVE  IInv'
<1> USE DEF cacheVars, attemptVars
<1>0. TypeOK /\ HolderInv /\ WorkspaceInv
  BY DEF IInv
<1>1. gc'[g] \in {"try", "done"} \cup Removing /\ \A h \in Collectors \ {g} : gc'[h] = gc[h]
  BY <1>0 DEF CollectorStep, List, TryLock, Remove, TypeOK, Removing
<1>2. gc' \in [Collectors -> {"list", "try", "done"} \cup Removing]
  BY <1>0, <1>1 DEF CollectorStep, List, TryLock, Remove, TypeOK
<1>3. mirror' \in Mirrors
  BY <1>0, MirrorTypes DEF CollectorStep, List, TryLock, Remove, TypeOK
<1>4. TypeOK'
  <2>1. failures' \in 0..MaxFailures
    BY <1>0, Countdown DEF CollectorStep, List, TryLock, Remove, Fails, TypeOK
  <2>2. /\ bare' \in SUBSET Attempts /\ meta' \in MetaStates
        /\ lock' \in Attempts \cup Collectors \cup {Nobody}
    BY <1>0 DEF CollectorStep, List, TryLock, Remove, TypeOK, MetaStates, Unlock
  <2>3. /\ UNCHANGED <<tmp, orphan, pc, site, recheck, workspace, raised, crashes>>
        /\ met' \in SUBSET Attempts
    BY <1>0 DEF CollectorStep, List, TryLock, Remove, TypeOK, AtWork
  <2>4. QED  BY <1>0, <1>2, <1>3, <2>1, <2>2, <2>3 DEF TypeOK
<1>5. pc' = pc /\ workspace' = workspace /\ raised' = raised
  BY DEF CollectorStep, List, TryLock, Remove
<1>6. gc'[g] \in Removing => lock' = g
  <2>1. CASE List(g)
    BY <1>0, <2>1 DEF List, Removing, TypeOK
  <2>2. CASE TryLock(g)
    BY <1>0, <2>2 DEF TryLock, Removing, TypeOK
  <2>3. CASE Remove(g)
    <3>1. gc[g] \in Removing /\ lock = g
      BY <1>0, <2>3 DEF Remove, Removing, HolderInv
    <3>2. QED  BY <1>0, <2>3, <3>1 DEF Remove, Removing, TypeOK
  <2>4. QED  BY <2>1, <2>2, <2>3 DEF CollectorStep
<1>7. lock' # lock => lock \in {Nobody, g}
  BY <1>0 DEF CollectorStep, List, TryLock, Remove, HolderInv, Removing, Unlock
<1>8. bare' = bare
  <2>1. bare \ {g} = bare
    BY <1>0, CacheAssumption DEF TypeOK
  <2>2. QED  BY <2>1 DEF CollectorStep, List, TryLock, Remove, Unlock
<1>9. HolderInv'
  BY <1>0, <1>1, <1>5, <1>6, <1>7, <1>8, CacheAssumption DEF HolderInv, Nobody
<1>10. WorkspaceInv'
  BY <1>0, <1>5 DEF WorkspaceInv
<1>11. QED  BY <1>4, <1>9, <1>10 DEF IInv

\* A killed process gives up the lock, and no more than the lock; the git command it
\* leaves running touches nothing but the mirror.
LEMMA CrashInv ==
  ASSUME IInv,
         \/ \E a \in Attempts : Crash(a) \/ OrphanClones(a) \/ OrphanFetches(a)
         \/ \E g \in Collectors : CollectorCrash(g)
  PROVE  IInv'
<1> USE DEF cacheVars, attemptVars
<1>0. TypeOK /\ HolderInv /\ WorkspaceInv
  BY DEF IInv
<1>1. ASSUME NEW a \in Attempts, Crash(a)  PROVE IInv'
  <2> USE <1>1 DEF Crash, Unlock
  <2>1. pc'[a] = "crashed" /\ \A b \in Attempts \ {a} : pc'[b] = pc[b]
    BY <1>0 DEF TypeOK
  <2>2. pc' \in [Attempts -> PCs]
    BY <1>0, <2>1 DEF TypeOK, PCs, Ended
  <2>3. TypeOK'
    <3>1. crashes' \in 0..MaxCrashes
      BY <1>0, Countdown DEF TypeOK
    <3>2. lock' \in Attempts \cup Collectors \cup {Nobody} /\ bare' \in SUBSET Attempts
      BY <1>0 DEF TypeOK
    <3>3. orphan' \in [Attempts -> {"none", "fetch", "clone", "cloned"}]
      BY <1>0 DEF TypeOK
    <3>4. QED  BY <1>0, <2>2, <3>1, <3>2, <3>3 DEF TypeOK
  <2>4. HolderInv'
    BY <1>0, <2>1, HolderStep DEF Fetching, Reading
  <2>5. WorkspaceInv'
    BY <1>0, <2>1, WorkspaceStep DEF Extracted
  <2>6. QED  BY <2>3, <2>4, <2>5 DEF IInv
<1>2. ASSUME NEW g \in Collectors, CollectorCrash(g)  PROVE IInv'
  <2> USE <1>2 DEF CollectorCrash, Unlock
  <2>1. lock = g
    BY <1>0 DEF HolderInv
  <2>2. TypeOK'
    <3>1. crashes' \in 0..MaxCrashes
      BY <1>0, Countdown DEF TypeOK
    <3>2. gc' \in [Collectors -> {"list", "try", "done"} \cup Removing]
      BY <1>0 DEF TypeOK
    <3>3. lock' = Nobody /\ bare' \in SUBSET Attempts
      BY <1>0, <2>1 DEF TypeOK
    <3>4. QED  BY <1>0, <3>1, <3>2, <3>3 DEF TypeOK
  <2>3. HolderInv'
    <3>1. gc'[g] = "done" /\ \A h \in Collectors \ {g} : gc'[h] = gc[h]
      BY <1>0 DEF TypeOK
    <3>2. \A h \in Collectors \ {g} : gc[h] \notin Removing
      BY <1>0, <2>1 DEF HolderInv
    <3>3. \A a \in Attempts : pc[a] \in Fetching \cup Reading => a \in bare
      BY <1>0, <2>1, CacheAssumption DEF HolderInv
    <3>4. "done" \notin Removing
      BY DEF Removing
    <3>5. pc' = pc /\ \A a \in Attempts : a \in bare => a \in bare'
      BY CacheAssumption
    <3>6. QED  BY <3>1, <3>2, <3>3, <3>4, <3>5 DEF HolderInv
  <2>4. WorkspaceInv'
    BY <1>0 DEF WorkspaceInv
  <2>5. QED  BY <2>2, <2>3, <2>4 DEF IInv
<1>3. ASSUME NEW a \in Attempts, OrphanClones(a) \/ OrphanFetches(a)  PROVE IInv'
  <2>1. UNCHANGED <<meta, tmp, lock, bare, attemptVars, gc, crashes, failures>>
    BY <1>3 DEF OrphanClones, OrphanFetches
  <2>2. mirror' \in Mirrors
    <3>1. CASE OrphanClones(a)
      BY <1>0, <3>1, MirrorTypes DEF OrphanClones, TypeOK
    <3>2. CASE OrphanFetches(a)
      BY <1>0, <3>2, MirrorTypes DEF OrphanFetches, TypeOK
    <3>3. QED  BY <1>3, <3>1, <3>2
  <2>3. orphan' \in [Attempts -> {"none", "fetch", "clone", "cloned"}]
    BY <1>0, <1>3 DEF OrphanClones, OrphanFetches, TypeOK
  <2>4. TypeOK'
    BY <1>0, <2>1, <2>2, <2>3 DEF TypeOK
  <2>5. HolderInv' /\ WorkspaceInv'
    BY <1>0, <2>1 DEF HolderInv, WorkspaceInv
  <2>6. QED  BY <2>4, <2>5 DEF IInv
<1>4. QED  BY <1>1, <1>2, <1>3

\* A step that changes nothing preserves the inductive invariant.
LEMMA StutterInv == IInv /\ UNCHANGED vars => IInv'
  BY DEF vars, cacheVars, attemptVars, IInv, TypeOK, HolderInv, WorkspaceInv

\* Every reachable state satisfies the inductive invariant.
THEOREM CacheInvariance == Spec => []IInv
<1>1. Init => IInv
  BY InitInv
<1>2. IInv /\ [Next]_vars => IInv'
  <2> SUFFICES ASSUME IInv, [Next]_vars PROVE IInv'
    OBVIOUS
  <2>1. CASE \E a \in Attempts : AttemptStep(a)
    BY <2>1, AttemptStepInv
  <2>2. CASE \E g \in Collectors : CollectorStep(g)
    BY <2>2, CollectorStepInv
  <2>3. CASE \/ \E a \in Attempts : Crash(a) \/ OrphanClones(a) \/ OrphanFetches(a)
             \/ \E g \in Collectors : CollectorCrash(g)
    BY <2>3, CrashInv
  <2>4. CASE AllEnded
    BY <2>4, StutterInv DEF AllEnded
  <2>5. CASE UNCHANGED vars
    BY <2>5, StutterInv
  <2>6. QED  BY <2>1, <2>2, <2>3, <2>4, <2>5 DEF Next
<1>3. QED  BY <1>1, <1>2, PTL DEF Spec

-----------------------------------------------------------------------------
\* The type invariant of the cache entry, its attempts and its collectors.
THEOREM CacheTypeCorrect == Spec => []TypeOK
<1>1. IInv => TypeOK
  BY DEF IInv
<1>2. QED  BY <1>1, CacheInvariance, PTL

\* SourceCache.fetch and gc_with_lock exclude each other and themselves on one
\* entry, however many processes run them and whichever of them are killed, while
\* nobody is at the mirror without the lock.
THEOREM CacheOneWriter == Spec => []OneWriter
<1>1. IInv => OneWriter
  <2> SUFFICES ASSUME IInv, NEW a \in Attempts, pc[a] \in Fetching, ~Unguarded
               PROVE  /\ \A b \in Attempts : pc[b] \in Fetching => b = a
                      /\ \A g \in Collectors : gc[g] \notin Removing
    BY DEF OneWriter
  <2>1. lock = a /\ bare = {}
    BY DEF IInv, HolderInv, Unguarded, Rivals
  <2>2. QED  BY <2>1, CacheAssumption DEF IInv, HolderInv
<1>2. QED  BY <1>1, CacheInvariance, PTL

\* prepare() hands over a complete workspace or leaves none behind.
THEOREM CacheNoOrphan == Spec => []NoOrphanWorkspace
<1>1. IInv => NoOrphanWorkspace
  BY DEF IInv, WorkspaceInv, NoOrphanWorkspace, Extracted
<1>2. QED  BY <1>1, CacheInvariance, PTL

\* Only who is at the mirror changes it: a fetch, a collector that removes it, or a
\* git command left behind.
LEMMA MirrorChanges ==
  ASSUME [Next]_vars, mirror' # mirror
  PROVE  \/ \E b \in Attempts : StartClone(b) \/ FinishClone(b) \/ Pull(b)
         \/ \E g \in Collectors : Remove(g)
         \/ \E b \in Attempts : OrphanClones(b) \/ OrphanFetches(b)
<1> USE DEF cacheVars
<1>1. ASSUME NEW b \in Attempts, AttemptStep(b)
      PROVE  StartClone(b) \/ FinishClone(b) \/ Pull(b)
  <2>1. CASE Start(b) \/ Look(b) \/ Verify(b) \/ CreateWorkspace(b) \/ LockFetch(b)
    BY <2>1 DEF Start, Look, Verify, CreateWorkspace, LockFetch
  <2>2. CASE \/ Stamp(b) \/ Publish(b) \/ StampError(b) \/ PublishError(b)
             \/ Mark(b) \/ PublishMark(b)
    BY <2>2 DEF Stamp, Publish, StampError, PublishError, Mark, PublishMark, WriteTmp
  <2>3. CASE LockArchive(b) \/ StartArchive(b) \/ Extract(b) \/ Settle(b)
    BY <2>3 DEF LockArchive, StartArchive, Extract, Settle
  <2>4. QED  BY <1>1, <2>1, <2>2, <2>3 DEF AttemptStep
<1>2. ASSUME NEW g \in Collectors, CollectorStep(g)  PROVE Remove(g)
  BY <1>2 DEF CollectorStep, List, TryLock
<1>3. ASSUME NEW b \in Attempts, Crash(b)  PROVE FALSE
  BY <1>3 DEF Crash
<1>4. ASSUME NEW g \in Collectors, CollectorCrash(g)  PROVE FALSE
  BY <1>4 DEF CollectorCrash
<1>5. CASE AllEnded \/ UNCHANGED vars
  BY <1>5 DEF AllEnded, vars
<1>6. QED  BY <1>1, <1>2, <1>3, <1>4, <1>5 DEF Next

\* The lock of an entry protects its mirror: while nobody is at it without the lock,
\* no step of another attempt, of a collector or of a crash changes the mirror that
\* materialize_checkout is archiving, or makes a second writer.
THEOREM CacheProtected == Spec => MirrorIsProtected
<1>1. IInv /\ [Next]_vars => StableWhileRead
  <2> SUFFICES ASSUME IInv, [Next]_vars, NEW a \in Attempts, pc[a] = "reading", ~Unguarded,
                      mirror' # mirror
               PROVE  FALSE
    BY DEF StableWhileRead
  <2>1. lock = a /\ bare = {}
    BY DEF IInv, HolderInv, Reading, Unguarded, Rivals
  <2>2. ASSUME NEW b \in Attempts, StartClone(b) \/ FinishClone(b) \/ Pull(b)  PROVE FALSE
    <3>1. pc[b] \in {"clone", "cloning", "pull"}
      BY <2>2 DEF StartClone, FinishClone, Pull, FetchFails, Goto
    <3>2. QED  BY <2>1, <3>1 DEF IInv, HolderInv, Fetching
  <2>3. ASSUME NEW g \in Collectors, Remove(g)  PROVE FALSE
    <3>1. gc[g] \in Removing
      BY <2>3 DEF Remove, Removing
    <3>2. QED  BY <2>1, <3>1, CacheAssumption DEF IInv, HolderInv
  <2>4. ASSUME NEW b \in Attempts, OrphanClones(b) \/ OrphanFetches(b)  PROVE FALSE
    BY <2>4 DEF OrphanClones, OrphanFetches, Unguarded, Rivals
  <2>5. QED  BY <2>2, <2>3, <2>4, MirrorChanges
<1>2. QED  BY <1>1, CacheInvariance, CacheOneWriter, PTL DEF Spec, MirrorIsProtected

-----------------------------------------------------------------------------
(***************************************************************************)
(* Why a preparation fails.  What an attempt has seen of the mirror stays  *)
(* true through its own steps; only steps of others can take it away.      *)
(***************************************************************************)

\* Between verification and archive the commit of a is in the mirror.
Behind(a) ==
  /\ \/ pc[a] \in {"stamp", "publish", "lock_archive", "archive"}
     \/ pc[a] = "verify" /\ recheck[a]
     => Wanted[a] \in mirror.shas
  /\ pc[a] \in {"verify", "pull"} => mirror # Absent
  /\ raised[a] \notin {"gone", "sha"}

\* The temporary file a has written is still there.
FileThere(a) ==
  /\ pc[a] \in {"publish", "publish_mark"} => tmp # "absent"
  /\ raised[a] # "meta"

\* A failure has a reason, and only the commit's own links are unsafe.
Explained(a) ==
  /\ pc[a] \in {"failed", "stamp_error", "publish_error"} => raised[a] \in Reasons \ {""}
  /\ raised[a] = "unsafe" => Wanted[a] \in Unsafe

\* A collector, a failure or a clone left behind has been at the entry.
Touched ==
  \/ \E g \in Collectors : gc[g] \in Removing \cup {"done"}
  \/ \E b \in Attempts : orphan[b] \in {"clone", "cloned"}
  \/ failures < MaxFailures

\* Nothing else spoils a mirror that is being cloned.
Sound(m) == m.exists /\ ~m.unusable
CloneInv ==
  /\ bare # {} => failures < MaxFailures
  /\ \A a \in Attempts : orphan[a] # "none" => pc[a] = "crashed"
  /\ \A a \in Attempts : pc[a] = "cloning" => Touched \/ Sound(mirror)

Typed == /\ pc \in [Attempts -> PCs] /\ raised \in [Attempts -> Reasons]
         /\ recheck \in [Attempts -> BOOLEAN] /\ mirror \in Mirrors
         /\ orphan \in [Attempts -> {"none", "fetch", "clone", "cloned"}]

\* An attempt's own steps never take away what it has seen.
LEMMA OwnStep ==
  ASSUME TypeOK, NEW a \in Attempts, AttemptStep(a)
  PROVE  /\ Wanted[a] \in Remote /\ Behind(a) => Behind(a)'
         /\ FileThere(a) => FileThere(a)'
         /\ Explained(a) => Explained(a)'
<1> USE DEF cacheVars, Goto, Reasons
<1>0. Typed
  BY DEF TypeOK, Typed
<1>e. /\ mirror.exists => mirror # Absent
      /\ \A S \in SUBSET Shas : Holding(S) # Absent
  BY DEF Absent, Holding
<1>1. CASE Start(a)
  BY <1>0, <1>1 DEF Typed, Start, Behind, FileThere, Explained
<1>2. CASE Look(a)
  BY <1>0, <1>e, <1>2 DEF Typed, Look, Behind, FileThere, Explained
<1>3. CASE Verify(a)
  BY <1>0, <1>3 DEF Typed, Verify, Proceed, MayFetch, Raise, Fails, Behind, FileThere, Explained
<1>4. CASE CreateWorkspace(a)
  BY <1>0, <1>4 DEF Typed, CreateWorkspace, Behind, FileThere, Explained
<1>5. CASE LockFetch(a)
  BY <1>0, <1>e, <1>5 DEF Typed, LockFetch, Behind, FileThere, Explained
<1>6. CASE StartClone(a)
  BY <1>0, <1>6 DEF Typed, StartClone, FetchFails, Behind, FileThere, Explained
<1>7. CASE FinishClone(a)
  <2>1. mirror.shas \cup Remote \in SUBSET Shas
    BY <1>0, CacheAssumption DEF Typed, Mirrors
  <2>2. CASE mirror' = Holding(mirror.shas \cup Remote) /\ pc' = [pc EXCEPT ![a] = "pull"]
             /\ pc[a] = "cloning" /\ UNCHANGED raised
    <3>1. mirror' # Absent
      BY <1>e, <2>1, <2>2
    <3>2. QED
      BY <1>0, <1>7, <2>2, <3>1 DEF Typed, FinishClone, Behind, FileThere, Explained
  <2>3. CASE FetchFails(a, "cloning", "git")
    BY <1>0, <1>7, <2>3 DEF Typed, FinishClone, FetchFails, Behind, FileThere, Explained
  <2>4. QED  BY <1>7, <2>2, <2>3 DEF FinishClone
<1>8. CASE Pull(a)
  <2>1. ASSUME mirror' = [mirror EXCEPT !.shas = @ \cup Remote], Wanted[a] \in Remote
        PROVE  Wanted[a] \in mirror'.shas
    BY <1>0, <2>1 DEF Typed, Mirrors
  <2>2. CASE /\ mirror # Absent /\ ~mirror.unusable
             /\ mirror' = [mirror EXCEPT !.shas = @ \cup Remote]
             /\ pc[a] = "pull" /\ pc' = [pc EXCEPT ![a] = "stamp"]
             /\ UNCHANGED raised
    BY <1>0, <1>8, <2>1, <2>2 DEF Typed, Pull, Behind, FileThere, Explained
  <2>3. CASE mirror = Absent /\ FetchFails(a, "pull", "gone") /\ UNCHANGED mirror
    BY <1>0, <1>8, <2>3 DEF Typed, Pull, FetchFails, Behind, FileThere, Explained
  <2>4. CASE FetchFails(a, "pull", "git") /\ UNCHANGED mirror
    BY <1>0, <1>8, <2>4 DEF Typed, Pull, FetchFails, Behind, FileThere, Explained
  <2>5. QED  BY <1>8, <2>2, <2>3, <2>4 DEF Pull
<1>9. CASE Stamp(a) \/ StampError(a) \/ Mark(a)
  BY <1>0, <1>9 DEF Typed, Stamp, StampError, Mark, WriteTmp, Behind, FileThere, Explained
<1>10. CASE Publish(a)
  <2>1. Wanted[a] \in mirror.shas => mirror # Absent
    BY DEF Absent
  <2>2. QED
    BY <1>0, <1>10, <2>1 DEF Typed, Publish, Replace, Proceed, Behind, FileThere, Explained
<1>11. CASE PublishError(a)
  BY <1>0, <1>11 DEF Typed, PublishError, Replace, Raise, Behind, FileThere, Explained
<1>12. CASE LockArchive(a)
  BY <1>0, <1>12 DEF Typed, LockArchive, Behind, FileThere, Explained
<1>13. CASE StartArchive(a)
  BY <1>0, <1>13 DEF Typed, StartArchive, Raise, Behind, FileThere, Explained
<1>14. CASE Extract(a)
  BY <1>0, <1>14 DEF Typed, Extract, Raise, Behind, FileThere, Explained
<1>15. CASE PublishMark(a)
  BY <1>0, <1>15 DEF Typed, PublishMark, Replace, Raise, Behind, FileThere, Explained
<1>16. CASE Settle(a)
  BY <1>0, <1>16 DEF Typed, Settle, Raise, Behind, FileThere, Explained
<1>17. QED
  BY <1>1, <1>2, <1>3, <1>4, <1>5, <1>6, <1>7, <1>8, <1>9, <1>10, <1>11, <1>12,
     <1>13, <1>14, <1>15, <1>16 DEF AttemptStep

\* A step of an attempt, or its end by a kill, moves that attempt alone.
LEMMA OneMoves ==
  ASSUME Typed, NEW b \in Attempts, AttemptStep(b) \/ Crash(b)
  PROVE  /\ pc[b] \notin Ended /\ pc'[b] # "idle" /\ gc' = gc
         /\ \A a \in Attempts \ {b} :
              /\ pc'[a] = pc[a] /\ raised'[a] = raised[a] /\ recheck'[a] = recheck[a]
              /\ orphan'[a] = orphan[a]
         /\ failures' \in {failures, failures - 1}
         /\ IF pc[b] = "idle" THEN Start(b) ELSE met' = met
<1> USE DEF Typed, Goto, Ended, cacheVars
<1>1. CASE Start(b) \/ Look(b) \/ Verify(b) \/ CreateWorkspace(b)
  BY <1>1 DEF Start, Look, Verify, Proceed, MayFetch, Raise, Fails, CreateWorkspace
<1>2. CASE LockFetch(b) \/ StartClone(b) \/ FinishClone(b) \/ Pull(b)
  BY <1>2 DEF LockFetch, Lock, StartClone, FinishClone, Pull, FetchFails, Fails
<1>3. CASE Stamp(b) \/ StampError(b) \/ Mark(b) \/ Publish(b) \/ PublishError(b) \/ PublishMark(b)
  BY <1>3 DEF Stamp, StampError, Mark, WriteTmp, Publish, PublishError, PublishMark,
              Proceed, Raise
<1>4. CASE LockArchive(b) \/ StartArchive(b) \/ Extract(b) \/ Settle(b)
  BY <1>4 DEF LockArchive, Lock, StartArchive, Extract, Settle, Raise, Fails
<1>5. CASE Crash(b)
  BY <1>5 DEF Crash
<1>6. QED  BY <1>1, <1>2, <1>3, <1>4, <1>5 DEF AttemptStep

\* An attempt's step starts no clone but its own, and leaves no command behind.
LEMMA StepLeavesNothing ==
  ASSUME Typed, NEW b \in Attempts, AttemptStep(b)
  PROVE  orphan' = orphan /\ (bare' \subseteq bare \/ Fails)
<1> USE DEF cacheVars
<1>1. CASE Start(b) \/ Look(b) \/ Verify(b) \/ CreateWorkspace(b) \/ Settle(b)
  BY <1>1 DEF Start, Look, Verify, CreateWorkspace, Settle
<1>2. CASE LockFetch(b) \/ LockArchive(b)
  BY <1>2 DEF LockFetch, LockArchive, Lock
<1>3. CASE StartClone(b) \/ FinishClone(b) \/ Pull(b)
  BY <1>3 DEF StartClone, FinishClone, Pull
<1>4. CASE Stamp(b) \/ StampError(b) \/ Mark(b) \/ PublishMark(b)
  BY <1>4 DEF Stamp, StampError, Mark, WriteTmp, PublishMark
<1>5. CASE Publish(b) \/ PublishError(b) \/ StartArchive(b) \/ Extract(b)
  BY <1>5 DEF Publish, PublishError, StartArchive, Extract, Unlock
<1>6. QED  BY <1>1, <1>2, <1>3, <1>4, <1>5 DEF AttemptStep

\* A step of a collector moves no attempt.
LEMMA CollectorMoves ==
  ASSUME NEW g \in Collectors, CollectorStep(g) \/ CollectorCrash(g)
  PROVE  /\ UNCHANGED <<pc, raised, recheck, tmp, orphan>>
         /\ bare' \subseteq bare /\ failures' \in {failures, failures - 1}
BY DEF CollectorStep, List, TryLock, Remove, CollectorCrash, Unlock, Fails, cacheVars,
       attemptVars

\* A command left behind moves nobody.
LEMMA OrphanMoves ==
  ASSUME Typed, NEW b \in Attempts, OrphanClones(b) \/ OrphanFetches(b)
  PROVE  /\ UNCHANGED <<pc, raised, recheck, tmp, bare, gc, failures>>
         /\ \A a \in Attempts : orphan'[a] # orphan[a] => orphan[a] # "none"
         /\ \A a \in Attempts : orphan[a] \in {"clone", "cloned"} =>
              orphan'[a] \in {"clone", "cloned"}
BY DEF OrphanClones, OrphanFetches, attemptVars, Typed

\* A kill leaves a's reasons as they are.
LEMMA CrashStep ==
  ASSUME Typed, NEW a \in Attempts, Crash(a)
  PROVE  /\ Behind(a) => Behind(a)'
         /\ FileThere(a) => FileThere(a)'
         /\ Explained(a) => Explained(a)'
BY DEF Typed, Crash, Behind, FileThere, Explained

\* Once touched, for ever: failures are only used up, a collector never lists twice,
\* and a clone left behind is remembered.
LEMMA TouchedStays ==
  ASSUME IInv, CloneInv, [Next]_vars, Touched
  PROVE  Touched'
<1>0. Typed /\ TypeOK
  BY DEF IInv, TypeOK, Typed
<1>1. failures \in 0..MaxFailures /\ MaxFailures \in Nat
  BY <1>0, CacheAssumption DEF TypeOK
<1>2. ASSUME NEW b \in Attempts, AttemptStep(b) \/ Crash(b)  PROVE Touched'
  <2>1. gc' = gc /\ failures' \in {failures, failures - 1}
    BY <1>0, <1>2, OneMoves
  <2>2. ASSUME NEW a \in Attempts, orphan[a] \in {"clone", "cloned"}
        PROVE  orphan'[a] = orphan[a]
    <3>1. pc[a] = "crashed"
      BY <2>2 DEF CloneInv
    <3>2. a # b
      BY <1>0, <1>2, <3>1, OneMoves DEF Ended
    <3>3. QED  BY <1>0, <1>2, <3>2, OneMoves
  <2>3. QED  BY <1>1, <2>1, <2>2 DEF Touched
<1>3. ASSUME NEW g \in Collectors, CollectorStep(g) \/ CollectorCrash(g)  PROVE Touched'
  <2>1. failures' \in {failures, failures - 1} /\ orphan' = orphan
    BY <1>3, CollectorMoves
  <2>2. \A h \in Collectors : gc[h] \in Removing \cup {"done"} => gc'[h] \in Removing \cup {"done"}
    BY <1>0, <1>3 DEF CollectorStep, List, TryLock, Remove, CollectorCrash, Removing, TypeOK
  <2>3. QED  BY <1>1, <2>1, <2>2 DEF Touched
<1>4. ASSUME NEW b \in Attempts, OrphanClones(b) \/ OrphanFetches(b)  PROVE Touched'
  BY <1>0, <1>4, OrphanMoves DEF Touched
<1>5. CASE AllEnded \/ UNCHANGED vars
  BY <1>5 DEF AllEnded, vars, cacheVars, Touched
<1>6. QED  BY <1>2, <1>3, <1>4, <1>5 DEF Next

\* What a mirror that only grows keeps.
Grows ==
  /\ mirror.shas \subseteq mirror'.shas
  /\ mirror # Absent => mirror' # Absent
  /\ Sound(mirror) => Sound(mirror')

\* While nothing has touched the entry, the mirror only grows.
LEMMA MirrorGrows ==
  ASSUME IInv, CloneInv, [Next]_vars
  PROVE  Touched' \/ Grows
<1>0. Typed /\ TypeOK
  BY DEF IInv, TypeOK, Typed
<1>1. failures \in 0..MaxFailures /\ MaxFailures \in Nat
  BY <1>0, CacheAssumption DEF TypeOK
<1> SUFFICES ASSUME mirror' # mirror PROVE Touched' \/ Grows
  BY DEF Grows
<1>2. ASSUME mirror' = [mirror EXCEPT !.shas = @ \cup Remote], mirror # Absent
      PROVE  Grows
  <2>1. /\ mirror'.shas = mirror.shas \cup Remote /\ mirror'.exists = mirror.exists
        /\ mirror'.unusable = mirror.unusable
    BY <1>0, <1>2 DEF Typed, Mirrors
  <2>2. ASSUME mirror' = Absent PROVE mirror = Absent
    <3>1. mirror.shas = {} /\ mirror.exists = FALSE /\ mirror.unusable = FALSE
      BY <2>1, <2>2 DEF Absent
    <3>2. QED  BY <1>0, <3>1 DEF Typed, Mirrors, Absent
  <2>3. QED  BY <1>2, <2>1, <2>2 DEF Grows, Sound
<1>3. ASSUME NEW b \in Attempts, StartClone(b)  PROVE Grows
  <2>1. mirror = Absent /\ mirror' = Hollow
    BY <1>3 DEF StartClone
  <2>2. QED  BY <2>1 DEF Grows, Sound, Absent, Hollow
<1>4. ASSUME NEW b \in Attempts, FinishClone(b)  PROVE Touched' \/ Grows
  <2>1. CASE mirror' = Holding(mirror.shas \cup Remote)
    BY <2>1 DEF Grows, Sound, Holding, Absent
  <2>2. CASE Fails
    BY <1>1, <2>2 DEF Fails, Touched
  <2>3. CASE pc[b] = "cloning" /\ (~Sound(mirror) \/ Rivals)
    <3>1. Touched
      BY <2>3 DEF CloneInv, Rivals, Touched
    <3>2. QED  BY <3>1, TouchedStays
  <2>4. QED
    BY <1>4, <2>1, <2>2, <2>3 DEF FinishClone, FetchFails, Goto, Sound
<1>5. ASSUME NEW b \in Attempts, Pull(b)  PROVE Grows
  BY <1>2, <1>5 DEF Pull
<1>6. ASSUME NEW g \in Collectors, Remove(g)  PROVE Touched'
  <2>1. gc'[g] \in Removing \cup {"done"}
    BY <1>0, <1>6 DEF Remove, TypeOK, Removing
  <2>2. QED  BY <2>1 DEF Touched
<1>7. ASSUME NEW b \in Attempts, OrphanClones(b)  PROVE Touched'
  BY <1>0, <1>7 DEF OrphanClones, Touched, Typed
<1>8. ASSUME NEW b \in Attempts, OrphanFetches(b)  PROVE Grows
  BY <1>2, <1>8 DEF OrphanFetches
<1>9. QED  BY <1>3, <1>4, <1>5, <1>6, <1>7, <1>8, MirrorChanges

\* Who starts to clone makes a mirror that git can fill.
LEMMA OnlyStartClones ==
  ASSUME Typed, NEW a \in Attempts, [Next]_vars, pc[a] # "cloning", pc'[a] = "cloning"
  PROVE  mirror' = Hollow
<1> USE DEF Typed, Goto
<1>1. ASSUME AttemptStep(a)  PROVE mirror' = Hollow
  <2>1. CASE Start(a) \/ Look(a) \/ Verify(a) \/ CreateWorkspace(a) \/ LockFetch(a)
    BY <2>1 DEF Start, Look, Verify, Proceed, MayFetch, Raise, CreateWorkspace, LockFetch
  <2>2. CASE StartClone(a)
    BY <2>2 DEF StartClone, FetchFails
  <2>3. CASE FinishClone(a) \/ Pull(a)
    BY <2>3 DEF FinishClone, Pull, FetchFails
  <2>4. CASE \/ Stamp(a) \/ Publish(a) \/ StampError(a) \/ PublishError(a)
             \/ Mark(a) \/ PublishMark(a)
    BY <2>4 DEF Stamp, Publish, StampError, PublishError, Mark, PublishMark, WriteTmp,
                Proceed, Raise
  <2>5. CASE LockArchive(a) \/ StartArchive(a) \/ Extract(a) \/ Settle(a)
    BY <2>5 DEF LockArchive, StartArchive, Extract, Settle, Raise
  <2>6. QED  BY <1>1, <2>1, <2>2, <2>3, <2>4, <2>5 DEF AttemptStep
<1>2. ASSUME NEW b \in Attempts \ {a}, AttemptStep(b) \/ Crash(b)  PROVE FALSE
  BY <1>2, OneMoves
<1>3. ASSUME Crash(a)  PROVE FALSE
  BY <1>3 DEF Crash
<1>4. ASSUME NEW g \in Collectors, CollectorStep(g) \/ CollectorCrash(g)  PROVE FALSE
  BY <1>4, CollectorMoves
<1>5. ASSUME NEW b \in Attempts, OrphanClones(b) \/ OrphanFetches(b)  PROVE FALSE
  BY <1>5, OrphanMoves
<1>6. CASE AllEnded \/ UNCHANGED vars
  BY <1>6 DEF AllEnded, vars, attemptVars
<1>7. QED  BY <1>1, <1>2, <1>3, <1>4, <1>5, <1>6 DEF Next

\* Unlocked attempts, commands left behind and clones at work stay as they are known.
LEMMA CloneStep ==
  ASSUME IInv, CloneInv, [Next]_vars
  PROVE  CloneInv'
<1>0. Typed /\ TypeOK
  BY DEF IInv, TypeOK, Typed
<1>1. failures \in 0..MaxFailures /\ MaxFailures \in Nat
  BY <1>0, CacheAssumption DEF TypeOK
<1>2. (bare # {} => failures < MaxFailures)'
  <2>1. ASSUME NEW b \in Attempts, AttemptStep(b)  PROVE (bare # {} => failures < MaxFailures)'
    <3>1. failures' \in {failures, failures - 1}
      BY <1>0, <2>1, OneMoves
    <3>2. bare' \subseteq bare \/ failures' = failures - 1
      BY <1>0, <2>1, StepLeavesNothing DEF Fails
    <3>3. QED  BY <1>1, <3>1, <3>2 DEF CloneInv
  <2>2. ASSUME NEW b \in Attempts, Crash(b)  PROVE bare' \subseteq bare /\ failures' = failures
    BY <2>2 DEF Crash, Unlock
  <2>3. ASSUME NEW g \in Collectors, CollectorStep(g) \/ CollectorCrash(g)
        PROVE  bare' \subseteq bare /\ failures' \in {failures, failures - 1}
    BY <2>3, CollectorMoves
  <2>4. ASSUME NEW b \in Attempts, OrphanClones(b) \/ OrphanFetches(b)
        PROVE  bare' = bare /\ failures' = failures
    BY <1>0, <2>4, OrphanMoves
  <2>5. CASE AllEnded \/ UNCHANGED vars
    BY <2>5 DEF AllEnded, vars, cacheVars, CloneInv
  <2>6. QED  BY <1>1, <2>1, <2>2, <2>3, <2>4, <2>5 DEF Next, CloneInv
<1>3. ASSUME NEW a \in Attempts, orphan'[a] # "none"  PROVE pc'[a] = "crashed"
  <2>1. ASSUME NEW b \in Attempts, AttemptStep(b)  PROVE pc'[a] = "crashed"
    <3>1. pc[a] = "crashed"
      BY <1>0, <1>3, <2>1, StepLeavesNothing DEF CloneInv
    <3>2. a # b
      BY <1>0, <2>1, <3>1, OneMoves DEF Ended
    <3>3. QED  BY <1>0, <2>1, <3>1, <3>2, OneMoves
  <2>2. ASSUME NEW b \in Attempts, Crash(b)  PROVE pc'[a] = "crashed"
    <3>1. CASE a = b
      BY <1>0, <2>2, <3>1 DEF Crash, Typed
    <3>2. CASE a # b
      BY <1>0, <1>3, <2>2, <3>2, OneMoves DEF CloneInv
    <3>3. QED  BY <3>1, <3>2
  <2>3. ASSUME NEW g \in Collectors, CollectorStep(g) \/ CollectorCrash(g)
        PROVE  pc'[a] = "crashed"
    BY <1>3, <2>3, CollectorMoves DEF CloneInv
  <2>4. ASSUME NEW b \in Attempts, OrphanClones(b) \/ OrphanFetches(b)
        PROVE  pc'[a] = "crashed"
    BY <1>0, <1>3, <2>4, OrphanMoves DEF CloneInv
  <2>5. CASE AllEnded \/ UNCHANGED vars
    BY <1>3, <2>5 DEF AllEnded, vars, cacheVars, attemptVars, CloneInv
  <2>6. QED  BY <2>1, <2>2, <2>3, <2>4, <2>5 DEF Next
<1>4. ASSUME NEW a \in Attempts, pc'[a] = "cloning"  PROVE Touched' \/ Sound(mirror')
  <2>1. CASE pc[a] = "cloning"
    <3>1. Touched \/ Sound(mirror)
      BY <2>1 DEF CloneInv
    <3>2. QED  BY <3>1, TouchedStays, MirrorGrows DEF Grows
  <2>2. CASE pc[a] # "cloning"
    <3>1. mirror' = Hollow
      BY <1>0, <1>4, <2>2, OnlyStartClones
    <3>2. QED  BY <3>1 DEF Sound, Hollow
  <2>3. QED  BY <2>1, <2>2
<1>5. QED  BY <1>2, <1>3, <1>4 DEF CloneInv

-----------------------------------------------------------------------------
\* Another attempt has begun.
Company(a) == \E b \in Attempts \ {a} : pc[b] # "idle"

Caused == \A a \in Attempts :
  /\ Wanted[a] \in Remote => Behind(a) \/ Touched
  /\ FileThere(a) \/ Company(a)
  /\ Explained(a)

\* Whatever an attempt has lost, a collector, a failure, a clone left behind or another
\* attempt took from it.
LEMMA CausedStep ==
  ASSUME IInv, CloneInv, Caused, [Next]_vars
  PROVE  Caused'
<1>0. Typed
  BY DEF IInv, TypeOK, Typed
<1> SUFFICES ASSUME NEW a \in Attempts
             PROVE  /\ Wanted[a] \in Remote => Behind(a)' \/ Touched'
                    /\ FileThere(a)' \/ Company(a)'
                    /\ Explained(a)'
  BY DEF Caused
<1>1. /\ Wanted[a] \in Remote => Behind(a) \/ Touched
      /\ FileThere(a) \/ Company(a)
      /\ Explained(a)
  BY DEF Caused
<1>2. ASSUME pc'[a] = pc[a], recheck'[a] = recheck[a], raised'[a] = raised[a]
      PROVE  /\ Wanted[a] \in Remote => Behind(a)' \/ Touched'
             /\ Explained(a)'
  <2>1. Explained(a)'
    BY <1>1, <1>2 DEF Explained
  <2>2. CASE Touched
    BY <2>1, <2>2, TouchedStays
  <2>3. CASE Behind(a)
    BY <1>2, <2>1, <2>3, MirrorGrows DEF Behind, Grows
  <2>4. QED  BY <1>1, <2>1, <2>2, <2>3
<1>3. ASSUME NEW b \in Attempts \ {a}, AttemptStep(b) \/ Crash(b)
      PROVE  /\ Wanted[a] \in Remote => Behind(a)' \/ Touched'
             /\ FileThere(a)' \/ Company(a)'
             /\ Explained(a)'
  <2>1. /\ pc'[b] # "idle"
        /\ pc'[a] = pc[a] /\ recheck'[a] = recheck[a] /\ raised'[a] = raised[a]
    BY <1>0, <1>3, OneMoves
  <2>2. Company(a)'
    BY <2>1 DEF Company
  <2>3. QED  BY <1>2, <2>1, <2>2
<1>4. CASE AttemptStep(a) \/ Crash(a)
  <2>1. Company(a) => Company(a)'
    BY <1>0, <1>4, OneMoves DEF Company
  <2>2. (FileThere(a) => FileThere(a)') /\ (Explained(a) => Explained(a)')
        /\ (Wanted[a] \in Remote /\ Behind(a) => Behind(a)')
    BY <1>0, <1>4, OwnStep, CrashStep DEF IInv
  <2>3. QED  BY <1>1, <2>1, <2>2, TouchedStays
<1>5. ASSUME UNCHANGED <<pc, raised, recheck, tmp>>
      PROVE  /\ Wanted[a] \in Remote => Behind(a)' \/ Touched'
             /\ FileThere(a)' \/ Company(a)'
             /\ Explained(a)'
  <2>1. FileThere(a)' \/ Company(a)'
    BY <1>1, <1>5 DEF FileThere, Company
  <2>2. QED  BY <1>2, <1>5, <2>1
<1>6. ASSUME NEW g \in Collectors, CollectorStep(g) \/ CollectorCrash(g)
      PROVE  UNCHANGED <<pc, raised, recheck, tmp>>
  BY <1>6, CollectorMoves
<1>7. ASSUME NEW b \in Attempts, OrphanClones(b) \/ OrphanFetches(b)
      PROVE  UNCHANGED <<pc, raised, recheck, tmp>>
  BY <1>0, <1>7, OrphanMoves
<1>8. CASE AllEnded \/ UNCHANGED vars
  BY <1>5, <1>8 DEF AllEnded, vars, attemptVars, cacheVars
<1>9. QED  BY <1>3, <1>4, <1>5, <1>6, <1>7, <1>8 DEF Next

\* A preparation that fails leaves no workspace, and fails for git, the host, the links
\* of its commit, or for something another attempt or a collector did meanwhile.
THEOREM CacheFailuresCaused == Spec => []FailuresAreCleanAndCaused
<1>1. Init => CloneInv /\ Caused
  <2> SUFFICES ASSUME Init PROVE CloneInv /\ Caused
    OBVIOUS
  <2>1. /\ bare = {} /\ \A a \in Attempts : orphan[a] = "none"
        /\ \A a \in Attempts : pc[a] = "idle" /\ raised[a] = ""
    BY DEF Init
  <2>2. QED  BY <2>1 DEF CloneInv, Caused, Behind, FileThere, Explained
<1>2. IInv /\ CloneInv /\ Caused /\ [Next]_vars => (CloneInv /\ Caused)'
  BY CloneStep, CausedStep
<1>3. IInv /\ Caused => OverlapsHaveTheirCulprit
  <2> SUFFICES ASSUME IInv, Caused, NEW a \in Attempts,
                      pc[a] = "failed", Wanted[a] \in Remote \ Unsafe
               PROVE  \/ raised[a] \in {"git", "host", "create"}
                      \/ raised[a] \in {"gone", "sha"} /\ Touched
                      \/ raised[a] = "meta" /\ Company(a)
    BY DEF OverlapsHaveTheirCulprit, Touched, Company
  <2>1. raised[a] \in {"git", "sha", "gone", "meta", "create", "host"}
    BY DEF Caused, Explained, Reasons
  <2>2. raised[a] \in {"gone", "sha"} => Touched
    BY DEF Caused, Behind
  <2>3. raised[a] = "meta" => Company(a)
    BY DEF Caused, FileThere
  <2>4. QED  BY <2>1, <2>2, <2>3
<1>4. QED
  BY <1>1, <1>2, <1>3, CacheInvariance, CacheNoOrphan, PTL
     DEF Spec, FailuresAreCleanAndCaused

-----------------------------------------------------------------------------
\* Whoever is at work and has met nobody is alone with the entry.
Alone == \A a \in AtWork \ met : AtWork = {a} /\ ~Running /\ ~Evicted

\* What it has seen of the mirror is still there, and nothing else made it fail.
Right(a) == (Wanted[a] \in Remote => Behind(a)) /\ FileThere(a) /\ Explained(a)
Undisturbed == \A a \in Attempts \ met : Right(a)

\* An attempt that is not at work stays as it is while others move.
LEMMA RestingStays ==
  ASSUME NEW a \in Attempts, a \notin AtWork, Right(a),
         pc'[a] = pc[a], raised'[a] = raised[a]
  PROVE  Right(a)'
BY DEF AtWork, Right, Behind, FileThere, Explained, Ended

\* A step of an attempt, or its end by a kill: it meets whoever is there when it starts.
LEMMA MeetsOthers ==
  ASSUME Typed, TypeOK, Alone, Undisturbed,
         NEW b \in Attempts, AttemptStep(b) \/ Crash(b)
  PROVE  Alone' /\ Undisturbed'
<1>1. \A a \in Attempts \ {b} : pc'[a] = pc[a] /\ raised'[a] = raised[a]
  BY OneMoves
<1>2. \A a \in Attempts \ {b} : a \in AtWork' <=> a \in AtWork
  BY <1>1 DEF AtWork
<1>3. Evicted' = Evicted
  BY OneMoves DEF Evicted
<1>4. Right(b) => Right(b)'
  BY OwnStep, CrashStep DEF Right
<1>5. CASE pc[b] = "idle"
  <2>1. /\ met' = IF AtWork # {} \/ Running \/ Evicted THEN met \cup AtWork \cup {b}
                  ELSE met
        /\ orphan' = orphan
    BY <1>5, OneMoves DEF Start, cacheVars
  <2>2. Running' = Running
    BY <2>1 DEF Running
  <2>3. AtWork' \subseteq AtWork \cup {b}
    BY <1>2 DEF AtWork
  <2>4. Alone'
    <3>1. CASE AtWork # {} \/ Running \/ Evicted
      <4>1. AtWork' \subseteq met'
        BY <2>1, <2>3, <3>1
      <4>2. QED  BY <4>1 DEF Alone
    <3>2. CASE AtWork = {} /\ ~Running /\ ~Evicted
      <4>1. \A a \in AtWork' : AtWork' = {a}
        BY <2>3, <3>2
      <4>2. QED  BY <1>3, <2>2, <3>2, <4>1 DEF Alone
    <3>3. QED  BY <3>1, <3>2
  <2>5. ASSUME NEW a \in Attempts, a \notin met' PROVE Right(a)'
    <3>1. a \notin met /\ (a # b => a \notin AtWork)
      BY <2>1, <2>5
    <3>2. Right(a)
      BY <3>1 DEF Undisturbed
    <3>3. QED  BY <1>1, <1>4, <3>1, <3>2, RestingStays
  <2>6. QED  BY <2>4, <2>5 DEF Undisturbed
<1>6. CASE pc[b] # "idle"
  <2>1. b \in AtWork /\ met' = met
    BY <1>6, OneMoves DEF AtWork
  <2>2. \A a \in AtWork \ met : a = b
    BY <2>1 DEF Alone
  <2>3. \A a \in AtWork' \ met' : a = b
    BY <1>2, <2>1, <2>2 DEF AtWork
  <2>4. ASSUME b \in AtWork', b \notin met' PROVE AtWork' = {b} /\ ~Running' /\ ~Evicted'
    <3>1. AtWork = {b} /\ ~Running /\ ~Evicted
      BY <2>1, <2>4 DEF Alone
    <3>2. AtWork' = {b}
      BY <1>2, <2>4, <3>1 DEF AtWork
    <3>3. AttemptStep(b)
      BY <2>4 DEF Crash, AtWork, Ended, Typed
    <3>4. ~Running'
      BY <3>1, <3>3, StepLeavesNothing DEF Running
    <3>5. QED  BY <1>3, <3>1, <3>2, <3>4
  <2>5. ASSUME NEW a \in Attempts, a \notin met' PROVE Right(a)'
    <3>1. Right(a)
      BY <2>1, <2>5 DEF Undisturbed
    <3>2. a # b => a \notin AtWork
      BY <2>1, <2>2, <2>5
    <3>3. QED  BY <1>1, <1>4, <3>1, <3>2, RestingStays
  <2>6. QED  BY <2>3, <2>4, <2>5 DEF Alone, Undisturbed
<1>7. QED  BY <1>5, <1>6

\* A collector meets whoever is at work when it takes the lock.
LEMMA MeetsCollector ==
  ASSUME TypeOK, Alone, Undisturbed,
         NEW g \in Collectors, CollectorStep(g) \/ CollectorCrash(g)
  PROVE  Alone' /\ Undisturbed'
<1>0. gc \in [Collectors -> {"list", "try", "done"} \cup Removing]
  BY DEF TypeOK
<1>1. UNCHANGED <<pc, raised, recheck, tmp, orphan>>
  BY CollectorMoves
<1>2. AtWork' = AtWork /\ Running' = Running
  BY <1>1 DEF AtWork, Running
<1>3. \/ met' = met /\ mirror' = mirror /\ (Evicted' => Evicted)
      \/ met' = met /\ Evicted
      \/ met' = met \cup AtWork
  <2>1. CASE List(g)
    BY <2>1 DEF List, Evicted, Removing, cacheVars, attemptVars
  <2>2. CASE TryLock(g)
    <3>1. CASE met' = met \cup AtWork
      BY <3>1
    <3>2. CASE gc' = [gc EXCEPT ![g] = "done"] /\ met' = met
      <4>1. \A h \in Collectors : gc'[h] \in Removing => gc[h] \in Removing
        BY <3>2, <1>0 DEF Removing
      <4>2. mirror' = mirror
        BY <2>2 DEF TryLock
      <4>3. QED  BY <3>2, <4>1, <4>2 DEF Evicted
    <3>3. QED  BY <2>2, <3>1, <3>2 DEF TryLock
  <2>3. CASE Remove(g) \/ CollectorCrash(g)
    BY <2>3 DEF Remove, CollectorCrash, Evicted, Removing, attemptVars
  <2>4. QED  BY <2>1, <2>2, <2>3 DEF CollectorStep
<1>4. met \subseteq met'
  BY <1>3
<1>5. CASE met' = met /\ mirror' = mirror /\ (Evicted' => Evicted)
  <2>1. Alone'
    BY <1>2, <1>5 DEF Alone
  <2>2. \A a \in Attempts : Right(a) => Right(a)'
    BY <1>1, <1>5 DEF Right, Behind, FileThere, Explained
  <2>3. QED  BY <1>5, <2>1, <2>2 DEF Undisturbed
<1>6. CASE (met' = met /\ Evicted) \/ met' = met \cup AtWork
  <2>1. AtWork' \subseteq met'
    BY <1>2, <1>6 DEF Alone
  <2>2. ASSUME NEW a \in Attempts, a \notin met' PROVE Right(a)'
    <3>1. Right(a) /\ a \notin AtWork
      BY <1>2, <1>4, <2>1, <2>2 DEF Undisturbed
    <3>2. QED  BY <1>1, <3>1, RestingStays
  <2>3. QED  BY <2>1, <2>2 DEF Alone, Undisturbed
<1>7. QED  BY <1>3, <1>5, <1>6

\* While a command left behind is running, whoever is at work has met it.
LEMMA MeetsCommand ==
  ASSUME Typed, Alone, Undisturbed,
         NEW b \in Attempts, OrphanClones(b) \/ OrphanFetches(b)
  PROVE  Alone' /\ Undisturbed'
<1>1. Running /\ met' = met
  BY DEF OrphanClones, OrphanFetches, Running, attemptVars
<1>2. UNCHANGED <<pc, raised>>
  BY OrphanMoves
<1>3. AtWork' = AtWork /\ AtWork \subseteq met
  BY <1>1, <1>2 DEF AtWork, Alone
<1>4. ASSUME NEW a \in Attempts, a \notin met' PROVE Right(a)'
  <2>1. Right(a) /\ a \notin AtWork
    BY <1>1, <1>3, <1>4 DEF Undisturbed
  <2>2. QED  BY <1>2, <2>1, RestingStays
<1>5. QED  BY <1>1, <1>3, <1>4 DEF Alone, Undisturbed

\* An attempt that meets nobody at the entry - no other attempt, no command a killed one
\* has left running, no collector that removes - fails only for git, for the host or for
\* the links of its commit, whatever broken mirror it finds, among any number of
\* attempts and collectors.
THEOREM CacheOnlyGitOrHost == Spec => []OnlyGitOrHostFails
<1>1. Init => Alone /\ Undisturbed
  <2> SUFFICES ASSUME Init PROVE Alone /\ Undisturbed
    OBVIOUS
  <2>1. \A a \in Attempts : pc[a] = "idle" /\ raised[a] = ""
    BY DEF Init
  <2>2. AtWork = {}
    BY <2>1 DEF AtWork
  <2>3. QED
    BY <2>1, <2>2 DEF Alone, Undisturbed, Right, Behind, FileThere, Explained
<1>2. IInv /\ Alone /\ Undisturbed /\ [Next]_vars => (Alone /\ Undisturbed)'
  <2> SUFFICES ASSUME IInv, Alone, Undisturbed, [Next]_vars
               PROVE  Alone' /\ Undisturbed'
    OBVIOUS
  <2>1. Typed /\ TypeOK
    BY DEF IInv, TypeOK, Typed
  <2>2. CASE AllEnded \/ UNCHANGED vars
    BY <2>2 DEF AllEnded, vars, attemptVars, cacheVars, Alone, Undisturbed, AtWork,
                Running, Evicted, Right, Behind, FileThere, Explained
  <2>3. QED
    BY <2>1, <2>2, MeetsOthers, MeetsCollector, MeetsCommand DEF Next
<1>3. Undisturbed => OnlyGitOrHostFails
  BY DEF Undisturbed, Right, Behind, FileThere, Explained, OnlyGitOrHostFails, Reasons
<1>4. QED  BY <1>1, <1>2, <1>3, CacheInvariance, PTL DEF Spec

=============================================================================
