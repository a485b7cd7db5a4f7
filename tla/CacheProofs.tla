---------------------------- MODULE CacheProofs ----------------------------
(***************************************************************************)
(* Proofs about the two caches of a project, which share nothing but that  *)
(* a wrong entry goes unnoticed: the fingerprints of BuildCache, for every *)
(* acyclic set of models and every set of versions, and the answers of     *)
(* HttpClient, for every number of threads, pages, versions and tokens.    *)
(***************************************************************************)
EXTENDS BuildCache, HttpClient, TLAPS

-----------------------------------------------------------------------------
(* BuildCache.                                                             *)

\* A fingerprint of present code is a fingerprint (Absent carries version 0).
LEMMA NeverAbsent ==
  ASSUME TypeOK, NEW n \in Nodes
  PROVE  Fingerprint(n) # Absent /\ Built(n) # Absent
  <1>1. src[n] \in Versions /\ src[n] # 0
    BY NodesAssumption DEF TypeOK
  <1>2. Fingerprint(n).ver # Absent.ver /\ Built(n).ver # Absent.ver
    BY <1>1 DEF Fingerprint, Built, Absent
  <1> QED BY <1>2

\* Two records of the same version and the same dependencies are the same.
LEMMA FingerprintIsContent ==
  ASSUME NEW n \in Nodes, \A d \in Deps[n] : DepFingerprint(d) = rel[d]
  PROVE  Fingerprint(n) = Built(n)
  BY DEF Fingerprint, Built

LEMMA InitIInv == CacheInit => IInv
  BY DEF CacheInit, NoRun, IInv, TypeOK, IsTable, Nothing, Steps, Modes, RunShape, RunOrder,
         RunTrust, CacheTellsRelation, Agrees

\* Edits, drops and a lost cache file keep the invariant: no run is going on.
LEMMA BetweenRuns ==
  ASSUME IInv, NEW n \in Nodes, NEW v \in Versions, Edit(n, v) \/ Drop(n) \/ LoseCache
  PROVE  IInv'
  <1>1. CASE Edit(n, v)
    BY <1>1 DEF Edit, setup, IInv, TypeOK, IsTable, RunShape, RunOrder, RunTrust,
                CacheTellsRelation, Agrees
  <1>2. CASE Drop(n)
    BY <1>2 DEF Drop, setup, IInv, TypeOK, IsTable, RunShape, RunOrder, RunTrust,
                CacheTellsRelation, Agrees
  <1>3. CASE LoseCache
    BY <1>3 DEF LoseCache, setup, Nothing, IInv, TypeOK, IsTable, RunShape, RunOrder, RunTrust,
                CacheTellsRelation, Agrees
  <1> QED BY <1>1, <1>2, <1>3

\* A run starts from the cache file and from nothing computed.
LEMMA StartKeeps ==
  ASSUME IInv, NEW m \in Modes, NEW p \in SUBSET Nodes, NEW lay \in BOOLEAN,
         NEW f \in {{}, p}, StartRun(m, p, lay, f)
  PROVE  IInv'
  BY DEF StartRun, store, Nothing, Closed, Steps, IInv, TypeOK, IsTable, RunShape, RunOrder,
         RunTrust, CacheTellsRelation, Agrees

\* In a settled, trusted run the dependencies of a ready node hold what their
\* fingerprints say.
LEMMA DepsSettled ==
  ASSUME IInv, NEW n \in Nodes, Ready(n), sound, ~Unsettled,
         \A d \in Deps[n] : d \in plan \/ rel[d] # Absent
  PROVE  \A d \in Deps[n] : DepFingerprint(d) = rel[d]
  <1> SUFFICES ASSUME NEW d \in Deps[n] PROVE DepFingerprint(d) = rel[d]
    OBVIOUS
  <1>0. d \in Nodes
    BY NodesAssumption
  <1>1. CASE layered
    <2>1. d \in plan /\ st[d] \in {"skipped", "done"}
      BY <1>1 DEF Ready, IInv, RunShape, Closed
    <2> QED BY <2>1 DEF DepFingerprint, IInv, RunTrust, Ready
  <1>2. CASE ~layered
    <2>1. d \notin plan /\ entries[d] # Absent /\ rel[d] # Absent
      BY <1>2 DEF Unsettled, Ready
    <2>2. st[d] = "waiting" /\ computed[d] = Absent /\ rel[d] = entries[d]
      BY <1>0, <2>1 DEF IInv, RunShape, RunTrust, Agrees, Ready
    <2> QED BY <2>2 DEF DepFingerprint
  <1> QED BY <1>1, <1>2

\* A node that has been built does not read a node that is still open.
LEMMA BuiltReadsNoOpenNode ==
  ASSUME IInv, NEW n \in Nodes, n \in plan, st[n] \in {"waiting", "built"},
         phase = "running", ~Unsettled, NEW m \in plan, st[m] = "built"
  PROVE  n \notin Deps[m]
  BY DEF IInv, TypeOK, RunOrder

\* A fingerprint depends on the computed fingerprints of the dependencies only.
LEMMA FingerprintFrame ==
  ASSUME TypeOK, NEW n \in Nodes, NEW m \in Nodes, n \notin Deps[m],
         src' = src, entries' = entries, NEW fp, computed' = [computed EXCEPT ![n] = fp]
  PROVE  Fingerprint(m)' = Fingerprint(m)
  <1>1. \A d \in Deps[m] : DepFingerprint(d)' = DepFingerprint(d)
    BY NodesAssumption DEF DepFingerprint, TypeOK, IsTable
  <1> QED BY <1>1 DEF Fingerprint

\* A skipped node holds the content of its fingerprint.
LEMMA SkipKeeps ==
  ASSUME IInv, NEW n \in Nodes, Skip(n)
  PROVE  IInv'
  <1>1. TypeOK' /\ RunShape' /\ RunOrder' /\ CacheTellsRelation'
    BY NeverAbsent DEF IInv, Skip, Ready, store, setup, TypeOK, IsTable, Steps, RunShape, RunOrder,
           CacheTellsRelation, Unsettled
  <1>2. RunTrust'
    <2>1. sound' = sound /\ Unsettled' = Unsettled /\ n \in plan /\ phase = "running"
      BY DEF IInv, Skip, Ready, setup, Unsettled
    <2>2. \A m \in Nodes : Agrees(m)' <=> Agrees(m)
      BY DEF Skip, store, Agrees
    <2>3. ASSUME sound PROVE Agrees(n)
      BY <2>1, <2>3 DEF IInv, RunTrust, Skip, Ready
    <2>4. ASSUME sound, NEW m \in Nodes, st'[m] \in {"waiting", "skipped", "failed"}
          PROVE  Agrees(m)'
      BY <2>1, <2>2, <2>3, <2>4 DEF IInv, RunTrust, Skip, TypeOK
    <2>5. ASSUME sound, ~Unsettled, NEW m \in plan, st'[m] \in {"skipped", "done"}
          PROVE  computed'[m] = rel'[m] /\ rel'[m] # Absent
      <3>1. CASE m = n
        BY <2>1, <2>3, <2>5, <3>1, NeverAbsent
           DEF Skip, CanSkip, store, IInv, TypeOK, IsTable, RunShape, Agrees
      <3>2. CASE m # n
        BY <2>1, <2>5, <3>2 DEF Skip, store, IInv, TypeOK, IsTable, RunTrust
      <3> QED BY <3>1, <3>2
    <2>6. ASSUME sound, ~Unsettled, NEW m \in plan, st'[m] = "built"
          PROVE  /\ (rel[m] = Built(m))' /\ rel'[m] # Absent
                 /\ Fingerprint(m)' = rel'[m]
                 /\ m \notin forced' => cand'[m] = rel'[m]
      <3>1. m \in Nodes /\ st[m] = "built"
        BY <2>6 DEF IInv, TypeOK, Skip
      <3>2. Fingerprint(m)' = Fingerprint(m)
        BY <2>1, <2>6, <3>1, BuiltReadsNoOpenNode, FingerprintFrame DEF IInv, Skip, Ready, store, setup
      <3> QED BY <2>1, <2>6, <3>1, <3>2 DEF IInv, RunTrust, Skip, store, setup, Built
    <2>7. plan' = plan
      BY DEF Skip, setup
    <2> QED BY <2>1, <2>4, <2>5, <2>6, <2>7 DEF RunTrust
  <1> QED BY <1>1, <1>2 DEF IInv

\* A failing build changes nothing but the progress of its node; a hook that fails
\* after the build leaves a replaced relation and no fingerprint.
LEMMA FailKeeps ==
  ASSUME IInv, NEW n \in Nodes, FailBuild(n) \/ FailHook(n)
  PROVE  IInv'
  <1>1. /\ phase = "running" /\ phase' = phase /\ n \in plan
        /\ UNCHANGED <<store, setup, computed, cand, trusted>>
    BY DEF FailBuild, FailHook, Ready, IInv, RunShape
  <1>2. PICK s \in {"failed", "replaced"} :
          /\ st' = [st EXCEPT ![n] = s]
          /\ s = "failed" => st[n] = "waiting"
          /\ s = "replaced" => st[n] = "built"
    BY DEF FailBuild, FailHook, Ready
  <1>3. st \in [Nodes -> Steps] /\ \A m \in Nodes : st'[m] = IF m = n THEN s ELSE st[m]
    BY <1>2 DEF IInv, TypeOK
  <1>4. TypeOK'
    BY <1>1, <1>2 DEF IInv, TypeOK, IsTable, Steps, store, setup
  <1>5. RunShape'
    BY <1>1, <1>2, <1>3 DEF IInv, RunShape, store, setup
  <1>6. Unsettled' = Unsettled
    BY <1>1 DEF setup, Unsettled
  <1>7. RunOrder'
    BY <1>1, <1>2, <1>3, <1>6, NodesAssumption DEF IInv, TypeOK, RunOrder, store, setup
  <1>8. /\ \A m \in Nodes : Agrees(m)' <=> Agrees(m)
        /\ \A m \in Nodes : Built(m)' = Built(m) /\ Fingerprint(m)' = Fingerprint(m)
    BY <1>1 DEF store, setup, Agrees, Built, Fingerprint, DepFingerprint
  <1>9. RunTrust'
    BY <1>1, <1>2, <1>3, <1>6, <1>8 DEF IInv, TypeOK, RunTrust, store, setup
  <1> QED BY <1>1, <1>4, <1>5, <1>7, <1>9 DEF IInv, CacheTellsRelation

\* A build reads settled relations: the new content is its own fingerprint.
LEMMA BuildKeeps ==
  ASSUME IInv, NEW n \in Nodes, Build(n)
  PROVE  IInv'
  <1>1. /\ phase = "running" /\ phase' = phase /\ n \in plan /\ st[n] = "waiting"
        /\ UNCHANGED <<src, disk, setup, computed, trusted>>
    BY DEF Build, Ready
  <1>2. st \in [Nodes -> Steps] /\ \A m \in Nodes : st'[m] = IF m = n THEN "built" ELSE st[m]
    BY DEF IInv, TypeOK, Build
  <1>3. \A m \in Nodes : rel'[m] = IF m = n THEN Built(n) ELSE rel[m]
    BY DEF IInv, TypeOK, IsTable, Build
  <1>4. TypeOK'
    BY DEF IInv, TypeOK, IsTable, Steps, setup, Build, Ready
  <1>5. RunShape'
    BY <1>1, <1>2, <1>4 DEF IInv, TypeOK, RunShape, setup
  <1>6. Unsettled' = Unsettled /\ CacheTellsRelation'
    BY <1>1 DEF setup, Unsettled, CacheTellsRelation
  <1>7. RunOrder'
    <2> SUFFICES ASSUME ~Unsettled, NEW m \in plan, st'[m] \notin {"waiting", "failed"},
                        NEW d \in Deps[m], d \in plan
                 PROVE  st'[d] \in {"skipped", "done"}
      BY <1>1, <1>6 DEF RunOrder, setup
    <2>1. m \in Nodes /\ d \in Nodes
      BY DEF IInv, TypeOK
    <2>2. CASE m = n
      <3>1. layered
        BY <1>1, <2>2 DEF Unsettled
      <3> QED BY <1>1, <1>2, <2>1, <2>2, <3>1 DEF Build, Ready
    <2>3. CASE m # n
      BY <1>1, <1>2, <2>1, <2>3 DEF IInv, RunOrder
    <2> QED BY <2>2, <2>3
  <1>8. RunTrust'
    <2>1. ASSUME sound, NEW m \in Nodes, st'[m] \in {"waiting", "skipped", "failed"}
          PROVE  Agrees(m)'
      BY <1>1, <1>2, <1>3, <2>1 DEF IInv, RunTrust, Agrees
    <2>2. ASSUME sound, ~Unsettled, NEW m \in plan, st'[m] \in {"skipped", "done"}
          PROVE  computed'[m] = rel'[m] /\ rel'[m] # Absent
      BY <1>1, <1>2, <1>3, <2>2 DEF IInv, TypeOK, RunTrust
    <2>3. \A m \in Nodes : Fingerprint(m)' = Fingerprint(m)
      BY <1>1 DEF setup, Fingerprint, DepFingerprint
    <2>4. ASSUME sound, ~Unsettled, NEW m \in plan, st'[m] = "built"
          PROVE  /\ rel'[m] = Built(m)' /\ rel'[m] # Absent
                 /\ Fingerprint(m)' = rel'[m]
                 /\ m \notin forced' => cand'[m] = rel'[m]
      <3>1. n \notin Deps[m] /\ m \in Nodes
        BY <1>1, <1>2, <2>4, BuiltReadsNoOpenNode, NodesAssumption DEF IInv, TypeOK
      <3>2. Built(m)' = Built(m)
        BY <1>1, <1>3, <3>1, NodesAssumption DEF Built
      <3>3. CASE m = n
        <4>1. Fingerprint(n) = Built(n)
          BY <1>1, <2>4, DepsSettled, FingerprintIsContent DEF Build
        <4>2. n \notin forced => cand'[n] = Fingerprint(n)
          BY DEF Build, IInv, TypeOK, IsTable
        <4>3. Built(n) # Absent
          BY NeverAbsent DEF IInv
        <4>4. rel'[m] = Built(m) /\ forced' = forced
          BY <1>1, <1>3, <3>3 DEF setup
        <4> QED BY <2>3, <3>2, <3>3, <4>1, <4>2, <4>3, <4>4
      <3>4. CASE m # n
        <4>1. st[m] = "built" /\ rel'[m] = rel[m] /\ cand'[m] = cand[m] /\ forced' = forced
          BY <1>1, <1>2, <1>3, <2>4, <3>1, <3>4 DEF Build, setup, IInv, TypeOK, IsTable
        <4> QED BY <1>1, <2>3, <2>4, <3>1, <3>2, <4>1 DEF IInv, RunTrust
      <3> QED BY <3>3, <3>4
    <2> QED BY <1>1, <1>6, <2>1, <2>2, <2>4 DEF RunTrust, setup
  <1> QED BY <1>4, <1>5, <1>6, <1>7, <1>8 DEF IInv

\* The fingerprint that is stored is the content of the relation.
LEMMA FinalizeKeeps ==
  ASSUME IInv, NEW n \in Nodes, Finalize(n)
  PROVE  IInv'
  <1>1. /\ phase = "running" /\ phase' = phase /\ n \in plan /\ st[n] = "built"
        /\ UNCHANGED <<store, setup, cand, trusted>>
    BY DEF Finalize, IInv, RunShape
  <1>2. st \in [Nodes -> Steps] /\ \A m \in Nodes : st'[m] = IF m = n THEN "done" ELSE st[m]
    BY DEF IInv, TypeOK, Finalize
  <1>3. \A m \in Nodes : computed'[m] = IF m # n THEN computed[m]
                           ELSE IF n \in forced THEN Fingerprint(n) ELSE cand[n]
    BY DEF IInv, TypeOK, IsTable, Finalize
  <1>4. TypeOK'
    BY <1>1 DEF IInv, TypeOK, IsTable, Steps, store, setup, Finalize
  <1>5. RunShape' /\ CacheTellsRelation'
    BY <1>1, <1>2, <1>3, <1>4 DEF IInv, TypeOK, RunShape, CacheTellsRelation, store, setup
  <1>6. Unsettled' = Unsettled
    BY <1>1 DEF setup, Unsettled
  <1>7. RunOrder'
    BY <1>1, <1>2, <1>6, NodesAssumption DEF IInv, TypeOK, RunOrder, setup
  <1>8. RunTrust'
    <2>1. ASSUME sound, NEW m \in Nodes, st'[m] \in {"waiting", "skipped", "failed"}
          PROVE  Agrees(m)'
      BY <1>1, <1>2, <2>1 DEF IInv, RunTrust, Agrees, store
    <2>2. ASSUME sound, ~Unsettled, NEW m \in plan, st'[m] \in {"skipped", "done"}
          PROVE  computed'[m] = rel'[m] /\ rel'[m] # Absent
      <3>1. m \in Nodes /\ rel' = rel
        BY <1>1 DEF IInv, TypeOK, store
      <3>2. CASE m = n
        BY <1>1, <1>3, <2>2, <3>1, <3>2 DEF IInv, RunTrust
      <3>3. CASE m # n
        BY <1>1, <1>2, <1>3, <2>2, <3>1, <3>3 DEF IInv, RunTrust
      <3> QED BY <3>2, <3>3
    <2>3. ASSUME sound, ~Unsettled, NEW m \in plan, st'[m] = "built"
          PROVE  /\ rel'[m] = Built(m)' /\ rel'[m] # Absent
                 /\ Fingerprint(m)' = rel'[m]
                 /\ m \notin forced' => cand'[m] = rel'[m]
      <3>1. m \in Nodes /\ st[m] = "built"
        BY <1>2, <2>3 DEF IInv, TypeOK
      <3>2. Fingerprint(m)' = Fingerprint(m)
        BY <1>1, <2>3, <3>1, BuiltReadsNoOpenNode, FingerprintFrame DEF IInv, Finalize, store, setup
      <3>3. Built(m)' = Built(m)
        BY <1>1 DEF Built, store
      <3> QED BY <1>1, <2>3, <3>1, <3>2, <3>3 DEF IInv, RunTrust, store, setup
    <2> QED BY <1>1, <1>6, <2>1, <2>2, <2>3 DEF RunTrust, setup
  <1> QED BY <1>4, <1>5, <1>7, <1>8 DEF IInv

\* The end of a run: what it persists describes what it built.
LEMMA EndKeeps ==
  ASSUME IInv, Persist \/ Abandon
  PROVE  IInv'
  <1>1. phase = "running" /\ phase' = "idle" /\ src' = src /\ rel' = rel /\ trusted' \in BOOLEAN
    BY DEF Persist, Abandon, ForgetRun, store, IInv, TypeOK
  <1>2. IsTable(disk)'
    BY DEF Persist, Abandon, Update, store, IInv, TypeOK, IsTable
  <1>3. TypeOK'
    BY <1>1, <1>2 DEF Persist, Abandon, ForgetRun, Nothing, IInv, TypeOK, IsTable, Steps, Modes
  <1>4. RunShape' /\ RunOrder' /\ RunTrust'
    BY <1>1, <1>3 DEF Persist, Abandon, ForgetRun, Nothing, RunShape, RunOrder, RunTrust
  <1>5. CacheTellsRelation'
    <2> SUFFICES ASSUME trusted', NEW n \in Nodes PROVE Agrees(n)'
      BY DEF CacheTellsRelation
    <2>1. trusted /\ sound
      <3>1. trusted /\ trusted \in BOOLEAN
        BY DEF Persist, Abandon, IInv, TypeOK
      <3>2. sound = trusted
        BY <1>1 DEF IInv, RunShape
      <3> QED BY <3>1, <3>2
    <2>2. ASSUME st[n] \in {"waiting", "skipped", "failed"}, disk' = disk
          PROVE  Agrees(n)'
      BY <1>1, <2>1, <2>2 DEF IInv, RunTrust, Agrees
    <2>3. st[n] \in Steps /\ (st[n] # "waiting" => n \in plan)
      BY DEF IInv, TypeOK, RunShape
    <2>4. CASE Abandon
      BY <2>2, <2>3, <2>4 DEF Abandon, Rebuilt, Steps, store
    <2>5. CASE Persist /\ mode \notin Writes
      BY <2>2, <2>3, <2>5 DEF Persist, Rebuilt, Steps
    <2>6. CASE Persist /\ mode \in Writes
      <3>1. ~Unsettled /\ disk' = Update /\ entries = disk
        BY <1>1, <2>6 DEF Persist, IInv, RunShape
      <3>2. CASE n \in plan
        BY <1>1, <2>1, <2>6, <3>1, <3>2 DEF Persist, Update, IInv, RunTrust, Agrees
      <3>3. CASE n \notin plan
        <4>1. st[n] = "waiting" /\ computed[n] = Absent
          BY <3>3 DEF IInv, RunShape
        <4> QED BY <1>1, <2>1, <3>1, <4>1 DEF Update, IInv, RunTrust, Agrees
      <3> QED BY <3>2, <3>3
    <2> QED BY <2>4, <2>5, <2>6
  <1> QED BY <1>3, <1>4, <1>5 DEF IInv

LEMMA NextKeepsIInv == IInv /\ [CacheNext]_cvars => IInv'
  <1> SUFFICES ASSUME IInv, [CacheNext]_cvars PROVE IInv'
    OBVIOUS
  <1>1. ASSUME NEW n \in Nodes, NEW v \in Versions, Edit(n, v) PROVE IInv'
    BY <1>1, BetweenRuns
  <1>2. ASSUME NEW n \in Nodes, Drop(n) PROVE IInv'
    BY <1>2, BetweenRuns DEF IInv, TypeOK
  <1>3. CASE LoseCache
    BY <1>3 DEF LoseCache, setup, Nothing, IInv, TypeOK, IsTable, RunShape, RunOrder, RunTrust,
                CacheTellsRelation, Agrees
  <1>4. ASSUME NEW n \in Nodes, Skip(n) \/ Build(n) \/ Finalize(n) \/ FailBuild(n) \/ FailHook(n)
        PROVE  IInv'
    BY <1>4, SkipKeeps, BuildKeeps, FinalizeKeeps, FailKeeps
  <1>5. ASSUME NEW m \in Modes, NEW p \in SUBSET Nodes, NEW lay \in BOOLEAN, NEW f \in {{}, p},
               StartRun(m, p, lay, f)
        PROVE  IInv'
    BY <1>5, StartKeeps
  <1>6. CASE Persist \/ Abandon
    BY <1>6, EndKeeps
  <1>7. CASE UNCHANGED cvars
    <2>1. UNCHANGED <<src, rel, disk, phase, mode, layered, plan, forced, entries, sound,
                      computed, cand, st, trusted>>
      BY <1>7 DEF cvars, store, setup
    <2>2. Unsettled' = Unsettled
      BY <2>1 DEF Unsettled
    <2>3. /\ \A m \in Nodes : Agrees(m)' <=> Agrees(m)
          /\ \A m \in Nodes : Built(m)' = Built(m) /\ Fingerprint(m)' = Fingerprint(m)
      BY <2>1 DEF Agrees, Built, Fingerprint, DepFingerprint
    <2>4. TypeOK' /\ RunShape' /\ CacheTellsRelation'
      BY <2>1, <2>3 DEF IInv, TypeOK, IsTable, RunShape, CacheTellsRelation
    <2>5. RunOrder'
      BY <2>1, <2>2 DEF IInv, RunOrder
    <2>6. RunTrust'
      BY <2>1, <2>2, <2>3 DEF IInv, TypeOK, RunTrust
    <2> QED BY <2>4, <2>5, <2>6 DEF IInv
  <1> QED BY <1>1, <1>2, <1>3, <1>4, <1>5, <1>6, <1>7 DEF CacheNext

\* The inductive invariant of the build cache holds in every reachable state.
THEOREM CacheInvariance == CacheSpec => []IInv
  <1> QED BY InitIInv, NextKeepsIInv, PTL DEF CacheSpec

\* persist_on_success and can_skip_node: in a history without detached builds an
\* entry of the cache describes the content of its relation.
THEOREM CacheIsExact == CacheSpec => []CacheTellsRelation
  <1>1. IInv => CacheTellsRelation
    BY DEF IInv
  <1> QED BY <1>1, CacheInvariance, PTL

\* _should_skip_node: in such a history a node is skipped only when its relation
\* is what a build would make.
THEOREM SkipsAreFresh == CacheSpec => TrustedSkipIsFresh
  <1>1. IInv /\ [CacheNext]_cvars =>
          [\A n \in Nodes : sound /\ st[n] = "waiting" /\ st'[n] = "skipped" => rel[n] = Built(n)]_cvars
    <2> SUFFICES ASSUME IInv, CacheNext, NEW n \in Nodes, sound, st[n] = "waiting", st'[n] = "skipped"
                 PROVE  rel[n] = Built(n)
      BY DEF cvars
    <2>1. Skip(n)
      BY DEF CacheNext, Edit, Drop, LoseCache, StartRun, Skip, Build, Finalize, FailBuild, FailHook,
             Persist, Abandon, ForgetRun, IInv, TypeOK
    <2>2. n \notin forced /\ plan # {} /\ layered /\ ~Unsettled
      BY <2>1 DEF Skip, Ready, CanSkip, IInv, RunShape, Unsettled
    <2>3. \A d \in Deps[n] : d \in plan
      BY <2>1, <2>2 DEF Skip, Ready, IInv, RunShape, Closed
    <2>4. Fingerprint(n) = Built(n)
      BY <2>1, <2>2, <2>3, DepsSettled, FingerprintIsContent DEF Skip
    <2>5. Agrees(n) /\ disk[n] = Fingerprint(n) /\ rel[n] # Absent
      BY <2>1 DEF Skip, Ready, CanSkip, IInv, RunShape, RunTrust
    <2> QED BY <2>4, <2>5, NeverAbsent DEF Agrees, IInv
  <1> QED BY <1>1, CacheInvariance, PTL DEF CacheSpec, TrustedSkipIsFresh

\* persist_on_success: the cache file changes only at the end of a run without a
\* failure in a mode that writes, and only for what that run has settled.
THEOREM OnlySuccessWrites == CacheSpec => OnlySuccessPersists
  <1>1. IInv /\ [CacheNext]_cvars =>
          [phase = "running" /\ disk' # disk =>
             Succeeded /\ mode \in Writes
             /\ \A n \in Nodes : disk'[n] # disk[n] => n \in plan]_cvars
    <2> SUFFICES ASSUME IInv, CacheNext, phase = "running", disk' # disk
                 PROVE  /\ Succeeded /\ mode \in Writes
                        /\ \A n \in Nodes : disk'[n] # disk[n] => n \in plan
      BY DEF cvars
    <2>1. Persist
      BY DEF CacheNext, Edit, Drop, LoseCache, StartRun, Skip, Build, Finalize, FailBuild, FailHook,
             Abandon, store
    <2>2. Succeeded /\ mode \in Writes /\ disk' = Update
      BY <2>1 DEF Persist, Succeeded
    <2>3. ASSUME NEW n \in Nodes, disk'[n] # disk[n]
          PROVE  n \in plan
      <3>1. computed[n] # Absent
        BY <2>2, <2>3 DEF Update, IInv, RunShape
      <3> QED BY <3>1 DEF IInv, RunShape
    <2> QED BY <2>2, <2>3
  <1> QED BY <1>1, CacheInvariance, PTL DEF CacheSpec, OnlySuccessPersists

-----------------------------------------------------------------------------
(* HttpClient: the limiter keeps its rate, telemetry reports what a model  *)
(* was given, and an offline call replays what the last complete online    *)
(* call left in the cache.                                                 *)

Reading == {"throttle", "meta", "body"}
Asking == {"send", "backoff", "writeMeta"}
Writing == {"truncate", "writeBody"}
States == {"idle", "done", "failed", "exhausted"} \union Reading \union Asking \union Writing

BucketTypes ==
  /\ tokens \in 0..Capacity /\ credit \in 0..Capacity /\ need \in [Procs -> Nat]

Types ==
  /\ ver \in 1..MaxVer
  /\ meta \in [P -> 0..MaxVer] /\ body \in [P -> 0..Torn]
  /\ pc \in [Procs -> States] /\ offline \in [Procs -> BOOLEAN]
  /\ page \in [Procs -> P] /\ seen \in [Procs -> 0..MaxVer]
  /\ pages \in [Procs -> Seq(0..Torn)]
  /\ tele \in [Procs -> Seq([hash : 0..MaxVer, hit : BOOLEAN])]
  /\ \A p \in Procs : Len(tele[p]) = Len(pages[p])
  /\ contended \in BOOLEAN
  /\ last \in Seq(0..Torn) /\ promise \in [Procs -> Seq(0..Torn)]

\* Without contention one client at most is in a call.
Alone == ~contended => \A p, q \in Procs : p # q => Resting(p) \/ Resting(q)

\* Without contention the two files of an entry belong together, except where the
\* one client is writing; and a client has seen the meta file as it is.
EntriesWhole ==
  ~contended =>
    /\ \A q \in P : meta[q] = body[q] \/ \E p \in Procs : pc[p] \in Writing /\ page[p] = q
    /\ \A p \in Procs : pc[p] \in Writing \union {"body"} => seen[p] = meta[page[p]]

\* What is received has a version, and so has what is read.
SeenIsSomething ==
  \A p \in Procs : pc[p] \in {"body", "writeMeta"} \union Writing => seen[p] # None

\* The chain c of bodies is in the cache and stays there.
OnDisk(c) ==
  /\ Kept
  /\ \A k \in 1..Len(c) : k \in P /\ c[k] = meta[k] /\ c[k] = body[k] /\ c[k] \in 1..MaxVer

\* Without contention, a client has so far been given what is in the cache.
PagesOnDisk ==
  ~contended /\ Kept =>
    \A p \in Procs : ~Resting(p) => Len(pages[p]) = page[p] - 1 /\ OnDisk(pages[p])

\* What the last complete online call was given is there as a whole.
LastOnDisk ==
  last # <<>> => /\ Len(last) = Pages /\ OnDisk(last)
                 /\ \A p \in Procs : pc[p] \notin Writing

\* While a promise stands everybody reads what it says, and nobody asks the server.
PromiseOnDisk ==
  \A p \in Procs : promise[p] # <<>> =>
    /\ Len(promise[p]) = Pages /\ OnDisk(promise[p])
    /\ \A r \in Procs : pc[r] \notin Asking \union Writing
    /\ pc[p] # "failed"
    /\ pc[p] \in Reading =>
         /\ Len(pages[p]) = page[p] - 1
         /\ \A k \in 1..Len(pages[p]) : pages[p][k] = promise[p][k]
    /\ pc[p] = "done" => pages[p] = promise[p]

-----------------------------------------------------------------------------
(* The rate limiter, whoever uses it.                                      *)

\* The parts of Next that reach the bucket keep it within its capacity, and below
\* what an ideal bucket would hold.
LEMMA BucketStep ==
  ASSUME BucketTypes, NeverOverRate, Next
  PROVE  BucketTypes' /\ NeverOverRate'
  <1> USE BucketAssumption
  <1>1. ASSUME NEW p \in Procs, NEW cost \in Nat \ {0}, Attempt(p, cost)
        PROVE  BucketTypes' /\ NeverOverRate'
    <2>1. CASE tokens >= cost
      BY <1>1, <2>1 DEF Attempt, Consume, BucketTypes, NeverOverRate
    <2>2. CASE ~(tokens >= cost)
      BY <1>1, <2>2 DEF Attempt, BucketTypes, NeverOverRate
    <2> QED BY <2>1, <2>2
  <1>2. ASSUME NEW p \in Procs, Throttle(p)
        PROVE  BucketTypes' /\ NeverOverRate'
    <2>1. ASSUME NEW c \in Costs, Wait(p, c)
          PROVE  BucketTypes' /\ NeverOverRate'
      BY <1>1, <2>1 DEF Wait
    <2>2. ASSUME NEW c \in Costs, TryConsume(p, c)
          PROVE  BucketTypes' /\ NeverOverRate'
      BY <2>2 DEF TryConsume, Consume, BucketTypes, NeverOverRate
    <2>3. CASE Wake(p)
      BY <1>1, <2>3 DEF Wake, BucketTypes
    <2> QED BY <1>2, <2>1, <2>2, <2>3 DEF Throttle
  <1>3. CASE Tick
    BY <1>3 DEF Tick, BucketTick, Refill, Least, BucketTypes, NeverOverRate
  <1>4. CASE Reconfigure
    BY <1>4 DEF Reconfigure, SetParams, BucketTypes, NeverOverRate
  <1>5. ASSUME NEW p \in Procs, Die(p)
        PROVE  BucketTypes' /\ NeverOverRate'
    BY <1>5 DEF Die, Set, BucketTypes, NeverOverRate
  <1>6. ASSUME NEW p \in Procs, Transient(p)
        PROVE  BucketTypes' /\ NeverOverRate'
    BY <1>6 DEF Transient, BucketTypes, NeverOverRate
  <1>7. ASSUME UNCHANGED bucket
        PROVE  BucketTypes' /\ NeverOverRate'
    BY <1>7 DEF bucket, BucketTypes, NeverOverRate
  <1>8. ASSUME NEW p \in Procs, Client(p)
        PROVE  BucketTypes' /\ NeverOverRate'
    BY <1>6, <1>7, <1>8 DEF Client, ReadMeta, Miss, Hit, Respond, BackedOff, Reject,
       WriteMeta, TruncateBody, WriteBody, Deliver
  <1>9. ASSUME NEW p \in Procs, NEW off \in BOOLEAN, Call(p, off)
        PROVE  BucketTypes' /\ NeverOverRate'
    BY <1>7, <1>9 DEF Call
  <1>10. CASE Publish
    BY <1>7, <1>10 DEF Publish
  <1> QED BY <1>2, <1>3, <1>4, <1>5, <1>8, <1>9, <1>10 DEF Next

LEMMA BucketInvariant == Spec => [](BucketTypes /\ NeverOverRate)
  <1>1. Init => BucketTypes /\ NeverOverRate
    BY BucketAssumption DEF Init, BucketInit, BucketTypes, NeverOverRate
  <1>2. BucketTypes /\ NeverOverRate /\ [Next]_vars => BucketTypes' /\ NeverOverRate'
    <2>1. ASSUME BucketTypes, NeverOverRate, UNCHANGED vars
          PROVE  BucketTypes' /\ NeverOverRate'
      BY <2>1 DEF vars, bucket, BucketTypes, NeverOverRate
    <2> QED BY <2>1, BucketStep
  <1> QED BY <1>1, <1>2, PTL DEF Spec

\* The limiter keeps its rate (api/rate_limit.py): whatever the threads ask, however
\* they wait, die or are interrupted by a new configuration, never more tokens are
\* handed out than a bucket that started full would have held.
THEOREM RateIsKept == Spec => []NeverOverRate
  BY BucketInvariant, PTL

-----------------------------------------------------------------------------
(* The cache and what a call is given.                                     *)

ClientInv == /\ Types /\ Alone /\ EntriesWhole /\ SeenIsSomething /\ TelemetryIsTrue
            /\ PagesOnDisk /\ LastOnDisk /\ PromiseOnDisk

\* A chain stays on disk as long as its files do.
LEMMA OnDiskFrame ==
  ASSUME NEW c, OnDisk(c), cfg' = cfg, meta' = meta, body' = body
  PROVE  /\ Kept' /\ \A k \in 1..Len(c) : k \in P /\ c[k] = meta'[k] /\ c[k] = body'[k]
                                           /\ c[k] \in 1..MaxVer
  BY DEF OnDisk, Kept

\* Steps that touch neither the cache nor a call.
LEMMA Idles ==
  ASSUME ClientInv, UNCHANGED <<cfg, meta, body, pc, local, ghosts>>, ver' \in 1..MaxVer
  PROVE  ClientInv'
  <1> USE DEF ClientInv, local, ghosts
  <1>1. Types'
    BY DEF Types
  <1>2. Alone'
    BY DEF Alone, Resting
  <1>3. EntriesWhole'
    BY DEF EntriesWhole
  <1>4. SeenIsSomething'
    BY DEF SeenIsSomething
  <1>5. TelemetryIsTrue'
    BY DEF TelemetryIsTrue
  <1>6. PagesOnDisk'
    BY DEF PagesOnDisk, OnDisk, Kept, Resting
  <1>7. LastOnDisk'
    BY DEF LastOnDisk, OnDisk, Kept
  <1>8. PromiseOnDisk'
    BY DEF PromiseOnDisk, OnDisk, Kept
  <1> QED BY <1>1, <1>2, <1>3, <1>4, <1>5, <1>6, <1>7, <1>8

\* Steps that only move a client on: it goes to a place where it has no more to
\* account for, or has what that place asks for.
LEMMA Moves ==
  ASSUME ClientInv, NEW p \in Procs, NEW to \in States, ~Resting(p),
         UNCHANGED <<cfg, ver, meta, body, offline, page, seen, pages, tele, last, promise>>,
         pc' = [pc EXCEPT ![p] = to],
         contended' = (contended \/ pc[p] \in Writing),
         to \notin {"done", "body", "writeMeta"} \union Writing,
         to \in Asking \union {"failed"} => \A r \in Procs : promise[r] = <<>>,
         to \in Reading => pc[p] = "throttle" /\ to = "meta"
  PROVE  ClientInv'
  <1> USE DEF ClientInv
  <1>0. p \in Procs /\ pc \in [Procs -> States]
    BY DEF Types
  <1>1. Types'
    BY DEF Types
  <1>2. Alone'
    BY <1>0 DEF Alone, Resting
  <1>3. EntriesWhole'
    <2> SUFFICES ASSUME ~contended' PROVE EntriesWhole'
      BY DEF EntriesWhole
    <2>1. ~contended /\ pc[p] \notin Writing
      BY DEF Types
    <2> QED BY <1>0, <2>1 DEF EntriesWhole, Writing
  <1>4. SeenIsSomething'
    BY <1>0 DEF SeenIsSomething
  <1>5. TelemetryIsTrue'
    BY DEF TelemetryIsTrue, Types
  <1>6. PagesOnDisk'
    <2> SUFFICES ASSUME ~contended', Kept', NEW q \in Procs, ~Resting(q)'
                 PROVE  Len(pages'[q]) = page'[q] - 1 /\ OnDisk(pages[q])'
      BY DEF PagesOnDisk, OnDisk
    <2>1. ~contended /\ Kept
      BY DEF Types, Kept
    <2>2. ~Resting(q)
      BY <1>0 DEF Resting
    <2> QED BY <2>1, <2>2 DEF PagesOnDisk, OnDisk, Kept
  <1>7. LastOnDisk'
    BY <1>0 DEF LastOnDisk, OnDisk, Kept, Writing
  <1>8. PromiseOnDisk'
    <2> SUFFICES ASSUME NEW q \in Procs, promise[q] # <<>>
                 PROVE  /\ Len(promise[q]) = Pages /\ OnDisk(promise[q])'
                        /\ \A r \in Procs : pc'[r] \notin Asking \union Writing
                        /\ pc'[q] # "failed"
                        /\ pc'[q] \in Reading =>
                             /\ Len(pages[q]) = page[q] - 1
                             /\ \A k \in 1..Len(pages[q]) : pages[q][k] = promise[q][k]
                        /\ pc'[q] = "done" => pages[q] = promise[q]
      BY DEF PromiseOnDisk
    <2>1. Len(promise[q]) = Pages /\ OnDisk(promise[q])'
      BY DEF PromiseOnDisk, OnDisk, Kept
    <2>2. \A r \in Procs : pc'[r] \notin Asking \union Writing
      BY <1>0 DEF PromiseOnDisk
    <2>3. pc'[q] # "failed"
      BY <1>0 DEF PromiseOnDisk
    <2>4. pc'[q] \in Reading => pc[q] \in Reading
      BY <1>0 DEF Reading
    <2>5. pc'[q] = "done" => pc[q] = "done"
      BY <1>0
    <2> QED BY <2>1, <2>2, <2>3, <2>4, <2>5 DEF PromiseOnDisk
  <1> QED BY <1>1, <1>2, <1>3, <1>4, <1>5, <1>6, <1>7, <1>8

\* As long as a promise stands nobody gets past the cache.
LEMMA NobodyAsks ==
  ASSUME ClientInv, NEW p \in Procs, NEW r \in Procs, promise[r] # <<>>
  PROVE  pc[p] \notin Asking \union Writing /\ ~Miss(p)
  <1>1. pc[p] \notin Asking \union Writing /\ \A c \in Procs : pc[c] # "writeMeta"
    BY DEF ClientInv, PromiseOnDisk, Asking
  <1>2. page[p] \in P /\ Len(promise[r]) = Pages /\ OnDisk(promise[r])
    BY DEF ClientInv, PromiseOnDisk, Types
  <1>3. meta[page[p]] # None /\ body[page[p]] # None /\ Kept
    BY <1>2, PagesAssumption DEF OnDisk, P, None
  <1>4. Cached(p) /\ ~Expired(page[p]) /\ ~HalfWritten(page[p])
    BY <1>1, <1>3 DEF Kept, Cached, Expired, HalfWritten
  <1> QED BY <1>1, <1>4 DEF Miss

LEMMA ThrottleStep == ASSUME ClientInv, NEW p \in Procs, Throttle(p) PROVE ClientInv'
  <1>1. ver \in 1..MaxVer
    BY DEF ClientInv, Types
  <1>2. CASE pc' = pc
    BY <1>1, <1>2, Idles DEF Throttle, files
  <1>3. CASE pc' = [pc EXCEPT ![p] = "meta"]
    BY <1>3, Moves DEF Throttle, files, local, ghosts, Resting, ClientInv, Types,
       States, Reading, Asking, Writing
  <1> QED BY <1>2, <1>3 DEF Throttle, Set

LEMMA LeavingStep ==
  ASSUME ClientInv, NEW p \in Procs,
         Miss(p) \/ Transient(p) \/ BackedOff(p) \/ Reject(p) \/ Die(p)
  PROVE  ClientInv'
  <1> USE DEF files, local, ghosts, Set, Resting, States, Reading, Asking, Writing
  <1>0. contended \in BOOLEAN
    BY DEF ClientInv, Types
  <1>1. CASE Miss(p)
    <2>1. \A r \in Procs : promise[r] = <<>>
      BY <1>1, NobodyAsks
    <2> DEFINE to == IF offline[p] THEN "failed" ELSE "send"
    <2>2. pc' = [pc EXCEPT ![p] = to] /\ to \in {"failed", "send"}
      BY <1>1 DEF Miss
    <2> HIDE DEF to
    <2> QED BY <1>0, <1>1, <2>1, <2>2, Moves DEF Miss
  <1>2. CASE pc[p] = "send" /\ (Transient(p) \/ Reject(p))
    <2>1. \A r \in Procs : promise[r] = <<>>
      BY <1>2, NobodyAsks
    <2>2. PICK to \in {"backoff", "failed"} : pc' = [pc EXCEPT ![p] = to]
      BY <1>2 DEF Transient, TryAgain, GiveUp, Reject
    <2>3. UNCHANGED <<cfg, ver, meta, body, offline, page, seen, pages, tele, last, promise, contended>>
      BY <1>2 DEF Transient, Reject
    <2> QED BY <1>0, <1>2, <2>1, <2>2, <2>3, Moves
  <1>3. CASE BackedOff(p)
    <2>1. \A r \in Procs : promise[r] = <<>>
      BY <1>3, NobodyAsks DEF BackedOff
    <2>2. PICK to \in {"send", "exhausted"} : pc' = [pc EXCEPT ![p] = to]
      BY <1>3 DEF BackedOff
    <2> QED BY <1>0, <1>3, <2>1, <2>2, Moves DEF BackedOff
  <1>4. CASE Die(p)
    BY <1>4, Moves DEF Die
  <1> QED BY <1>1, <1>2, <1>3, <1>4 DEF Transient, Reject

LEMMA CallStep ==
  ASSUME ClientInv, NEW p \in Procs, NEW off \in BOOLEAN, Call(p, off)
  PROVE  ClientInv'
  <1> USE DEF ClientInv, Set, files
  <1>0. PICK to \in {"throttle", "meta"} : pc' = [pc EXCEPT ![p] = to]
    BY DEF Call
  <1>1. Types'
    <2>1. pc' \in [Procs -> States] /\ offline' \in [Procs -> BOOLEAN] /\ contended' \in BOOLEAN
      BY <1>0 DEF Call, Types, States, Reading
    <2>2. page' \in [Procs -> P] /\ seen' \in [Procs -> 0..MaxVer]
      BY PagesAssumption DEF Call, Types, P, None
    <2>3. pages' \in [Procs -> Seq(0..Torn)] /\ promise' \in [Procs -> Seq(0..Torn)]
      <3>1. <<>> \in Seq(0..Torn)
        OBVIOUS
      <3> QED BY <3>1 DEF Call, Types
    <2>4. tele' \in [Procs -> Seq([hash : 0..MaxVer, hit : BOOLEAN])]
      <3> DEFINE Told == [hash : 0..MaxVer, hit : BOOLEAN]
      <3>1. tele \in [Procs -> Seq(Told)]
        BY Zenon DEF Types
      <3> HIDE DEF Told
      <3>2. <<>> \in Seq(Told)
        OBVIOUS
      <3>3. tele' \in [Procs -> Seq(Told)]
        BY <3>1, <3>2 DEF Call
      <3> QED BY <3>3 DEF Told
    <2>5. \A q \in Procs : Len(tele'[q]) = Len(pages'[q])
      BY DEF Call, Types
    <2> QED BY <2>1, <2>2, <2>3, <2>4, <2>5 DEF Call, Types
  <1>2. Alone'
    <2> SUFFICES ASSUME ~contended', NEW q \in Procs, NEW r \in Procs, q # r
                 PROVE  Resting(q)' \/ Resting(r)'
      BY DEF Alone
    <2>1. \A c \in Procs \ {p} : Resting(c)
      BY DEF Call
    <2> QED BY <1>0, <2>1 DEF Resting, Types
  <1>3. EntriesWhole'
    <2> SUFFICES ASSUME ~contended' PROVE EntriesWhole'
      BY DEF EntriesWhole
    <2>1. ~contended /\ Resting(p)
      BY DEF Call
    <2> QED BY <1>0, <2>1 DEF EntriesWhole, Call, Types, Writing, Resting
  <1>4. SeenIsSomething'
    BY <1>0 DEF SeenIsSomething, Call, Types, Writing
  <1>5. TelemetryIsTrue'
    BY DEF TelemetryIsTrue, Call, Types
  <1>6. PagesOnDisk'
    <2> SUFFICES ASSUME ~contended', Kept', NEW q \in Procs, ~Resting(q)'
                 PROVE  Len(pages'[q]) = page'[q] - 1 /\ OnDisk(pages[q])'
      BY DEF PagesOnDisk
    <2>1. \A c \in Procs \ {p} : Resting(c)
      BY DEF Call
    <2>2. q = p
      BY <1>0, <2>1 DEF Resting, Types
    <2> QED BY <2>2 DEF Call, OnDisk, Types
  <1>7. LastOnDisk'
    BY <1>0 DEF LastOnDisk, OnDisk, Kept, Writing, Call, Types
  <1>8. PromiseOnDisk'
    <2> SUFFICES ASSUME NEW q \in Procs, promise'[q] # <<>>
                 PROVE  /\ Len(promise'[q]) = Pages /\ OnDisk(promise[q])'
                        /\ \A r \in Procs : pc'[r] \notin Asking \union Writing
                        /\ pc'[q] # "failed"
                        /\ pc'[q] \in Reading =>
                             /\ Len(pages'[q]) = page'[q] - 1
                             /\ \A k \in 1..Len(pages'[q]) : pages'[q][k] = promise'[q][k]
                        /\ pc'[q] = "done" => pages'[q] = promise'[q]
      BY DEF PromiseOnDisk
    <2>1. CASE q = p
      <3>1. promise'[q] = last /\ last # <<>> /\ \A c \in Procs \ {p} : Resting(c)
        BY <2>1 DEF Call, Types
      <3>2. Len(promise'[q]) = Pages /\ OnDisk(promise[q])'
        BY <3>1 DEF LastOnDisk, OnDisk, Kept, Call
      <3>3. \A r \in Procs : pc'[r] \notin Asking \union Writing
        BY <1>0, <3>1 DEF Resting, Types, Asking, Writing
      <3>4. pc'[q] = to /\ pages'[q] = <<>> /\ page'[q] = 1
        BY <1>0, <2>1 DEF Call, Types
      <3> QED BY <3>2, <3>3, <3>4
    <2>2. CASE q # p
      <3>1. promise'[q] = promise[q] /\ pages'[q] = pages[q] /\ page'[q] = page[q] /\ pc'[q] = pc[q]
        BY <1>0, <2>2 DEF Call, Types
      <3>2. OnDisk(promise[q])' /\ Len(promise'[q]) = Pages
        BY <3>1 DEF PromiseOnDisk, OnDisk, Kept, Call
      <3>3. \A r \in Procs : pc'[r] \notin Asking \union Writing
        BY <1>0, <3>1 DEF PromiseOnDisk, Types, Asking, Writing
      <3> QED BY <3>1, <3>2, <3>3 DEF PromiseOnDisk
    <2> QED BY <2>1, <2>2
  <1> QED BY <1>1, <1>2, <1>3, <1>4, <1>5, <1>6, <1>7, <1>8

LEMMA ReadMetaStep == ASSUME ClientInv, NEW p \in Procs, ReadMeta(p) PROVE ClientInv'
  <1> USE DEF ClientInv, Set, files, ghosts
  <1>0. pc[p] = "meta" /\ pc' = [pc EXCEPT ![p] = "body"] /\ ~Resting(p) /\ page[p] \in P
    BY DEF ReadMeta, Resting, Types
  <1>1. Types'
    BY <1>0 DEF ReadMeta, Types, States, Reading
  <1>2. Alone'
    BY <1>0 DEF Alone, Resting, ReadMeta, Types
  <1>3. EntriesWhole'
    BY <1>0 DEF EntriesWhole, ReadMeta, Types, Writing
  <1>4. SeenIsSomething'
    BY <1>0 DEF SeenIsSomething, ReadMeta, Cached, Types, Writing
  <1>5. TelemetryIsTrue'
    BY DEF TelemetryIsTrue, ReadMeta
  <1>6. PagesOnDisk'
    BY <1>0 DEF PagesOnDisk, OnDisk, Kept, Resting, ReadMeta, Types
  <1>7. LastOnDisk'
    BY <1>0 DEF LastOnDisk, OnDisk, Kept, ReadMeta, Types, Writing
  <1>8. PromiseOnDisk'
    <2> SUFFICES ASSUME NEW q \in Procs, promise[q] # <<>>
                 PROVE  /\ Len(promise[q]) = Pages /\ OnDisk(promise[q])'
                        /\ \A r \in Procs : pc'[r] \notin Asking \union Writing
                        /\ pc'[q] # "failed"
                        /\ pc'[q] \in Reading =>
                             /\ Len(pages[q]) = page[q] - 1
                             /\ \A k \in 1..Len(pages[q]) : pages[q][k] = promise[q][k]
                        /\ pc'[q] = "done" => pages[q] = promise[q]
      BY DEF PromiseOnDisk, ReadMeta
    <2>1. OnDisk(promise[q])' /\ Len(promise[q]) = Pages
      BY DEF PromiseOnDisk, OnDisk, Kept, ReadMeta
    <2>2. \A r \in Procs : pc'[r] \notin Asking \union Writing
      BY <1>0 DEF PromiseOnDisk, Types, Asking, Writing
    <2>3. /\ pc'[q] # "failed"
          /\ pc'[q] \in Reading => pc[q] \in Reading
          /\ pc'[q] = "done" => pc[q] = "done"
      BY <1>0 DEF PromiseOnDisk, Types, Reading
    <2> QED BY <2>1, <2>2, <2>3 DEF PromiseOnDisk
  <1> QED BY <1>1, <1>2, <1>3, <1>4, <1>5, <1>6, <1>7, <1>8

\* An answer that will be cached.
LEMMA RespondStep ==
  ASSUME ClientInv, NEW p \in Procs, Respond(p), cfg.mode # "ro"
  PROVE  ClientInv'
  <1> USE DEF ClientInv, Set, files, ghosts
  <1>0. /\ pc[p] = "send" /\ pc' = [pc EXCEPT ![p] = "writeMeta"] /\ ~Resting(p)
        /\ seen' = [seen EXCEPT ![p] = ver]
        /\ UNCHANGED <<cfg, ver, meta, body, offline, page, pages, tele, contended, last, promise>>
    BY DEF Respond, Resting
  <1>1. Types'
    <2>1. ver \in 0..MaxVer
      BY PagesAssumption DEF Types
    <2>2. pc' \in [Procs -> States] /\ seen' \in [Procs -> 0..MaxVer]
      BY <1>0, <2>1 DEF Types, States, Asking
    <2> QED BY <1>0, <2>2 DEF Types
  <1>2. Alone'
    BY <1>0 DEF Alone, Resting, Types
  <1>3. EntriesWhole'
    BY <1>0 DEF EntriesWhole, Types, Writing
  <1>4. SeenIsSomething'
    BY <1>0 DEF SeenIsSomething, Types, Writing, None
  <1>5. TelemetryIsTrue'
    BY <1>0 DEF TelemetryIsTrue
  <1>6. PagesOnDisk'
    BY <1>0 DEF PagesOnDisk, OnDisk, Kept, Resting, Types
  <1>7. LastOnDisk'
    BY <1>0 DEF LastOnDisk, OnDisk, Kept, Types, Writing
  <1>8. PromiseOnDisk'
    BY <1>0, NobodyAsks DEF PromiseOnDisk, Asking
  <1> QED BY <1>1, <1>2, <1>3, <1>4, <1>5, <1>6, <1>7, <1>8

LEMMA WriteMetaStep == ASSUME ClientInv, NEW p \in Procs, WriteMeta(p) PROVE ClientInv'
  <1> USE DEF ClientInv, Set, local
  <1>0. /\ pc[p] = "writeMeta" /\ pc' = [pc EXCEPT ![p] = "truncate"] /\ ~Resting(p)
        /\ meta' = [meta EXCEPT ![page[p]] = seen[p]] /\ page[p] \in P
        /\ UNCHANGED <<cfg, ver, body, offline, page, seen, pages, tele, contended>>
        /\ last' = <<>> /\ \A q \in Procs : promise'[q] = <<>>
    BY DEF WriteMeta, Resting, Everyone, Types
  <1>1. Types'
    <2>1. last' \in Seq(0..Torn) /\ promise' \in [Procs -> Seq(0..Torn)]
      BY DEF WriteMeta, Everyone
    <2> QED BY <1>0, <2>1 DEF Types, States, Writing
  <1>2. Alone'
    BY <1>0 DEF Alone, Resting, Types
  <1>3. EntriesWhole'
    <2> SUFFICES ASSUME ~contended
                 PROVE  /\ \A q \in P : \/ meta'[q] = body[q]
                                        \/ \E r \in Procs : pc'[r] \in Writing /\ page[r] = q
                        /\ \A r \in Procs : pc'[r] \in Writing \union {"body"} => seen[r] = meta'[page[r]]
      BY <1>0 DEF EntriesWhole
    <2>1. \A r \in Procs : r # p => pc[r] \notin Writing \union {"body"}
      BY <1>0 DEF Alone, Resting, Writing
    <2>2. ASSUME NEW q \in P, q # page[p]
          PROVE  meta'[q] = body[q]
      BY <1>0, <2>1, <2>2 DEF EntriesWhole, Types, Writing
    <2>3. pc'[p] \in Writing /\ meta'[page[p]] = seen[p]
      BY <1>0 DEF Types, Writing
    <2>4. \A r \in Procs : r # p => pc'[r] = pc[r]
      BY <1>0 DEF Types
    <2> QED BY <2>1, <2>2, <2>3, <2>4
  <1>4. SeenIsSomething'
    BY <1>0 DEF SeenIsSomething, Types, Writing
  <1>5. TelemetryIsTrue'
    BY <1>0 DEF TelemetryIsTrue
  <1>6. PagesOnDisk'
    <2> SUFFICES ASSUME ~contended, Kept, NEW q \in Procs, ~Resting(q)'
                 PROVE  Len(pages[q]) = page[q] - 1 /\ OnDisk(pages[q])'
      BY <1>0 DEF PagesOnDisk, Kept
    <2>1. q = p
      BY <1>0 DEF Alone, Resting, Types
    <2>2. Len(pages[p]) = page[p] - 1 /\ OnDisk(pages[p])
      BY <1>0 DEF PagesOnDisk
    <2>3. ASSUME NEW k \in 1..Len(pages[p])
          PROVE  k \in P /\ k # page[p] /\ meta'[k] = meta[k]
      BY <1>0, <2>2 DEF OnDisk, Types, P
    <2> QED BY <1>0, <2>1, <2>2, <2>3 DEF OnDisk, Kept
  <1>7. LastOnDisk'
    BY <1>0 DEF LastOnDisk
  <1>8. PromiseOnDisk'
    BY <1>0 DEF PromiseOnDisk
  <1> QED BY <1>1, <1>2, <1>3, <1>4, <1>5, <1>6, <1>7, <1>8

LEMMA TruncateStep == ASSUME ClientInv, NEW p \in Procs, TruncateBody(p) PROVE ClientInv'
  <1> USE DEF ClientInv, Set, local, ghosts
  <1>0. /\ pc[p] = "truncate" /\ pc' = [pc EXCEPT ![p] = "writeBody"] /\ ~Resting(p)
        /\ body' = [body EXCEPT ![page[p]] = Torn] /\ page[p] \in P
        /\ UNCHANGED <<cfg, ver, meta, offline, page, seen, pages, tele, contended, last, promise>>
    BY DEF TruncateBody, Resting, Types
  <1>a. last = <<>> /\ \A q \in Procs : promise[q] = <<>>
    BY <1>0, NobodyAsks DEF LastOnDisk, Writing
  <1>1. Types'
    <2>1. Torn \in 0..Torn
      BY PagesAssumption DEF Torn
    <2>2. pc' \in [Procs -> States] /\ body' \in [P -> 0..Torn]
      BY <1>0, <2>1 DEF Types, States, Writing
    <2> QED BY <1>0, <2>2 DEF Types
  <1>2. Alone'
    BY <1>0 DEF Alone, Resting, Types
  <1>3. EntriesWhole'
    BY <1>0 DEF EntriesWhole, Types, Writing
  <1>4. SeenIsSomething'
    BY <1>0 DEF SeenIsSomething, Types, Writing
  <1>5. TelemetryIsTrue'
    BY <1>0 DEF TelemetryIsTrue
  <1>6. PagesOnDisk'
    <2> SUFFICES ASSUME ~contended, Kept, NEW q \in Procs, ~Resting(q)'
                 PROVE  Len(pages[q]) = page[q] - 1 /\ OnDisk(pages[q])'
      BY <1>0 DEF PagesOnDisk, Kept
    <2>1. q = p
      BY <1>0 DEF Alone, Resting, Types
    <2>2. Len(pages[p]) = page[p] - 1 /\ OnDisk(pages[p])
      BY <1>0 DEF PagesOnDisk
    <2>3. ASSUME NEW k \in 1..Len(pages[p])
          PROVE  k \in P /\ k # page[p] /\ body'[k] = body[k]
      BY <1>0, <2>2 DEF OnDisk, Types, P
    <2> QED BY <1>0, <2>1, <2>2, <2>3 DEF OnDisk, Kept
  <1>7. LastOnDisk'
    BY <1>0, <1>a DEF LastOnDisk
  <1>8. PromiseOnDisk'
    BY <1>0, <1>a DEF PromiseOnDisk
  <1> QED BY <1>1, <1>2, <1>3, <1>4, <1>5, <1>6, <1>7, <1>8

\* A body is handed to the model: one that was read, or one that was received.
LEMMA DeliverStep ==
  ASSUME ClientInv, NEW p \in Procs, NEW v \in 0..Torn, NEW hash \in 0..MaxVer,
         NEW hit \in BOOLEAN, Deliver(p, v, hash, hit),
         pc[p] \in {"body", "send", "writeBody"},
         meta' = meta, body' \in [P -> 0..Torn],
         \A q \in P \ {page[p]} : body'[q] = body[q],
         body' = body \/ (last = <<>> /\ \A r \in Procs : promise[r] = <<>>),
         ~contended => /\ v = hash
                       /\ \A q \in P : meta[q] = body'[q],
         ~contended /\ Kept => v = meta[page[p]] /\ v \in 1..MaxVer,
         promise[p] # <<>> => pc[p] = "body" /\ v = promise[p][page[p]]
  PROVE  ClientInv'
  <1> USE DEF ClientInv, Set
  <1> DEFINE after == IF v = Torn /\ cfg.json THEN "failed"
                      ELSE IF Ends(p, v) THEN "done" ELSE "meta"
  <1>0. /\ pc' = [pc EXCEPT ![p] = after] /\ ~Resting(p)
        /\ page' = [page EXCEPT ![p] = IF Ends(p, v) THEN page[p] ELSE page[p] + 1]
        /\ pages' = [pages EXCEPT ![p] = Append(pages[p], v)]
        /\ tele' = [tele EXCEPT ![p] = Append(tele[p], [hash |-> hash, hit |-> hit])]
        /\ UNCHANGED <<cfg, ver, offline, seen, contended, promise>>
    BY DEF Deliver, Resting
  <1>a. /\ page[p] \in 1..Pages /\ Pages \in Nat /\ pages[p] \in Seq(0..Torn)
        /\ after \in {"failed", "done", "meta"} /\ pc'[p] = after
        /\ pages'[p] = Append(pages[p], v) /\ Torn = MaxVer + 1
        /\ \A r \in Procs : r # p => pc'[r] = pc[r] /\ page'[r] = page[r] /\ pages'[r] = pages[r]
    BY <1>0, PagesAssumption DEF Types, P, Torn
  <1>b. /\ Len(pages'[p]) = Len(pages[p]) + 1 /\ pages'[p][Len(pages[p]) + 1] = v
        /\ \A k \in 1..Len(pages[p]) : pages'[p][k] = pages[p][k]
    BY <1>a
  <1>c. ASSUME ~contended, NEW r \in Procs, r # p
        PROVE  Resting(r) /\ Resting(r)'
    BY <1>0, <1>a, <1>c DEF Alone, Resting
  <1> HIDE DEF after
  \* Without contention the pages are on disk, and so is the new one.
  <1>d. ASSUME ~contended, Kept
        PROVE  Len(pages[p]) = page[p] - 1 /\ OnDisk(pages[p])'
    <2>1. Len(pages[p]) = page[p] - 1 /\ OnDisk(pages[p])
      BY <1>0, <1>d DEF PagesOnDisk
    <2>2. Kept' /\ meta'[page[p]] = v /\ body'[page[p]] = v /\ page[p] \in P /\ v \in 1..MaxVer
      BY <1>0, <1>a, <1>d DEF Kept, P
    <2>3. ASSUME NEW k \in 1..(Len(pages[p]) + 1)
          PROVE  /\ k \in P /\ pages'[p][k] = meta'[k] /\ pages'[p][k] = body'[k]
                 /\ pages'[p][k] \in 1..MaxVer
      <3>1. CASE k = Len(pages[p]) + 1
        BY <1>a, <1>b, <2>1, <2>2, <3>1
      <3>2. CASE k \in 1..Len(pages[p])
        <4>1. k \in P /\ k # page[p] /\ pages'[p][k] = pages[p][k]
          BY <1>a, <1>b, <2>1, <3>2 DEF OnDisk
        <4> QED BY <2>1, <3>2, <4>1 DEF OnDisk
      <3> QED BY <1>a, <3>1, <3>2
    <2> QED BY <1>b, <2>1, <2>2, <2>3 DEF OnDisk
  <1>1. Types'
    <2>1. pc' \in [Procs -> States]
      BY <1>0, <1>a DEF Types, States, Reading
    <2>2. page' \in [Procs -> P]
      <3>1. page[p] # Pages => page[p] + 1 \in P
        BY <1>a DEF P
      <3>2. (IF Ends(p, v) THEN page[p] ELSE page[p] + 1) \in P
        BY <1>a, <3>1 DEF Ends, P
      <3> QED BY <1>0, <3>2 DEF Types
    <2>3. pages' \in [Procs -> Seq(0..Torn)]
      BY <1>0 DEF Types
    <2>4. tele' \in [Procs -> Seq([hash : 0..MaxVer, hit : BOOLEAN])]
      <3> DEFINE Told == [hash : 0..MaxVer, hit : BOOLEAN]
                 row == [hash |-> hash, hit |-> hit]
      <3>1. tele \in [Procs -> Seq(Told)] /\ row \in Told
        BY Zenon DEF Types
      <3>2. tele' = [tele EXCEPT ![p] = Append(tele[p], row)]
        BY <1>0
      <3> HIDE DEF Told, row
      <3>3. tele' \in [Procs -> Seq(Told)]
        BY <3>1, <3>2
      <3> QED BY <3>3 DEF Told
    <2>5. \A q \in Procs : Len(tele'[q]) = Len(pages'[q])
      <3> DEFINE Told == [hash : 0..MaxVer, hit : BOOLEAN]
                 row == [hash |-> hash, hit |-> hit]
      <3>1. tele \in [Procs -> Seq(Told)] /\ row \in Told
        BY Zenon DEF Types
      <3>2. tele' = [tele EXCEPT ![p] = Append(tele[p], row)]
        BY <1>0
      <3> HIDE DEF Told, row
      <3>3. Len(tele'[p]) = Len(tele[p]) + 1 /\ \A q \in Procs : q # p => tele'[q] = tele[q]
        BY <3>1, <3>2
      <3> QED BY <1>a, <1>b, <3>3 DEF Types
    <2>6. last' \in Seq(0..Torn)
      <3>1. pages'[p] \in Seq(0..Torn) /\ last \in Seq(0..Torn)
        BY <2>3 DEF Types
      <3> QED BY <3>1 DEF Deliver
    <2> QED BY <1>0, <2>1, <2>2, <2>3, <2>4, <2>5, <2>6 DEF Types
  <1>2. Alone'
    <2> SUFFICES ASSUME ~contended, NEW q \in Procs, NEW r \in Procs, q # r
                 PROVE  Resting(q)' \/ Resting(r)'
      BY <1>0 DEF Alone
    <2> QED BY <1>c
  <1>3. EntriesWhole'
    <2> SUFFICES ASSUME ~contended, NEW r \in Procs
                 PROVE  /\ \A q \in P : meta'[q] = body'[q]
                        /\ pc'[r] \notin Writing \union {"body"}
      BY <1>0 DEF EntriesWhole
    <2> QED BY <1>a, <1>c DEF Resting, Writing
  <1>4. SeenIsSomething'
    BY <1>0, <1>a DEF SeenIsSomething, Writing
  <1>5. TelemetryIsTrue'
    <2> SUFFICES ASSUME ~contended, NEW q \in Procs, NEW k \in DOMAIN pages'[q]
                 PROVE  tele'[q][k].hash = pages'[q][k]
      BY <1>0 DEF TelemetryIsTrue
    <2>1. CASE q # p
      BY <1>0, <1>a, <2>1 DEF TelemetryIsTrue, Types
    <2>2. CASE q = p
      <3> DEFINE Told == [hash : 0..MaxVer, hit : BOOLEAN]
                 row == [hash |-> hash, hit |-> hit]
      <3>1. tele \in [Procs -> Seq(Told)] /\ row \in Told /\ row.hash = hash
        BY Zenon DEF Types
      <3>2. tele' = [tele EXCEPT ![p] = Append(tele[p], row)]
        BY <1>0
      <3>3. Len(tele[p]) = Len(pages[p])
        BY DEF Types
      <3> HIDE DEF Told, row
      <3>4. /\ tele'[p][Len(pages[p]) + 1] = row
            /\ \A j \in 1..Len(pages[p]) : tele'[p][j] = tele[p][j]
        BY <3>1, <3>2, <3>3
      <3>5. k \in 1..Len(pages[p]) \/ k = Len(pages[p]) + 1
        BY <1>a, <2>2
      <3>6. CASE k = Len(pages[p]) + 1
        BY <1>b, <2>2, <3>1, <3>4, <3>6
      <3>7. CASE k \in 1..Len(pages[p])
        <4>1. k \in DOMAIN pages[p]
          BY <1>a, <3>7
        <4> QED BY <1>b, <2>2, <3>4, <3>7, <4>1 DEF TelemetryIsTrue
      <3> QED BY <3>5, <3>6, <3>7
    <2> QED BY <2>1, <2>2
  <1>6. PagesOnDisk'
    <2> SUFFICES ASSUME ~contended, Kept, NEW q \in Procs, ~Resting(q)'
                 PROVE  Len(pages'[q]) = page'[q] - 1 /\ OnDisk(pages[q])'
      BY <1>0 DEF PagesOnDisk, Kept
    <2>1. q = p /\ after = "meta"
      BY <1>a, <1>c DEF Resting
    <2>2. page'[p] = page[p] + 1
      <3>1. ~Ends(p, v)
        BY <2>1 DEF after
      <3>2. page \in [Procs -> P]
        BY DEF Types
      <3> QED BY <1>0, <3>1, <3>2
    <2>3. Len(pages[p]) + 1 = page'[p] - 1
      BY <1>a, <1>d, <2>2
    <2> QED BY <1>b, <1>d, <2>1, <2>3
  <1>7. LastOnDisk'
    <2>1. CASE last' = last
      <3> SUFFICES ASSUME last # <<>>
                   PROVE  Len(last) = Pages /\ OnDisk(last)' /\ \A q \in Procs : pc'[q] \notin Writing
        BY <2>1 DEF LastOnDisk, OnDisk
      <3>1. OnDisk(last)'
        BY <1>0, <2>1 DEF LastOnDisk, OnDisk, Kept
      <3> QED BY <1>a, <3>1 DEF LastOnDisk, Writing
    <2>2. CASE last' # last
      <3>1. /\ last' = pages'[p] /\ ~contended /\ Kept /\ page[p] = Pages
        BY <2>2 DEF Deliver, Ends
      <3>2. OnDisk(last)' /\ Len(last') = Pages
        BY <1>a, <1>b, <1>d, <3>1 DEF OnDisk
      <3>3. \A q \in Procs : pc'[q] \notin Writing
        BY <1>a, <1>c, <3>1 DEF Resting, Writing
      <3> QED BY <3>2, <3>3 DEF LastOnDisk
    <2> QED BY <2>1, <2>2
  <1>8. PromiseOnDisk'
    <2> SUFFICES ASSUME NEW q \in Procs, promise[q] # <<>>
                 PROVE  /\ Len(promise[q]) = Pages /\ OnDisk(promise[q])'
                        /\ \A r \in Procs : pc'[r] \notin Asking \union Writing
                        /\ pc'[q] # "failed"
                        /\ pc'[q] \in Reading =>
                             /\ Len(pages'[q]) = page'[q] - 1
                             /\ \A k \in 1..Len(pages'[q]) : pages'[q][k] = promise[q][k]
                        /\ pc'[q] = "done" => pages'[q] = promise[q]
      BY <1>0 DEF PromiseOnDisk
    <2>0. Len(promise[q]) = Pages /\ OnDisk(promise[q]) /\ promise[q] \in Seq(0..Torn)
      BY DEF PromiseOnDisk, Types
    <2>1. OnDisk(promise[q])'
      BY <1>0, <2>0 DEF OnDisk, Kept
    <2>2. \A r \in Procs : pc'[r] \notin Asking \union Writing
      BY <1>a DEF PromiseOnDisk, Asking, Writing
    <2>3. CASE q # p
      <3>1. pc'[q] = pc[q] /\ page'[q] = page[q] /\ pages'[q] = pages[q]
        BY <1>a, <2>3
      <3> QED BY <2>0, <2>1, <2>2, <3>1 DEF PromiseOnDisk
    <2>4. CASE q = p
      <3>1. pc[p] = "body" /\ v = promise[p][page[p]]
        BY <2>4
      <3>2. v \in 1..MaxVer
        BY <1>a, <2>0, <2>4, <3>1 DEF OnDisk
      <3>3. v # Torn
        BY <1>a, <3>2, PagesAssumption
      <3>4. after = IF page[p] = Pages THEN "done" ELSE "meta"
        BY <3>3 DEF after, Ends
      <3>5. /\ Len(pages[p]) = page[p] - 1
            /\ \A k \in 1..Len(pages[p]) : pages[p][k] = promise[p][k]
        BY <2>4, <3>1 DEF PromiseOnDisk, Reading
      <3>6. Len(pages'[p]) = page[p] /\ \A k \in 1..page[p] : pages'[p][k] = promise[p][k]
        BY <1>a, <1>b, <3>1, <3>5
      <3>7. ASSUME pc'[p] \in Reading
            PROVE  Len(pages'[p]) = page'[p] - 1
        <4>1. page[p] # Pages
          BY <1>a, <3>4, <3>7 DEF Reading
        <4>2. page'[p] = page[p] + 1
          BY <1>0, <3>3, <4>1 DEF Ends, Types
        <4> QED BY <1>a, <3>6, <4>2
      <3>8. ASSUME pc'[p] = "done"
            PROVE  pages'[p] = promise[p]
        <4>1. page[p] = Pages
          BY <1>a, <3>4, <3>8
        <4>2. Append(pages[p], v) \in Seq(0..Torn)
          BY <1>a
        <4> QED BY <1>a, <2>0, <2>4, <3>6, <4>1, <4>2
      <3>9. pc'[p] # "failed"
        BY <1>a, <3>4
      <3> QED BY <2>0, <2>1, <2>2, <2>4, <3>6, <3>7, <3>8, <3>9
    <2> QED BY <2>3, <2>4
  <1> QED BY <1>1, <1>2, <1>3, <1>4, <1>5, <1>6, <1>7, <1>8

LEMMA HitStep == ASSUME ClientInv, NEW p \in Procs, Hit(p) PROVE ClientInv'
  <1> USE DEF ClientInv
  <1>1. /\ pc[p] = "body" /\ Deliver(p, body[page[p]], seen[p], TRUE) /\ meta' = meta
        /\ body' = body /\ page[p] \in P /\ ~Resting(p)
    BY DEF Hit, files, Types, Resting
  <1>2. body[page[p]] \in 0..Torn /\ seen[p] \in 0..MaxVer /\ body \in [P -> 0..Torn]
    BY <1>1 DEF Types
  <1>3. ASSUME ~contended
        PROVE  seen[p] = body[page[p]] /\ \A q \in P : meta[q] = body[q]
    <2>1. \A r \in Procs : pc[r] \notin Writing
      BY <1>1, <1>3 DEF Alone, Resting, Writing
    <2>2. \A q \in P : meta[q] = body[q]
      BY <1>3, <2>1 DEF EntriesWhole
    <2> QED BY <1>1, <1>3, <2>2 DEF EntriesWhole
  <1>4. seen[p] # None
    BY <1>1 DEF SeenIsSomething
  <1>5. ~contended => body[page[p]] = meta[page[p]] /\ body[page[p]] \in 1..MaxVer
    BY <1>1, <1>2, <1>3, <1>4, PagesAssumption DEF None
  <1>6. promise[p] # <<>> => body[page[p]] = promise[p][page[p]]
    BY <1>1 DEF PromiseOnDisk, OnDisk, P
  <1> QED BY <1>1, <1>2, <1>3, <1>5, <1>6, DeliverStep

\* A read-only client hands on what it receives.
LEMMA RespondReadOnlyStep ==
  ASSUME ClientInv, NEW p \in Procs, Respond(p), cfg.mode = "ro"
  PROVE  ClientInv'
  <1> USE DEF ClientInv
  <1>1. /\ pc[p] = "send" /\ Deliver(p, ver, ver, FALSE) /\ meta' = meta /\ body' = body
        /\ ~Resting(p) /\ ~Kept
    BY DEF Respond, files, Resting, Kept
  <1>2. ver \in 0..Torn /\ ver \in 0..MaxVer /\ body \in [P -> 0..Torn]
    BY PagesAssumption DEF Types, Torn
  <1>3. ASSUME ~contended
        PROVE  \A q \in P : meta[q] = body[q]
    <2>1. \A r \in Procs : pc[r] \notin Writing
      BY <1>1, <1>3 DEF Alone, Resting, Writing
    <2> QED BY <1>3, <2>1 DEF EntriesWhole
  <1>4. promise[p] = <<>>
    BY <1>1, NobodyAsks DEF Asking
  <1> QED BY <1>1, <1>2, <1>3, <1>4, DeliverStep

LEMMA WriteBodyStep == ASSUME ClientInv, NEW p \in Procs, WriteBody(p) PROVE ClientInv'
  <1> USE DEF ClientInv
  <1>1. /\ pc[p] = "writeBody" /\ Deliver(p, seen[p], seen[p], FALSE) /\ meta' = meta
        /\ body' = [body EXCEPT ![page[p]] = seen[p]] /\ page[p] \in P /\ ~Resting(p)
    BY DEF WriteBody, Set, Types, Resting
  <1>2. /\ seen[p] \in 0..Torn /\ seen[p] \in 0..MaxVer /\ body' \in [P -> 0..Torn]
        /\ body'[page[p]] = seen[p] /\ \A q \in P \ {page[p]} : body'[q] = body[q]
    BY <1>1, PagesAssumption DEF Types, Torn
  <1>3. seen[p] \in 1..MaxVer
    BY <1>1, <1>2, PagesAssumption DEF SeenIsSomething, Writing, None
  <1>4. ASSUME ~contended
        PROVE  seen[p] = meta[page[p]] /\ \A q \in P : meta[q] = body'[q]
    <2>1. \A r \in Procs : r # p => pc[r] \notin Writing
      BY <1>1, <1>4 DEF Alone, Resting, Writing
    <2>2. seen[p] = meta[page[p]]
      BY <1>1, <1>4 DEF EntriesWhole, Writing
    <2>3. ASSUME NEW q \in P, q # page[p]
          PROVE  meta[q] = body[q]
      BY <1>4, <2>1, <2>3 DEF EntriesWhole
    <2> QED BY <1>2, <2>2, <2>3
  <1>5. last = <<>> /\ \A r \in Procs : promise[r] = <<>>
    BY <1>1, NobodyAsks DEF LastOnDisk, Writing
  <1> QED BY <1>1, <1>2, <1>3, <1>4, <1>5, DeliverStep

\* Every step of the client and of the world keeps the cache's part of the invariant.
LEMMA ClientStep == ASSUME ClientInv, [Next]_vars PROVE ClientInv'
  <1>1. ver \in 1..MaxVer
    BY DEF ClientInv, Types
  <1>2. ASSUME NEW p \in Procs, Client(p)
        PROVE  ClientInv'
    BY <1>2, ReadMetaStep, LeavingStep, HitStep, RespondStep, RespondReadOnlyStep,
       WriteMetaStep, TruncateStep, WriteBodyStep DEF Client
  <1>3. CASE Publish
    <2>1. ver' \in 1..MaxVer
      BY <1>1, <1>3, PagesAssumption DEF Publish
    <2> QED BY <1>3, <2>1, Idles DEF Publish, files
  <1>4. CASE Tick
    BY <1>1, <1>4, Idles DEF Tick
  <1>5. CASE Reconfigure
    BY <1>1, <1>5, Idles DEF Reconfigure, files
  <1>6. CASE UNCHANGED vars
    BY <1>1, <1>6, Idles DEF vars, files
  <1> QED BY <1>2, <1>3, <1>4, <1>5, <1>6, CallStep, ThrottleStep, LeavingStep DEF Next

LEMMA ClientInit == Init => ClientInv
  <1> SUFFICES ASSUME Init PROVE ClientInv
    OBVIOUS
  <1> USE DEF Init, Everyone
  <1>1. Types
    <2>1. /\ ver \in 1..MaxVer /\ meta \in [P -> 0..MaxVer] /\ body \in [P -> 0..Torn]
          /\ page \in [Procs -> P] /\ seen \in [Procs -> 0..MaxVer]
      BY PagesAssumption DEF P, Torn, None
    <2>2. pc \in [Procs -> States] /\ offline \in [Procs -> BOOLEAN] /\ contended \in BOOLEAN
      BY DEF States
    <2>3. /\ pages \in [Procs -> Seq(0..Torn)] /\ promise \in [Procs -> Seq(0..Torn)]
          /\ last \in Seq(0..Torn)
      <3> DEFINE Body == 0..Torn
      <3> HIDE DEF Body
      <3>1. pages \in [Procs -> Seq(Body)] /\ promise \in [Procs -> Seq(Body)] /\ last \in Seq(Body)
        OBVIOUS
      <3> QED BY <3>1 DEF Body
    <2>4. tele \in [Procs -> Seq([hash : 0..MaxVer, hit : BOOLEAN])]
      <3> DEFINE Told == [hash : 0..MaxVer, hit : BOOLEAN]
      <3> HIDE DEF Told
      <3>1. tele \in [Procs -> Seq(Told)]
        OBVIOUS
      <3> QED BY <3>1 DEF Told
    <2> QED BY <2>1, <2>2, <2>3, <2>4 DEF Types
  <1>2. Alone /\ SeenIsSomething /\ TelemetryIsTrue /\ LastOnDisk /\ PromiseOnDisk
    BY DEF Alone, SeenIsSomething, TelemetryIsTrue, LastOnDisk, PromiseOnDisk, Resting, Writing
  <1>3. EntriesWhole /\ PagesOnDisk
    BY DEF EntriesWhole, PagesOnDisk, Resting, Writing
  <1> QED BY <1>1, <1>2, <1>3 DEF ClientInv

\* What is true of the cache and of every call (api/http.py).
THEOREM ClientInvariant == Spec => []ClientInv
  <1>1. ClientInv /\ [Next]_vars => ClientInv'
    BY ClientStep
  <1> QED BY <1>1, ClientInit, PTL DEF Spec

\* The variables keep their types.
THEOREM TypesAreKept == Spec => []HttpTypeOK
  <1>1. ClientInv /\ BucketTypes => HttpTypeOK
    BY DEF ClientInv, Types, BucketTypes, HttpTypeOK
  <1> QED BY <1>1, ClientInvariant, BucketInvariant, PTL

\* The telemetry of a model (api/context.py, record) names the bodies it was given,
\* as long as no two calls overlapped and none died between the files of an entry.
THEOREM TelemetryIsKept == Spec => []TelemetryIsTrue
  <1>1. ClientInv => TelemetryIsTrue
    BY DEF ClientInv
  <1> QED BY <1>1, ClientInvariant, PTL

\* What a complete online call left in a cache that is written and never expires,
\* an offline call made before anybody writes again gives back, and does not fail.
THEOREM OfflineIsKept == Spec => []OfflineReplays
  <1>1. ClientInv => OfflineReplays
    BY DEF ClientInv, PromiseOnDisk, OfflineReplays
  <1> QED BY <1>1, ClientInvariant, PTL
=============================================================================
