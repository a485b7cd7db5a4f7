----------------------------- MODULE BuildCache -----------------------------
(***************************************************************************)
(* The build cache of `fft run`: cache.py, fingerprint.py and the parts of *)
(* _RunEngine (cli/run.py) that decide whether a model is skipped.         *)
(*                                                                         *)
(* A relation's content is symbolic: the code version it was built from    *)
(* and the contents of the relations it read.  A fingerprint is symbolic   *)
(* in the same way (SHA-256 taken as injective): the code version, which   *)
(* stands for rendered SQL, function source, environment and sources.yml,  *)
(* and the fingerprints of the dependencies.  Both have the form           *)
(* [ver, deps], so "the cache tells what the relation holds" is equality.  *)
(* Nodes are materialised as tables.                                       *)
(***************************************************************************)
EXTENDS Naturals, FiniteSets

CONSTANTS Nodes,      \* the registered models, numbered as topo_sort orders them
          Deps,       \* Deps[n]: the models n refers to
          Versions    \* versions of a model's code

ASSUME NodesAssumption ==
         /\ Nodes \subseteq Nat
         /\ Deps \in [Nodes -> SUBSET Nodes]
         /\ \A n \in Nodes : \A d \in Deps[n] : d < n
         /\ 0 \notin Versions

\* No relation, no cache entry, no fingerprint ("" or None).
Absent == [ver |-> 0, deps |-> <<>>]

Modes  == {"off", "rw", "ro", "wo"}
Reads  == {"rw", "ro"}     \* modes that may skip
Writes == {"rw", "wo"}     \* modes that persist

VARIABLES src,       \* current code version of each model
          rel,       \* content of the relation of each model in the engine
          disk,      \* entries of the cache file
          phase,     \* "idle" or "running"
          mode,      \* cache mode of the run
          layered,   \* the plan is in levels (else: explicit targets in one level)
          plan,      \* the models the run executes
          forced,    \* force_rebuild
          entries,   \* FingerprintCache.entries, loaded when the run began
          computed,  \* computed_fps
          cand,      \* cand_fp of run_node, between the check and the end of a build
          st,        \* progress of each node in the run
          trusted,   \* auxiliary: no run has detached the cache from the relations
          sound      \* auxiliary: trusted when the present run began

store == <<src, rel, disk>>
setup == <<mode, layered, plan, forced, entries, sound>>
cvars == <<store, phase, setup, computed, cand, st, trusted>>

Nothing == [n \in Nodes |-> Absent]

\* No run: the engine object of the last one is gone.
NoRun ==
  /\ phase = "idle" /\ mode = "rw" /\ layered = TRUE /\ sound = TRUE
  /\ plan = {} /\ forced = {} /\ entries = Nothing
  /\ computed = Nothing /\ cand = Nothing
  /\ st = [n \in Nodes |-> "waiting"]

CacheInit ==
  /\ src \in [Nodes -> Versions]
  /\ rel = Nothing /\ disk = Nothing
  /\ trusted = TRUE
  /\ NoRun

ForgetRun ==
  /\ phase' = "idle" /\ mode' = "rw" /\ layered' = TRUE /\ sound' = TRUE
  /\ plan' = {} /\ forced' = {} /\ entries' = Nothing
  /\ computed' = Nothing /\ cand' = Nothing
  /\ st' = [n \in Nodes |-> "waiting"]

-----------------------------------------------------------------------------
(* Between runs: the project and the engine change. *)

Edit(n, v) ==
  /\ phase = "idle" /\ v # src[n]
  /\ src' = [src EXCEPT ![n] = v]
  /\ UNCHANGED <<rel, disk, phase, setup, computed, cand, st, trusted>>

Drop(n) ==
  /\ phase = "idle" /\ rel[n] # Absent
  /\ rel' = [rel EXCEPT ![n] = Absent]
  /\ UNCHANGED <<src, disk, phase, setup, computed, cand, st, trusted>>

\* A missing or corrupt file is an empty cache.
LoseCache ==
  /\ phase = "idle"
  /\ disk' = Nothing
  /\ trusted' = TRUE
  /\ UNCHANGED <<src, rel, phase, setup, computed, cand, st>>

-----------------------------------------------------------------------------
Closed(p) == \A n \in p : Deps[n] \subseteq p

\* A run: levels of an upstream-closed selection, all of it forced with
\* --rebuild, or the explicit targets of --rebuild-only, forced, in one level.
StartRun(m, p, lay, f) ==
  /\ phase = "idle" /\ p # {}
  /\ lay => Closed(p)
  /\ f = p \/ (lay /\ f = {})
  /\ phase' = "running" /\ mode' = m /\ plan' = p /\ layered' = lay /\ forced' = f
  /\ entries' = disk
  /\ computed' = Nothing /\ cand' = Nothing
  /\ st' = [n \in Nodes |-> "waiting"]
  /\ sound' = trusted
  /\ UNCHANGED <<store, trusted>>

\* The scheduler starts a node once the earlier levels have succeeded.
Ready(n) ==
  /\ phase = "running" /\ n \in plan /\ st[n] = "waiting"
  /\ layered => \A d \in Deps[n] : st[d] \in {"skipped", "done"}

\* computed_fps.get(d) or cache.get(d) or ""
DepFingerprint(d) == IF computed[d] # Absent THEN computed[d] ELSE entries[d]

\* Altered Fingerprint: the fingerprints upstream are left out.
FingerprintOwn(n) == [ver |-> src[n], deps |-> [d \in Deps[n] |-> Absent]]

Fingerprint(n) == [ver |-> src[n], deps |-> [d \in Deps[n] |-> DepFingerprint(d)]]

\* What a build of n would make of the relations as they are now.
Built(n) == [ver |-> src[n], deps |-> [d \in Deps[n] |-> rel[d]]]

CanSkip(n) ==
  /\ n \notin forced /\ mode \in Reads
  /\ entries[n] = Fingerprint(n)
  /\ rel[n] # Absent

Skip(n) ==
  /\ Ready(n) /\ CanSkip(n)
  /\ computed' = [computed EXCEPT ![n] = Fingerprint(n)]
  /\ st' = [st EXCEPT ![n] = "skipped"]
  /\ UNCHANGED <<store, phase, setup, cand, trusted>>

\* The fingerprint is taken before the build, the relation is replaced.  A
\* forced node takes no fingerprint yet.
Build(n) ==
  /\ Ready(n) /\ ~CanSkip(n)
  /\ \A d \in Deps[n] : rel[d] # Absent
  /\ cand' = [cand EXCEPT ![n] = IF n \in forced THEN Absent ELSE Fingerprint(n)]
  /\ rel' = [rel EXCEPT ![n] = Built(n)]
  /\ st' = [st EXCEPT ![n] = "built"]
  /\ UNCHANGED <<src, disk, phase, setup, computed, trusted>>

\* Hooks after the model have run; the fingerprint is stored.  A forced node
\* takes it only here.
Finalize(n) ==
  /\ phase = "running" /\ st[n] = "built"
  /\ computed' = [computed EXCEPT ![n] = IF n \in forced THEN Fingerprint(n) ELSE cand[n]]
  /\ st' = [st EXCEPT ![n] = "done"]
  /\ UNCHANGED <<store, phase, setup, cand, trusted>>

\* The build raises: the relation is as before.
FailBuild(n) ==
  /\ Ready(n) /\ ~CanSkip(n)
  /\ st' = [st EXCEPT ![n] = "failed"]
  /\ UNCHANGED <<store, phase, setup, computed, cand, trusted>>

\* A hook after the model raises: the relation has been replaced.
FailHook(n) ==
  /\ phase = "running" /\ st[n] = "built"
  /\ st' = [st EXCEPT ![n] = "replaced"]
  /\ UNCHANGED <<store, phase, setup, computed, cand, trusted>>

-----------------------------------------------------------------------------
Failed   == {n \in plan : st[n] \in {"failed", "replaced"}}
Rebuilt  == {n \in plan : st[n] \in {"built", "replaced", "done"}}

\* An explicit target reads relations whose fingerprints the run does not
\* settle before it: those of other targets, and those without an entry.
Unsettled == ~layered /\ \E n \in plan : \E d \in Deps[n] : d \in plan \/ entries[d] = Absent

\* update_many: entries of models outside the plan stay.
Update == [n \in Nodes |-> IF computed[n] # Absent THEN computed[n] ELSE entries[n]]

\* Altered Persist: a read-only run writes too.
PersistAlways ==
  /\ phase = "running"
  /\ \A n \in plan : st[n] \in {"skipped", "done"}
  /\ ForgetRun
  /\ disk' = Update
  /\ trusted' = (trusted /\ ~Unsettled /\ (mode \in Writes \/ Rebuilt = {}))
  /\ UNCHANGED <<src, rel>>

\* Altered Persist: what has been computed is written even though a node failed.
PersistPartial ==
  /\ phase = "running"
  /\ \A n \in plan : st[n] \in {"skipped", "done", "failed", "replaced"}
  /\ ForgetRun
  /\ disk' = IF mode \in Writes THEN Update ELSE disk
  /\ trusted' = (trusted /\ ~Unsettled /\ (mode \in Writes \/ Rebuilt = {}))
  /\ UNCHANGED <<src, rel>>

\* persist_on_success, reached when nothing failed.
Persist ==
  /\ phase = "running"
  /\ \A n \in plan : st[n] \in {"skipped", "done"}
  /\ ForgetRun
  /\ disk' = IF mode \in Writes THEN Update ELSE disk
  /\ trusted' = (trusted /\ ~Unsettled /\ (mode \in Writes \/ Rebuilt = {}))
  /\ UNCHANGED <<src, rel>>

\* A failed node, a budget that is exceeded, a hook at the end of the run that
\* raises, or the death of the process: run() leaves without persisting.
Abandon ==
  /\ phase = "running"
  /\ ForgetRun
  /\ trusted' = (trusted /\ Rebuilt = {})
  /\ UNCHANGED store

CacheNext ==
  \/ \E n \in Nodes : \/ \E v \in Versions : Edit(n, v)
                      \/ Drop(n)
                      \/ Skip(n) \/ Build(n) \/ Finalize(n) \/ FailBuild(n) \/ FailHook(n)
  \/ LoseCache
  \/ \E m \in Modes, p \in SUBSET Nodes, lay \in BOOLEAN :
       \E f \in {{}, p} : StartRun(m, p, lay, f)
  \/ Persist \/ Abandon

CacheSpec == CacheInit /\ [][CacheNext]_cvars

-----------------------------------------------------------------------------
(* state:modified: FingerprintCache.compute_current and modified_set. *)

\* The digest is taken over the joined parts, a different preimage from the JSON
\* payload that fingerprint_sql and fingerprint_py hash.
Current[n \in Nodes] ==
  [ver |-> src[n], deps |-> [d \in Deps[n] |-> Current[d]], form |-> "joined"]

ModifiedSet == {n \in Nodes : Current[n] # disk[n]}

-----------------------------------------------------------------------------
(* Properties *)

Steps == {"waiting", "skipped", "built", "done", "failed", "replaced"}

IsTable(f) == f = [n \in Nodes |-> f[n]]

\* Types: the tables of the engine, the cache and the run have an entry for every model.
TypeOK ==
  /\ src \in [Nodes -> Versions]
  /\ IsTable(rel) /\ IsTable(disk) /\ IsTable(entries) /\ IsTable(computed) /\ IsTable(cand)
  /\ st \in [Nodes -> Steps]
  /\ phase \in {"idle", "running"} /\ mode \in Modes
  /\ plan \subseteq Nodes /\ (forced = plan \/ forced = {})
  /\ layered \in BOOLEAN /\ trusted \in BOOLEAN /\ sound \in BOOLEAN

Agrees(n) == disk[n] = Absent \/ rel[n] = Absent \/ rel[n] = disk[n]

\* What a run keeps about its plan.
RunShape ==
  /\ \A n \in Nodes : st[n] # "waiting" => n \in plan
  /\ \A n \in Nodes : computed[n] # Absent => st[n] \in {"skipped", "done"}
  /\ phase = "running" =>
       /\ sound = trusted /\ entries = disk /\ plan # {}
       /\ layered => Closed(plan)
       /\ ~layered => forced = plan

\* A node is built after those it reads in the plan have settled (Unsettled is
\* the run where it is not).
RunOrder ==
  phase = "running" /\ ~Unsettled =>
    \A n \in plan : st[n] \notin {"waiting", "failed"} =>
      \A d \in Deps[n] : d \in plan => st[d] \in {"skipped", "done"}

\* A trusted run: nodes it has not rebuilt agree with the cache, nodes it has
\* rebuilt will be persisted with the fingerprint of what they hold.
RunTrust ==
  phase = "running" /\ sound =>
    /\ \A n \in Nodes : st[n] \in {"waiting", "skipped", "failed"} => Agrees(n)
    /\ ~Unsettled =>
         \A n \in plan :
           /\ st[n] \in {"skipped", "done"} => computed[n] = rel[n] /\ rel[n] # Absent
           /\ st[n] = "built" =>
                /\ rel[n] = Built(n) /\ rel[n] # Absent
                /\ Fingerprint(n) = rel[n]
                /\ n \notin forced => cand[n] = rel[n]

\* While every run has either finished and persisted or built nothing, and no
\* explicit target read what its run had not settled, an entry of the cache file
\* describes the very content of the relation (persist_on_success).
CacheTellsRelation == phase = "idle" /\ trusted => \A n \in Nodes : Agrees(n)

\* The inductive invariant behind CacheTellsRelation and TrustedSkipIsFresh.
IInv == TypeOK /\ RunShape /\ RunOrder /\ RunTrust /\ CacheTellsRelation

\* can_skip_node compares with the last fingerprint persisted, so a skipped
\* relation is what a build of the present code over the present upstream
\* relations would make.  Fails: a failed, abandoned, `off` or `ro` run replaces
\* relations and leaves the entries of the earlier code.
SkipIsFresh ==
  [][\A n \in Nodes : st[n] = "waiting" /\ st'[n] = "skipped" => rel[n] = Built(n)]_cvars

\* The same for the histories CacheTellsRelation speaks of: here a skip is exact,
\* whatever was edited, dropped or lost before the run.
TrustedSkipIsFresh ==
  [][\A n \in Nodes : sound /\ st[n] = "waiting" /\ st'[n] = "skipped" => rel[n] = Built(n)]_cvars

\* What a build of the whole project from nothing would put into each relation,
\* and the fingerprint it would have.
Scratch[n \in Nodes] == [ver |-> src[n], deps |-> [d \in Deps[n] |-> Scratch[d]]]

Succeeded == phase = "running" /\ \A n \in plan : st[n] \in {"skipped", "done"}

\* The cache file changes only at the end of a run without a failure in a mode
\* that writes, and then only for the models that run has settled (or it is lost).
OnlySuccessPersists ==
  [][phase = "running" /\ disk' # disk =>
       Succeeded /\ mode \in Writes
       /\ \A n \in Nodes : disk'[n] # disk[n] => n \in plan]_cvars

\* state:modified selects models that differ from what the cache holds.  Fails:
\* the digest of compute_current never equals a saved one.
ModifiedMeansChanged ==
  phase = "idle" => \A n \in ModifiedSet : disk[n] # Scratch[n]

=============================================================================
