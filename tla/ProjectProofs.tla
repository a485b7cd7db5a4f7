--------------------------- MODULE ProjectProofs ---------------------------
(***************************************************************************)
(* Theorems about Project, for every layout and any number of commits and  *)
(* invocations: what the clone and the lock file say of the packages that  *)
(* run, which definition a name stands for, where the unit tests run and   *)
(* where seeds go.  Each part of the invariant says what one stage of an   *)
(* invocation has established; nothing later in it takes that back.        *)
(***************************************************************************)
EXTENDS Project, FiniteSetTheorems, TLAPS

BeforeFiles == {"context", "source", "checkout", "manifest", "lock", "macros", "files"}
Loading == {"discover", "validate", "settings", "ready"}

Clones == [there : BOOLEAN, main : 0..MaxCommit, origin : 0..MaxCommit, tag : 0..MaxCommit,
           head : 0..MaxCommit, have : 0..MaxCommit]
Shaped ==
  /\ DOMAIN up = {"main", "tag"} /\ DOMAIN lock = {"rev", "version", "failed"}
  /\ DOMAIN reg = {"nodes", "macros", "sources", "step"}
  /\ DOMAIN ctx = {"prof", "store", "limit", "enforce"}
  /\ DOMAIN db = {"loaded", "dropped", "of"}
  /\ want.sel \in {"rev", "tag", "ref", "branch", "none"}
  /\ want.sel = "rev" => want.at \in Nat \ {0}

-----------------------------------------------------------------------------
(* Types.                                                                    *)

LEMMA Layouts ==
  ASSUME NEW s \in DOMAIN Scenarios
  PROVE  /\ Scenarios[s].starts \in Nat /\ Len(Scenarios[s].seeds) \in Nat
         /\ DOMAIN Scenarios[s].seeds = 1..Len(Scenarios[s].seeds)
         /\ \A p \in Scenarios[s].specs : p.at \in Nat \ {0} /\ p.sel \in {"rev", "tag", "ref", "branch", "none"}
         /\ \A x \in Scenarios[s].files : x.py \in BOOLEAN /\ \E i \in 1..3 : x.owner = Owners[i]
         /\ \A m, o \in Scenarios[s].macros :
              (\E i \in 1..3 : m.owner = Owners[i]) /\ (m.owner = o.owner => m = o)
BY ScenariosAssumption

LEMMA InitTypes == Init => TypeOK /\ Shaped
<1> SUFFICES ASSUME Init PROVE TypeOK /\ Shaped OBVIOUS
<1>1. sc \in DOMAIN Scenarios BY DEF Init
<1>2. S.starts \in Nat /\ Len(S.seeds) \in Nat BY <1>1, Layouts DEF S
<1> QED BY <1>1, <1>2, MaxCommitAssumption
        DEF Init, TypeOK, Shaped, NoRepo, FreshRegistry, NoCommand, NoContext, S

\* What is checked out is a reference of the clone.
LEMMA CheckedOutType ==
  ASSUME TypeOK, Shaped
  PROVE  CheckedOut \in Clones
<1> USE MaxCommitAssumption DEF TypeOK, Shaped, Clones
<1>1. CASE want.sel = "rev"
  <2> DEFINE head == IF want.at <= repo.have THEN want.at ELSE 0
  <2>1. head \in 0..MaxCommit BY <1>1
  <2>2. CheckedOut = [repo EXCEPT !.head = head] BY <1>1 DEF CheckedOut
  <2> HIDE DEF head
  <2> QED BY <2>1, <2>2
<1>2. CASE want.sel = "ref" BY <1>2 DEF CheckedOut
<1>3. CASE want.sel \in {"tag", "branch", "none"} BY <1>3 DEF CheckedOut
<1> QED BY <1>1, <1>2, <1>3

LEMMA FetchedType ==
  ASSUME NEW r \in Clones, NEW main \in 1..MaxCommit, NEW tag \in 1..main
  PROVE  [r EXCEPT !.origin = main, !.have = IF main > @ THEN main ELSE @,
                   !.tag = IF @ = 0 THEN tag ELSE @] \in Clones
<1> USE MaxCommitAssumption
<1> DEFINE have == IF main > r.have THEN main ELSE r.have
           t == IF r.tag = 0 THEN tag ELSE r.tag
           r1 == [r EXCEPT !.origin = main]
           r2 == [r1 EXCEPT !.have = have]
<1>1. have \in 0..MaxCommit /\ t \in 0..MaxCommit /\ main \in 0..MaxCommit BY DEF Clones
<1>2. r1 \in Clones /\ r1.have = r.have /\ r1.tag = r.tag BY <1>1 DEF Clones
<1> HIDE DEF have, t
<1>3. r2 \in Clones /\ r2.tag = r.tag
  <2> HIDE DEF r1
  <2> QED BY <1>1, <1>2 DEF Clones
<1>4. [r2 EXCEPT !.tag = t] \in Clones
  <2> HIDE DEF r2
  <2> QED BY <1>1, <1>3 DEF Clones
<1> USE DEF have, t
<1> QED BY <1>2, <1>3, <1>4

LEMMA TypesStay == TypeOK /\ Shaped /\ [Next]_vars => (TypeOK /\ Shaped)'
<1> SUFFICES ASSUME TypeOK, Shaped, [Next]_vars PROVE (TypeOK /\ Shaped)' OBVIOUS
<1>0. /\ S.starts \in Nat /\ Len(S.seeds) \in Nat
      /\ \A p \in S.specs : p.at \in Nat \ {0} /\ p.sel \in {"rev", "tag", "ref", "branch", "none"}
  BY Layouts DEF TypeOK, S
<1> USE MaxCommitAssumption DEF TypeOK, Shaped, Clones, S, git, out, Go, Fail
<1>1. CASE Push BY <1>1 DEF Push
<1>2. CASE MoveTag BY <1>2 DEF MoveTag
<1>3. CASE Edit BY <1>3 DEF Edit
<1>4. ASSUME NEW cmd \in S.cmds, Start(cmd) PROVE (TypeOK /\ Shaped)'
  BY <1>0, <1>4 DEF Start, FreshRegistry, NoContext
<1>5. CASE PrepareContext BY <1>5 DEF PrepareContext
<1>6. CASE Resolve
  <2>1. CASE Clone BY <2>1 DEF Clone
  <2>2. CASE CloneFails BY <2>2 DEF CloneFails
  <2>3. CASE DiesCloning
    <3>1. repo' = [there |-> TRUE, main |-> 0, origin |-> 0, tag |-> 0, head |-> 0, have |-> 0]
      BY <2>3 DEF DiesCloning, NoRepo
    <3>2. repo' \in Clones
      BY <3>1
    <3>3. pc' = "dead" /\ UNCHANGED <<sc, git, lock, starts, want, fetched, reg, out>>
      BY <2>3 DEF DiesCloning
    <3> QED BY <3>2, <3>3
  <2>4. CASE Fetch
    <3>1. repo' \in Clones
      <4> HIDE DEF Clones
      <4> DEFINE r == [repo EXCEPT !.origin = up.main, !.have = IF up.main > @ THEN up.main ELSE @,
                                   !.tag = IF @ = 0 THEN up.tag ELSE @]
      <4>1. repo' = r \/ repo' = repo BY <2>4 DEF Fetch
      <4>2. repo \in Clones BY DEF Clones
      <4>3. r \in Clones BY <4>2, FetchedType
      <4> QED BY <4>1, <4>2, <4>3
    <3>2. fetched' \in 0..MaxCommit BY <2>4 DEF Fetch
    <3>3. pc' = "checkout" /\ UNCHANGED <<sc, git, lock, starts, want, reg, out>>
      BY <2>4 DEF Fetch
    <3> QED BY <3>1, <3>2, <3>3
  <2>5. CASE Checkout BY <2>5, CheckedOutType DEF Checkout
  <2>6. CASE ReadManifests BY <2>6 DEF ReadManifests
  <2>7. CASE WriteLock BY <2>7 DEF WriteLock, Locked
  <2> QED BY <1>6, <2>1, <2>2, <2>3, <2>4, <2>5, <2>6, <2>7 DEF Resolve
<1>7. CASE Load
  <2>1. CASE LoadMacros BY <2>1 DEF LoadMacros
  <2>2. CASE LoadFiles BY <2>2 DEF LoadFiles
  <2>3. CASE Discover BY <2>3 DEF Discover
  <2>4. CASE ValidateDependencies BY <2>4 DEF ValidateDependencies
  <2>5. CASE ReadSettings BY <2>5 DEF ReadSettings
  <2> QED BY <1>7, <2>1, <2>2, <2>3, <2>4, <2>5 DEF Load
<1>8. CASE SeedFails BY <1>8 DEF SeedFails
<1>9. CASE DropSeedTable BY <1>9 DEF DropSeedTable
<1>10. CASE LoadSeed BY <1>0, <1>10 DEF LoadSeed, Seeding
<1>11. CASE SeedingEnds BY <1>11 DEF SeedingEnds
<1>12. CASE Dies BY <1>12 DEF Dies
<1>13. CASE UNCHANGED vars BY <1>13 DEF vars
<1> QED BY <1>1, <1>2, <1>3, <1>4, <1>5, <1>6, <1>7, <1>8, <1>9, <1>10, <1>11, <1>12, <1>13 DEF Next

\* Every variable has its type in every layout (TypeOK).
THEOREM Types == Spec => [](TypeOK /\ Shaped)
BY InitTypes, TypesStay, PTL DEF Spec

-----------------------------------------------------------------------------
(* Packages: the clone and the lock.                                         *)

\* What the process has fetched is what origin's branch points to.
OriginIsFetched ==
  /\ pc \in {"context", "source"} => fetched = 0
  /\ pc = "checkout" /\ fetched > 0 => repo.origin = fetched

AtSelector ==
  pc \in {"manifest", "lock"} \/ Resolved =>
    /\ repo.head \in 1..MaxCommit
    /\ want.sel = "rev" => repo.head = want.at
    /\ want.sel = "branch" /\ fetched > 0 => repo.head = fetched

FitTogether == pc = "lock" \/ Resolved => Compatible

PackagesInv == OriginIsFetched /\ AtSelector /\ FitTogether /\ LockIsWhatRuns /\ LockedSetIsConsistent

LEMMA SameManifests ==
  ASSUME UNCHANGED <<sc, repo, want>>
  PROVE  (Compatible' <=> Compatible) /\ Manifest("kit")' = Manifest("kit")
BY DEF Compatible, NeedsMet, Manifest, VersionRange, S

\* Whatever leaves the clone and the lock alone and does not skip a stage.
LEMMA PackagesRest ==
  ASSUME PackagesInv, UNCHANGED <<sc, repo, lock, want, fetched>>,
         \/ pc' = pc \/ pc' \in {"failed", "dead", "seeding", "seeded"}
         \/ (Resolved /\ Resolved') \/ (pc = "context" /\ pc' = "source")
  PROVE  PackagesInv'
<1>1. /\ pc' \in {"manifest", "lock"} \/ Resolved' => pc \in {"manifest", "lock"} \/ Resolved
      /\ pc' = "lock" \/ Resolved' => pc = "lock" \/ Resolved
      /\ Resolved' => Resolved
      /\ pc' = "checkout" => pc = "checkout"
      /\ pc' \in {"context", "source"} => pc \in {"context", "source"}
  BY DEF Resolved
<1>2. OriginIsFetched' BY <1>1 DEF PackagesInv, OriginIsFetched
<1>3. AtSelector' BY <1>1 DEF PackagesInv, AtSelector
<1>4. FitTogether' BY <1>1, SameManifests DEF PackagesInv, FitTogether
<1>5. LockIsWhatRuns' BY <1>1, SameManifests DEF PackagesInv, LockIsWhatRuns
<1>6. LockedSetIsConsistent' BY DEF PackagesInv, LockedSetIsConsistent, S
<1> QED BY <1>2, <1>3, <1>4, <1>5, <1>6 DEF PackagesInv

\* Of an origin that is the one fetched.
LEMMA CheckoutFollows ==
  ASSUME TypeOK, Shaped, PackagesInv, pc = "checkout", CheckedOut.head > 0
  PROVE  /\ CheckedOut.head \in 1..MaxCommit
         /\ want.sel = "rev" => CheckedOut.head = want.at
         /\ want.sel = "branch" /\ fetched > 0 => CheckedOut.head = fetched
<1>1. repo \in Clones BY DEF TypeOK, Clones
<1>2. CheckedOut.head \in 0..MaxCommit BY CheckedOutType DEF Clones
<1>3. ASSUME want.sel = "rev" PROVE CheckedOut.head = want.at
  BY <1>1, <1>3 DEF CheckedOut, Clones, Shaped
<1>4. ASSUME want.sel = "branch", fetched > 0 PROVE CheckedOut.head = fetched
  <2>1. CheckedOut = [repo EXCEPT !.main = repo.origin, !.head = repo.origin] BY <1>4 DEF CheckedOut
  <2>2. CheckedOut.head = repo.origin BY <1>1, <2>1 DEF Clones
  <2> QED BY <1>4, <2>2 DEF PackagesInv, OriginIsFetched
<1> QED BY <1>2, <1>3, <1>4, MaxCommitAssumption

\* What is locked fits together, since its needs were looked at before.
LEMMA LockedFits ==
  ASSUME TypeOK, Shaped, Compatible, NEW l, l = Locked
  PROVE  \A need \in S.kit[l.rev].needs \union S.base.needs :
           need[1] \in Packages /\
           Satisfies(IF need[1] = "kit" THEN S.kit[l.rev].version ELSE S.base.version, need[2])
<1>1. l.rev = repo.head BY DEF Locked
<1>2. TAKE need \in S.kit[l.rev].needs \union S.base.needs
<1>3. PICK p \in Packages : need \in Manifest(p).needs BY <1>1, <1>2 DEF Packages, Manifest
<1>4. need[1] \in Packages /\ Satisfies(Manifest(need[1]).version, need[2]) BY <1>3 DEF Compatible, NeedsMet
<1>5. Manifest(need[1]).version = IF need[1] = "kit" THEN S.kit[l.rev].version ELSE S.base.version
  BY <1>1, <1>4 DEF Packages, Manifest
<1> QED BY <1>4, <1>5

LEMMA InitPackages == Init => PackagesInv
BY DEF Init, PackagesInv, OriginIsFetched, AtSelector, FitTogether, Resolved, LockIsWhatRuns,
       LockedSetIsConsistent

LEMMA PackagesStay == TypeOK /\ Shaped /\ PackagesInv /\ [Next]_vars => PackagesInv'
<1> SUFFICES ASSUME TypeOK, Shaped, PackagesInv, [Next]_vars PROVE PackagesInv' OBVIOUS
<1> USE DEF git, out, Go, Fail
<1>1. CASE Push BY <1>1, PackagesRest DEF Push
<1>2. CASE MoveTag BY <1>2, PackagesRest DEF MoveTag
<1>3. CASE Edit BY <1>3, PackagesRest DEF Edit
<1>4. ASSUME NEW cmd \in S.cmds, Start(cmd) PROVE PackagesInv'
  <2>1. /\ pc' \in {"context", "source"} /\ fetched' = 0 /\ UNCHANGED <<sc, repo, lock>>
    BY <1>4 DEF Start
  <2>2. LockedSetIsConsistent' BY <2>1 DEF PackagesInv, LockedSetIsConsistent, S
  <2> QED BY <2>1, <2>2 DEF PackagesInv, OriginIsFetched, AtSelector, FitTogether, Resolved, LockIsWhatRuns
<1>5. CASE PrepareContext BY <1>5, PackagesRest DEF PrepareContext
<1>6. CASE Clone \/ CloneFails \/ DiesCloning \/ Fetch
  <2>1. /\ pc' \in {"checkout", "failed", "dead"} /\ UNCHANGED <<sc, lock, want>>
        /\ pc' = "checkout" /\ fetched' > 0 => repo'.origin = fetched'
    <3>1. CASE Clone BY <3>1 DEF Clone
    <3>2. CASE CloneFails \/ DiesCloning BY <3>2 DEF CloneFails, DiesCloning
    <3>3. CASE Fetch
      <4> DEFINE r == [repo EXCEPT !.origin = up.main, !.have = IF up.main > @ THEN up.main ELSE @,
                                   !.tag = IF @ = 0 THEN up.tag ELSE @]
      <4>1. r.origin = up.main BY DEF TypeOK
      <4>2. (repo' = r /\ fetched' = up.main) \/ UNCHANGED fetched BY <3>3 DEF Fetch
      <4>3. fetched = 0 /\ pc' = "checkout" /\ UNCHANGED <<sc, lock, want>>
        BY <3>3 DEF Fetch, PackagesInv, OriginIsFetched
      <4> HIDE DEF r
      <4> QED BY <4>1, <4>2, <4>3
    <3> QED BY <1>6, <3>1, <3>2, <3>3
  <2>2. LockedSetIsConsistent' BY <2>1 DEF PackagesInv, LockedSetIsConsistent, S
  <2> QED BY <2>1, <2>2 DEF PackagesInv, OriginIsFetched, AtSelector, FitTogether, Resolved, LockIsWhatRuns
<1>7. CASE Checkout
  <2>1. UNCHANGED <<sc, lock, want, fetched>> BY <1>7 DEF Checkout
  <2>2. CASE CheckedOut.head > 0
    <3>1. repo' = CheckedOut /\ pc' = "manifest" /\ pc = "checkout" BY <1>7, <2>2 DEF Checkout
    <3>2. AtSelector' BY <2>1, <2>2, <3>1, CheckoutFollows DEF AtSelector
    <3>3. LockedSetIsConsistent' BY <2>1 DEF PackagesInv, LockedSetIsConsistent, S
    <3> QED BY <3>1, <3>2, <3>3 DEF PackagesInv, OriginIsFetched, FitTogether, Resolved, LockIsWhatRuns
  <2>3. CASE ~(CheckedOut.head > 0) BY <1>7, <2>1, <2>3, PackagesRest DEF Checkout
  <2> QED BY <2>2, <2>3
<1>8. CASE ReadManifests
  <2>1. UNCHANGED <<sc, repo, lock, want, fetched>> /\ pc = "manifest" BY <1>8 DEF ReadManifests
  <2>2. CASE Compatible
    <3>1. pc' = "lock" BY <1>8, <2>2 DEF ReadManifests
    <3>2. Compatible' BY <2>1, <2>2, SameManifests
    <3>3. AtSelector' BY <2>1, <3>1 DEF PackagesInv, AtSelector
    <3>4. LockedSetIsConsistent' BY <2>1 DEF PackagesInv, LockedSetIsConsistent, S
    <3> QED BY <3>1, <3>2, <3>3, <3>4 DEF PackagesInv, OriginIsFetched, FitTogether, Resolved, LockIsWhatRuns
  <2>3. CASE ~Compatible BY <1>8, <2>1, <2>3, PackagesRest DEF ReadManifests
  <2> QED BY <2>2, <2>3
<1>9. CASE WriteLock
  <2>1. /\ UNCHANGED <<sc, repo, want, fetched>> /\ pc = "lock" /\ pc' \in {"resolved", "macros"}
        /\ lock' = Locked \/ lock' = [lock EXCEPT !.failed = TRUE]
    BY <1>9 DEF WriteLock
  <2>2. Compatible /\ Compatible' /\ Manifest("kit")' = Manifest("kit")
    BY <2>1, SameManifests DEF PackagesInv, FitTogether
  <2>3. AtSelector' BY <2>1 DEF PackagesInv, AtSelector
  <2>4. CASE lock' = Locked
    <3>1. Locked.rev = repo.head /\ Locked.version = Manifest("kit").version BY DEF Locked
    <3>2. LockedSetIsConsistent'
      BY <2>1, <2>2, <2>4, LockedFits DEF LockedSetIsConsistent, S
    <3>3. lock'.rev = repo'.head /\ lock'.version = Manifest("kit")'.version BY <2>1, <2>2, <2>4, <3>1, Zenon
    <3>4. LockIsWhatRuns' BY <3>3, Zenon DEF LockIsWhatRuns
    <3> QED BY <2>1, <2>2, <2>3, <3>2, <3>4 DEF PackagesInv, OriginIsFetched, FitTogether
  <2>5. CASE lock' = [lock EXCEPT !.failed = TRUE]
    <3>1. lock'.failed /\ lock'.rev = lock.rev BY <2>5 DEF Shaped
    <3>2. LockedSetIsConsistent' BY <2>1, <3>1 DEF PackagesInv, LockedSetIsConsistent, S
    <3> QED BY <2>1, <2>2, <2>3, <3>1, <3>2 DEF PackagesInv, OriginIsFetched, FitTogether, LockIsWhatRuns
  <2> QED BY <2>1, <2>4, <2>5
<1>10. CASE Load
  <2>1. UNCHANGED <<sc, repo, lock, want, fetched>>
    BY <1>10 DEF Load, LoadMacros, LoadFiles, Discover, ValidateDependencies, ReadSettings
  <2>2. pc \in {"macros", "files", "discover", "validate", "settings"}
    BY <1>10 DEF Load, LoadMacros, LoadFiles, Discover, ValidateDependencies, ReadSettings
  <2>3. pc' \in {"files", "discover", "validate", "settings", "ready", "seeding", "failed"}
    BY <1>10 DEF Load, LoadMacros, LoadFiles, Discover, ValidateDependencies, ReadSettings
  <2> QED BY <2>1, <2>2, <2>3, PackagesRest DEF Resolved
<1>11. CASE SeedFails \/ DropSeedTable \/ LoadSeed \/ SeedingEnds
  BY <1>11, PackagesRest DEF SeedFails, DropSeedTable, LoadSeed, SeedingEnds
<1>12. CASE Dies BY <1>12, PackagesRest DEF Dies
<1>13. CASE UNCHANGED vars BY <1>13, PackagesRest DEF vars
<1> QED BY <1>1, <1>2, <1>3, <1>4, <1>5, <1>6, <1>7, <1>8, <1>9, <1>10, <1>11, <1>12, <1>13 DEF Next, Resolve

\* A pinned commit is what is checked out, a branch is where its upstream was found,
\* whatever happened to the clone before (packages.py, _ensure_git_repo).
THEOREM SelectorHonoured == Spec => []SelectorIsHonoured
<1>1. TypeOK /\ Shaped /\ PackagesInv => SelectorIsHonoured
  BY DEF PackagesInv, AtSelector, SelectorIsHonoured
<1> QED BY <1>1, Types, InitPackages, PackagesStay, PTL DEF Spec

\* Versions are compared by their first component that differs.
LEMMA BeforeIs ==
  ASSUME NEW a \in Versions, NEW b \in Versions
  PROVE  Before(a, b) <=> \/ a[1] < b[1]
                          \/ a[1] = b[1] /\ a[2] < b[2]
                          \/ a[1] = b[1] /\ a[2] = b[2] /\ a[3] < b[3]
<1>1. a[1] \in Nat /\ a[2] \in Nat /\ a[3] \in Nat /\ b[1] \in Nat /\ b[2] \in Nat /\ b[3] \in Nat
  BY DEF Versions
<1>2. Before(a, b) <=> \E i \in {1, 2, 3} : a[i] < b[i] /\ \A j \in 1..(i - 1) : a[j] = b[j]
  BY DEF Before
<1>3. /\ \A j \in 1..(1 - 1) : a[j] = b[j]
      /\ (\A j \in 1..(2 - 1) : a[j] = b[j]) <=> a[1] = b[1]
      /\ (\A j \in 1..(3 - 1) : a[j] = b[j]) <=> (a[1] = b[1] /\ a[2] = b[2])
  <2>1. 1..(1 - 1) = {} /\ 1..(2 - 1) = {1} /\ 1..(3 - 1) = {1, 2} OBVIOUS
  <2> QED BY <2>1
<1> QED BY <1>1, <1>2, <1>3

\* Which component that is for a caret (packages.py, _expand_caret).
LEMMA LeftmostIs ==
  ASSUME NEW v \in Versions
  PROVE  LeftmostSet(v) = IF v[1] > 0 THEN 1 ELSE IF v[2] > 0 THEN 2 ELSE 3
<1>1. v[1] \in Nat /\ v[2] \in Nat /\ v[3] \in Nat BY DEF Versions
<1> DEFINE First(i) == v[i] > 0 /\ \A j \in 1..(i - 1) : v[j] = 0
<1>2. /\ First(1) <=> v[1] > 0
      /\ First(2) <=> v[2] > 0 /\ v[1] = 0
      /\ First(3) <=> v[3] > 0 /\ v[1] = 0 /\ v[2] = 0
  <2>1. 1..(1 - 1) = {} /\ 1..(2 - 1) = {1} /\ 1..(3 - 1) = {1, 2} OBVIOUS
  <2> QED BY <2>1
<1>3. LeftmostSet(v) = IF \E i \in {1, 2, 3} : v[i] > 0 THEN CHOOSE i \in {1, 2, 3} : First(i) ELSE 3
  <2>1. 1..3 = {1, 2, 3} OBVIOUS
  <2> QED BY <2>1 DEF LeftmostSet
<1> HIDE DEF First
<1>4. CASE v[1] > 0
  <2>1. \A i \in {1, 2, 3} : First(i) <=> i = 1 BY <1>1, <1>2, <1>4
  <2>2. (CHOOSE i \in {1, 2, 3} : First(i)) = 1 BY <2>1
  <2> QED BY <1>3, <1>4, <2>2
<1>5. CASE ~(v[1] > 0) /\ v[2] > 0
  <2>1. \A i \in {1, 2, 3} : First(i) <=> i = 2 BY <1>1, <1>2, <1>5
  <2>2. (CHOOSE i \in {1, 2, 3} : First(i)) = 2 BY <2>1
  <2> QED BY <1>3, <1>5, <2>2
<1>6. CASE ~(v[1] > 0) /\ ~(v[2] > 0) /\ v[3] > 0
  <2>1. \A i \in {1, 2, 3} : First(i) <=> i = 3 BY <1>1, <1>2, <1>6
  <2>2. (CHOOSE i \in {1, 2, 3} : First(i)) = 3 BY <2>1
  <2> QED BY <1>3, <1>6, <2>2
<1>7. CASE ~(v[1] > 0) /\ ~(v[2] > 0) /\ ~(v[3] > 0) BY <1>3, <1>7
<1> QED BY <1>4, <1>5, <1>6, <1>7

LEMMA CaretHolds ==
  ASSUME NEW v \in Versions, NEW pin \in Versions, Satisfies(v, Caret(pin))
  PROVE  ~Before(v, pin) /\ \A i \in 1..LeftmostSet(pin) : v[i] = pin[i]
<1>1. v[1] \in Nat /\ v[2] \in Nat /\ v[3] \in Nat /\ pin[1] \in Nat /\ pin[2] \in Nat /\ pin[3] \in Nat
  BY DEF Versions
<1>2. ~Before(v, pin) /\ Before(v, NextBreaking(pin))
  <2>1. <<">=", pin>> \in Caret(pin) /\ <<"<", NextBreaking(pin)>> \in Caret(pin) BY DEF Caret
  <2>2. Holds(v, <<">=", pin>>) /\ Holds(v, <<"<", NextBreaking(pin)>>) BY <2>1 DEF Satisfies
  <2>3. Holds(v, <<">=", pin>>) = ~Before(v, pin) BY DEF Holds
  <2>4. Holds(v, <<"<", NextBreaking(pin)>>) = Before(v, NextBreaking(pin)) BY DEF Holds
  <2> QED BY <2>2, <2>3, <2>4
<1>3. CASE pin[1] > 0
  <2>1. NextBreaking(pin) = <<pin[1] + 1, 0, 0>> BY <1>3 DEF NextBreaking
  <2>2. NextBreaking(pin) \in Versions BY <1>1, <2>1 DEF Versions
  <2>3. v[1] = pin[1] BY <1>1, <1>2, <2>1, <2>2, BeforeIs
  <2>4. 1..LeftmostSet(pin) = {1} BY <1>3, LeftmostIs
  <2> QED BY <1>2, <2>3, <2>4
<1>4. CASE pin[1] = 0 /\ pin[2] > 0
  <2>1. NextBreaking(pin) = <<0, pin[2] + 1, 0>> BY <1>4 DEF NextBreaking
  <2>2. NextBreaking(pin) \in Versions BY <1>1, <2>1 DEF Versions
  <2>3. v[1] = pin[1] /\ v[2] = pin[2] BY <1>1, <1>2, <1>4, <2>1, <2>2, BeforeIs
  <2>4. LeftmostSet(pin) = 2 BY <1>4, LeftmostIs
  <2>5. 1..2 = {1, 2} OBVIOUS
  <2> QED BY <1>2, <2>3, <2>4, <2>5
<1>5. CASE pin[1] = 0 /\ pin[2] = 0
  <2>1. NextBreaking(pin) = <<0, 0, pin[3] + 1>> BY <1>5 DEF NextBreaking
  <2>2. NextBreaking(pin) \in Versions BY <1>1, <2>1 DEF Versions
  <2>3. v[1] = pin[1] /\ v[2] = pin[2] /\ v[3] = pin[3] BY <1>1, <1>2, <1>5, <2>1, <2>2, BeforeIs
  <2>4. LeftmostSet(pin) = 3 BY <1>5, LeftmostIs
  <2>5. 1..3 = {1, 2, 3} OBVIOUS
  <2> QED BY <1>2, <2>3, <2>4, <2>5
<1> QED BY <1>1, <1>3, <1>4, <1>5

\* packages.lock names the commit and version that run, of a set whose needs are met,
\* and a caret admits what it should (packages.py, resolve_packages).
THEOREM LockTrue == Spec => []LockTellsTruth
<1>1. ASSUME TypeOK, PackagesInv PROVE CaretIsCompatible
  <2> SUFFICES ASSUME Resolved, want.range = "caret"
               PROVE  /\ ~Before(Manifest("kit").version, S.pin)
                      /\ \A i \in 1..LeftmostSet(S.pin) : Manifest("kit").version[i] = S.pin[i]
    BY DEF CaretIsCompatible
  <2>1. S.pin \in Versions /\ S.kit[repo.head].version \in Versions
    BY <1>1, ScenariosAssumption DEF TypeOK, S, PackagesInv, AtSelector
  <2>2. Manifest("kit").version \in Versions BY <2>1 DEF Manifest
  <2>3. Satisfies(Manifest("kit").version, Caret(S.pin))
    BY <1>1 DEF PackagesInv, FitTogether, Compatible, VersionRange
  <2> QED BY <2>1, <2>2, <2>3, CaretHolds
<1>2. TypeOK /\ Shaped /\ PackagesInv => LockTellsTruth BY <1>1 DEF PackagesInv, LockTellsTruth
<1> QED BY <1>2, Types, InitPackages, PackagesStay, PTL DEF Spec

-----------------------------------------------------------------------------
(* Where the unit tests run.                                                 *)

UtestPlace ==
  want.cmd = "utest" /\ (pc = "ready" \/ ~Resting) /\ pc # "context" =>
    Place(ctx.prof) = Place(S.conf.profiles["dev_utest"])

\* A valid profile has one section, so the base profile adds no section and no place.
LEMMA UtestProfilePlace ==
  ASSUME NEW base, NEW utest, NEW env, ValidProfile(UtestProfile(base, utest, env)),
         DOMAIN utest = {"engine", "sections", "art"},
         \A e \in DOMAIN utest.sections : DOMAIN utest.sections[e] = {"place", "dsn"}
  PROVE  Place(UtestProfile(base, utest, env)) = Place(utest)
<1> DEFINE own == Section(utest, base.engine)
           mine == [own EXCEPT !.dsn = IF base.engine = "postgres" THEN Either(@, base.sections["postgres"].dsn) ELSE @]
           p == UtestProfile(base, utest, env)
<1>1. p = [utest EXCEPT !.sections = WithSection(utest, base.engine, mine)] BY DEF UtestProfile
<1>2. p.engine = utest.engine /\ p.sections = WithSection(utest, base.engine, mine)
  <2> HIDE DEF mine, own
  <2> QED BY <1>1
<1>3. DOMAIN p.sections = DOMAIN utest.sections \union {base.engine} BY <1>2 DEF WithSection
<1>4. base.engine = utest.engine
  <2>1. DOMAIN p.sections = {p.engine} BY DEF ValidProfile
  <2> QED BY <1>2, <1>3, <2>1
<1>5. Section(p, p.engine) = mine
  <2>1. p.engine \in DOMAIN p.sections BY <1>2, <1>3, <1>4
  <2>2. p.sections[p.engine] = mine BY <1>2, <1>4 DEF WithSection
  <2> QED BY <2>1, <2>2 DEF Section
<1>6. "place" \in DOMAIN own BY DEF Section, NoSection
<1>7. mine.place = own.place
  <2> HIDE DEF own
  <2> QED BY <1>6
<1>8. own = Section(utest, utest.engine) BY <1>4
<1> QED BY <1>2, <1>5, <1>7, <1>8 DEF Place

LEMMA UtestRests ==
  ASSUME UtestPlace, UNCHANGED <<sc, want>>, ctx'.prof = ctx.prof,
         pc' = pc \/ pc' \in {"failed", "dead"} \/ (~Resting /\ pc # "context")
  PROVE  UtestPlace'
BY DEF UtestPlace, Resting, S

LEMMA UtestStays == TypeOK /\ Shaped /\ UtestPlace /\ [Next]_vars => UtestPlace'
<1> SUFFICES ASSUME TypeOK, Shaped, UtestPlace, [Next]_vars PROVE UtestPlace' OBVIOUS
<1> USE DEF git, out, Go, Fail
<1>1. CASE Push \/ MoveTag \/ Edit BY <1>1, UtestRests DEF Push, MoveTag, Edit
<1>2. ASSUME NEW cmd \in S.cmds, Start(cmd) PROVE UtestPlace'
  <2>1. want'.cmd = cmd /\ pc' = IF cmd = "deps" THEN "source" ELSE "context" BY <1>2 DEF Start
  <2> QED BY <2>1 DEF UtestPlace
<1>3. CASE PrepareContext
  <2>1. UNCHANGED <<sc, want>> BY <1>3 DEF PrepareContext
  <2>2. CASE pc' = "failed" BY <2>2 DEF UtestPlace, Resting
  <2>3. CASE pc' # "failed" /\ want.cmd = "utest"
    <3>1. /\ "dev_utest" \in DOMAIN S.conf.profiles /\ ValidProfile(Profile)
          /\ ctx' = [ctx EXCEPT !.prof = Profile]
      BY <1>3, <2>3 DEF PrepareContext
    <3>2. ctx'.prof = Profile BY <3>1 DEF Shaped
    <3>3. Profile = UtestProfile(BaseProfile, S.conf.profiles["dev_utest"], Env) BY <2>3 DEF Profile
    <3>4. /\ DOMAIN S.conf.profiles["dev_utest"] = {"engine", "sections", "art"}
          /\ \A e \in DOMAIN S.conf.profiles["dev_utest"].sections :
               DOMAIN S.conf.profiles["dev_utest"].sections[e] = {"place", "dsn"}
      BY <3>1, ScenariosAssumption DEF TypeOK, S
    <3>5. Place(ctx'.prof) = Place(S.conf.profiles["dev_utest"])
      <4> DEFINE utest == S.conf.profiles["dev_utest"]
      <4>1. /\ ValidProfile(UtestProfile(BaseProfile, utest, Env))
            /\ ctx'.prof = UtestProfile(BaseProfile, utest, Env)
        BY <3>1, <3>2, <3>3
      <4>2. /\ DOMAIN utest = {"engine", "sections", "art"}
            /\ \A e \in DOMAIN utest.sections : DOMAIN utest.sections[e] = {"place", "dsn"}
        BY <3>4
      <4> HIDE DEF utest
      <4>3. Place(UtestProfile(BaseProfile, utest, Env)) = Place(utest) BY <4>1, <4>2, UtestProfilePlace
      <4>4. Place(ctx'.prof) = Place(utest) BY <4>1, <4>3
      <4> QED BY <4>4 DEF utest
    <3>6. S' = S BY <2>1 DEF S
    <3> QED BY <3>5, <3>6 DEF UtestPlace
  <2>4. CASE want.cmd # "utest" BY <2>1, <2>4 DEF UtestPlace
  <2> QED BY <2>2, <2>3, <2>4
<1>4. CASE Resolve \/ SeedFails \/ DropSeedTable \/ LoadSeed \/ SeedingEnds \/ Dies
  <2>1. UNCHANGED <<sc, want, ctx>> /\ (pc' = "dead" \/ (~Resting /\ pc # "context"))
    BY <1>4 DEF Resolve, Clone, CloneFails, DiesCloning, Fetch, Checkout, ReadManifests, WriteLock,
                SeedFails, DropSeedTable, LoadSeed, SeedingEnds, Seeding, Dies, Resting
  <2> QED BY <2>1, UtestRests
<1>5. CASE Load
  <2>1. UNCHANGED <<sc, want>> /\ ~Resting /\ pc # "context"
    BY <1>5 DEF Load, LoadMacros, LoadFiles, Discover, ValidateDependencies, ReadSettings, Resting
  <2>2. ctx'.prof = ctx.prof
    <3>1. CASE ReadSettings
      <4>1. "prof" \in DOMAIN ctx BY DEF Shaped
      <4>2. \E a, b, c : ctx' = [ctx EXCEPT !.limit = a, !.store = b, !.enforce = c]
        BY <3>1 DEF ReadSettings
      <4> QED BY <4>1, <4>2
    <3> QED BY <1>5, <3>1 DEF Load, LoadMacros, LoadFiles, Discover, ValidateDependencies
  <2> QED BY <2>1, <2>2, UtestRests
<1>6. CASE UNCHANGED vars BY <1>6, UtestRests DEF vars
<1> QED BY <1>1, <1>2, <1>3, <1>4, <1>5, <1>6 DEF Next

\* The unit tests run at the place their own profile names (settings.py,
\* resolve_utest_profile).
THEOREM UtestsStayAtHome == Spec => []UtestIgnoresEnvironment
<1>1. Init => UtestPlace BY DEF Init, NoCommand, UtestPlace
<1>2. UtestPlace => UtestIgnoresEnvironment BY DEF UtestPlace, UtestIgnoresEnvironment
<1> QED BY <1>1, <1>2, Types, UtestStays, PTL DEF Spec

-----------------------------------------------------------------------------
(* Seeds.                                                                    *)

\* What NoSeedIsLost says of one file.
Kept(seed) ==
  LET keys == {seed.id, seed.dotted} \intersect DOMAIN S.targets
      key == IF seed.id \in keys THEN seed.id ELSE seed.dotted
      table == S.targets[key].table
      others == {SeedTarget(o, S.targets, DefaultSchema).table : o \in SeedFiles \ {seed}}
  IN keys # {} /\ IsSet(table) /\ table \notin others
       => \E t \in DOMAIN db.of : t.table = table /\ db.of[t] = seed.id

\* A file that was loaded stays so, unless its table was just dropped for it once more.
SeedsPlaced ==
  /\ ~Resting /\ pc # "seeding" => db.loaded = 0 /\ ~db.dropped
  /\ pc = "seeding" =>
       /\ db.dropped => db.loaded < Len(S.seeds)
       /\ \A i \in 1..db.loaded : (db.dropped /\ Current = S.seeds[i]) \/ Kept(S.seeds[i])
  /\ pc = "seeded" => \A seed \in SeedFiles : Kept(seed)

\* A path decides before a stem does (seeding.py, _resolve_schema_and_table_by_cfg).
LEMMA PathDecides ==
  ASSUME NEW seed, NEW targets, NEW default, {seed.id, seed.dotted} \intersect DOMAIN targets # {}
  PROVE  LET key == IF seed.id \in {seed.id, seed.dotted} \intersect DOMAIN targets THEN seed.id ELSE seed.dotted
         IN IsSet(targets[key].table) => SeedTarget(seed, targets, default).table = targets[key].table
<1> DEFINE key == IF seed.id \in {seed.id, seed.dotted} \intersect DOMAIN targets THEN seed.id ELSE seed.dotted
<1>1. SeedEntry(seed, targets) = targets[key] BY DEF SeedEntry
<1>2. SeedTarget(seed, targets, default).table = Either(SeedEntry(seed, targets).table, seed.stem) BY DEF SeedTarget
<1> QED BY <1>1, <1>2 DEF Either

\* What a file needs of the tables is left alone by all that touches another's only.
LEMMA KeptApart ==
  ASSUME NEW seed \in SeedFiles, NEW other \in SeedFiles, seed # other, Kept(seed),
         UNCHANGED <<sc, ctx>>,
         \A t \in DOMAIN db.of : t # SeedTarget(other, S.targets, DefaultSchema) =>
                                   t \in DOMAIN db'.of /\ db'.of[t] = db.of[t]
  PROVE  Kept(seed)'
<1> DEFINE keys == {seed.id, seed.dotted} \intersect DOMAIN S.targets
           key == IF seed.id \in keys THEN seed.id ELSE seed.dotted
           table == S.targets[key].table
           others == {SeedTarget(o, S.targets, DefaultSchema).table : o \in SeedFiles \ {seed}}
<1>1. S' = S /\ DefaultSchema' = DefaultSchema /\ SeedFiles' = SeedFiles BY DEF S, DefaultSchema, SeedFiles
<1> SUFFICES ASSUME keys # {}, IsSet(table), table \notin others
             PROVE  \E t \in DOMAIN db'.of : t.table = table /\ db'.of[t] = seed.id
  BY <1>1 DEF Kept
<1>2. PICK t \in DOMAIN db.of : t.table = table /\ db.of[t] = seed.id BY DEF Kept
<1>3. SeedTarget(other, S.targets, DefaultSchema).table \in others OBVIOUS
<1>4. t # SeedTarget(other, S.targets, DefaultSchema) BY <1>2, <1>3
<1> QED BY <1>2, <1>4

\* The file that is loaded is in its table.
LEMMA KeptNow ==
  ASSUME NEW seed, UNCHANGED <<sc, ctx>>, NEW t, t = SeedTarget(seed, S.targets, DefaultSchema),
         t \in DOMAIN db'.of, db'.of[t] = seed.id
  PROVE  Kept(seed)'
<1> DEFINE keys == {seed.id, seed.dotted} \intersect DOMAIN S.targets
           key == IF seed.id \in keys THEN seed.id ELSE seed.dotted
<1>1. S' = S /\ DefaultSchema' = DefaultSchema BY DEF S, DefaultSchema
<1>2. keys # {} /\ IsSet(S.targets[key].table) => t.table = S.targets[key].table BY PathDecides
<1> QED BY <1>1, <1>2 DEF Kept

LEMMA SeedsRest ==
  ASSUME SeedsPlaced, UNCHANGED <<sc, ctx, db>>,
         pc' = pc \/ pc' \in {"failed", "dead"} \/ (pc' \notin {"seeding", "seeded"} /\ ~Resting /\ pc # "seeding")
  PROVE  SeedsPlaced'
<1>1. S' = S /\ Current' = Current /\ DefaultSchema' = DefaultSchema /\ SeedFiles' = SeedFiles
  BY DEF S, Current, DefaultSchema, SeedFiles
<1>2. \A seed : Kept(seed)' <=> Kept(seed) BY <1>1 DEF Kept
<1> QED BY <1>1, <1>2 DEF SeedsPlaced, Resting

LEMMA SeedsStay == TypeOK /\ Shaped /\ SeedsPlaced /\ [Next]_vars => SeedsPlaced'
<1> SUFFICES ASSUME TypeOK, Shaped, SeedsPlaced, [Next]_vars PROVE SeedsPlaced' OBVIOUS
<1>0. Len(S.seeds) \in Nat /\ DOMAIN S.seeds = 1..Len(S.seeds) BY Layouts DEF TypeOK, S
<1>a. /\ \A i \in 1..Len(S.seeds) : S.seeds[i] \in SeedFiles
      /\ \A i \in 1..db.loaded : i \in 1..Len(S.seeds)
      /\ db.loaded < Len(S.seeds) => db.loaded + 1 \in 1..Len(S.seeds)
  <2>1. \A i \in DOMAIN S.seeds : S.seeds[i] \in SeedFiles BY DEF SeedFiles
  <2>2. db.loaded \in 0..Len(S.seeds) BY DEF TypeOK
  <2> QED BY <1>0, <2>1, <2>2
<1> USE DEF git, out, Go, Fail
<1>1. CASE Push \/ MoveTag \/ Edit BY <1>1, SeedsRest DEF Push, MoveTag, Edit
<1>2. ASSUME NEW cmd \in S.cmds, Start(cmd) PROVE SeedsPlaced'
  <2>1. pc' \in {"source", "context"} /\ db' = [db EXCEPT !.loaded = 0, !.dropped = FALSE] BY <1>2 DEF Start
  <2>2. db'.loaded = 0 /\ ~db'.dropped BY <2>1 DEF Shaped
  <2> QED BY <2>1, <2>2 DEF SeedsPlaced
<1>3. CASE PrepareContext
  <2>1. pc' \in {"source", "failed"} /\ pc = "context" /\ UNCHANGED db BY <1>3 DEF PrepareContext
  <2> QED BY <2>1 DEF SeedsPlaced, Resting
<1>4. CASE Resolve
  <2>1. UNCHANGED <<sc, ctx, db>> /\ pc \in {"source", "checkout", "manifest", "lock"}
    BY <1>4 DEF Resolve, Clone, CloneFails, DiesCloning, Fetch, Checkout, ReadManifests, WriteLock
  <2>2. pc' \notin {"seeding", "seeded"}
    BY <1>4 DEF Resolve, Clone, CloneFails, DiesCloning, Fetch, Checkout, ReadManifests, WriteLock
  <2> QED BY <2>1, <2>2, SeedsRest DEF Resting
<1>5. CASE LoadMacros \/ LoadFiles \/ Discover \/ ValidateDependencies
  <2>1. UNCHANGED <<sc, ctx, db>> /\ pc \in {"macros", "files", "discover", "validate"}
    BY <1>5 DEF LoadMacros, LoadFiles, Discover, ValidateDependencies
  <2>2. pc' \notin {"seeding", "seeded"} BY <1>5 DEF LoadMacros, LoadFiles, Discover, ValidateDependencies
  <2> QED BY <2>1, <2>2, SeedsRest DEF Resting
<1>6. CASE ReadSettings
  <2>1. pc' \in {"ready", "seeding"} /\ pc = "settings" /\ UNCHANGED db BY <1>6 DEF ReadSettings
  <2>2. db.loaded = 0 /\ ~db.dropped BY <2>1 DEF SeedsPlaced, Resting
  <2> QED BY <2>1, <2>2 DEF SeedsPlaced, Resting
<1>7. CASE SeedFails BY <1>7, SeedsRest DEF SeedFails
<1>8. CASE DropSeedTable
  <2>1. /\ pc = "seeding" /\ db.loaded < Len(S.seeds) /\ ~db.dropped /\ UNCHANGED <<sc, ctx, pc>>
        /\ db' = [db EXCEPT !.dropped = TRUE, !.of = [t \in DOMAIN @ \ {CurrentTable} |-> @[t]]]
    BY <1>8 DEF DropSeedTable, Seeding
  <2>2. db'.loaded = db.loaded /\ db'.dropped /\ db'.of = [t \in DOMAIN db.of \ {CurrentTable} |-> db.of[t]]
    BY <2>1 DEF Shaped
  <2>3. S' = S /\ Current' = Current BY <2>1, <2>2 DEF S, Current
  <2>4. Current \in SeedFiles BY <1>a, <2>1 DEF Current
  <2>5. ASSUME NEW i \in 1..db.loaded, Current # S.seeds[i] PROVE Kept(S.seeds[i])'
    <3>1. Kept(S.seeds[i]) BY <2>1, <2>5 DEF SeedsPlaced
    <3>2. S.seeds[i] \in SeedFiles BY <1>a
    <3>3. \A seed : seed = S.seeds[i] => Kept(seed)'
      BY <2>1, <2>2, <2>4, <2>5, <3>1, <3>2, KeptApart DEF CurrentTable
    <3> QED BY <2>3, <3>3
  <2> QED BY <2>1, <2>2, <2>3, <2>5 DEF SeedsPlaced
<1>9. CASE LoadSeed
  <2>1. /\ pc = "seeding" /\ db.loaded < Len(S.seeds) /\ UNCHANGED <<sc, ctx, pc>>
        /\ db' = [loaded |-> db.loaded + 1, dropped |-> FALSE,
                  of |-> Over(db.of, [t \in {CurrentTable} |-> Current.id])]
    BY <1>9 DEF LoadSeed, Seeding
  <2>2. /\ db'.loaded = db.loaded + 1 /\ ~db'.dropped
        /\ db'.of = Over(db.of, [t \in {CurrentTable} |-> Current.id])
    BY <2>1
  <2>3. /\ \A t \in DOMAIN db.of : t # CurrentTable => t \in DOMAIN db'.of /\ db'.of[t] = db.of[t]
        /\ CurrentTable \in DOMAIN db'.of /\ db'.of[CurrentTable] = Current.id
    BY <2>2 DEF Over
  <2>4. S' = S BY <2>1 DEF S
  <2>5. Current \in SeedFiles BY <1>a, <2>1 DEF Current
  <2>6. \A seed : seed = Current => Kept(seed)' BY <2>1, <2>3, KeptNow DEF CurrentTable
  <2>7. ASSUME NEW i \in 1..(db.loaded + 1) PROVE \A seed : seed = S.seeds[i] => Kept(seed)'
    <3>1. CASE S.seeds[i] = Current BY <2>6, <3>1
    <3>2. CASE S.seeds[i] # Current
      <4>1. i \in 1..db.loaded BY <3>2 DEF Current, TypeOK
      <4>2. Kept(S.seeds[i]) BY <2>1, <3>2, <4>1 DEF SeedsPlaced
      <4>3. S.seeds[i] \in SeedFiles BY <1>a, <4>1
      <4> QED BY <2>1, <2>3, <2>5, <3>2, <4>2, <4>3, KeptApart DEF CurrentTable
    <3> QED BY <3>1, <3>2
  <2>8. \A i \in 1..(db.loaded + 1) : Kept(S.seeds[i])' BY <2>4, <2>7
  <2> QED BY <2>1, <2>2, <2>4, <2>8 DEF SeedsPlaced
<1>10. CASE SeedingEnds
  <2>1. pc = "seeding" /\ db.loaded = Len(S.seeds) /\ pc' = "seeded" /\ UNCHANGED <<sc, ctx, db>>
    BY <1>10 DEF SeedingEnds
  <2>2. ~db.dropped BY <1>0, <2>1 DEF SeedsPlaced
  <2>3. \A seed \in SeedFiles : Kept(seed) BY <1>0, <2>1, <2>2 DEF SeedsPlaced, SeedFiles
  <2>4. S' = S /\ SeedFiles' = SeedFiles /\ DefaultSchema' = DefaultSchema
    BY <2>1 DEF S, SeedFiles, DefaultSchema
  <2>5. \A seed : Kept(seed)' <=> Kept(seed) BY <2>1, <2>4 DEF Kept
  <2> QED BY <2>1, <2>3, <2>4, <2>5 DEF SeedsPlaced, Resting
<1>11. CASE Dies BY <1>11, SeedsRest DEF Dies
<1>12. CASE UNCHANGED vars BY <1>12, SeedsRest DEF vars
<1> QED BY <1>1, <1>2, <1>3, <1>4, <1>5, <1>6, <1>7, <1>8, <1>9, <1>10, <1>11, <1>12 DEF Next, Load

\* After fft seed has ended well, a file is in the table schema.yml gives to its path
\* (seeding.py, seed_project).
THEOREM SeedsArrive == Spec => []NoSeedIsLost
<1>1. Init => SeedsPlaced BY DEF Init, SeedsPlaced, Resting
<1>2. TypeOK /\ Shaped /\ SeedsPlaced => NoSeedIsLost BY DEF SeedsPlaced, NoSeedIsLost, Kept
<1> QED BY <1>1, <1>2, Types, SeedsStay, PTL DEF Spec

-----------------------------------------------------------------------------
(* The registry: which file a name stands for.                               *)

LEMMA Ranks == /\ Owners[1] = "base" /\ Owners[2] = "kit" /\ Owners[3] = "project"
               /\ Rank("base") = 1 /\ Rank("kit") = 2 /\ Rank("project") = 3
<1>1. Owners[1] = "base" /\ Owners[2] = "kit" /\ Owners[3] = "project" BY DEF Owners
<1>2. \A o : Rank(o) = CHOOSE i \in {1, 2, 3} : Owners[i] = o
  <2>1. 1..3 = {1, 2, 3} OBVIOUS
  <2> QED BY <2>1 DEF Rank
<1> QED BY <1>1, <1>2

\* The turn of a file in Discover.
Turn(x) == IF x.py THEN 2 * Rank(x.owner) ELSE 2 * Rank(x.owner) - 1

LEMMA TurnIs ==
  ASSUME NEW x, x.py \in BOOLEAN, \E i \in 1..3 : x.owner = Owners[i]
  PROVE  /\ Turn(x) \in 1..6 /\ Rank(x.owner) \in 1..3 /\ Owners[Rank(x.owner)] = x.owner
         /\ x.owner = "project" <=> Turn(x) > 4
         /\ \A t \in 1..6 : (Turns[t][1] = x.owner /\ Turns[t][2] = x.py) <=> t = Turn(x)
<1>1. x.owner \in {"base", "kit", "project"}
  <2>1. 1..3 = {1, 2, 3} OBVIOUS
  <2> QED BY <2>1, Ranks
<1>2. 1..6 = {1, 2, 3, 4, 5, 6} OBVIOUS
<1>5. /\ Turns[1][1] = "base" /\ Turns[1][2] = FALSE /\ Turns[2][1] = "base" /\ Turns[2][2] = TRUE
      /\ Turns[3][1] = "kit" /\ Turns[3][2] = FALSE /\ Turns[4][1] = "kit" /\ Turns[4][2] = TRUE
      /\ Turns[5][1] = "project" /\ Turns[5][2] = FALSE /\ Turns[6][1] = "project" /\ Turns[6][2] = TRUE
  BY DEF Turns
<1>6. \A t \in 1..6 : /\ Turns[t][1] = "base" <=> t \in {1, 2}
                      /\ Turns[t][1] = "kit" <=> t \in {3, 4}
                      /\ Turns[t][1] = "project" <=> t \in {5, 6}
  BY <1>2, <1>5
<1>7. \A t \in 1..6 : /\ Turns[t][2] = TRUE <=> t \in {2, 4, 6}
                      /\ Turns[t][2] = FALSE <=> t \in {1, 3, 5}
  <2>1. (\A t \in {1, 3, 5} : Turns[t][2] = FALSE) /\ \A t \in {2, 4, 6} : Turns[t][2] = TRUE BY <1>5, Zenon
  <2>2. TRUE # FALSE BY Zenon
  <2>3. (\A t \in {1, 3, 5} : Turns[t][2] # TRUE) /\ \A t \in {2, 4, 6} : Turns[t][2] # FALSE
    BY <2>1, <2>2, Zenon
  <2>4. \A t \in 1..6 : t \in {1, 3, 5} \/ t \in {2, 4, 6} BY <1>2
  <2>5. \A t \in {1, 3, 5} : t \notin {2, 4, 6} OBVIOUS
  <2> QED BY <2>1, <2>3, <2>4, <2>5, Zenon
<1>3. CASE x.py = TRUE
  <2>1. CASE x.owner = "base"
    <3>1. Turn(x) = 2 /\ Rank(x.owner) = 1 BY <1>3, <2>1, Ranks DEF Turn
    <3>2. \A t \in 1..6 : Turns[t][1] = x.owner <=> t \in {1, 2} BY <1>6, <2>1
    <3>3. \A t \in 1..6 : Turns[t][2] = x.py <=> t \in {2, 4, 6} BY <1>7, <1>3, Zenon
    <3>4. \A t \in 1..6 : (Turns[t][1] = x.owner /\ Turns[t][2] = x.py) <=> t = 2 BY <3>2, <3>3
    <3> QED BY <2>1, <3>1, <3>4, Ranks
  <2>2. CASE x.owner = "kit"
    <3>1. Turn(x) = 4 /\ Rank(x.owner) = 2 BY <1>3, <2>2, Ranks DEF Turn
    <3>2. \A t \in 1..6 : Turns[t][1] = x.owner <=> t \in {3, 4} BY <1>6, <2>2
    <3>3. \A t \in 1..6 : Turns[t][2] = x.py <=> t \in {2, 4, 6} BY <1>7, <1>3, Zenon
    <3>4. \A t \in 1..6 : (Turns[t][1] = x.owner /\ Turns[t][2] = x.py) <=> t = 4 BY <3>2, <3>3
    <3> QED BY <2>2, <3>1, <3>4, Ranks
  <2>3. CASE x.owner = "project"
    <3>1. Turn(x) = 6 /\ Rank(x.owner) = 3 BY <1>3, <2>3, Ranks DEF Turn
    <3>2. \A t \in 1..6 : Turns[t][1] = x.owner <=> t \in {5, 6} BY <1>6, <2>3
    <3>3. \A t \in 1..6 : Turns[t][2] = x.py <=> t \in {2, 4, 6} BY <1>7, <1>3, Zenon
    <3>4. \A t \in 1..6 : (Turns[t][1] = x.owner /\ Turns[t][2] = x.py) <=> t = 6 BY <3>2, <3>3
    <3> QED BY <2>3, <3>1, <3>4, Ranks
  <2> QED BY <1>1, <2>1, <2>2, <2>3
<1>4. CASE x.py = FALSE
  <2>1. CASE x.owner = "base"
    <3>1. Turn(x) = 1 /\ Rank(x.owner) = 1 BY <1>4, <2>1, Ranks DEF Turn
    <3>2. \A t \in 1..6 : Turns[t][1] = x.owner <=> t \in {1, 2} BY <1>6, <2>1
    <3>3. \A t \in 1..6 : Turns[t][2] = x.py <=> t \in {1, 3, 5} BY <1>7, <1>4, Zenon
    <3>4. \A t \in 1..6 : (Turns[t][1] = x.owner /\ Turns[t][2] = x.py) <=> t = 1 BY <3>2, <3>3
    <3> QED BY <2>1, <3>1, <3>4, Ranks
  <2>2. CASE x.owner = "kit"
    <3>1. Turn(x) = 3 /\ Rank(x.owner) = 2 BY <1>4, <2>2, Ranks DEF Turn
    <3>2. \A t \in 1..6 : Turns[t][1] = x.owner <=> t \in {3, 4} BY <1>6, <2>2
    <3>3. \A t \in 1..6 : Turns[t][2] = x.py <=> t \in {1, 3, 5} BY <1>7, <1>4, Zenon
    <3>4. \A t \in 1..6 : (Turns[t][1] = x.owner /\ Turns[t][2] = x.py) <=> t = 3 BY <3>2, <3>3
    <3> QED BY <2>2, <3>1, <3>4, Ranks
  <2>3. CASE x.owner = "project"
    <3>1. Turn(x) = 5 /\ Rank(x.owner) = 3 BY <1>4, <2>3, Ranks DEF Turn
    <3>2. \A t \in 1..6 : Turns[t][1] = x.owner <=> t \in {5, 6} BY <1>6, <2>3
    <3>3. \A t \in 1..6 : Turns[t][2] = x.py <=> t \in {1, 3, 5} BY <1>7, <1>4, Zenon
    <3>4. \A t \in 1..6 : (Turns[t][1] = x.owner /\ Turns[t][2] = x.py) <=> t = 5 BY <3>2, <3>3
    <3> QED BY <2>3, <3>1, <3>4, Ranks
  <2> QED BY <1>1, <2>1, <2>2, <2>3
<1> QED BY <1>3, <1>4

LEMMA LaterTurnLaterOwner ==
  ASSUME NEW x, NEW y, x.py \in BOOLEAN, y.py \in BOOLEAN,
         \E i \in 1..3 : x.owner = Owners[i], \E i \in 1..3 : y.owner = Owners[i], Turn(x) <= Turn(y)
  PROVE  Rank(x.owner) <= Rank(y.owner)
BY TurnIs DEF Turn

\* The files of one name that the first k turns give to the registry.
Given(n, k) == {x \in S.files : x.name = n /\ x \in FilesOf(x.owner) /\ ForEngine(x) /\ Turn(x) <= k}

\* After k turns a name stands for a file of the last of them that has it, and at
\* most one file of the project has it.
Found(k) ==
  \A n \in {x.name : x \in S.files} :
    /\ n \in Known <=> Given(n, k) # {}
    /\ n \in Known => \E x \in Given(n, k) : reg.nodes[n] = Node(x) /\ \A y \in Given(n, k) : Turn(y) <= Turn(x)
    /\ \A x, y \in Given(n, k) : x.owner = "project" /\ y.owner = "project" => x = y

RegistryInv ==
  /\ pc \in BeforeFiles => reg.nodes = Empty /\ reg.step = 1
  /\ pc = "files" \/ pc \in Loading =>
       reg.macros = MacrosOf("project", MacrosOf("kit", MacrosOf("base", Empty)))
  /\ pc \in Loading => reg.sources = [s \in DOMAIN S.sources |-> ResolvedSource(S.sources[s])]
  /\ pc = "discover" => reg.step \in 1..6 /\ Found(reg.step - 1)
  /\ pc \in {"validate", "settings", "ready"} => Found(6)
  /\ pc \in {"settings", "ready"} => \A n \in Known : reg.nodes[n].deps \subseteq Known

LEMMA SameFiles ==
  ASSUME UNCHANGED <<sc, repo>>, ctx'.prof = ctx.prof, NEW n, NEW k
  PROVE  Given(n, k)' = Given(n, k)
BY DEF Given, FilesOf, ForEngine, S

LEMMA SameFound ==
  ASSUME UNCHANGED <<sc, repo>>, ctx'.prof = ctx.prof, reg'.nodes = reg.nodes, NEW k, Found(k)
  PROVE  Found(k)'
<1>1. S' = S /\ Known' = Known BY DEF S, Known
<1>2. \A x : Node(x)' = Node(x) BY DEF Node, Meta, S
<1>3. \A n : Given(n, k)' = Given(n, k) BY SameFiles
<1> QED BY <1>1, <1>2, <1>3 DEF Found

-----------------------------------------------------------------------------
(* One turn.                                                                 *)

\* The files of turn k, of all engines and of this one.
All(k) == {x \in FilesOf(Turns[k][1]) : x.py = Turns[k][2]}
Mine(k) == {x \in All(k) : ForEngine(x)}

LEMMA FilesOfTurn ==
  ASSUME TypeOK, NEW k \in 1..6
  PROVE  Mine(k) = {x \in S.files : x \in FilesOf(x.owner) /\ ForEngine(x) /\ Turn(x) = k}
<1>1. \A x \in S.files : x.py \in BOOLEAN /\ \E i \in 1..3 : x.owner = Owners[i] BY Layouts DEF TypeOK, S
<1>2. \A x \in S.files : (Turns[k][1] = x.owner /\ Turns[k][2] = x.py) <=> k = Turn(x) BY <1>1, TurnIs
<1>3. \A x, o : x \in FilesOf(o) => x \in S.files /\ x.owner = o BY DEF FilesOf
<1>4. \A x : x \in Mine(k) => x \in S.files /\ x \in FilesOf(x.owner) /\ ForEngine(x) /\ Turn(x) = k
  BY <1>2, <1>3 DEF Mine, All
<1>5. \A x \in S.files : x \in FilesOf(x.owner) /\ ForEngine(x) /\ Turn(x) = k => x \in Mine(k)
  BY <1>2 DEF Mine, All
<1> QED BY <1>4, <1>5

LEMMA OneTurnMore ==
  ASSUME TypeOK, NEW k \in 1..6, NEW n
  PROVE  Given(n, k) = Given(n, k - 1) \union {x \in Mine(k) : x.name = n}
<1>1. \A x \in S.files : Turn(x) \in 1..6
  <2>1. \A x \in S.files : x.py \in BOOLEAN /\ \E i \in 1..3 : x.owner = Owners[i] BY Layouts DEF TypeOK, S
  <2> QED BY <2>1, TurnIs
<1>2. \A x \in S.files : Turn(x) <= k <=> (Turn(x) <= k - 1 \/ Turn(x) = k) BY <1>1
<1> QED BY <1>2, FilesOfTurn DEF Given

\* What Discover does when it refuses nothing.
LEMMA DiscoverGives ==
  ASSUME Shaped, Discover, pc' # "failed"
  PROVE  LET k == reg.step  names == {x.name : x \in Mine(k)}
         IN /\ \A x \in Mine(k) : ~Clash(x, Mine(k))
            /\ \E last \in [names -> Mine(k)] :
                 /\ \A n \in names : last[n].name = n
                 /\ reg'.nodes = Over(reg.nodes, [n \in names |-> Node(last[n])])
            /\ reg'.step = IF k < 6 THEN k + 1 ELSE k
            /\ reg'.macros = reg.macros /\ reg'.sources = reg.sources
            /\ pc' = IF k = 6 THEN "validate" ELSE "discover"
<1> DEFINE k == reg.step  names == {x.name : x \in Mine(k)}
<1>1. Len(Turns) = 6 BY DEF Turns
<1>2. /\ \A x \in Mine(k) : ~Clash(x, Mine(k))
      /\ \E last \in [names -> Mine(k)] :
           /\ \A n \in names : last[n].name = n
           /\ reg' = [reg EXCEPT !.nodes = Over(@, [n \in names |-> Node(last[n])]),
                                 !.step = IF @ < Len(Turns) THEN @ + 1 ELSE @]
      /\ pc' = IF k = Len(Turns) THEN "validate" ELSE "discover"
  BY DEF Discover, Mine, All, Fail, Go
<1>3. PICK last \in [names -> Mine(k)] :
           /\ \A n \in names : last[n].name = n
           /\ reg' = [reg EXCEPT !.nodes = Over(@, [n \in names |-> Node(last[n])]),
                                 !.step = IF @ < Len(Turns) THEN @ + 1 ELSE @]
  BY <1>2
<1>4. /\ reg'.nodes = Over(reg.nodes, [n \in names |-> Node(last[n])])
      /\ reg'.step = IF k < Len(Turns) THEN k + 1 ELSE k
      /\ reg'.macros = reg.macros /\ reg'.sources = reg.sources
  <2> HIDE DEF names, k
  <2> DEFINE f == Over(reg.nodes, [n \in names |-> Node(last[n])])
             e == IF reg.step < Len(Turns) THEN reg.step + 1 ELSE reg.step
  <2>1. reg' = [reg EXCEPT !.nodes = f, !.step = e] BY <1>3
  <2> HIDE DEF f, e
  <2>2. reg'.nodes = f /\ reg'.step = e /\ reg'.macros = reg.macros /\ reg'.sources = reg.sources
    BY <2>1 DEF Shaped
  <2> QED BY <2>2 DEF f, e, k
<1> HIDE DEF k
<1> QED BY <1>1, <1>2, <1>3, <1>4 DEF k

\* A turn's files go over those of the turns before it.
LEMMA TurnAdds ==
  ASSUME TypeOK, UNCHANGED <<sc, repo, ctx>>, NEW k \in 1..6, Found(k - 1),
         \A x \in Mine(k) : ~Clash(x, Mine(k)),
         NEW last \in [{x.name : x \in Mine(k)} -> Mine(k)],
         \A n \in {x.name : x \in Mine(k)} : last[n].name = n,
         reg'.nodes = Over(reg.nodes, [n \in {x.name : x \in Mine(k)} |-> Node(last[n])])
  PROVE  Found(k)'
<1> DEFINE names == {x.name : x \in Mine(k)}
<1>1. S' = S /\ \A x : Node(x)' = Node(x) BY DEF Node, Meta, S
<1>2. \A n : Given(n, k)' = Given(n, k) BY DEF Given, FilesOf, ForEngine, S
<1>3. /\ Known' = Known \union names
      /\ \A n \in names : reg'.nodes[n] = Node(last[n])
      /\ \A n \in Known \ names : reg'.nodes[n] = reg.nodes[n]
  <2>1. reg'.nodes = Over(reg.nodes, [n \in names |-> Node(last[n])]) OBVIOUS
  <2> HIDE DEF names
  <2> QED BY <2>1 DEF Over, Known
<1> DEFINE Right(n) ==
      /\ n \in Known' <=> Given(n, k) # {}
      /\ n \in Known' => \E x \in Given(n, k) : reg'.nodes[n] = Node(x) /\ \A y \in Given(n, k) : Turn(y) <= Turn(x)
      /\ \A x, y \in Given(n, k) : x.owner = "project" /\ y.owner = "project" => x = y
<1>a. ASSUME \A n \in {x.name : x \in S.files} : Right(n) PROVE Found(k)'
  <2>1. \A x : Node(x)' = Node(x) BY <1>1
  <2>2. {x.name : x \in S.files}' = {x.name : x \in S.files} BY <1>1
  <2>3. ASSUME NEW n \in {x.name : x \in S.files}
        PROVE  (/\ n \in Known <=> Given(n, k) # {}
                /\ n \in Known => \E x \in Given(n, k) : reg.nodes[n] = Node(x) /\ \A y \in Given(n, k) : Turn(y) <= Turn(x)
                /\ \A x, y \in Given(n, k) : x.owner = "project" /\ y.owner = "project" => x = y)'
    <3>1. Right(n) BY <1>a
    <3>2. Given(n, k)' = Given(n, k) BY <1>2
    <3> QED BY <2>1, <3>1, <3>2
  <2> QED BY <2>2, <2>3 DEF Found
<1> SUFFICES ASSUME NEW n \in {x.name : x \in S.files} PROVE Right(n)
  BY <1>a
<1> DEFINE Now == {x \in Mine(k) : x.name = n}
           Then == Given(n, k - 1)
<1>4. Given(n, k) = Then \union Now BY OneTurnMore
<1>5. /\ \A x \in Now : Turn(x) = k /\ x.owner = x.owner
      /\ \A x \in Then : Turn(x) <= k - 1
  BY FilesOfTurn DEF Given
<1>6. \A x \in Then \union Now : Turn(x) \in 1..6 /\ (x.owner = "project" <=> Turn(x) > 4)
  <2>1. \A x \in S.files : x.py \in BOOLEAN /\ \E i \in 1..3 : x.owner = Owners[i] BY Layouts DEF TypeOK, S
  <2>2. \A x \in S.files : Turn(x) \in 1..6 /\ (x.owner = "project" <=> Turn(x) > 4) BY <2>1, TurnIs
  <2>3. Then \union Now \subseteq S.files BY FilesOfTurn DEF Given
  <2> QED BY <2>2, <2>3
<1>7. /\ n \in Known <=> Then # {}
      /\ n \in Known => \E x \in Then : reg.nodes[n] = Node(x) /\ \A y \in Then : Turn(y) <= Turn(x)
      /\ \A x, y \in Then : x.owner = "project" /\ y.owner = "project" => x = y
  BY DEF Found
<1>8. n \in names <=> Now # {} OBVIOUS
<1>9. n \in names => last[n] \in Now OBVIOUS
<1>10. \A x \in Now, y \in Mine(k) : x.owner = "project" => (y.name # n \/ y = x) BY DEF Clash
<1>11. \A x \in Now : x.owner = "project" => n \notin Known \/ reg.nodes[n].owner # "project" BY DEF Clash, Known
<1>12. \A x : Node(x).owner = x.owner BY DEF Node
<1> HIDE DEF names, Then
<1>13. n \in Known' <=> Given(n, k) # {} BY <1>3, <1>4, <1>7, <1>8
<1>14. ASSUME n \in Known'
       PROVE  \E x \in Given(n, k) : reg'.nodes[n] = Node(x) /\ \A y \in Given(n, k) : Turn(y) <= Turn(x)
  <2>1. CASE n \in names
    <3> HIDE DEF Now
    <3>1. last[n] \in Now /\ reg'.nodes[n] = Node(last[n]) BY <1>3, <1>9, <2>1
    <3>2. \A y \in Given(n, k) : Turn(y) <= Turn(last[n]) BY <1>4, <1>5, <1>6, <3>1
    <3> QED BY <1>4, <3>1, <3>2
  <2>2. CASE n \notin names
    <3>1. Given(n, k) = Then BY <1>4, <1>8, <2>2
    <3>2. n \in Known \ names /\ reg'.nodes[n] = reg.nodes[n] BY <1>3, <1>14, <2>2
    <3> QED BY <1>7, <3>1, <3>2
  <2> QED BY <2>1, <2>2
<1>15. ASSUME NEW x \in Given(n, k), NEW y \in Given(n, k), x.owner = "project", y.owner = "project"
       PROVE  x = y
  <2>1. CASE x \in Then /\ y \in Then BY <1>7, <1>15, <2>1
  <2>2. CASE x \in Now /\ y \in Now BY <1>10, <1>15, <2>2
  <2>3. ASSUME NEW new \in Now, NEW old \in Then, new.owner = "project", old.owner = "project" PROVE FALSE
    <3> HIDE DEF Now
    <3>1. n \in Known BY <1>7
    <3>2. PICK z \in Then : reg.nodes[n] = Node(z) /\ \A u \in Then : Turn(u) <= Turn(z) BY <1>7, <3>1
    <3>3. Turn(z) > 4 BY <1>6, <2>3, <3>2
    <3>4. z.owner = "project" BY <1>6, <3>3
    <3> QED BY <1>11, <1>12, <2>3, <3>1, <3>2, <3>4
  <2> QED BY <1>4, <1>15, <2>1, <2>2, <2>3
<1> QED BY <1>13, <1>14, <1>15

\* Before the files are found: whatever happens to the clone.
LEMMA RegistryWaits ==
  ASSUME RegistryInv, UNCHANGED reg,
         (pc \in BeforeFiles /\ pc' \in BeforeFiles \ {"files"}) \/ pc' \in {"failed", "dead", "resolved"}
  PROVE  RegistryInv'
BY DEF RegistryInv, BeforeFiles, Loading

\* Whatever leaves registry, clone and profile alone and does not skip a stage.
LEMMA RegistryRests ==
  ASSUME RegistryInv, UNCHANGED <<sc, repo, reg>>, ctx'.prof = ctx.prof,
         \/ pc' = pc \/ pc' \in {"failed", "dead", "resolved", "seeding", "seeded"}
         \/ pc = "settings" /\ pc' = "ready"
  PROVE  RegistryInv'
<1>1. S' = S /\ Known' = Known BY DEF S, Known
<1>2. (MacrosOf("project", MacrosOf("kit", MacrosOf("base", Empty))))'
        = MacrosOf("project", MacrosOf("kit", MacrosOf("base", Empty)))
  BY <1>1 DEF MacrosOf, MacroFiles, Defined, TemplateOf
<1>3. \A k : Found(k) => Found(k)' BY SameFound
<1>4. pc' \notin {"failed", "dead", "resolved", "seeding", "seeded"} =>
        pc' = pc \/ (pc = "settings" /\ pc' = "ready")
  OBVIOUS
<1>5. pc' \notin BeforeFiles \union Loading \/ pc' = pc \/ (pc = "settings" /\ pc' = "ready")
  BY <1>4 DEF BeforeFiles, Loading
<1>6. CASE pc' \notin BeforeFiles \union Loading BY <1>6 DEF RegistryInv, BeforeFiles, Loading
<1>7. CASE pc' = pc BY <1>1, <1>2, <1>3, <1>7 DEF RegistryInv
<1>8. CASE pc = "settings" /\ pc' = "ready" BY <1>1, <1>2, <1>3, <1>8 DEF RegistryInv, BeforeFiles, Loading
<1> QED BY <1>5, <1>6, <1>7, <1>8

LEMMA RegistryStays == TypeOK /\ Shaped /\ RegistryInv /\ [Next]_vars => RegistryInv'
<1> SUFFICES ASSUME TypeOK, Shaped, RegistryInv, [Next]_vars PROVE RegistryInv' OBVIOUS
<1> USE DEF git, out, Go, Fail
<1>1. CASE Push \/ MoveTag \/ Edit \/ UNCHANGED vars
  BY <1>1, RegistryRests DEF Push, MoveTag, Edit, vars
<1>2. ASSUME NEW cmd \in S.cmds, Start(cmd) PROVE RegistryInv'
  BY <1>2 DEF Start, FreshRegistry, RegistryInv, BeforeFiles, Loading
<1>3. CASE PrepareContext BY <1>3, RegistryWaits DEF PrepareContext, BeforeFiles
<1>4. CASE Resolve
  <2>1. UNCHANGED reg /\ pc \in BeforeFiles \ {"files"}
    BY <1>4 DEF Resolve, Clone, CloneFails, DiesCloning, Fetch, Checkout, ReadManifests, WriteLock, BeforeFiles
  <2>2. pc' \in (BeforeFiles \ {"files"}) \union {"failed", "dead", "resolved"}
    BY <1>4 DEF Resolve, Clone, CloneFails, DiesCloning, Fetch, Checkout, ReadManifests, WriteLock, BeforeFiles
  <2> QED BY <2>1, <2>2, RegistryWaits
<1>5. CASE LoadMacros
  <2>1. pc = "macros" /\ pc' = "files" /\ UNCHANGED <<sc, repo, ctx>> BY <1>5 DEF LoadMacros
  <2> DEFINE M == MacrosOf("project", MacrosOf("kit", MacrosOf("base", Empty)))
  <2>2. M' = M BY <2>1 DEF MacrosOf, MacroFiles, Defined, TemplateOf, S
  <2>3. reg' = [reg EXCEPT !.macros = M] BY <1>5 DEF LoadMacros
  <2>4. reg.nodes = Empty /\ reg.step = 1 BY <2>1 DEF RegistryInv, BeforeFiles
  <2> HIDE DEF M
  <2>5. reg'.macros = M /\ reg'.nodes = reg.nodes /\ reg'.step = reg.step BY <2>3 DEF Shaped
  <2>6. reg'.macros = M' BY <2>2, <2>5
  <2> USE DEF M
  <2> QED BY <2>1, <2>4, <2>5, <2>6 DEF RegistryInv, BeforeFiles, Loading
<1>6. CASE LoadFiles
  <2>1. pc = "files" /\ pc' = "discover" /\ UNCHANGED <<sc, repo, ctx>> BY <1>6 DEF LoadFiles
  <2> DEFINE M == MacrosOf("project", MacrosOf("kit", MacrosOf("base", Empty)))
             R == [s \in DOMAIN S.sources |-> ResolvedSource(S.sources[s])]
  <2>2. M' = M /\ R' = R BY <2>1 DEF MacrosOf, MacroFiles, Defined, TemplateOf, S
  <2>3. reg' = [reg EXCEPT !.sources = R] BY <1>6 DEF LoadFiles
  <2>4. reg.nodes = Empty /\ reg.step = 1 /\ reg.macros = M BY <2>1 DEF RegistryInv, BeforeFiles
  <2> HIDE DEF M, R
  <2>5. reg'.sources = R /\ reg'.nodes = reg.nodes /\ reg'.step = reg.step /\ reg'.macros = reg.macros
    BY <2>3 DEF Shaped
  <2>6. Found(0)'
    <3>1. Known' = {} BY <2>4, <2>5 DEF Known, Empty, None
    <3>2. \A x \in S.files : Turn(x) \in 1..6
      <4>1. \A x \in S.files : x.py \in BOOLEAN /\ \E i \in 1..3 : x.owner = Owners[i] BY Layouts DEF TypeOK, S
      <4> QED BY <4>1, TurnIs
    <3>3. \A n : Given(n, 0) = {} BY <3>2 DEF Given
    <3>4. \A n : Given(n, 0)' = {} BY <2>1, <3>3 DEF Given, FilesOf, ForEngine, S
    <3> QED BY <3>1, <3>4 DEF Found
  <2>7. reg'.macros = M' /\ reg'.sources = R' /\ reg'.step = 1 BY <2>2, <2>4, <2>5
  <2> USE DEF M, R
  <2> QED BY <2>1, <2>6, <2>7 DEF RegistryInv, BeforeFiles, Loading
<1>7. CASE Discover
  <2>1. pc = "discover" /\ UNCHANGED <<sc, repo, ctx>> BY <1>7 DEF Discover
  <2>2. CASE pc' = "failed" BY <2>2 DEF RegistryInv, BeforeFiles, Loading
  <2>3. CASE pc' # "failed"
    <3>0. PICK k \in 1..6 : reg.step = k BY <2>1 DEF RegistryInv
    <3> DEFINE names == {x.name : x \in Mine(k)}
               M == MacrosOf("project", MacrosOf("kit", MacrosOf("base", Empty)))
               R == [s \in DOMAIN S.sources |-> ResolvedSource(S.sources[s])]
    <3>1. Found(k - 1) /\ reg.macros = M /\ reg.sources = R BY <2>1, <3>0 DEF RegistryInv, Loading
    <3>2. /\ \A x \in Mine(k) : ~Clash(x, Mine(k))
          /\ \E last \in [names -> Mine(k)] :
               /\ \A n \in names : last[n].name = n
               /\ reg'.nodes = Over(reg.nodes, [n \in names |-> Node(last[n])])
          /\ reg'.step = IF k < 6 THEN k + 1 ELSE k
          /\ reg'.macros = reg.macros /\ reg'.sources = reg.sources
          /\ pc' = IF k = 6 THEN "validate" ELSE "discover"
      BY <1>7, <2>3, <3>0, DiscoverGives
    <3>3. Found(k)'
      <4> QED BY <2>1, <3>1, <3>2, TurnAdds
    <3>4. M' = M /\ R' = R BY <2>1 DEF MacrosOf, MacroFiles, Defined, TemplateOf, S
    <3>5. reg'.macros = M' /\ reg'.sources = R'
      <4> HIDE DEF M, R
      <4> QED BY <3>1, <3>2, <3>4
    <3>6. pc' = "discover" => reg'.step \in 1..6 /\ reg'.step - 1 = k BY <3>1, <3>2
    <3>7. pc' = "discover" => Found(reg.step - 1)'
      <4>1. Found(k)' => (reg'.step - 1 = k => Found(reg.step - 1)') BY DEF Found, Given
      <4> QED BY <3>3, <3>6, <4>1
    <3>8. pc' = "validate" => k = 6 BY <3>1, <3>2
    <3>9. pc' = "validate" => Found(6)'
      <4>1. Found(k)' => (k = 6 => Found(6)') BY DEF Found
      <4> QED BY <3>3, <3>8, <4>1
    <3>10. pc' \in {"validate", "discover"} BY <3>2
    <3> QED BY <3>5, <3>6, <3>7, <3>9, <3>10 DEF RegistryInv, BeforeFiles, Loading
  <2> QED BY <2>2, <2>3
<1>8. CASE ValidateDependencies
  <2>1. pc = "validate" /\ UNCHANGED <<sc, repo, reg, ctx>> BY <1>8 DEF ValidateDependencies
  <2>2. CASE pc' = "settings"
    <3>1. \A n \in Known : reg.nodes[n].deps \subseteq Known BY <1>8, <2>2 DEF ValidateDependencies
    <3>2. Known' = Known /\ S' = S BY <2>1 DEF Known, S
    <3>3. (MacrosOf("project", MacrosOf("kit", MacrosOf("base", Empty))))'
        = MacrosOf("project", MacrosOf("kit", MacrosOf("base", Empty)))
      BY <3>2 DEF MacrosOf, MacroFiles, Defined, TemplateOf
    <3>4. Found(6)' BY <2>1, SameFound DEF RegistryInv
    <3> QED BY <2>1, <2>2, <3>1, <3>2, <3>3, <3>4 DEF RegistryInv, BeforeFiles, Loading
  <2>3. CASE pc' = "failed" BY <2>3 DEF RegistryInv, BeforeFiles, Loading
  <2> QED BY <1>8, <2>2, <2>3 DEF ValidateDependencies
<1>9. CASE ReadSettings
  <2>1. UNCHANGED <<sc, repo, reg>> /\ pc = "settings" /\ pc' \in {"seeding", "ready"}
    BY <1>9 DEF ReadSettings
  <2>2. ctx'.prof = ctx.prof BY <1>9 DEF ReadSettings, Shaped
  <2> QED BY <2>1, <2>2, RegistryRests
<1>10. CASE SeedFails \/ DropSeedTable \/ LoadSeed \/ SeedingEnds
  BY <1>10, RegistryRests DEF SeedFails, DropSeedTable, LoadSeed, SeedingEnds
<1>11. CASE Dies BY <1>11, RegistryRests DEF Dies
<1> QED BY <1>1, <1>2, <1>3, <1>4, <1>5, <1>6, <1>7, <1>8, <1>9, <1>10, <1>11 DEF Next, Load

LEMMA NodeOfLastOwner == TypeOK /\ RegistryInv => LastOwnerWins
<1> SUFFICES ASSUME TypeOK, RegistryInv, pc = "ready", NEW n \in {x.name : x \in S.files}
             PROVE  LET offering == {o \in DOMAIN Owners : Offers(Owners[o], n) # {}}
                    IN IF offering = {} THEN n \notin Known
                       ELSE /\ n \in Known
                            /\ reg.nodes[n].id \in {x.id : x \in Offers(Owners[CHOOSE o \in offering :
                                                                 \A p \in offering : p <= o], n)}
                            /\ Cardinality(Offers("project", n)) <= 1
                            /\ reg.nodes[n].deps \subseteq Known
  BY DEF LastOwnerWins
<1> DEFINE offering == {o \in DOMAIN Owners : Offers(Owners[o], n) # {}}
           last == CHOOSE o \in offering : \A p \in offering : p <= o
           G == Given(n, 6)
<1>1. \A x \in S.files : x.py \in BOOLEAN /\ \E i \in 1..3 : x.owner = Owners[i] BY Layouts DEF TypeOK, S
<1>2. \A x \in S.files : /\ Turn(x) \in 1..6 /\ Rank(x.owner) \in 1..3
                         /\ Owners[Rank(x.owner)] = x.owner
  BY <1>1, TurnIs
<1>3. \A x : x \in G <=> x \in S.files /\ x.name = n /\ x \in FilesOf(x.owner) /\ ForEngine(x)
  BY <1>2 DEF Given
<1>4. \A o : Offers(o, n) = {x \in G : x.owner = o}
  <2>1. \A x, o : x \in FilesOf(o) => x \in S.files /\ x.owner = o BY DEF FilesOf
  <2> HIDE DEF G
  <2> QED BY <1>3, <2>1 DEF Offers
<1>5. /\ n \in Known <=> G # {}
      /\ n \in Known => \E x \in G : reg.nodes[n] = Node(x) /\ \A y \in G : Turn(y) <= Turn(x)
      /\ \A x, y \in G : x.owner = "project" /\ y.owner = "project" => x = y
  BY DEF RegistryInv, Found
<1>6. \A m \in Known : reg.nodes[m].deps \subseteq Known BY DEF RegistryInv
<1>7. \A o \in 1..3 : Rank(Owners[o]) = o
  <2>1. 1..3 = {1, 2, 3} OBVIOUS
  <2> QED BY <2>1, Ranks
<1>8. DOMAIN Owners = 1..3 BY DEF Owners
<1> HIDE DEF G
<1>9. \A x \in G : Rank(x.owner) \in offering BY <1>2, <1>3, <1>4, <1>8
<1>10. offering = {} => n \notin Known BY <1>5, <1>9
<1>11. offering # {} => n \in Known BY <1>4, <1>5
<1>12. ASSUME n \in Known
       PROVE  reg.nodes[n].id \in {x.id : x \in Offers(Owners[last], n)}
  <2>1. PICK x \in G : reg.nodes[n] = Node(x) /\ \A y \in G : Turn(y) <= Turn(x) BY <1>5, <1>12
  <2>2. \A y \in G : Rank(y.owner) <= Rank(x.owner) BY <1>1, <1>3, <2>1, LaterTurnLaterOwner
  <2>3. \A p \in offering : \E y \in G : p = Rank(y.owner) BY <1>4, <1>7, <1>8
  <2>4. Rank(x.owner) \in offering /\ \A p \in offering : p <= Rank(x.owner) BY <1>9, <2>2, <2>3
  <2>5. offering \subseteq 1..3 /\ Rank(x.owner) \in 1..3 BY <1>2, <1>3, <1>8
  <2> HIDE DEF offering
  <2>6. last = Rank(x.owner)
    <3>1. last \in offering /\ \A p \in offering : p <= last BY <2>4
    <3> DEFINE r == Rank(x.owner)
    <3> HIDE DEF last, r
    <3>2. r \in offering /\ (\A p \in offering : p <= r) /\ r \in 1..3 /\ last \in 1..3
      BY <2>4, <2>5, <3>1 DEF r
    <3>3. r <= last /\ last <= r BY <3>1, <3>2
    <3>4. r = last BY <3>2, <3>3
    <3> QED BY <3>4 DEF r
  <2>7. x \in Offers(Owners[last], n) BY <1>2, <1>3, <1>4, <2>6
  <2>8. reg.nodes[n].id = x.id BY <2>1 DEF Node
  <2> QED BY <2>7, <2>8
<1>13. Cardinality(Offers("project", n)) <= 1
  <2>1. Offers("project", n) = {} \/ \E x : Offers("project", n) = {x}
    <3>1. \A x, y \in Offers("project", n) : x = y BY <1>4, <1>5
    <3> QED BY <3>1
  <2> QED BY <2>1, FS_EmptySet, FS_Singleton
<1> HIDE DEF offering, last
<1> QED BY <1>6, <1>10, <1>11, <1>12, <1>13 DEF offering, last

-----------------------------------------------------------------------------
(* Sources.                                                                  *)

LEMMA FirstOfSix ==
  ASSUME NEW a, NEW b, NEW c, NEW d, NEW e, NEW f
  PROVE  FirstSet(<<a, b, c, d, e, f>>) =
           IF IsSet(a) THEN a ELSE IF IsSet(b) THEN b ELSE IF IsSet(c) THEN c
           ELSE IF IsSet(d) THEN d ELSE IF IsSet(e) THEN e ELSE IF IsSet(f) THEN f ELSE Unset
<1> DEFINE s == <<a, b, c, d, e, f>>
           First(i) == IsSet(s[i]) /\ \A j \in 1..(i - 1) : ~IsSet(s[j])
           pick == CHOOSE i \in DOMAIN s : First(i)
<1>1. /\ s[1] = a /\ s[2] = b /\ s[3] = c /\ s[4] = d /\ s[5] = e /\ s[6] = f
      /\ DOMAIN s = {1, 2, 3, 4, 5, 6}
  <2>1. DOMAIN s = 1..6 /\ 1..6 = {1, 2, 3, 4, 5, 6} OBVIOUS
  <2> QED BY <2>1
<1>2. FirstSet(s) = IF \E i \in DOMAIN s : IsSet(s[i]) THEN s[pick] ELSE Unset BY DEF FirstSet
<1>3. 1..(1 - 1) = {} /\ 1..(2 - 1) = {1} /\ 1..(3 - 1) = {1, 2} /\ 1..(4 - 1) = {1, 2, 3}
      /\ 1..(5 - 1) = {1, 2, 3, 4} /\ 1..(6 - 1) = {1, 2, 3, 4, 5}
  OBVIOUS
<1> HIDE DEF s
<1>4. /\ First(1) <=> IsSet(a)
      /\ First(2) <=> IsSet(b) /\ ~IsSet(a)
      /\ First(3) <=> IsSet(c) /\ ~IsSet(a) /\ ~IsSet(b)
      /\ First(4) <=> IsSet(d) /\ ~IsSet(a) /\ ~IsSet(b) /\ ~IsSet(c)
      /\ First(5) <=> IsSet(e) /\ ~IsSet(a) /\ ~IsSet(b) /\ ~IsSet(c) /\ ~IsSet(d)
      /\ First(6) <=> IsSet(f) /\ ~IsSet(a) /\ ~IsSet(b) /\ ~IsSet(c) /\ ~IsSet(d) /\ ~IsSet(e)
  <2> HIDE DEF IsSet
  <2> QED BY <1>1, <1>3
<1>5. pick = CHOOSE i \in {1, 2, 3, 4, 5, 6} : First(i) BY <1>1
<1> HIDE DEF pick, First, IsSet
<1>6. ASSUME NEW i \in {1, 2, 3, 4, 5, 6}, First(i) PROVE First(pick) /\ pick \in {1, 2, 3, 4, 5, 6}
  BY <1>5, <1>6
<1>7. FirstSet(s) = IF IsSet(a) THEN a ELSE IF IsSet(b) THEN b ELSE IF IsSet(c) THEN c
           ELSE IF IsSet(d) THEN d ELSE IF IsSet(e) THEN e ELSE IF IsSet(f) THEN f ELSE Unset
  BY <1>1, <1>2, <1>4, <1>6
<1> QED BY <1>7 DEF s

LEMMA SourcesLayered == TypeOK /\ RegistryInv => SourceIsLayered
<1> SUFFICES ASSUME TypeOK, RegistryInv, pc = "ready", NEW s \in DOMAIN S.sources,
                    NEW x \in SourceFields \ {"schema"}
             PROVE  LET src == S.sources[s]
                        found == FirstSet(<<src.tableOver["engine"][x], src.groupOver["engine"][x],
                                            src.tableOver["*"][x], src.groupOver["*"][x],
                                            src.table[x], src.group[x]>>)
                    IN IsSet(found) => reg.sources[s][x] = found
  BY DEF SourceIsLayered
<1> DEFINE src == S.sources[s]
           Blocks == [SourceFields -> STRING]
           base == Layer(src.group, TableFields(src.table))
           te == src.tableOver["engine"]
           ge == src.groupOver["engine"]
           ts == src.tableOver["*"]
           gs == src.groupOver["*"]
           found == FirstSet(<<te[x], ge[x], ts[x], gs[x], src.table[x], src.group[x]>>)
<1>1. /\ src.group \in Blocks /\ src.table \in Blocks
      /\ src.groupOver \in [SourceKeys -> Blocks] /\ src.tableOver \in [SourceKeys -> Blocks]
  BY ScenariosAssumption DEF TypeOK, S
<1>2. te \in Blocks /\ ge \in Blocks /\ ts \in Blocks /\ gs \in Blocks BY <1>1 DEF SourceKeys
<1>3. reg.sources[s] = ResolvedSource(src) BY DEF RegistryInv, Loading
<1>4. ResolvedSource(src) = Layer(Layer(SourceBase(src), Layer(gs, ts)), Layer(ge, te))
  BY DEF ResolvedSource, Overrides
<1> HIDE DEF te, ge, ts, gs, src
<1>5. /\ base[x] = IF IsSet(src.table[x]) THEN src.table[x] ELSE src.group[x]
      /\ DOMAIN base = SourceFields
  <2>1. TableFields(src.table)[x] = src.table[x] BY <1>1 DEF TableFields
  <2> QED BY <1>1, <2>1 DEF Layer
<1>6. /\ SourceBase(src)[x] = base[x] \/ ~IsSet(base[x])
      /\ DOMAIN SourceBase(src) = SourceFields
  <2> DEFINE b == base
  <2>1. SourceBase(src) = IF IsSet(b["identifier"]) \/ IsSet(b["location"]) THEN b
                          ELSE [b EXCEPT !["identifier"] = "tableName"]
    BY DEF SourceBase
  <2> HIDE DEF base
  <2>2. CASE IsSet(b["identifier"]) \/ IsSet(b["location"]) BY <1>5, <2>1, <2>2
  <2>3. CASE ~IsSet(b["identifier"]) /\ ~IsSet(b["location"])
    <3>1. SourceBase(src) = [b EXCEPT !["identifier"] = "tableName"] BY <2>1, <2>3
    <3>2. x = "identifier" \/ SourceBase(src)[x] = b[x] BY <1>5, <3>1
    <3> QED BY <1>5, <2>3, <3>1, <3>2
  <2> QED BY <2>2, <2>3
<1> DEFINE B == SourceBase(src)
           W == Layer(B, Layer(gs, ts))
<1> HIDE DEF base, B
<1>7. /\ Layer(gs, ts)[x] = IF IsSet(ts[x]) THEN ts[x] ELSE gs[x]
      /\ Layer(ge, te)[x] = IF IsSet(te[x]) THEN te[x] ELSE ge[x]
  BY <1>2 DEF Layer
<1>8. DOMAIN B = SourceFields BY <1>6 DEF B
<1>9. W[x] = (IF IsSet(Layer(gs, ts)[x]) THEN Layer(gs, ts)[x] ELSE B[x]) /\ DOMAIN W = SourceFields
  BY <1>8 DEF Layer
<1> HIDE DEF W
<1>10. Layer(W, Layer(ge, te))[x] = IF IsSet(Layer(ge, te)[x]) THEN Layer(ge, te)[x] ELSE W[x]
  <2> DEFINE o == Layer(ge, te)
  <2> HIDE DEF o
  <2>1. Layer(W, o)[x] = IF IsSet(o[x]) THEN o[x] ELSE W[x] BY <1>9 DEF Layer
  <2> QED BY <2>1 DEF o
<1>11. reg.sources[s][x] = Layer(W, Layer(ge, te))[x] BY <1>3, <1>4 DEF W, B
<1>12. B[x] = base[x] \/ ~IsSet(base[x]) BY <1>6 DEF B
<1>13. found = IF IsSet(te[x]) THEN te[x] ELSE IF IsSet(ge[x]) THEN ge[x] ELSE IF IsSet(ts[x]) THEN ts[x]
           ELSE IF IsSet(gs[x]) THEN gs[x] ELSE IF IsSet(src.table[x]) THEN src.table[x]
           ELSE IF IsSet(src.group[x]) THEN src.group[x] ELSE Unset
  BY FirstOfSix
<1>14. IsSet(found) => reg.sources[s][x] = found
  <2> HIDE DEF found
  <2> QED BY <1>5, <1>7, <1>9, <1>10, <1>11, <1>12, <1>13 DEF IsSet
<1> QED BY <1>14 DEF te, ge, ts, gs, src

-----------------------------------------------------------------------------
(* Macros.                                                                   *)

LEMMA MacroOwners ==
  ASSUME TypeOK
  PROVE  /\ \A m \in S.macros : Rank(m.owner) \in 1..3 /\ Owners[Rank(m.owner)] = m.owner
         /\ \A m, o \in S.macros : m.owner = o.owner => m = o
<1>1. \A m, o \in S.macros : (\E i \in 1..3 : m.owner = Owners[i]) /\ (m.owner = o.owner => m = o)
  BY Layouts DEF TypeOK, S
<1>2. \A i \in 1..3 : Rank(Owners[i]) = i
  <2>1. 1..3 = {1, 2, 3} OBVIOUS
  <2> QED BY <2>1, Ranks
<1>3. ASSUME NEW m \in S.macros PROVE Rank(m.owner) \in 1..3 /\ Owners[Rank(m.owner)] = m.owner
  <2>1. PICK i \in 1..3 : m.owner = Owners[i] BY <1>1
  <2> QED BY <1>2, <2>1
<1> QED BY <1>1, <1>3

\* The first root that has a file of this name.
LEMMA TemplateIs ==
  ASSUME TypeOK, NEW m \in S.macros
  PROVE  TemplateOf(m) \in S.macros /\ TemplateOf(m).rel = m.rel
<1> DEFINE Same == {o \in S.macros : o.rel = m.rel}
           Least(t) == t.rel = m.rel /\ \A o \in S.macros : o.rel = m.rel => Rank(t.owner) <= Rank(o.owner)
<1>1. \A o \in Same : Rank(o.owner) \in {1, 2, 3} BY MacroOwners
<1>2. m \in Same OBVIOUS
<1>3. \E t \in S.macros : Least(t)
  <2>1. CASE \E t \in Same : Rank(t.owner) = 1
    <3>1. PICK t \in Same : Rank(t.owner) = 1 BY <2>1
    <3>2. Least(t) BY <1>1, <3>1
    <3> QED BY <3>2
  <2>2. CASE ~(\E t \in Same : Rank(t.owner) = 1) /\ \E t \in Same : Rank(t.owner) = 2
    <3>1. PICK t \in Same : Rank(t.owner) = 2 BY <2>2
    <3>2. \A o \in Same : Rank(o.owner) \in {2, 3} BY <1>1, <2>2
    <3>3. Least(t) BY <3>1, <3>2
    <3> QED BY <3>3
  <2>3. CASE ~(\E t \in Same : Rank(t.owner) = 1) /\ ~(\E t \in Same : Rank(t.owner) = 2)
    <3>1. \A o \in Same : Rank(o.owner) = 3 BY <1>1, <2>3
    <3>2. Least(m) BY <1>2, <3>1
    <3> QED BY <3>2
  <2> QED BY <2>1, <2>2, <2>3
<1>4. TemplateOf(m) = CHOOSE t \in S.macros : Least(t) BY DEF TemplateOf
<1>5. TemplateOf(m) \in S.macros /\ Least(TemplateOf(m))
  <2> HIDE DEF Least
  <2> QED BY <1>3, <1>4
<1> QED BY <1>5

\* f is what the macros of the first k owners give.
MacrosUpTo(k, f) ==
  \A n \in DOMAIN f :
    /\ \E y \in S.macros : f[n].path = y.owner /\ f[n].code = TemplateOf(y).owner
    /\ \A x \in S.macros : Rank(x.owner) <= k /\ n \in TemplateOf(x).names => Rank(x.owner) <= Rank(f[n].path)

LEMMA OneOwnerMore ==
  ASSUME TypeOK, NEW k \in 1..3, NEW f, MacrosUpTo(k - 1, f)
  PROVE  MacrosUpTo(k, MacrosOf(Owners[k], f))
<1>1. /\ \A x \in S.macros : Rank(x.owner) \in 1..3 /\ Owners[Rank(x.owner)] = x.owner
      /\ \A m, o \in S.macros : m.owner = o.owner => m = o
  BY MacroOwners
<1>2. \A x \in S.macros : Rank(x.owner) <= k => Rank(x.owner) <= k - 1 \/ x \in MacroFiles(Owners[k])
  BY <1>1 DEF MacroFiles
<1>3. CASE MacroFiles(Owners[k]) = {}
  <2>1. MacrosOf(Owners[k], f) = f BY <1>3 DEF MacrosOf
  <2> QED BY <1>2, <1>3, <2>1 DEF MacrosUpTo
<1>4. CASE MacroFiles(Owners[k]) # {}
  <2> DEFINE m == CHOOSE m \in MacroFiles(Owners[k]) : TRUE
             d == Defined(m)
             g == Over(f, d)
  <2>1. MacrosOf(Owners[k], f) = g BY <1>4 DEF MacrosOf
  <2>2. m \in MacroFiles(Owners[k]) BY <1>4
  <2> HIDE DEF m
  <2>3. m \in S.macros /\ m.owner = Owners[k] BY <2>2 DEF MacroFiles
  <2>4. \A x \in MacroFiles(Owners[k]) : x = m BY <1>1, <2>3 DEF MacroFiles
  <2>5. Rank(m.owner) = k
    <3>1. 1..3 = {1, 2, 3} OBVIOUS
    <3> QED BY <2>3, <3>1, Ranks
  <2>6. /\ DOMAIN d = TemplateOf(m).names
        /\ \A n \in DOMAIN d : d[n].path = m.owner /\ d[n].code = TemplateOf(m).owner
    BY DEF Defined
  <2> HIDE DEF d
  <2>7. /\ DOMAIN g = DOMAIN f \union DOMAIN d
        /\ \A n \in DOMAIN d : g[n] = d[n]
        /\ \A n \in DOMAIN f \ DOMAIN d : g[n] = f[n]
    BY DEF Over
  <2> HIDE DEF g
  <2>8. ASSUME NEW n \in DOMAIN g
        PROVE  /\ \E y \in S.macros : g[n].path = y.owner /\ g[n].code = TemplateOf(y).owner
               /\ \A x \in S.macros : Rank(x.owner) <= k /\ n \in TemplateOf(x).names => Rank(x.owner) <= Rank(g[n].path)
    <3>1. CASE n \in DOMAIN d BY <2>3, <2>5, <2>6, <2>7, <3>1
    <3>2. CASE n \notin DOMAIN d
      <4>1. n \in DOMAIN f /\ g[n] = f[n] /\ n \notin TemplateOf(m).names BY <2>6, <2>7, <3>2
      <4>2. \A x \in S.macros : n \in TemplateOf(x).names => x \notin MacroFiles(Owners[k]) BY <2>4, <4>1
      <4> QED BY <1>2, <4>1, <4>2 DEF MacrosUpTo
    <3> QED BY <3>1, <3>2
  <2> QED BY <2>1, <2>8 DEF MacrosUpTo
<1> QED BY <1>3, <1>4

LEMMA MacrosLastOwner == TypeOK /\ RegistryInv => MacroOfLastOwner
<1> SUFFICES ASSUME TypeOK, RegistryInv, pc = "ready", NEW n \in DOMAIN reg.macros
             PROVE  LET m == reg.macros[n]
                    IN /\ \A x \in S.macros : n \in TemplateOf(x).names => Rank(x.owner) <= Rank(m.path)
                       /\ m.code # m.path => \E x, y \in S.macros : x.rel = y.rel /\ x.owner # y.owner
  BY DEF MacroOfLastOwner
<1> DEFINE M == reg.macros
           M0 == Empty
           M1 == MacrosOf("base", M0)
           M2 == MacrosOf("kit", M1)
<1>1. M = MacrosOf("project", M2) BY DEF RegistryInv, Loading
<1>2. MacrosUpTo(0, M0) BY DEF MacrosUpTo, Empty, None
<1> HIDE DEF M0, M
<1>3. MacrosUpTo(1, M1)
  <2>1. MacrosUpTo(1 - 1, M0) BY <1>2
  <2> QED BY <2>1, OneOwnerMore, Ranks
<1> HIDE DEF M1
<1>4. MacrosUpTo(2, M2)
  <2>1. MacrosUpTo(2 - 1, M1) BY <1>3
  <2> QED BY <2>1, OneOwnerMore, Ranks
<1> HIDE DEF M2
<1>5. MacrosUpTo(3, M)
  <2>1. MacrosUpTo(3 - 1, M2) BY <1>4
  <2> QED BY <1>1, <2>1, OneOwnerMore, Ranks
<1>6. \A x \in S.macros : Rank(x.owner) \in 1..3 BY MacroOwners
<1>7. n \in DOMAIN M BY DEF M
<1>8. PICK y \in S.macros : M[n].path = y.owner /\ M[n].code = TemplateOf(y).owner
  BY <1>5, <1>7 DEF MacrosUpTo
<1>9. \A x \in S.macros : n \in TemplateOf(x).names => Rank(x.owner) <= Rank(M[n].path)
  BY <1>5, <1>6, <1>7 DEF MacrosUpTo
<1>10. M[n].code # M[n].path => \E x, z \in S.macros : x.rel = z.rel /\ x.owner # z.owner
  BY <1>8, TemplateIs
<1> QED BY <1>9, <1>10 DEF M

-----------------------------------------------------------------------------

\* When the project is loaded, what a name stands for, be it a model, a macro or a
\* field of a source, is what its nearest definition says, in whatever order the files
\* were found (core.py, load_project).
THEOREM NearestWins == Spec => []NearestDefinitionWins
<1>1. Init => RegistryInv
  BY DEF Init, RegistryInv, BeforeFiles, Loading
<1>2. TypeOK /\ Shaped /\ RegistryInv => NearestDefinitionWins
  BY NodeOfLastOwner, MacrosLastOwner, SourcesLayered DEF NearestDefinitionWins
<1> QED BY <1>1, <1>2, Types, RegistryStays, PTL DEF Spec
=============================================================================
