------------------------------ MODULE Project ------------------------------
(***************************************************************************)
(* How an invocation finds its project: cli/bootstrap.py's                 *)
(* _prepare_context settles .env files, profile and engine; packages.py    *)
(* and config/packages.py clone, fetch, check out, check and lock the      *)
(* packages; Registry.load_project of core.py loads macros, sources.yml,   *)
(* project.yml and the models of packages and project and validates the    *)
(* dependencies; budgets and artifacts follow, and fft seed loads the      *)
(* seeds.  fft deps only resolves the packages.                            *)
(*                                                                         *)
(* packages.yml names two packages: "base", a path, and "kit", a git       *)
(* repository with one branch whose commits are 1, 2, ... and one tag.     *)
(* Between invocations, and while one runs, upstream moves and packages.yml*)
(* is edited; a process may die.                                           *)
(***************************************************************************)
EXTENDS Config

CONSTANTS Scenarios,   \* project layouts, by name
          MaxCommit    \* bound: commits of the repository

ASSUME MaxCommitAssumption == MaxCommit \in Nat \ {0}

(* A file is [id, owner, name, py, engines, deps, since, meta]: since is the
   commit of kit that adds it.  A macro file is [owner, rel, names].  kit and
   base are manifests: [version, needs], per commit for kit; needs are pairs
   <<package, constraints>>.  A spec is packages.yml's entry for kit:
   [sel, at, range].  conf is what the invocation is told: [process, dotenv,
   profiles, hint, own, entry, default, limit, unit].  seeds is the sequence
   of seed files [id, dotted, stem, bad], bad the engines whose column types a
   file cannot be cast to; targets is seeds/schema.yml.  cmds are the commands
   that are tried, starts bounds how many.                                   *)

Owners == <<"base", "kit", "project">>   \* packages by name, then the project
Packages == {"base", "kit"}
Versions == Nat \X Nat \X Nat

\* What the properties rely on: files and macros have an owner, an owner at most one
\* macro file (of several, the order of their paths decides), a package has one of
\* the five selectors, the commits' manifests have versions, settings are blocks of text.
ASSUME ScenariosAssumption ==
  \A s \in DOMAIN Scenarios :
    LET L == Scenarios[s]
        Blocks == [SourceFields -> STRING]
    IN /\ L.starts \in Nat /\ L.seeds \in Seq([id : STRING, dotted : STRING, stem : STRING, bad : SUBSET STRING])
       /\ \A p \in L.specs : p.at \in Nat \ {0} /\ p.sel \in {"rev", "tag", "ref", "branch", "none"}
       /\ L.pin \in Versions /\ \A i \in 1..MaxCommit : L.kit[i].version \in Versions
       /\ \A x \in L.files : x.py \in BOOLEAN /\ \E i \in 1..3 : x.owner = Owners[i]
       /\ \A m, o \in L.macros : (\E i \in 1..3 : m.owner = Owners[i]) /\ (m.owner = o.owner => m = o)
       /\ \A name \in DOMAIN L.conf.profiles :
            /\ DOMAIN L.conf.profiles[name] = {"engine", "sections", "art"}
            /\ \A e \in DOMAIN L.conf.profiles[name].sections :
                 DOMAIN L.conf.profiles[name].sections[e] = {"place", "dsn"}
       /\ \A src \in DOMAIN L.sources :
            /\ L.sources[src].group \in Blocks /\ L.sources[src].table \in Blocks
            /\ L.sources[src].groupOver \in [SourceKeys -> Blocks]
            /\ L.sources[src].tableOver \in [SourceKeys -> Blocks]

VARIABLES sc,        \* the layout
          up,        \* upstream: [main, tag]
          spec,      \* packages.yml
          repo,      \* the clone: [there, main, origin, tag, head, have]
          lock,      \* packages.lock.yml: [rev, version, failed]; rev 0: none
          pc, starts,
          want,      \* the spec the process has read; what it runs
          fetched,   \* the head of upstream's branch if it was reached, 0 if not
          reg,       \* the registry: [nodes, macros, sources, step]
          ctx,       \* the CLIContext: [prof, store, limit], and what the executor enforces
          db         \* the seeds: [loaded, dropped, of], of a function from tables to files

git == <<up, spec>>
out == <<ctx, db>>
vars == <<sc, git, repo, lock, pc, starts, want, fetched, reg, out>>

S == Scenarios[sc]
NoRepo == [there |-> FALSE, main |-> 0, origin |-> 0, tag |-> 0, head |-> 0, have |-> 0]
None == {}    \* the empty function
Empty == [x \in None |-> x]
FreshRegistry == [nodes |-> Empty, macros |-> Empty, sources |-> Empty, step |-> 1]
NoCommand == [cmd |-> "none", sel |-> "none", at |-> 0, range |-> "any"]
NoContext == [prof |-> BuiltIn, store |-> FALSE, limit |-> NoLimit,
              enforce |-> NotEnforced]
Resting == pc \in {"idle", "ready", "resolved", "seeded", "failed", "dead"}

Init ==
  /\ sc \in DOMAIN Scenarios /\ up = [main |-> 1, tag |-> 1]
  /\ spec \in Scenarios[sc].specs
  /\ repo = NoRepo /\ lock = [rev |-> 0, version |-> <<0, 0, 0>>, failed |-> FALSE]
  /\ pc = "idle" /\ starts = 0 /\ want = NoCommand /\ fetched = 0 /\ reg = FreshRegistry
  /\ ctx = NoContext /\ db = [loaded |-> 0, dropped |-> FALSE, of |-> Empty]

Go(next) == pc' = next
Fail == pc' = "failed"

-----------------------------------------------------------------------------
(* Versions: x.y.z, compared component by component; ^ and ~ are ranges.     *)

Before(a, b) == \E i \in 1..3 : a[i] < b[i] /\ \A j \in 1..(i - 1) : a[j] = b[j]
NextBreaking(v) == CASE v[1] > 0 -> <<v[1] + 1, 0, 0>>
                     [] v[1] = 0 /\ v[2] > 0 -> <<0, v[2] + 1, 0>>
                     [] OTHER -> <<0, 0, v[3] + 1>>
Caret(v) == {<<">=", v>>, <<"<", NextBreaking(v)>>}
Tilde(v) == {<<">=", v>>, <<"<", <<v[1], v[2] + 1, 0>> >>}
Exactly(v) == {<<"==", v>>}
Holds(actual, c) == CASE c[1] = "==" -> actual = c[2] [] c[1] = "!=" -> actual # c[2]
                      [] c[1] = ">" -> Before(c[2], actual) [] c[1] = "<" -> Before(actual, c[2])
                      [] c[1] = ">=" -> ~Before(actual, c[2]) [] c[1] = "<=" -> ~Before(c[2], actual)
Satisfies(actual, constraints) == \A c \in constraints : Holds(actual, c)
\* packages.yml's version expression for kit
VersionRange(range) == CASE range = "any" -> {} [] range = "caret" -> Caret(S.pin)
                  [] range = "tilde" -> Tilde(S.pin) [] range = "exact" -> Exactly(S.pin)

-----------------------------------------------------------------------------
(* The world outside: upstream and the user's edits.                         *)

Push == /\ up.main < MaxCommit /\ up' = [up EXCEPT !.main = @ + 1]
        /\ UNCHANGED <<sc, spec, repo, lock, pc, starts, want, fetched, reg, out>>
MoveTag == /\ up.tag # up.main /\ up' = [up EXCEPT !.tag = up.main]
           /\ UNCHANGED <<sc, spec, repo, lock, pc, starts, want, fetched, reg, out>>
Edit == /\ \E s \in S.specs \ {spec} : spec' = s
        /\ UNCHANGED <<sc, up, repo, lock, pc, starts, want, fetched, reg, out>>

-----------------------------------------------------------------------------
(* An invocation starts, in a process of its own; its context is prepared.   *)

Start(cmd) ==
  /\ Resting /\ starts < S.starts /\ starts' = starts + 1
  /\ want' = [cmd |-> cmd, sel |-> spec.sel, at |-> spec.at, range |-> spec.range]
  /\ reg' = FreshRegistry /\ fetched' = 0 /\ Go(IF cmd = "deps" THEN "source" ELSE "context")
  /\ ctx' = NoContext /\ db' = [db EXCEPT !.loaded = 0, !.dropped = FALSE]
  /\ UNCHANGED <<sc, git, repo, lock>>

\* --engine counts as FF_ENGINE; fft utest wants dev_utest beside dev.
Env == LET env == Environment(S.conf) IN [env EXCEPT !["engine"] = Either(S.conf.hint, @)]
BaseProfile == WithEnv(ProfileNamed(S.conf.profiles, "dev"), Env)
Profile == IF want.cmd = "utest" THEN UtestProfile(BaseProfile, S.conf.profiles["dev_utest"], Env)
           ELSE BaseProfile
PrepareContext ==
  /\ pc = "context"
  /\ IF /\ HasProfile(S.conf.profiles, "dev") /\ ValidProfile(BaseProfile)
        /\ want.cmd = "utest" => "dev_utest" \in DOMAIN S.conf.profiles
        /\ ValidProfile(Profile)
     THEN ctx' = [ctx EXCEPT !.prof = Profile] /\ Go("source")
     ELSE Fail /\ UNCHANGED ctx
  /\ UNCHANGED <<sc, git, repo, lock, starts, want, fetched, reg, db>>

\* git clone --no-tags; without a network it fails and leaves nothing
Clone ==
  /\ pc = "source" /\ ~repo.there
  /\ repo' = [there |-> TRUE, main |-> up.main, origin |-> up.main, tag |-> 0,
              head |-> up.main, have |-> up.main]
  /\ fetched' = up.main /\ Go("checkout")
  /\ UNCHANGED <<sc, git, lock, starts, want, reg, out>>
CloneFails ==
  /\ pc = "source" /\ ~repo.there /\ Fail
  /\ UNCHANGED <<sc, git, repo, lock, starts, want, fetched, reg, out>>
\* The directory is there, its objects and references are not.
DiesCloning ==
  /\ pc = "source" /\ ~repo.there /\ Go("dead") /\ repo' = [NoRepo EXCEPT !.there = TRUE]
  /\ UNCHANGED <<sc, git, lock, starts, want, fetched, reg, out>>

\* git fetch --all --tags --prune, its errors ignored: a tag that is there is
\* never moved, and without a network everything stays.
Fetch ==
  /\ pc = "source" /\ repo.there /\ Go("checkout")
  /\ \/ /\ repo' = [repo EXCEPT !.origin = up.main, !.have = IF up.main > @ THEN up.main ELSE @,
                                !.tag = IF @ = 0 THEN up.tag ELSE @]
        /\ fetched' = up.main
     \/ UNCHANGED <<repo, fetched>>
  /\ UNCHANGED <<sc, git, lock, starts, want, reg, out>>

\* The clone after `git checkout`; head 0 stands for a reference that is not there.
\* Altered CheckedOut: the local branch is not made to follow origin's.
CheckedOutLocal ==
  CASE want.sel = "rev" -> [repo EXCEPT !.head = IF want.at <= repo.have THEN want.at ELSE 0]
    [] want.sel = "tag" -> [repo EXCEPT !.head = repo.tag]
    [] want.sel \in {"ref", "branch"} ->
         LET main == IF repo.main > 0 THEN repo.main ELSE repo.origin
         IN [repo EXCEPT !.main = main, !.head = main]
    [] want.sel = "none" -> repo
\* `ref` is taken for a rev: a branch named so is the local one, made once.
CheckedOut ==
  CASE want.sel = "rev" -> [repo EXCEPT !.head = IF want.at <= repo.have THEN want.at ELSE 0]
    [] want.sel = "tag" -> [repo EXCEPT !.head = repo.tag]
    [] want.sel = "ref" ->
         LET main == IF repo.main > 0 THEN repo.main ELSE repo.origin
         IN [repo EXCEPT !.main = main, !.head = main]
    [] want.sel = "branch" -> [repo EXCEPT !.main = repo.origin, !.head = repo.origin]
    [] want.sel = "none" -> repo
Checkout ==
  /\ pc = "checkout"
  /\ IF CheckedOut.head > 0 THEN repo' = CheckedOut /\ Go("manifest") ELSE Fail /\ UNCHANGED repo
  /\ UNCHANGED <<sc, git, lock, starts, want, fetched, reg, out>>

Manifest(p) == IF p = "base" THEN S.base ELSE S.kit[repo.head]
\* what one package asks of the others
NeedsMet(p) == \A need \in Manifest(p).needs :
                 need[1] \in Packages /\ Satisfies(Manifest(need[1]).version, need[2])
\* Altered Compatible: the needs of the packages are looked at later.
CompatibleAlone == Satisfies(Manifest("kit").version, VersionRange(want.range))
Compatible == /\ Satisfies(Manifest("kit").version, VersionRange(want.range))
              /\ \A p \in Packages : NeedsMet(p)
ReadManifests ==
  /\ pc = "manifest" /\ (IF Compatible THEN Go("lock") ELSE Fail)
  /\ UNCHANGED <<sc, git, repo, lock, starts, want, fetched, reg, out>>

\* The last step of resolve_packages, best effort; the commit is asked of git.
Locked == [rev |-> repo.head, version |-> Manifest("kit").version, failed |-> FALSE]
WriteLock ==
  /\ pc = "lock"
  /\ lock' = Locked \/ lock' = [lock EXCEPT !.failed = TRUE]
  /\ Go(IF want.cmd = "deps" THEN "resolved" ELSE "macros")
  /\ UNCHANGED <<sc, git, repo, starts, want, fetched, reg, out>>

-----------------------------------------------------------------------------
(* load_project.                                                             *)

FilesOf(owner) == {x \in S.files : x.owner = owner /\ (owner = "kit" => x.since <= repo.head)}
MacroFiles(owner) == {x \in S.macros : x.owner = owner}
Rank(owner) == CHOOSE i \in 1..3 : Owners[i] = owner

\* get_template(rel) searches the roots in order: the first that has the file.
TemplateOf(m) == CHOOSE t \in S.macros :
  t.rel = m.rel /\ \A o \in S.macros : o.rel = m.rel => Rank(t.owner) <= Rank(o.owner)
\* The macros a file's turn defines: their code is the template's, the path noted
\* is the file's.
Defined(m) == [n \in TemplateOf(m).names |-> [path |-> m.owner, code |-> TemplateOf(m).owner]]
Over(f, g) == [x \in DOMAIN f \union DOMAIN g |-> IF x \in DOMAIN g THEN g[x] ELSE f[x]]
MacrosOf(owner, known) ==
  IF MacroFiles(owner) = {} THEN known
  ELSE Over(known, Defined(CHOOSE m \in MacroFiles(owner) : TRUE))
LoadMacros ==
  /\ pc = "macros"
  /\ reg' = [reg EXCEPT !.macros = MacrosOf("project", MacrosOf("kit", MacrosOf("base", Empty)))]
  /\ Go("files")
  /\ UNCHANGED <<sc, git, repo, lock, starts, want, fetched, out>>

LoadFiles ==
  /\ pc = "files"
  /\ reg' = [reg EXCEPT !.sources = [s \in DOMAIN S.sources |-> ResolvedSource(S.sources[s])]]
  /\ Go("discover")
  /\ UNCHANGED <<sc, git, repo, lock, starts, want, fetched, out>>

\* One turn per owner and kind of file, SQL before Python.
\* Altered Turns: the project first.
TurnsProjectFirst == <<<<"project", FALSE>>, <<"project", TRUE>>, <<"base", FALSE>>,
                       <<"base", TRUE>>, <<"kit", FALSE>>, <<"kit", TRUE>>>>
Turns == <<<<"base", FALSE>>, <<"base", TRUE>>, <<"kit", FALSE>>, <<"kit", TRUE>>,
           <<"project", FALSE>>, <<"project", TRUE>>>>
Meta(x) == ModelMeta(x.meta, S.storage, S.overlay)
ForEngine(x) == x.engines = {} \/ ctx.prof.engine \in x.engines
Node(x) == [owner |-> x.owner, id |-> x.id, deps |-> x.deps, mat |-> Materialized(Meta(x))]
\* Every SQL header is checked; of Python files only the models registered here.
Refused(x) == ~ValidMeta(Meta(x)) /\ (x.py => ForEngine(x))
\* Two models of the project may not share a name.
Clash(x, mine) == x.owner = "project" /\
  \/ \E y \in mine \ {x} : y.name = x.name
  \/ x.name \in DOMAIN reg.nodes /\ reg.nodes[x.name].owner = "project"
\* Files come in the order the file system lists them: of two files of a package
\* with one name, any may be the last.
Discover ==
  /\ pc = "discover"
  /\ LET turn == Turns[reg.step]
         all == {x \in FilesOf(turn[1]) : x.py = turn[2]}
         mine == {x \in all : ForEngine(x)}
         names == {x.name : x \in mine}
     IN IF (\E x \in all : Refused(x)) \/ (\E x \in mine : Clash(x, mine))
        THEN Fail /\ UNCHANGED reg
        ELSE /\ \E last \in [names -> mine] :
                  /\ \A n \in names : last[n].name = n
                  /\ reg' = [reg EXCEPT !.nodes = Over(@, [n \in names |-> Node(last[n])]),
                                        !.step = IF @ < Len(Turns) THEN @ + 1 ELSE @]
             /\ Go(IF reg.step = Len(Turns) THEN "validate" ELSE "discover")
  /\ UNCHANGED <<sc, git, repo, lock, starts, want, fetched, out>>

Known == DOMAIN reg.nodes
ValidateDependencies ==
  /\ pc = "validate"
  /\ IF \A n \in Known : reg.nodes[n].deps \subseteq Known THEN Go("settings") ELSE Fail
  /\ UNCHANGED <<sc, git, repo, lock, starts, want, fetched, reg, out>>

\* budgets.yml, the artifacts of the base profile's file, contracts.
NamedArt == IF "dev" \in DOMAIN S.conf.profiles THEN S.conf.profiles["dev"].art ELSE BuiltIn.art
ReadSettings ==
  /\ pc = "settings"
  /\ ctx' = [ctx EXCEPT !.limit = Duration(S.conf.limit, S.conf.unit), !.store = HasStore(Artifacts(NamedArt, Env)),
                         !.enforce = Enforcement(S.conf.own, S.conf.entry, S.conf.default)]
  /\ Go(IF want.cmd = "seed" THEN "seeding" ELSE "ready")
  /\ UNCHANGED <<sc, git, repo, lock, starts, want, fetched, reg, db>>

\* seed_project: one file at a time, by path.
DefaultSchema == IF ctx.prof.engine = "postgres" THEN Place(ctx.prof) ELSE Unset
SeedFiles == {S.seeds[i] : i \in DOMAIN S.seeds}
Current == S.seeds[db.loaded + 1]
CurrentTable == SeedTarget(Current, S.targets, DefaultSchema)
BadSeed == Ambiguous(Current, SeedFiles, S.targets) \/ ctx.prof.engine \in Current.bad
Seeding == pc = "seeding" /\ db.loaded < Len(S.seeds)
SeedFails ==
  /\ Seeding /\ BadSeed /\ Fail
  /\ UNCHANGED <<sc, git, repo, lock, starts, want, fetched, reg, out>>
\* Postgres drops the table in a transaction of its own; the others replace it.
DropSeedTable ==
  /\ Seeding /\ ~BadSeed /\ ctx.prof.engine = "postgres" /\ ~db.dropped
  /\ db' = [db EXCEPT !.dropped = TRUE, !.of = [t \in DOMAIN @ \ {CurrentTable} |-> @[t]]]
  /\ UNCHANGED <<sc, git, repo, lock, pc, starts, want, fetched, reg, ctx>>
LoadSeed ==
  /\ Seeding /\ ~BadSeed /\ (ctx.prof.engine = "postgres" => db.dropped)
  /\ db' = [loaded |-> db.loaded + 1, dropped |-> FALSE,
            of |-> Over(db.of, [t \in {CurrentTable} |-> Current.id])]
  /\ UNCHANGED <<sc, git, repo, lock, pc, starts, want, fetched, reg, ctx>>
SeedingEnds ==
  /\ pc = "seeding" /\ db.loaded = Len(S.seeds) /\ Go("seeded")
  /\ UNCHANGED <<sc, git, repo, lock, starts, want, fetched, reg, out>>

\* The process is killed anywhere else.
Dies == /\ ~Resting /\ Go("dead")
        /\ UNCHANGED <<sc, git, repo, lock, starts, want, fetched, reg, out>>

Resolve == Clone \/ CloneFails \/ DiesCloning \/ Fetch \/ Checkout \/ ReadManifests \/ WriteLock
Load == LoadMacros \/ LoadFiles \/ Discover \/ ValidateDependencies \/ ReadSettings
Next == \/ Push \/ MoveTag \/ Edit
        \/ \E cmd \in S.cmds : Start(cmd)
        \/ PrepareContext \/ Resolve \/ Load \/ SeedFails \/ DropSeedTable \/ LoadSeed \/ SeedingEnds \/ Dies
Spec == Init /\ [][Next]_vars

-----------------------------------------------------------------------------
TypeOK ==
  /\ sc \in DOMAIN Scenarios /\ spec \in S.specs /\ starts \in 0..S.starts
  /\ up.main \in 1..MaxCommit /\ up.tag \in 1..up.main
  /\ repo \in [there : BOOLEAN, main : 0..MaxCommit, origin : 0..MaxCommit, tag : 0..MaxCommit,
               head : 0..MaxCommit, have : 0..MaxCommit]
  /\ lock.rev \in 0..MaxCommit /\ fetched \in 0..MaxCommit
  /\ pc \in {"idle", "context", "source", "checkout", "manifest", "lock", "macros", "files", "discover",
             "validate", "settings", "ready", "resolved", "seeding", "seeded", "failed", "dead"}
  /\ db.loaded \in 0..Len(S.seeds)

Resolved == pc \in {"macros", "files", "discover", "validate", "settings", "ready", "resolved"}

\* Whatever the clone went through before (other selectors, a clone cut short, an
\* upstream out of reach), a pinned commit is the one checked out, and a branch
\* whose upstream was reached is at the upstream's head, not at a local one.
SelectorIsHonoured ==
  Resolved => /\ want.sel = "rev" => repo.head = want.at
              /\ want.sel = "branch" /\ fetched > 0 => repo.head = fetched

\* The lock names the commit and the version the registry was filled from,
\* unless it could not be written.
LockIsWhatRuns ==
  Resolved => lock.failed \/ (lock.rev = repo.head /\ lock.version = Manifest("kit").version)

\* No lock is ever written for a set of packages whose needs contradict each other.
LockedSetIsConsistent ==
  lock.rev > 0 => \A need \in S.kit[lock.rev].needs \union S.base.needs :
     need[1] \in Packages /\
     Satisfies(IF need[1] = "kit" THEN S.kit[lock.rev].version ELSE S.base.version, need[2])

\* A caret admits what is not older and does not differ in the leftmost component
\* that is not zero.
LeftmostSet(v) == IF \E i \in 1..3 : v[i] > 0
                  THEN CHOOSE i \in 1..3 : v[i] > 0 /\ \A j \in 1..(i - 1) : v[j] = 0 ELSE 3
CaretIsCompatible ==
  Resolved /\ want.range = "caret" =>
    LET v == Manifest("kit").version
    IN ~Before(v, S.pin) /\ \A i \in 1..LeftmostSet(S.pin) : v[i] = S.pin[i]

\* packages.lock can be trusted: it names what runs, in versions that fit together.
LockTellsTruth == LockIsWhatRuns /\ LockedSetIsConsistent /\ CaretIsCompatible

\* When the project is loaded, each name is the model of the last owner that has
\* it for this engine (the project, else kit, else base), every file of the project
\* for this engine is a node, and every dependency is a node.
Offers(owner, n) == {x \in FilesOf(owner) : x.name = n /\ ForEngine(x)}
LastOwnerWins ==
  pc = "ready" => \A n \in {x.name : x \in S.files} :
    LET offering == {o \in DOMAIN Owners : Offers(Owners[o], n) # {}}
    IN IF offering = {} THEN n \notin Known
       ELSE /\ n \in Known
            /\ reg.nodes[n].id \in {x.id : x \in Offers(Owners[CHOOSE o \in offering :
                                                 \A p \in offering : p <= o], n)}
            /\ Cardinality(Offers("project", n)) <= 1
            /\ reg.nodes[n].deps \subseteq Known

\* The macro a name stands for is the one of the last owner whose file brings it; what
\* a file brings is its own unless an earlier owner has one of its name below macros/.
MacroOfLastOwner ==
  pc = "ready" => \A n \in DOMAIN reg.macros :
    LET m == reg.macros[n]
    IN /\ \A x \in S.macros : n \in TemplateOf(x).names => Rank(x.owner) <= Rank(m.path)
       /\ m.code # m.path => \E x, y \in S.macros : x.rel = y.rel /\ x.owner # y.owner

\* A source's field comes from the most specific place that has it.
SourceIsLayered ==
  pc = "ready" => \A s \in DOMAIN S.sources : \A x \in SourceFields \ {"schema"} :
    LET src == S.sources[s]
        found == FirstSet(<<src.tableOver["engine"][x], src.groupOver["engine"][x],
                            src.tableOver["*"][x], src.groupOver["*"][x],
                            src.table[x], src.group[x]>>)
    IN IsSet(found) => reg.sources[s][x] = found

\* What a name stands for is decided by how near its definition is, not by the order
\* in which files are found.
NearestDefinitionWins == LastOwnerWins /\ MacroOfLastOwner /\ SourceIsLayered

\* Where the unit tests run is what their own profile says: no variable of the
\* shell or of a .env file sends them to the place the models are built in.
UtestIgnoresEnvironment ==
  pc = "ready" /\ want.cmd = "utest" => Place(ctx.prof) = Place(S.conf.profiles["dev_utest"])

\* The unit tests run apart from what they test (settings.py:253, "the utest
\* profile MUST exist and MUST be isolated from the base one").
UtestIsIsolated ==
  pc = "ready" /\ want.cmd = "utest" /\ ctx.prof.engine = BaseProfile.engine =>
    Place(ctx.prof) # Place(BaseProfile)

\* When seeding has ended well, each file that schema.yml names by its path, with
\* slashes or else with dots, is in the table it gives there, if that is the only
\* file sent to that table.
NoSeedIsLost ==
  pc = "seeded" => \A seed \in SeedFiles :
    LET keys == {seed.id, seed.dotted} \intersect DOMAIN S.targets
        key == IF seed.id \in keys THEN seed.id ELSE seed.dotted
        table == S.targets[key].table
        others == {SeedTarget(o, S.targets, DefaultSchema).table : o \in SeedFiles \ {seed}}
    IN keys # {} /\ IsSet(table) /\ table \notin others
         => \E t \in DOMAIN db.of : t.table = table /\ db.of[t] = seed.id
=============================================================================
