------------------------ MODULE SnapshotTableProofs ------------------------
(***************************************************************************)
(* A history table, for every set of keys and values, every engine and     *)
(* both strategies.  First, that it has one current version per key: Close *)
(* leaves no open version that its source has changed, the source the      *)
(* Insert reads is the same for a key that is not torn, hence the Insert   *)
(* adds a version only where there is none open.  Second, what becomes of  *)
(* the versions of a key: a run records what it read, a step loses no      *)
(* version but by pruning, pruning leaves the newest, and a key keeps a    *)
(* current version.  Versions of a key never tie, a current one is the     *)
(* newest, and a source row is never behind a version.                     *)
(***************************************************************************)
EXTENDS SnapshotTable, FiniteSetTheorems, TLAPS

\* A version is a row, open and current (_snapshot_insert_sql).
LEMMA VersionType ==
  ASSUME TypeOK, NEW s \in SourceRow
  PROVE  /\ Version(s) \in Row
         /\ Version(s).key = s.key
         /\ Version(s).cur = TRUE
         /\ Version(s).to = 0
BY DEF TypeOK, Version, SourceRow, Row

\* What the run reads has the type of the source and one row per key.
LEMMA SourceType ==
  ASSUME TypeOK
  PROVE  Source \subseteq SourceRow /\ OneRowPerKey(Source)
BY DEF TypeOK, Source

\* Closing keeps the rows' type, and each row it makes comes from one with the
\* same key and upd, still current only if it was and nothing has changed it.
LEMMA CloseRowsType ==
  ASSUME TypeOK, NEW S, NEW t \in CloseRows(S, rows)
  PROVE  /\ t \in Row
         /\ t.cur <=> t.to = 0
         /\ t.cur => t \in rows /\ \A s \in S : s.key = t.key => ~Changed(s, t)
<1>1. PICK r \in rows :
        t = IF r.cur /\ \E s \in S : s.key = r.key /\ Changed(s, r)
              THEN [r EXCEPT !.to = now, !.cur = FALSE] ELSE r
  BY DEF CloseRows
<1>2. r \in Row /\ (r.cur <=> r.to = 0) /\ now \in Nat \ {0}
  BY DEF TypeOK
<1>3. CASE r.cur /\ \E s \in S : s.key = r.key /\ Changed(s, r)
  <2>1. t = [r EXCEPT !.to = now, !.cur = FALSE]
    BY <1>1, <1>3
  <2> QED BY <2>1, <1>2 DEF Row
<1>4. CASE ~(r.cur /\ \E s \in S : s.key = r.key /\ Changed(s, r))
  <2>1. t = r
    BY <1>1, <1>4
  <2> QED BY <2>1, <1>2, <1>4
<1> QED BY <1>3, <1>4

\* New versions of a source with one row per key differ in their keys.
LEMMA NewVersionsDiffer ==
  ASSUME TypeOK, NEW S \in SUBSET SourceRow, OneRowPerKey(S),
         NEW s1 \in S, NEW s2 \in S, Version(s1).key = Version(s2).key
  PROVE  Version(s1) = Version(s2)
<1>1. s1.key = s2.key
  BY VersionType
<1> QED BY <1>1 DEF OneRowPerKey

\* The invariant holds initially.
LEMMA InitIInv == Init => IInv
<1> SUFFICES ASSUME Init PROVE IInv
  OBVIOUS
<1>1. TypeOK
  <2>1. src \subseteq SourceRow /\ staged \subseteq SourceRow /\ rows \subseteq Row
    BY DEF Init
  <2>2. OneRowPerKey(src) /\ OneRowPerKey(staged) /\ \A t \in rows : t.cur <=> t.to = 0
    BY DEF Init, OneRowPerKey
  <2>3. created \in BOOLEAN /\ now \in Nat \ {0} /\ pc \in {"idle", "staged", "closed", "done"}
    <3>1. created \in BOOLEAN
      BY Zenon DEF Init
    <3>2. now = 1 /\ pc = "idle"
      BY DEF Init
    <3> QED BY <3>1, <3>2
  <2>4. strategy \in Strategies /\ engine \in Engines /\ torn \subseteq Keys /\ orphaned \subseteq Keys
    BY DEF Init
  <2> QED BY <2>1, <2>2, <2>3, <2>4 DEF TypeOK
<1>2. OneCurrentPerKey
  BY DEF Init, OneCurrentPerKey
<1>3. NothingLeftToClose
  BY DEF Init, NothingLeftToClose
<1>4. TwoStatements
  BY DEF Init, TwoStatements
<1> QED BY <1>1, <1>2, <1>3, <1>4 DEF IInv

\* Rows that the statements leave behind: types of the table after Insert.
LEMMA InsertedRows ==
  ASSUME TypeOK, NEW S \in SUBSET SourceRow, NEW h \in SUBSET Row,
         \A t \in h : t.cur <=> t.to = 0,
         NEW t \in h \union {Version(s) : s \in S}
  PROVE  t \in Row /\ (t.cur <=> t.to = 0)
<1>1. CASE t \in h
  BY <1>1
<1>2. CASE t \in {Version(s) : s \in S}
  <2>1. PICK s \in S : t = Version(s)
    BY <1>2
  <2> QED BY <2>1, VersionType
<1> QED BY <1>1, <1>2

\* The source's own steps: its rows keep their type, and what Insert will read of
\* a key that is not torn does not change.
LEMMA SourceStep ==
  ASSUME IInv,
         (\E k \in Keys, v \in Values : SourceWrite(k, v)) \/ (\E k \in Keys : SourceDelete(k))
  PROVE  IInv'
<1>1. PICK k \in Keys : (\E v \in Values : SourceWrite(k, v)) \/ SourceDelete(k)
  OBVIOUS
<1>2. /\ src' \subseteq SourceRow /\ OneRowPerKey(src') /\ now' \in Nat \ {0}
      /\ \A s \in src' : s.key # k => s \in src
  <2>1. CASE SourceDelete(k)
    BY <2>1 DEF SourceDelete, IInv, TypeOK, OneRowPerKey
  <2>2. CASE \E v \in Values : SourceWrite(k, v)
    <3>1. PICK v \in Values : SourceWrite(k, v)
      BY <2>2
    <3>2. PICK u \in {now} \union {s.upd : s \in {r \in src : r.key = k}} :
            src' = {s \in src : s.key # k} \union {[key |-> k, val |-> v, upd |-> u]}
      BY <3>1 DEF SourceWrite
    <3>3. u \in Nat
      BY <3>2 DEF IInv, TypeOK, SourceRow
    <3>4. now' \in Nat \ {0}
      BY <3>1 DEF SourceWrite, Tick, IInv, TypeOK
    <3> QED BY <3>2, <3>3, <3>4 DEF IInv, TypeOK, OneRowPerKey, SourceRow
  <2> QED BY <1>1, <2>1, <2>2
<1>3. UNCHANGED <<config, rows, created, staged, pc, orphaned>> /\ Tear(k)
  <2>1. CASE SourceDelete(k)
    BY <2>1 DEF SourceDelete
  <2>2. CASE \E v \in Values : SourceWrite(k, v)
    BY <2>2 DEF SourceWrite
  <2> QED BY <1>1, <2>1, <2>2
<1>4. torn' \subseteq Keys /\ torn \subseteq torn'
  BY <1>3 DEF Tear, IInv, TypeOK
<1>5. TypeOK'
  BY <1>2, <1>3, <1>4 DEF IInv, TypeOK, config
<1>6. OneCurrentPerKey'
  BY <1>3, <1>4 DEF IInv, OneCurrentPerKey
<1>7. ASSUME pc' = "closed", NEW s \in Source', NEW t \in rows', t.cur, s.key = t.key, t.key \notin torn'
      PROVE  ~Changed(s, t)'
  <2>1. s \in Source
    <3>1. CASE engine = "staged"
      BY <3>1, <1>3, <1>7 DEF Source, config
    <3>2. CASE engine = "inline"
      <4>1. k \in torn'
        BY <3>2, <1>3, <1>7 DEF Tear
      <4>2. s \in src'
        BY <3>2, <1>3, <1>7 DEF Source, config
      <4> QED BY <4>1, <4>2, <1>2, <1>7, <3>2 DEF Source
    <3>3. CASE engine = "rewrite"
      <4> QED BY <3>3, <1>3, <1>7 DEF IInv, TwoStatements
    <3> QED BY <3>1, <3>2, <3>3 DEF IInv, TypeOK, Engines
  <2>2. ~Changed(s, t)
    BY <2>1, <1>3, <1>4, <1>7 DEF IInv, NothingLeftToClose
  <2> QED BY <2>2, <1>3 DEF Changed, config
<1>8. TwoStatements'
  BY <1>3 DEF IInv, TwoStatements, config
<1> QED BY <1>5, <1>6, <1>7, <1>8 DEF IInv, NothingLeftToClose

\* Close leaves open only versions that the source has not changed.
LEMMA CloseStep ==
  ASSUME IInv, Close
  PROVE  IInv'
<1>1. /\ rows' = CloseRows(Source, rows) /\ pc = "staged" /\ pc' = "closed"
      /\ UNCHANGED <<config, src, created, staged, torn, orphaned>> /\ now' = now + 1
  BY DEF Close, Tick
<1>2. \A t \in rows' : /\ t \in Row /\ (t.cur <=> t.to = 0)
                       /\ t.cur => t \in rows /\ \A s \in Source : s.key = t.key => ~Changed(s, t)
  BY <1>1, CloseRowsType DEF IInv
<1>3. TypeOK'
  BY <1>1, <1>2 DEF IInv, TypeOK, config
<1>4. OneCurrentPerKey'
  BY <1>1, <1>2 DEF IInv, OneCurrentPerKey
<1>5. NothingLeftToClose'
  <2>1. Source' = Source
    BY <1>1 DEF Source, config
  <2>2. \A s, t : Changed(s, t)' = Changed(s, t)
    BY <1>1 DEF Changed, config
  <2> QED BY <2>1, <2>2, <1>2 DEF NothingLeftToClose
<1>6. TwoStatements'
  BY <1>1 DEF IInv, TwoStatements, config
<1> QED BY <1>3, <1>4, <1>5, <1>6 DEF IInv

\* Rows added to a table h for source rows that have no match left in h.
LEMMA AddVersions ==
  ASSUME IInv, NEW S \in SUBSET SourceRow, OneRowPerKey(S),
         NEW h \in SUBSET Row, \A t \in h : t.cur <=> t.to = 0,
         \A t1, t2 \in h : t1.cur /\ t2.cur /\ t1.key = t2.key /\ t1.key \notin torn => t1 = t2,
         \A s \in S, t \in h : t.cur /\ s.key = t.key => t.key \in torn,
         rows' = h \union {Version(s) : s \in S},
         UNCHANGED <<config, src, torn>>, created' \in BOOLEAN,
         pc' = "done", now' = now + 1, staged' = staged \/ staged' = {},
         orphaned' \subseteq orphaned
  PROVE  TypeOK' /\ OneCurrentPerKey'
<1>1. TypeOK
  BY DEF IInv
<1>2. \A t \in rows' : t \in Row /\ (t.cur <=> t.to = 0)
  BY <1>1, InsertedRows
<1>3. staged' \subseteq SourceRow /\ OneRowPerKey(staged')
  BY <1>1 DEF TypeOK, OneRowPerKey
<1>4. TypeOK'
  BY <1>1, <1>2, <1>3 DEF TypeOK, config
<1>5. ASSUME NEW t1 \in rows', NEW t2 \in rows', t1.cur, t2.cur, t1.key = t2.key, t1.key \notin torn
      PROVE  t1 = t2
  <2>1. CASE t1 \in h /\ t2 \in h
    BY <1>5, <2>1
  <2>2. ASSUME NEW a \in h, NEW s \in S, a.cur, a.key = Version(s).key, a.key \notin torn
        PROVE  FALSE
    BY <2>2, <1>1, VersionType
  <2>3. CASE t1 \in h /\ t2 \notin h
    <3>1. PICK s \in S : t2 = Version(s)
      BY <2>3
    <3> QED BY <3>1, <2>2, <2>3, <1>5
  <2>4. CASE t1 \notin h /\ t2 \in h
    <3>1. PICK s \in S : t1 = Version(s)
      BY <2>4
    <3> QED BY <3>1, <2>2, <2>4, <1>5
  <2>5. CASE t1 \notin h /\ t2 \notin h
    <3>1. PICK s1 \in S : t1 = Version(s1)
      BY <2>5
    <3>2. PICK s2 \in S : t2 = Version(s2)
      BY <2>5
    <3> QED BY <3>1, <3>2, <1>1, <1>5, NewVersionsDiffer
  <2> QED BY <2>1, <2>3, <2>4, <2>5
<1>6. OneCurrentPerKey'
  BY <1>5 DEF OneCurrentPerKey
<1> QED BY <1>4, <1>6

\* Insert adds versions only where none is open, but for torn keys.
LEMMA InsertStep ==
  ASSUME IInv, Insert
  PROVE  IInv'
<1> DEFINE S == Missing(Source, rows)
<1>1. S \in SUBSET SourceRow /\ OneRowPerKey(S)
  BY SourceType DEF IInv, Missing, OneRowPerKey
<1>2. ASSUME NEW s \in S, NEW t \in rows, t.cur, s.key = t.key, t.key \notin torn
      PROVE  FALSE
  <2>1. t \in Matches(s, rows) /\ s \in Source
    BY <1>2 DEF Missing, Matches
  <2>2. PICK t2 \in Matches(s, rows) : Changed(s, t2)
    BY <2>1, <1>2 DEF Missing
  <2>3. t2 \in rows /\ t2.cur /\ t2.key = s.key
    BY <2>2 DEF Matches
  <2> QED BY <2>1, <2>2, <2>3, <1>2 DEF IInv, NothingLeftToClose, Insert
<1>3. /\ rows' = rows \union {Version(s) : s \in S} /\ pc' = "done" /\ now' = now + 1
      /\ staged' = {} /\ orphaned' \subseteq orphaned /\ UNCHANGED <<config, src, created, torn>>
  BY DEF Insert, Tick
<1>4. rows \in SUBSET Row /\ (\A t \in rows : t.cur <=> t.to = 0) /\ created' \in BOOLEAN
  BY <1>3 DEF IInv, TypeOK
<1>5. \A t1, t2 \in rows : t1.cur /\ t2.cur /\ t1.key = t2.key /\ t1.key \notin torn => t1 = t2
  BY DEF IInv, OneCurrentPerKey
<1> HIDE DEF S
<1>6. TypeOK' /\ OneCurrentPerKey'
  BY <1>1, <1>2, <1>3, <1>4, <1>5, AddVersions
<1> QED BY <1>3, <1>6 DEF IInv, TwoStatements, NothingLeftToClose

\* The overwrite closes and adds in one step, from one reading of the source.
LEMMA RewriteStep ==
  ASSUME IInv, Rewrite
  PROVE  IInv'
<1> DEFINE S == Missing(src, rows)
           h == CloseRows(src, rows)
<1>1. S \in SUBSET SourceRow /\ OneRowPerKey(S)
  BY DEF IInv, TypeOK, Missing, OneRowPerKey
<1>2. \A t \in h : /\ t \in Row /\ (t.cur <=> t.to = 0)
                   /\ t.cur => t \in rows /\ \A s \in src : s.key = t.key => ~Changed(s, t)
  BY CloseRowsType DEF IInv
<1>3. \A t1, t2 \in h : t1.cur /\ t2.cur /\ t1.key = t2.key /\ t1.key \notin torn => t1 = t2
  BY <1>2 DEF IInv, OneCurrentPerKey
<1>4. ASSUME NEW s \in S, NEW t \in h, t.cur, s.key = t.key, t.key \notin torn
      PROVE  FALSE
  <2>1. t \in Matches(s, rows) /\ s \in src
    BY <1>2, <1>4 DEF Missing, Matches
  <2>2. PICK t2 \in Matches(s, rows) : Changed(s, t2)
    BY <2>1 DEF Missing
  <2>3. t2 \in rows /\ t2.cur /\ t2.key = s.key
    BY <2>2 DEF Matches
  <2>4. t2 = t
    BY <2>3, <1>2, <1>4 DEF IInv, OneCurrentPerKey
  <2> QED BY <2>1, <2>2, <2>4, <1>2, <1>4
<1>5. /\ rows' = h \union {Version(s) : s \in S} /\ pc' = "done" /\ now' = now + 1
      /\ staged' = staged /\ orphaned' = orphaned /\ UNCHANGED <<config, src, created, torn>>
  BY DEF Rewrite, Tick
<1>6. h \in SUBSET Row /\ (\A t \in h : t.cur <=> t.to = 0) /\ created' \in BOOLEAN
  BY <1>2, <1>5 DEF IInv, TypeOK
<1> HIDE DEF S, h
<1>7. TypeOK' /\ OneCurrentPerKey'
  BY <1>1, <1>3, <1>4, <1>5, <1>6, AddVersions
<1> QED BY <1>5, <1>7 DEF IInv, TwoStatements, NothingLeftToClose

\* The first run writes one version per source row.
LEMMA FirstRunStep ==
  ASSUME IInv, FirstRun
  PROVE  IInv'
<1> DEFINE h == {}
<1>1. /\ rows' = h \union {Version(s) : s \in src} /\ pc' = "done" /\ now' = now + 1
      /\ staged' = staged /\ orphaned' = orphaned /\ UNCHANGED <<config, src, torn>>
      /\ created' \in BOOLEAN
  BY DEF FirstRun, Tick
<1>2. src \in SUBSET SourceRow /\ OneRowPerKey(src) /\ h \in SUBSET Row
  BY DEF IInv, TypeOK
<1>3. \A t \in h : FALSE
  OBVIOUS
<1> HIDE DEF h
<1>4. TypeOK' /\ OneCurrentPerKey'
  BY <1>1, <1>2, <1>3, AddVersions
<1> QED BY <1>1, <1>4 DEF IInv, TwoStatements, NothingLeftToClose

\* Every step keeps the invariant.
LEMMA StepIInv == IInv /\ [Next]_vars => IInv'
<1> SUFFICES ASSUME IInv, [Next]_vars PROVE IInv'
  OBVIOUS
<1>1. CASE \E k \in Keys : (\E v \in Values : SourceWrite(k, v)) \/ SourceDelete(k)
  BY <1>1, SourceStep
<1>2. CASE FirstRun
  BY <1>2, FirstRunStep
<1>3. CASE Stage
  <2>1. /\ pc' = "staged" /\ engine # "rewrite" /\ (staged' = src \/ staged' = {})
        /\ UNCHANGED <<config, src, rows, created, now, torn, orphaned>>
    BY <1>3 DEF Stage
  <2>2. TypeOK'
    BY <2>1 DEF IInv, TypeOK, config, OneRowPerKey
  <2> QED BY <2>1, <2>2 DEF IInv, OneCurrentPerKey, TwoStatements, NothingLeftToClose, config
<1>4. CASE Close
  BY <1>4, CloseStep
<1>5. CASE Insert
  BY <1>5, InsertStep
<1>6. CASE Rewrite
  BY <1>6, RewriteStep
<1>7. CASE Break
  <2>1. /\ pc' = "idle" /\ staged' = {} /\ UNCHANGED <<config, src, rows, created, now, torn>>
        /\ orphaned' \subseteq orphaned \union KeysOf(rows)
    BY <1>7 DEF Break
  <2>2. orphaned' \subseteq Keys
    BY <2>1 DEF IInv, TypeOK, KeysOf, Row
  <2>3. TypeOK'
    BY <2>1, <2>2 DEF IInv, TypeOK, config, OneRowPerKey
  <2> QED BY <2>1, <2>3 DEF IInv, OneCurrentPerKey, TwoStatements, NothingLeftToClose
<1>8. CASE Prune \/ Finish
  <2>1. /\ pc' = "idle" /\ rows' \subseteq rows
        /\ UNCHANGED <<config, src, created, staged, now, torn, orphaned>>
    BY <1>8 DEF Prune, Finish
  <2>2. TypeOK'
    BY <2>1 DEF IInv, TypeOK, config
  <2> QED BY <2>1, <2>2 DEF IInv, OneCurrentPerKey, TwoStatements, NothingLeftToClose
<1>9. CASE UNCHANGED vars
  BY <1>9 DEF IInv, TypeOK, OneCurrentPerKey, TwoStatements, NothingLeftToClose, Source, Changed, vars, config
<1> QED BY <1>1, <1>2, <1>3, <1>4, <1>5, <1>6, <1>7, <1>8, <1>9 DEF Next

\* The inductive invariant, for all keys and values.
THEOREM Invariance == Spec => []IInv
BY InitIInv, StepIInv, PTL DEF Spec

\* Types, and "current exactly when the end is NULL" (_snapshot_close_sql).
THEOREM WellFormed == Spec => []TypeOK
BY Invariance, PTL DEF IInv

\* A history table has at most one current version per key (_snapshot_close_sql,
\* _snapshot_insert_sql), but for keys whose source moved between the statements.
THEOREM OneCurrent == Spec => []OneCurrentPerKey
BY Invariance, PTL DEF IInv

-----------------------------------------------------------------------------
(* The history of a key.                                                   *)

\* Everything in the table happened before now.
RowTimes == \A t \in rows : t.from < now /\ t.to < now

\* So did everything in the source, and a copy of it is not ahead.
SourceTimes == /\ \A s \in src \union staged : s.upd < now
               /\ \A s \in staged, r \in src : s.key = r.key => s.upd <= r.upd

\* Only a run that copies the source has a copy, until it ends.
CopyIsWithinRun == staged # {} => engine = "staged" /\ pc \in {"staged", "closed"}

\* Under strategy timestamp a source row is ahead of the closed versions of its key,
\* and not behind the open one.
StampsOf(h) ==
  strategy = "timestamp" =>
    \A t \in h :
      /\ t.from = t.upd
      /\ \A s \in src \union staged :
           s.key = t.key => t.upd <= s.upd /\ (~t.cur => t.upd < s.upd)

\* Versions of a key begin at different times, a current one last.
NewestOf(h) ==
  \A t1, t2 \in h :
    t1 # t2 /\ t1.key = t2.key /\ t1.key \notin torn =>
      t1.from # t2.from /\ (t1.cur => t2.from < t1.from)

\* Under strategy check one ends before the other begins.
Before(a, b) == a.to # 0 /\ a.to <= b.from
InLineOf(h) ==
  strategy = "check" =>
    \A t1, t2 \in h :
      t1 # t2 /\ t1.key = t2.key /\ t1.key \notin torn => Before(t1, t2) \/ Before(t2, t1)

\* All of it of a table h, while a statement is running.
Orderly(h) == /\ \A t \in h : t.from < now /\ t.to <= now
              /\ StampsOf(h) /\ NewestOf(h) /\ InLineOf(h)

\* A key without a current version is about to get one.
HasCurrent ==
  \A k \in KeysOf(rows) \ (torn \union orphaned) :
    \/ \E t \in rows : t.key = k /\ t.cur
    \/ pc = "closed" /\ k \in KeysOf(Source)

HInv == /\ IInv /\ RowTimes /\ SourceTimes /\ CopyIsWithinRun
        /\ StampsOf(rows) /\ NewestOf(rows) /\ InLineOf(rows) /\ HasCurrent

-----------------------------------------------------------------------------
(* Steps of the source.                                                    *)

LEMMA HistoryInit == Init => HInv
<1> SUFFICES ASSUME Init PROVE HInv
  OBVIOUS
<1>1. IInv
  BY InitIInv
<1>2. rows = {} /\ src = {} /\ staged = {}
  BY DEF Init
<1> QED BY <1>1, <1>2 DEF HInv, RowTimes, SourceTimes, CopyIsWithinRun, StampsOf, NewestOf, InLineOf,
           HasCurrent, KeysOf

LEMMA HistorySource ==
  ASSUME HInv,
         (\E k \in Keys, v \in Values : SourceWrite(k, v)) \/ (\E k \in Keys : SourceDelete(k))
  PROVE  HInv'
<1>1. IInv'
  BY SourceStep DEF HInv
<1>2. PICK k \in Keys : (\E v \in Values : SourceWrite(k, v)) \/ SourceDelete(k)
  OBVIOUS
<1>3. UNCHANGED <<config, rows, staged, pc, orphaned>> /\ Tear(k) /\ torn \subseteq torn'
  BY <1>2 DEF SourceWrite, SourceDelete, Tear
<1>4. now \in Nat /\ now' \in Nat /\ now <= now'
  BY <1>2 DEF SourceWrite, SourceDelete, Tick, HInv, IInv, TypeOK
<1>5. \A s \in src : s.upd \in Nat
  BY DEF HInv, IInv, TypeOK, SourceRow
<1>6. \A s \in src' : \/ s \in src
                      \/ \E r \in src : s.key = r.key /\ s.upd = r.upd /\ now < now'
                      \/ s.upd = now /\ now < now'
  <2>1. CASE SourceDelete(k)
    BY <2>1 DEF SourceDelete
  <2>2. CASE \E v \in Values : SourceWrite(k, v)
    <3>1. PICK v \in Values : SourceWrite(k, v)
      BY <2>2
    <3>2. PICK u \in {now} \union {s.upd : s \in {r \in src : r.key = k}} :
            src' = {s \in src : s.key # k} \union {[key |-> k, val |-> v, upd |-> u]}
      BY <3>1 DEF SourceWrite
    <3>3. now < now'
      BY <1>4, <3>1 DEF SourceWrite, Tick
    <3> QED BY <3>2, <3>3
  <2> QED BY <1>2, <2>1, <2>2
<1>7. /\ \A t \in rows : t.from \in Nat /\ t.to \in Nat /\ t.upd \in Nat
      /\ \A s \in staged : s.upd \in Nat
  BY DEF HInv, IInv, TypeOK, Row, SourceRow
<1>8. RowTimes'
  BY <1>3, <1>4, <1>7 DEF HInv, RowTimes
<1>9. SourceTimes'
  <2>1. \A s \in src' \union staged' : s.upd < now'
    BY <1>3, <1>4, <1>5, <1>6, <1>7 DEF HInv, SourceTimes
  <2>2. \A s \in staged', r \in src' : s.key = r.key => s.upd <= r.upd
    BY <1>3, <1>4, <1>5, <1>6, <1>7 DEF HInv, SourceTimes
  <2> QED BY <2>1, <2>2 DEF SourceTimes
<1>10. CopyIsWithinRun'
  BY <1>3 DEF HInv, CopyIsWithinRun, config
<1>11. StampsOf(rows)'
  BY <1>3, <1>4, <1>5, <1>6, <1>7 DEF HInv, StampsOf, RowTimes, config
<1>12. NewestOf(rows)' /\ InLineOf(rows)'
  BY <1>3 DEF HInv, NewestOf, InLineOf, Before, config
<1>13. HasCurrent'
  <2> SUFFICES ASSUME NEW j \in KeysOf(rows)', j \notin torn', j \notin orphaned',
                      ~\E t \in rows : t.key = j /\ t.cur
               PROVE  pc = "closed" /\ j \in KeysOf(Source)'
    BY <1>3 DEF HasCurrent
  <2>1. pc = "closed" /\ j \in KeysOf(Source)
    BY <1>3 DEF HInv, HasCurrent, KeysOf
  <2>2. CASE engine = "staged"
    BY <1>3, <2>1, <2>2 DEF Source, KeysOf, config
  <2>3. CASE engine = "inline"
    <3>1. j # k
      BY <1>3, <2>1, <2>3 DEF Tear
    <3>2. \A s \in src : s.key # k => s \in src'
      BY <1>2 DEF SourceWrite, SourceDelete
    <3> QED BY <1>3, <2>1, <2>3, <3>1, <3>2 DEF Source, KeysOf, config
  <2> QED BY <2>1, <2>2, <2>3 DEF HInv, IInv, TwoStatements, TypeOK, Engines
<1> QED BY <1>1, <1>8, <1>9, <1>10, <1>11, <1>12, <1>13 DEF HInv

-----------------------------------------------------------------------------
(* Closing versions and adding new ones.                                   *)

\* What Close makes of one row.
ClosedRow(S, r) == IF r.cur /\ \E s \in S : s.key = r.key /\ Changed(s, r)
                   THEN [r EXCEPT !.to = now, !.cur = FALSE] ELSE r

\* A row that Close leaves is a row of the table, or one that it closed.
LEMMA CloseOrigin ==
  ASSUME TypeOK, NEW S, NEW t \in CloseRows(S, rows)
  PROVE  \E r \in rows :
           /\ t = ClosedRow(S, r) /\ r.key = t.key /\ r.from = t.from /\ r.upd = t.upd
           /\ \/ t = r
              \/ /\ r.cur /\ ~t.cur /\ t.to = now
                 /\ \E s \in S : s.key = r.key /\ Changed(s, r)
<1>1. PICK r \in rows :
        t = IF r.cur /\ \E s \in S : s.key = r.key /\ Changed(s, r)
              THEN [r EXCEPT !.to = now, !.cur = FALSE] ELSE r
  BY DEF CloseRows
<1>0. t = ClosedRow(S, r)
  BY <1>1 DEF ClosedRow
<1>2. r \in Row
  BY DEF TypeOK
<1>3. CASE r.cur /\ \E s \in S : s.key = r.key /\ Changed(s, r)
  <2>1. t = [r EXCEPT !.to = now, !.cur = FALSE]
    BY <1>1, <1>3
  <2>2. /\ t.key = r.key /\ t.from = r.from /\ t.upd = r.upd /\ t.to = now /\ t.cur = FALSE
    BY <1>2, <2>1 DEF Row
  <2> QED BY <1>0, <1>3, <2>2
<1>4. CASE ~(r.cur /\ \E s \in S : s.key = r.key /\ Changed(s, r))
  BY <1>0, <1>1, <1>4
<1> QED BY <1>3, <1>4

\* A row of the table that is not to be closed stays.
LEMMA CloseKeeps ==
  ASSUME NEW S, NEW r \in rows, ~(r.cur /\ \E s \in S : s.key = r.key /\ Changed(s, r))
  PROVE  r \in CloseRows(S, rows)
BY DEF CloseRows

LEMMA Closing ==
  ASSUME HInv, engine = "rewrite" \/ pc = "staged"
  PROVE  Orderly(CloseRows(Source, rows))
<1> DEFINE h == CloseRows(Source, rows)
<1>1. TypeOK /\ now \in Nat /\ \A t \in rows : t.from \in Nat /\ t.to \in Nat /\ t.upd \in Nat
  BY DEF HInv, IInv, TypeOK, Row
<1>2. \A t \in h : \E r \in rows :
        /\ t = ClosedRow(Source, r) /\ r.key = t.key /\ r.from = t.from /\ r.upd = t.upd
        /\ \/ t = r
           \/ /\ r.cur /\ ~t.cur /\ t.to = now
              /\ \E s \in Source : s.key = r.key /\ Changed(s, r)
  BY <1>1, CloseOrigin
<1>3. \A s \in src \union staged : s.upd \in Nat
  BY <1>1 DEF TypeOK, SourceRow
<1>4. \A s \in Source, r \in src \union staged : s.key = r.key => s.upd <= r.upd
  <2>1. CASE engine = "staged"
    <3>1. Source = staged
      BY <2>1 DEF Source
    <3> QED BY <1>1, <1>3, <3>1 DEF TypeOK, OneRowPerKey, HInv, SourceTimes
  <2>2. CASE engine # "staged"
    <3>1. Source = src /\ staged = {}
      BY <2>2 DEF Source, HInv, CopyIsWithinRun
    <3> QED BY <1>1, <1>3, <3>1 DEF TypeOK, OneRowPerKey
  <2> QED BY <2>1, <2>2
<1>5. Source \subseteq src \union staged
  BY DEF Source
<1> HIDE DEF h
<1>6. \A t \in h : t.from < now /\ t.to <= now
  BY <1>1, <1>2 DEF HInv, RowTimes
<1>7. StampsOf(h)
  <2> SUFFICES ASSUME strategy = "timestamp", NEW t \in h
               PROVE  /\ t.from = t.upd
                      /\ \A s \in src \union staged :
                           s.key = t.key => t.upd <= s.upd /\ (~t.cur => t.upd < s.upd)
    BY DEF StampsOf
  <2>1. PICK r \in rows :
          /\ r.key = t.key /\ r.from = t.from /\ r.upd = t.upd
          /\ \/ t = r
             \/ /\ r.cur /\ ~t.cur /\ t.to = now
                /\ \E s \in Source : s.key = r.key /\ Changed(s, r)
    BY <1>2
  <2>2. CASE t = r
    BY <2>2 DEF HInv, StampsOf
  <2>3. CASE t # r
    <3>1. PICK s \in Source : s.key = r.key /\ s.upd > r.upd
      BY <2>1, <2>3 DEF Changed
    <3>2. \A q \in src \union staged : q.key = r.key => r.upd < q.upd
      BY <1>1, <1>3, <1>4, <1>5, <3>1
    <3> QED BY <1>1, <1>3, <2>1, <3>2 DEF HInv, StampsOf
  <2> QED BY <2>2, <2>3
<1>8. NewestOf(h) /\ InLineOf(h)
  <2> SUFFICES ASSUME NEW t1 \in h, NEW t2 \in h, t1 # t2, t1.key = t2.key, t1.key \notin torn
               PROVE  /\ t1.from # t2.from /\ (t1.cur => t2.from < t1.from)
                      /\ strategy = "check" => Before(t1, t2) \/ Before(t2, t1)
    BY DEF NewestOf, InLineOf
  <2>1. PICK r1 \in rows :
          /\ t1 = ClosedRow(Source, r1) /\ r1.key = t1.key /\ r1.from = t1.from
          /\ t1 = r1 \/ (r1.cur /\ ~t1.cur /\ t1.to = now)
    BY <1>2
  <2>2. PICK r2 \in rows :
          /\ t2 = ClosedRow(Source, r2) /\ r2.key = t2.key /\ r2.from = t2.from
          /\ t2 = r2 \/ (r2.cur /\ ~t2.cur /\ t2.to = now)
    BY <1>2
  <2>3. r1 # r2 /\ r1.key = r2.key /\ r1.key \notin torn
    BY <2>1, <2>2
  <2>4. t1.from # t2.from /\ (t1.cur => t2.from < t1.from)
    BY <2>1, <2>2, <2>3 DEF HInv, NewestOf
  <2>5. ASSUME strategy = "check"
        PROVE  Before(t1, t2) \/ Before(t2, t1)
    <3>1. Before(r1, r2) \/ Before(r2, r1)
      BY <2>3, <2>5 DEF HInv, InLineOf
    <3>2. (r1.cur => r1.to = 0) /\ (r2.cur => r2.to = 0)
      BY <1>1 DEF TypeOK
    <3> QED BY <2>1, <2>2, <3>1, <3>2 DEF Before
  <2> QED BY <2>4, <2>5
<1> QED BY <1>6, <1>7, <1>8 DEF Orderly, h

\* New versions of source rows that a table h has no open version of.
LEMMA Adding ==
  ASSUME HInv, NEW S \in SUBSET (src \union staged), OneRowPerKey(S),
         NEW h \in SUBSET Row, \A t \in h : t.cur <=> t.to = 0, Orderly(h),
         \A s \in S, t \in h : t.cur /\ s.key = t.key => t.key \in torn,
         rows' = h \union {Version(s) : s \in S},
         UNCHANGED <<config, src, torn>>, now' = now + 1, staged' = {}
  PROVE  /\ RowTimes' /\ SourceTimes' /\ CopyIsWithinRun'
         /\ StampsOf(rows)' /\ NewestOf(rows)' /\ InLineOf(rows)'
<1>1. /\ TypeOK /\ now \in Nat \ {0} /\ now' \in Nat /\ S \subseteq SourceRow
      /\ \A t \in h : t.from \in Nat /\ t.to \in Nat /\ t.upd \in Nat
      /\ \A s \in src \union staged : s \in SourceRow /\ s.upd \in Nat
  BY DEF HInv, IInv, TypeOK, Row, SourceRow
<1>2. ASSUME NEW s \in S
      PROVE  /\ Version(s).key = s.key /\ Version(s).cur = TRUE /\ Version(s).to = 0
             /\ strategy = "timestamp" => Version(s).upd = s.upd /\ Version(s).from = s.upd
             /\ strategy = "check" => Version(s).from = now
             /\ Version(s).from \in Nat /\ Version(s).from <= now
  <2>1. s.upd \in Nat /\ s.upd < now /\ strategy \in {"timestamp", "check"}
    BY <1>1 DEF HInv, SourceTimes, TypeOK, Strategies
  <2> QED BY <1>1, <2>1 DEF Version
<1>3. RowTimes' /\ SourceTimes' /\ CopyIsWithinRun'
  <2>1. ASSUME NEW t \in rows'
        PROVE  t.from < now' /\ t.to < now'
    <3>1. CASE t \in h
      BY <1>1, <3>1 DEF Orderly
    <3>2. CASE t \notin h
      <4>1. PICK s \in S : t = Version(s)
        BY <3>2
      <4>2. t.to = 0 /\ t.from \in Nat /\ t.from <= now
        BY <1>2, <4>1
      <4> QED BY <1>1, <4>2
    <3> QED BY <3>1, <3>2
  <2> QED BY <1>1, <2>1 DEF RowTimes, SourceTimes, CopyIsWithinRun, HInv
<1>4. StampsOf(rows)'
  <2> SUFFICES ASSUME strategy = "timestamp", NEW t \in rows'
               PROVE  /\ t.from = t.upd
                      /\ \A q \in src :
                           q.key = t.key => t.upd <= q.upd /\ (~t.cur => t.upd < q.upd)
    BY DEF StampsOf, config
  <2>1. CASE t \in h
    BY <2>1 DEF Orderly, StampsOf
  <2>2. CASE t \notin h
    <3>1. PICK s \in S : t = Version(s)
      BY <2>2
    <3>2. \A q \in src : s.key = q.key => s.upd <= q.upd
      BY <1>1 DEF TypeOK, OneRowPerKey, HInv, SourceTimes
    <3> QED BY <1>2, <3>1, <3>2
  <2> QED BY <2>1, <2>2
<1>5. ASSUME NEW s \in S, NEW t \in h, s.key = t.key, t.key \notin torn
      PROVE  /\ t.from < Version(s).from /\ ~t.cur
             /\ strategy = "check" => Before(t, Version(s))
  <2>1. ~t.cur /\ t.to # 0
    BY <1>5
  <2>2. CASE strategy = "timestamp"
    BY <1>1, <1>2, <1>5, <2>1, <2>2 DEF Orderly, StampsOf
  <2>3. CASE strategy = "check"
    BY <1>1, <1>2, <1>5, <2>1, <2>3 DEF Orderly, Before
  <2> QED BY <1>1, <2>1, <2>2, <2>3 DEF TypeOK, Strategies
<1>6. NewestOf(rows)' /\ InLineOf(rows)'
  <2> SUFFICES ASSUME NEW t1 \in rows', NEW t2 \in rows', t1 # t2, t1.key = t2.key, t1.key \notin torn
               PROVE  /\ t1.from # t2.from /\ (t1.cur => t2.from < t1.from)
                      /\ strategy = "check" => Before(t1, t2) \/ Before(t2, t1)
    BY DEF NewestOf, InLineOf, config
  <2>1. CASE t1 \in h /\ t2 \in h
    BY <2>1 DEF Orderly, NewestOf, InLineOf
  <2>2. CASE t1 \in h /\ t2 \notin h
    <3>1. PICK s \in S : t2 = Version(s)
      BY <2>2
    <3>2. s.key = t1.key /\ t1.key \notin torn
      BY <1>2, <3>1
    <3>3. t1.from < t2.from /\ ~t1.cur /\ (strategy = "check" => Before(t1, t2))
      BY <1>5, <2>2, <3>1, <3>2
    <3>4. t1.from \in Nat /\ t2.from \in Nat
      BY <1>1, <1>2, <2>2, <3>1
    <3> QED BY <3>3, <3>4
  <2>3. CASE t1 \notin h /\ t2 \in h
    <3>1. PICK s \in S : t1 = Version(s)
      BY <2>3
    <3>2. s.key = t2.key /\ t2.key \notin torn
      BY <1>2, <3>1
    <3>3. t2.from < t1.from /\ ~t2.cur /\ (strategy = "check" => Before(t2, t1))
      BY <1>5, <2>3, <3>1, <3>2
    <3>4. t2.from \in Nat /\ t1.from \in Nat
      BY <1>1, <1>2, <2>3, <3>1
    <3> QED BY <3>3, <3>4
  <2>4. CASE t1 \notin h /\ t2 \notin h
    <3>1. PICK s1 \in S : t1 = Version(s1)
      BY <2>4
    <3>2. PICK s2 \in S : t2 = Version(s2)
      BY <2>4
    <3> QED BY <1>1, <3>1, <3>2, NewVersionsDiffer
  <2> QED BY <2>1, <2>2, <2>3, <2>4
<1> QED BY <1>3, <1>4, <1>6

-----------------------------------------------------------------------------
(* The statements of a run.                                                *)

LEMMA HistoryInsert == ASSUME HInv, Insert PROVE HInv'
<1> DEFINE S == Missing(Source, rows)
<1>0. /\ pc = "closed" /\ rows' = rows \union {Version(s) : s \in S} /\ now' = now + 1
      /\ orphaned' = orphaned \ KeysOf(S) /\ staged' = {} /\ pc' = "done"
      /\ UNCHANGED <<config, src, torn>>
  BY DEF Insert, Tick
<1>1. IInv'
  BY InsertStep DEF HInv
<1>2. /\ S \in SUBSET (src \union staged) /\ OneRowPerKey(S) /\ rows \in SUBSET Row
      /\ \A t \in rows : t.cur <=> t.to = 0
  BY SourceType DEF HInv, IInv, Missing, OneRowPerKey, Source, TypeOK
<1>3. Orderly(rows)
  BY DEF HInv, RowTimes, Orderly, IInv, TypeOK, Row
<1>4. ASSUME NEW s \in S, NEW t \in rows, t.cur, s.key = t.key, t.key \notin torn
      PROVE  FALSE
  <2>1. t \in Matches(s, rows) /\ s \in Source
    BY <1>4 DEF Missing, Matches
  <2>2. PICK t2 \in Matches(s, rows) : Changed(s, t2)
    BY <2>1 DEF Missing
  <2>3. t2 \in rows /\ t2.cur /\ t2.key = s.key
    BY <2>2 DEF Matches
  <2> QED BY <1>0, <1>4, <2>1, <2>2, <2>3 DEF HInv, IInv, NothingLeftToClose
<1>5. ASSUME NEW k \in KeysOf(rows)', k \notin torn', k \notin orphaned'
      PROVE  \E t \in rows' : t.key = k /\ t.cur
  <2>1. CASE k \in KeysOf(S)
    <3>1. PICK s \in S : s.key = k
      BY <2>1 DEF KeysOf
    <3>2. Version(s).key = k /\ Version(s).cur = TRUE
      BY <3>1 DEF Version
    <3> QED BY <1>0, <3>1, <3>2
  <2>2. CASE k \notin KeysOf(S)
    <3>1. \A s \in S : Version(s).key = s.key
      BY DEF Version
    <3>2. k \in KeysOf(rows) /\ k \notin torn /\ k \notin orphaned
      BY <1>0, <1>5, <2>2, <3>1 DEF KeysOf
    <3>3. ASSUME k \in KeysOf(Source)
          PROVE  \E t \in rows : t.key = k /\ t.cur
      BY <2>2, <3>3 DEF KeysOf, Missing, Matches
    <3> QED BY <1>0, <3>2, <3>3 DEF HInv, HasCurrent
  <2> QED BY <2>1, <2>2
<1> HIDE DEF S
<1>6. /\ RowTimes' /\ SourceTimes' /\ CopyIsWithinRun'
      /\ StampsOf(rows)' /\ NewestOf(rows)' /\ InLineOf(rows)'
  BY <1>0, <1>2, <1>3, <1>4, Adding
<1> QED BY <1>1, <1>5, <1>6 DEF HInv, HasCurrent

LEMMA HistoryRewrite == ASSUME HInv, Rewrite PROVE HInv'
<1> DEFINE S == Missing(src, rows)
           h == CloseRows(src, rows)
<1>0. /\ pc = "idle" /\ rows' = h \union {Version(s) : s \in S} /\ now' = now + 1
      /\ engine = "rewrite" /\ pc' = "done" /\ orphaned' = orphaned /\ Source = src
      /\ UNCHANGED <<config, src, torn, staged>> /\ staged = {}
  BY DEF Rewrite, Tick, Source, HInv, CopyIsWithinRun
<1>1. IInv'
  BY RewriteStep DEF HInv
<1>2. S \in SUBSET (src \union staged) /\ OneRowPerKey(S) /\ TypeOK
  BY DEF HInv, IInv, Missing, OneRowPerKey, TypeOK
<1>3. \A t \in h : /\ t \in Row /\ (t.cur <=> t.to = 0)
                   /\ t.cur => t \in rows /\ \A s \in src : s.key = t.key => ~Changed(s, t)
  BY <1>2, CloseRowsType
<1>4. Orderly(h)
  BY <1>0, Closing
<1>5. ASSUME NEW s \in S, NEW t \in h, t.cur, s.key = t.key, t.key \notin torn
      PROVE  FALSE
  <2>1. t \in Matches(s, rows) /\ s \in src
    BY <1>3, <1>5 DEF Missing, Matches
  <2>2. PICK t2 \in Matches(s, rows) : Changed(s, t2)
    BY <2>1 DEF Missing
  <2>3. t2 = t
    BY <2>2, <1>3, <1>5 DEF HInv, IInv, OneCurrentPerKey, Matches
  <2> QED BY <2>1, <2>2, <2>3, <1>3, <1>5
<1>6. ASSUME NEW k \in KeysOf(rows)', k \notin torn', k \notin orphaned'
      PROVE  \E t \in rows' : t.key = k /\ t.cur
  <2>1. CASE k \in KeysOf(S)
    <3>1. PICK s \in S : s.key = k
      BY <2>1 DEF KeysOf
    <3>2. Version(s).key = k /\ Version(s).cur = TRUE
      BY <3>1 DEF Version
    <3> QED BY <1>0, <3>1, <3>2
  <2>2. CASE k \notin KeysOf(S)
    <3>1. \A s \in S : Version(s).key = s.key
      BY DEF Version
    <3>2. PICK t \in h : t.key = k
      BY <1>0, <1>6, <2>2, <3>1 DEF KeysOf
    <3>3. \E r \in rows : r.key = k
      BY <1>2, <3>2, CloseOrigin
    <3>4. PICK r \in rows : r.key = k /\ r.cur
      BY <1>0, <1>6, <3>3 DEF HInv, HasCurrent, KeysOf
    <3>5. ~\E s \in src : s.key = r.key /\ Changed(s, r)
      BY <2>2, <3>4 DEF KeysOf, Missing, Matches
    <3>6. r \in h
      BY <3>5, CloseKeeps
    <3> QED BY <1>0, <3>4, <3>6
  <2> QED BY <2>1, <2>2
<1>7. h \in SUBSET Row /\ \A t \in h : t.cur <=> t.to = 0
  BY <1>3
<1> HIDE DEF S, h
<1>8. /\ RowTimes' /\ SourceTimes' /\ CopyIsWithinRun'
      /\ StampsOf(rows)' /\ NewestOf(rows)' /\ InLineOf(rows)'
  BY <1>0, <1>2, <1>4, <1>5, <1>7, Adding
<1> QED BY <1>1, <1>6, <1>8 DEF HInv, HasCurrent

LEMMA HistoryFirst == ASSUME HInv, FirstRun PROVE HInv'
<1> DEFINE h == {}
<1>0. /\ pc = "idle" /\ rows' = h \union {Version(s) : s \in src} /\ now' = now + 1
      /\ pc' = "done" /\ orphaned' = orphaned
      /\ UNCHANGED <<config, src, torn, staged>> /\ staged = {}
  BY DEF FirstRun, Tick, HInv, CopyIsWithinRun
<1>1. IInv'
  BY FirstRunStep DEF HInv
<1>2. /\ src \in SUBSET (src \union staged) /\ OneRowPerKey(src) /\ h \in SUBSET Row
      /\ \A t \in h : FALSE
  BY DEF HInv, IInv, TypeOK
<1>3. Orderly(h)
  BY DEF Orderly, StampsOf, NewestOf, InLineOf
<1>4. \A t \in rows' : t.cur
  BY <1>0 DEF Version
<1> HIDE DEF h
<1>5. /\ RowTimes' /\ SourceTimes' /\ CopyIsWithinRun'
      /\ StampsOf(rows)' /\ NewestOf(rows)' /\ InLineOf(rows)'
  BY <1>0, <1>2, <1>3, Adding
<1>6. HasCurrent'
  BY <1>4 DEF HasCurrent, KeysOf
<1> QED BY <1>1, <1>5, <1>6 DEF HInv

LEMMA HistoryClose == ASSUME HInv, Close PROVE HInv'
<1> DEFINE h == CloseRows(Source, rows)
<1>0. /\ pc = "staged" /\ rows' = h /\ now' = now + 1 /\ pc' = "closed"
      /\ UNCHANGED <<config, src, torn, staged, orphaned>> /\ Source' = Source
  BY DEF Close, Tick, Source, config
<1>1. IInv'
  BY CloseStep DEF HInv
<1>2. Orderly(h)
  BY <1>0, Closing
<1>3. /\ now \in Nat /\ \A t \in h : t.from \in Nat /\ t.to \in Nat
      /\ \A s \in src \union staged : s.upd \in Nat
  <2>1. TypeOK
    BY DEF HInv, IInv
  <2>2. \A t \in h : t \in Row
    BY <2>1, CloseRowsType
  <2> QED BY <2>1, <2>2 DEF TypeOK, Row, SourceRow
<1>4. ASSUME NEW k \in KeysOf(rows)', k \notin torn, k \notin orphaned,
             k \notin KeysOf(Source)
      PROVE  \E t \in rows' : t.key = k /\ t.cur
  <2>1. TypeOK
    BY DEF HInv, IInv
  <2>2. k \in KeysOf(rows)
    BY <1>0, <1>4, <2>1, CloseOrigin DEF KeysOf
  <2>3. PICK r \in rows : r.key = k /\ r.cur
    BY <1>0, <1>4, <2>2 DEF HInv, HasCurrent
  <2>4. r \in h
    BY <1>4, <2>3, CloseKeeps DEF KeysOf
  <2> QED BY <1>0, <2>3, <2>4
<1> HIDE DEF h
<1>5. RowTimes' /\ SourceTimes'
  BY <1>0, <1>2, <1>3 DEF RowTimes, SourceTimes, Orderly, HInv
<1>6. CopyIsWithinRun'
  BY <1>0 DEF HInv, CopyIsWithinRun, config
<1>7. StampsOf(rows)' /\ NewestOf(rows)' /\ InLineOf(rows)'
  BY <1>0, <1>2 DEF Orderly, StampsOf, NewestOf, InLineOf, Before, config
<1>8. HasCurrent'
  BY <1>0, <1>4 DEF HasCurrent, KeysOf
<1> QED BY <1>1, <1>5, <1>6, <1>7, <1>8 DEF HInv

\* The newest version of a key is not pruned, and a current one is the newest.
LEMMA NewestStays ==
  ASSUME HInv, NEW keep \in KeepLasts, NEW t \in rows, t.key \notin torn,
         t.cur \/ \A r \in rows : r.key = t.key => r.from <= t.from
  PROVE  t \notin Pruned(rows, keep)
<1>1. \A r \in rows : r.from \in Nat
  BY DEF HInv, IInv, TypeOK, Row
<1>2. ASSUME NEW r \in rows, r.key = t.key, r.from >= t.from
      PROVE  r = t
  BY <1>1, <1>2 DEF HInv, NewestOf
<1>3. {r \in rows : r.key = t.key /\ r.from >= t.from} = {t}
  BY <1>1, <1>2
<1>4. Cardinality({r \in rows : r.key = t.key /\ r.from >= t.from}) = 1
  BY <1>3, FS_Singleton
<1> QED BY <1>4, SnapshotAssumption DEF Pruned

LEMMA HistoryPrune == ASSUME HInv, Prune PROVE HInv'
<1>1. PICK keep \in KeepLasts : rows' = rows \ Pruned(rows, keep)
  BY DEF Prune
<1>2. /\ pc = "done" /\ pc' = "idle"
      /\ UNCHANGED <<config, src, created, staged, now, torn, orphaned>>
  BY DEF Prune
<1>3. IInv'
  <2>1. Next
    BY DEF Next
  <2> QED BY <2>1, StepIInv DEF HInv
<1>4. HasCurrent'
  <2> SUFFICES ASSUME NEW k \in KeysOf(rows)', k \notin torn, k \notin orphaned
               PROVE  \E t \in rows' : t.key = k /\ t.cur
    BY <1>2 DEF HasCurrent
  <2>1. PICK t \in rows : t.key = k /\ t.cur
    BY <1>1, <1>2 DEF HInv, HasCurrent, KeysOf
  <2> QED BY <1>1, <2>1, NewestStays
<1>5. rows' \subseteq rows
  BY <1>1
<1> QED BY <1>2, <1>3, <1>4, <1>5 DEF HInv, RowTimes, SourceTimes, CopyIsWithinRun, StampsOf,
           NewestOf, InLineOf, Before, config

LEMMA HistoryOther == ASSUME HInv, Stage \/ Break \/ Finish \/ UNCHANGED vars PROVE HInv'
<1>0. TypeOK /\ IInv'
  BY StepIInv DEF HInv, IInv, Next
<1>1. CASE Stage
  <2>1. /\ pc = "idle" /\ pc' = "staged" /\ staged' \subseteq src
        /\ staged' # {} => engine = "staged"
        /\ UNCHANGED <<config, src, rows, created, now, torn, orphaned>>
    BY <1>1 DEF Stage
  <2>2. SourceTimes'
    BY <1>0, <2>1 DEF HInv, SourceTimes, TypeOK, OneRowPerKey, SourceRow
  <2>3. CopyIsWithinRun' /\ StampsOf(rows)' /\ RowTimes' /\ NewestOf(rows)' /\ InLineOf(rows)'
    BY <2>1 DEF HInv, CopyIsWithinRun, StampsOf, RowTimes, NewestOf, InLineOf, Before, config
  <2>4. HasCurrent'
    BY <2>1 DEF HInv, HasCurrent, KeysOf
  <2> QED BY <1>0, <2>2, <2>3, <2>4 DEF HInv
<1>2. CASE Break
  <2>1. /\ pc' = "idle" /\ staged' = {}
        /\ orphaned' = orphaned \union {k \in KeysOf(rows) : \A t \in rows : t.key = k => ~t.cur}
        /\ UNCHANGED <<config, src, rows, created, now, torn>>
    BY <1>2 DEF Break
  <2>2. SourceTimes' /\ CopyIsWithinRun' /\ StampsOf(rows)' /\ RowTimes' /\ NewestOf(rows)' /\ InLineOf(rows)'
    BY <2>1 DEF HInv, SourceTimes, CopyIsWithinRun, StampsOf, RowTimes, NewestOf, InLineOf, Before, config
  <2>3. HasCurrent'
    BY <2>1 DEF HInv, HasCurrent, KeysOf
  <2> QED BY <1>0, <2>2, <2>3 DEF HInv
<1>3. CASE Finish \/ UNCHANGED vars
  <2>1. /\ pc' = pc \/ (pc = "done" /\ pc' = "idle")
        /\ UNCHANGED <<config, src, rows, created, staged, now, torn, orphaned>>
    BY <1>3 DEF Finish, vars
  <2>2. Source' = Source
    BY <2>1 DEF Source, config
  <2>3. SourceTimes' /\ CopyIsWithinRun' /\ StampsOf(rows)' /\ RowTimes' /\ NewestOf(rows)' /\ InLineOf(rows)'
    BY <2>1 DEF HInv, SourceTimes, CopyIsWithinRun, StampsOf, RowTimes, NewestOf, InLineOf, Before, config
  <2>4. HasCurrent'
    BY <2>1, <2>2 DEF HInv, HasCurrent, KeysOf
  <2> QED BY <1>0, <2>3, <2>4 DEF HInv
<1> QED BY <1>1, <1>2, <1>3

LEMMA HistoryStep == HInv /\ [Next]_vars => HInv'
BY HistorySource, HistoryInsert, HistoryRewrite, HistoryFirst, HistoryClose, HistoryPrune,
   HistoryOther DEF Next

\* What holds of source, copy and history at every moment.
THEOREM HistoryInvariance == Spec => []HInv
BY HistoryInit, HistoryStep, PTL DEF Spec

\* A key keeps its last version as the current one (docs/Snapshots.md, "Deletes"), and
\* with strategy check the versions of a key never overlap (snapshots/runtime/base.py).
THEOREM VersionsInLine == Spec => []VersionsLineUp
<1>1. ASSUME HInv, strategy = "check", NEW t1 \in rows, NEW t2 \in rows, t1.key \notin torn
      PROVE  ~Overlap(t1, t2)
  <2> SUFFICES ASSUME t1.key = t2.key, t1 # t2, NEW d \in 1 .. now,
                      \A t \in {t1, t2} : t.from <= d /\ (t.to = 0 \/ d < t.to)
               PROVE  FALSE
    BY DEF Overlap
  <2>1. Before(t1, t2) \/ Before(t2, t1)
    BY <1>1 DEF HInv, InLineOf
  <2>2. {t1.from, t1.to, t2.from, t2.to} \subseteq Nat /\ d \in Nat
    BY <1>1 DEF HInv, IInv, TypeOK, Row
  <2> QED BY <2>1, <2>2 DEF Before
<1>2. HInv => VersionsLineUp
  BY <1>1 DEF HInv, HasCurrent, VersionsLineUp, LastVersionStaysCurrent, CheckVersionsDisjoint
<1> QED BY <1>2, HistoryInvariance, PTL

\* A source row does not differ from the version it became.
LEMMA OwnVersion ==
  ASSUME HInv, NEW s \in src \union staged
  PROVE  Version(s).key = s.key /\ Version(s).cur = TRUE /\ ~Changed(s, Version(s))
<1>1. s.upd \in Nat /\ strategy \in Strategies
  BY DEF HInv, IInv, TypeOK, SourceRow
<1> QED BY <1>1 DEF Version, Changed, Strategies

\* A run that ends well (run_snapshot_sql) has recorded each row it read.
THEOREM RunsRecord == Spec => RunRecordsSource
<1> DEFINE Recorded == \A s \in Source : s.key \notin torn =>
                         \E t \in rows' : t.key = s.key /\ t.cur /\ ~Changed(s, t)
<1>1. ASSUME HInv, [Next]_vars, pc # "done", pc' = "done"
      PROVE  Recorded
  <2> SUFFICES ASSUME NEW s \in Source
               PROVE  \E t \in rows' : t.key = s.key /\ t.cur /\ ~Changed(s, t)
    OBVIOUS
  <2>0. s \in src \union staged
    BY DEF Source
  <2>1. CASE FirstRun
    <3>1. s \in src /\ rows' = {Version(q) : q \in src}
      BY <1>1, <2>0, <2>1 DEF FirstRun, HInv, CopyIsWithinRun
    <3> QED BY <1>1, <2>0, <3>1, OwnVersion
  <2>2. CASE Insert
    <3>1. rows' = rows \union {Version(q) : q \in Missing(Source, rows)}
      BY <2>2 DEF Insert
    <3>2. CASE s \in Missing(Source, rows)
      BY <1>1, <2>0, <3>1, <3>2, OwnVersion
    <3>3. CASE s \notin Missing(Source, rows)
      BY <3>1, <3>3 DEF Missing, Matches
    <3> QED BY <3>2, <3>3
  <2>3. CASE Rewrite
    <3>1. /\ rows' = CloseRows(src, rows) \union {Version(q) : q \in Missing(src, rows)}
          /\ Source = src /\ OneRowPerKey(src)
      BY <1>1, <2>3 DEF Rewrite, Source, HInv, IInv, TypeOK
    <3>2. CASE s \in Missing(src, rows)
      BY <1>1, <2>0, <3>1, <3>2, OwnVersion
    <3>3. CASE s \notin Missing(src, rows)
      <4>1. PICK t \in rows : t.cur /\ t.key = s.key /\ ~Changed(s, t)
        BY <3>1, <3>3 DEF Missing, Matches
      <4>2. t \in CloseRows(src, rows)
        BY <3>1, <4>1, CloseKeeps DEF OneRowPerKey
      <4> QED BY <3>1, <4>1, <4>2
    <3> QED BY <3>2, <3>3
  <2> QED BY <1>1, <2>1, <2>2, <2>3
          DEF Next, SourceWrite, SourceDelete, Stage, Close, Break, Prune, Finish, vars
<1>2. HInv /\ [Next]_vars => [pc # "done" /\ pc' = "done" => Recorded]_vars
  BY <1>1
<1> QED BY <1>2, HistoryInvariance, PTL DEF Spec, RunRecordsSource

\* Before the first run there is no version, and nothing that could write one.
NothingBeforeTheTable == (~created => rows = {}) /\ (pc # "idle" => created)

LEMMA TableComesFirst == Spec => []NothingBeforeTheTable
<1>1. Init => NothingBeforeTheTable
  BY DEF Init, NothingBeforeTheTable
<1>2. NothingBeforeTheTable /\ [Next]_vars => NothingBeforeTheTable'
  BY DEF NothingBeforeTheTable, Next, vars, SourceWrite, SourceDelete, FirstRun, Stage, Close,
         Insert, Rewrite, Break, Prune, Finish
<1> QED BY <1>1, <1>2, PTL DEF Spec

\* No step but a prune takes a version away, and a prune keeps the newest and the
\* current one of each key (snapshot_prune).
THEOREM HistoryStays == Spec => HistoryIsKept
<1> DEFINE Kept == IF pc = "done"
          THEN \A t \in rows : t.key \notin torn /\ (t.cur \/ \A r \in rows : r.key = t.key => r.from <= t.from)
                 => t \in rows'
          ELSE \A t \in rows : t \in rows' \/ (t.cur /\ \E r \in rows' :
                 r = [t EXCEPT !.cur = FALSE, !.to = r.to])
<1>1. ASSUME HInv, NothingBeforeTheTable, [Next]_vars
      PROVE  Kept
  <2>1. CASE rows' = rows
    BY <2>1
  <2>2. CASE Prune
    <3>1. pc = "done" /\ \E keep \in KeepLasts : rows' = rows \ Pruned(rows, keep)
      BY <2>2 DEF Prune
    <3> QED BY <1>1, <3>1, NewestStays
  <2>3. CASE Insert
    BY <2>3 DEF Insert
  <2>4. CASE FirstRun
    BY <1>1, <2>4 DEF FirstRun, NothingBeforeTheTable
  <2>5. ASSUME NEW S, CloseRows(S, rows) \subseteq rows', NEW t \in rows, t \notin rows'
        PROVE  t.cur /\ \E r \in rows' : r = [t EXCEPT !.cur = FALSE, !.to = r.to]
    <3>1. t.cur /\ \E s \in S : s.key = t.key /\ Changed(s, t)
      BY <2>5, CloseKeeps
    <3>2. [t EXCEPT !.to = now, !.cur = FALSE] \in rows'
      BY <2>5, <3>1 DEF CloseRows
    <3>3. t \in Row
      BY <1>1 DEF HInv, IInv, TypeOK
    <3>4. /\ [t EXCEPT !.to = now, !.cur = FALSE].to = now
          /\ [t EXCEPT !.to = now, !.cur = FALSE] = [t EXCEPT !.cur = FALSE, !.to = now]
      BY <3>3 DEF Row
    <3> QED BY <3>1, <3>2, <3>4
  <2>6. CASE Close
    BY <2>5, <2>6 DEF Close
  <2>7. CASE Rewrite
    BY <2>5, <2>7 DEF Rewrite
  <2> QED BY <1>1, <2>1, <2>2, <2>3, <2>4, <2>6, <2>7
          DEF Next, SourceWrite, SourceDelete, Stage, Break, Finish, vars
<1>2. HInv /\ NothingBeforeTheTable /\ [Next]_vars => [Kept]_vars
  BY <1>1
<1> QED BY <1>2, HistoryInvariance, TableComesFirst, PTL DEF Spec, HistoryIsKept
=============================================================================
