----------------------------- MODULE HttpClient -----------------------------
(***************************************************************************)
(* The HTTP client Python models use (api/http.py, api/context.py): a file *)
(* cache shared by all threads and processes, retries, pagination, offline *)
(* mode, and the telemetry of a call.  A model may ask the rate limiter    *)
(* first; the client itself never does.                                    *)
(*                                                                         *)
(* The API serves Pages pages, each naming the next; its content has a     *)
(* version, and the hash of a body is its version.  A key of the cache     *)
(* stands for one page.                                                    *)
(***************************************************************************)
EXTENDS Naturals, Sequences, TokenBucket

CONSTANTS Pages, MaxVer,  \* pages of the API; bound: versions of its content
          HttpConfigs     \* [mode, ttl, tries, json, limiter, clients, calls];
                          \* bounds: the threads that call, and the calls of all of them

ASSUME PagesAssumption == Pages \in Nat \ {0} /\ MaxVer \in Nat \ {0}

None == 0            \* no file
Torn == MaxVer + 1   \* a body that is truncated and not written yet

VARIABLES cfg, ver,  \* the API's version
          meta, body, age,  \* per page: hash in the .json file, the .bin file, age
          pc,       \* "idle", "throttle", "meta", "body", "send", "backoff",
                    \* "writeMeta", "truncate", "writeBody", "done", "failed", "exhausted"
          calls,    \* calls made so far
          offline,  \* per client: the mode of its process
          page, i,  \* page being fetched, attempts made for it
          seen,     \* content_hash of the meta file read, or the version received
          pages,    \* bodies so far
          tele,     \* what record() was told: [hash, hit]
          contended,\* auxiliary: two clients overlapped, or one died while writing
          last,     \* auxiliary: what the last complete online call left in the cache
          promise   \* auxiliary: last, as it was when an offline call began

files == <<meta, body, age>>
local == <<offline, calls, page, i, seen, pages, tele>>
ghosts == <<contended, last, promise>>
vars == <<cfg, ver, files, pc, local, ghosts, bucket>>

Set(f, p, v) == [f EXCEPT ![p] = v]
Resting(p) == pc[p] \in {"idle", "done", "failed", "exhausted"}
P == 1..Pages
Everyone(v) == [p \in Procs |-> v]

Init == /\ cfg \in HttpConfigs /\ ver = 1
        /\ meta = [q \in P |-> None] /\ body = [q \in P |-> None] /\ age = [q \in P |-> 0]
        /\ pc = Everyone("idle") /\ offline = Everyone(FALSE) /\ calls = 0
        /\ page = Everyone(1) /\ i = Everyone(0) /\ seen = Everyone(None)
        /\ pages = Everyone(<<>>) /\ tele = Everyone(<<>>)
        /\ contended = FALSE /\ last = <<>> /\ promise = Everyone(<<>>)
        /\ BucketInit

-----------------------------------------------------------------------------
(* A call: get, get_json or get_df. *)

\* The environment's FF_HTTP_OFFLINE is read when a process starts; a model
\* starts with new telemetry.
Call(p, off) ==
  /\ p \in cfg.clients /\ Resting(p) /\ calls < cfg.calls /\ need[p] = 0
  /\ pc' = Set(pc, p, IF cfg.limiter THEN "throttle" ELSE "meta")
  /\ offline' = Set(offline, p, off) /\ calls' = calls + 1
  /\ page' = Set(page, p, 1) /\ i' = Set(i, p, 0) /\ seen' = Set(seen, p, None)
  /\ pages' = Set(pages, p, <<>>) /\ tele' = Set(tele, p, <<>>)
  /\ contended' = (contended \/ \E q \in Procs \ {p} : ~Resting(q))
  /\ promise' = Set(promise, p, IF off /\ ~contended' THEN last ELSE <<>>)
  /\ UNCHANGED <<cfg, ver, files, last, bucket>>

\* The model calls rate_limit() or try_consume() before it fetches.
Throttle(p) ==
  /\ pc[p] = "throttle"
  /\ \/ \E c \in Costs : Wait(p, c) \/ TryConsume(p, c)
     \/ Wake(p)
  /\ pc' = IF need'[p] = 0 THEN Set(pc, p, "meta") ELSE pc
  /\ UNCHANGED <<cfg, ver, files, local, ghosts>>

-----------------------------------------------------------------------------
(* _read_cache: the meta file, then the body; a miss is an error offline. *)

Expired(q) == cfg.ttl > 0 /\ age[q] > cfg.ttl
\* A meta file that is being written does not parse.
HalfWritten(q) == \E c \in Procs : pc[c] = "writeMeta" /\ page[c] = q

Cached(p) == cfg.mode # "off" /\ meta[page[p]] # None /\ body[page[p]] # None
ReadMeta(p) ==
  /\ pc[p] = "meta" /\ Cached(p) /\ ~Expired(page[p])
  /\ pc' = Set(pc, p, "body") /\ seen' = Set(seen, p, meta[page[p]])
  /\ UNCHANGED <<cfg, ver, files, offline, calls, page, i, pages, tele, ghosts, bucket>>
Miss(p) ==
  /\ pc[p] = "meta" /\ (~Cached(p) \/ Expired(page[p]) \/ HalfWritten(page[p]))
  /\ pc' = Set(pc, p, IF offline[p] THEN "failed" ELSE "send")
  /\ i' = Set(i, p, 0)
  /\ UNCHANGED <<cfg, ver, files, offline, calls, page, seen, pages, tele, ghosts, bucket>>

\* record, then the next page: a torn body does not parse as JSON, and the
\* payload names the page that follows.
\* Entries that are written and never expire.
Kept == cfg.mode = "rw" /\ cfg.ttl = 0
Ends(p, v) == v = Torn \/ page[p] = Pages
Deliver(p, v, hash, hit) ==
  /\ tele' = Set(tele, p, Append(tele[p], [hash |-> hash, hit |-> hit]))
  /\ pages' = Set(pages, p, Append(pages[p], v))
  /\ pc' = Set(pc, p, IF v = Torn /\ cfg.json THEN "failed"
                      ELSE IF Ends(p, v) THEN "done" ELSE "meta")
  /\ page' = Set(page, p, IF Ends(p, v) THEN page[p] ELSE page[p] + 1)
  /\ last' = IF Ends(p, v) /\ v # Torn /\ ~offline[p] /\ ~contended /\ Kept
             THEN pages'[p] ELSE last
  /\ UNCHANGED <<cfg, ver, offline, calls, i, seen, contended, promise, bucket>>

Hit(p) ==
  /\ pc[p] = "body"
  /\ Deliver(p, body[page[p]], seen[p], TRUE)
  /\ UNCHANGED files

-----------------------------------------------------------------------------
(* _request_with_cache: the attempts. *)

MoreTries(p) == i[p] < cfg.tries - 1

\* 2xx or 304.
Respond(p) ==
  /\ pc[p] = "send" /\ i[p] < cfg.tries
  /\ IF cfg.mode = "ro" THEN Deliver(p, ver, ver, FALSE)
     ELSE /\ pc' = Set(pc, p, "writeMeta") /\ seen' = Set(seen, p, ver)
          /\ UNCHANGED <<cfg, ver, offline, calls, page, i, pages, tele, ghosts, bucket>>
  /\ UNCHANGED files

\* Altered TryAgain: the attempt is not counted.
TryAgainUncounted(p) == /\ i' = i /\ pc' = Set(pc, p, "backoff") /\ nap' = Set(nap, p, 1)
\* Retry-After, or exponential backoff.
TryAgain(p) == /\ i' = Set(i, p, i[p] + 1) /\ pc' = Set(pc, p, "backoff")
               /\ nap' = Set(nap, p, 1)
GiveUp(p) == pc' = Set(pc, p, "failed") /\ UNCHANGED <<i, nap>>
\* A timeout, a request error, 429, 500, 502, 503 or 504.
Transient(p) ==
  /\ pc[p] = "send" /\ i[p] < cfg.tries
  /\ IF MoreTries(p) THEN TryAgain(p) ELSE GiveUp(p)
  /\ UNCHANGED <<cfg, ver, files, offline, calls, page, seen, pages, tele, ghosts,
                 tokens, need, credit>>
BackedOff(p) ==
  /\ pc[p] = "backoff" /\ nap[p] = 0
  /\ pc' = Set(pc, p, IF i[p] < cfg.tries THEN "send" ELSE "exhausted")
  /\ UNCHANGED <<cfg, ver, files, local, ghosts, bucket>>
\* Any other status.
Reject(p) ==
  /\ pc[p] = "send" /\ i[p] < cfg.tries
  /\ pc' = Set(pc, p, "failed")
  /\ UNCHANGED <<cfg, ver, files, local, ghosts, bucket>>

-----------------------------------------------------------------------------
(* _write_cache: two files, one after the other; opening truncates. *)

\* Altered WriteMeta: an entry that is there is not written again.
WriteMetaOnce(p) ==
  /\ pc[p] = "writeMeta"
  /\ meta' = IF meta[page[p]] = None THEN Set(meta, page[p], seen[p]) ELSE meta
  /\ age' = Set(age, page[p], 0) /\ pc' = Set(pc, p, "truncate")
  /\ last' = <<>> /\ promise' = Everyone(<<>>)
  /\ UNCHANGED <<cfg, ver, body, local, contended, bucket>>
WriteMeta(p) ==
  /\ pc[p] = "writeMeta"
  /\ meta' = Set(meta, page[p], seen[p]) /\ age' = Set(age, page[p], 0)
  /\ pc' = Set(pc, p, "truncate")
  /\ last' = <<>> /\ promise' = Everyone(<<>>)
  /\ UNCHANGED <<cfg, ver, body, local, contended, bucket>>
TruncateBody(p) ==
  /\ pc[p] = "truncate"
  /\ body' = Set(body, page[p], Torn) /\ pc' = Set(pc, p, "writeBody")
  /\ UNCHANGED <<cfg, ver, meta, age, local, ghosts, bucket>>
\* Altered WriteBody: only the first page of a chain is kept.
WriteBodyOfFirst(p) ==
  /\ pc[p] = "writeBody"
  /\ body' = Set(body, page[p], IF page[p] = 1 THEN seen[p] ELSE None)
  /\ Deliver(p, seen[p], seen[p], FALSE)
  /\ UNCHANGED <<meta, age>>
WriteBody(p) ==
  /\ pc[p] = "writeBody"
  /\ body' = Set(body, page[p], seen[p])
  /\ Deliver(p, seen[p], seen[p], FALSE)
  /\ UNCHANGED <<meta, age>>

-----------------------------------------------------------------------------
(* The world. *)

\* The process of the client dies.
Die(p) ==
  /\ ~Resting(p)
  /\ pc' = Set(pc, p, "idle") /\ nap' = Set(nap, p, 0) /\ need' = Set(need, p, 0)
  /\ contended' = (contended \/ pc[p] \in {"truncate", "writeBody"})
  /\ UNCHANGED <<cfg, ver, files, local, last, promise, tokens, credit>>

Publish == /\ ver < MaxVer /\ ver' = ver + 1
           /\ UNCHANGED <<cfg, files, pc, local, ghosts, bucket>>

Tick == /\ age' = [q \in P |-> IF cfg.ttl = 0 THEN 0 ELSE Least(age[q] + 1, cfg.ttl + 1)]
        /\ BucketTick
        /\ UNCHANGED <<cfg, ver, meta, body, pc, local, ghosts>>

Reconfigure == /\ cfg.limiter /\ SetParams
               /\ UNCHANGED <<cfg, ver, files, pc, local, ghosts>>

Client(p) == \/ ReadMeta(p) \/ Miss(p) \/ Hit(p) \/ Respond(p) \/ Transient(p)
             \/ BackedOff(p) \/ Reject(p) \/ WriteMeta(p) \/ TruncateBody(p) \/ WriteBody(p)

Next == \/ \E p \in Procs : \/ \E off \in BOOLEAN : Call(p, off)
                            \/ Throttle(p) \/ Client(p) \/ Die(p)
        \/ Publish \/ Tick \/ Reconfigure

\* A client that can go on does; the server answers or the request times out.
Spec == Init /\ [][Next]_vars /\ WF_vars(Tick) /\ \A p \in Procs : WF_vars(Client(p))

-----------------------------------------------------------------------------
\* Types of the variables.
HttpTypeOK == /\ meta \in [P -> 0..MaxVer] /\ body \in [P -> 0..Torn]
              /\ page \in [Procs -> P] /\ tokens \in 0..Capacity
              /\ \A p \in Procs : Len(tele[p]) = Len(pages[p])

\* The hashes a model's telemetry reports are those of the bodies it was given,
\* as long as nobody else wrote to the cache at the same time and nobody died
\* between the two files of an entry.
TelemetryIsTrue ==
  ~contended => \A p \in Procs : \A k \in DOMAIN pages[p] : tele[p][k].hash = pages[p][k]

\* An offline run replays what the last online run left: after a complete call
\* that kept its pages, the same call made offline succeeds and returns the same pages.
OfflineReplays ==
  \A p \in Procs : promise[p] # <<>> =>
    /\ pc[p] # "failed"
    /\ pc[p] = "done" => pages[p] = promise[p]

\* Every call ends, with a result or an error, however the server behaves.
CallsEnd == \A p \in Procs : pc[p] = "meta" ~> Resting(p)
=============================================================================
