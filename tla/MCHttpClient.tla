---------------------------- MODULE MCHttpClient ----------------------------
(* Two clients of an API of two pages, with and without the limiter. *)
EXTENDS HttpClient

TwoCosts == {1, 2}
CONSTANTS p1, p2
Some(mode, ttl, tries, limiter, clients, bound) ==
  [mode |-> mode, ttl |-> ttl, tries |-> tries, json |-> ttl = 0, limiter |-> limiter,
   clients |-> clients, calls |-> bound]
SomeHttpConfigs ==
  {Some("rw", 0, 2, FALSE, Procs, 3), Some("rw", 1, 1, FALSE, {p1}, 3),
   Some("rw", 1, 1, FALSE, Procs, 2), Some("ro", 0, 1, FALSE, Procs, 2),
   Some("off", 0, 1, TRUE, Procs, 2)}
=============================================================================
