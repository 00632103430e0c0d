-------------------------- MODULE MCRequestExecution --------------------------
(* Two providers of a model, one of which also serves its fallback model; a    *)
(* third model that no provider serves any more but that is still cached.     *)
EXTENDS RequestExecution, TLC

CONSTANTS r1, r2, pa, pb, m1, m2, m3, k1

MCServing == m1 :> {pa, pb} @@ m2 :> {pb} @@ m3 :> {}

(* A request that may be retried; the others are variants of it. *)
Plain == [model |-> m1, key |-> k1, stream |-> FALSE, caching |-> FALSE,
          infinite |-> FALSE, retries |-> 1, same |-> pa :> 1 @@ pb :> 0,
          budget |-> FALSE, fallbacks |-> <<m2>>, refusing |-> {}, pinned |-> None]
Cached == [Plain EXCEPT !.caching = TRUE, !.retries = 0, !.fallbacks = <<>>]

(* The first request is one of several kinds, the second a diagnostic request *)
(* or one that only the cache can serve.                                      *)
MCProfiles ==
  r1 :> {[Plain EXCEPT !.budget = TRUE],
         Cached,
         [Plain EXCEPT !.infinite = TRUE, !.stream = TRUE, !.budget = TRUE],
         [Plain EXCEPT !.infinite = TRUE, !.fallbacks = <<m3>>, !.refusing = {pb}]} @@
  r2 :> {[Cached EXCEPT !.infinite = TRUE, !.fallbacks = <<m2>>, !.pinned = pa],
         [Cached EXCEPT !.model = m3]}
=============================================================================
