---------------------------- MODULE MCFetchCache ----------------------------
(* Two processes that fetch two cacheable keys and one that is not; one    *)
(* body fills the cache, the other is larger than the cap by itself, and   *)
(* the network takes one request at a time.                                *)
EXTENDS FetchCache
CONSTANTS big
MCSize == [k \in CacheKey |-> IF k = big THEN 2 ELSE 1]
=============================================================================
