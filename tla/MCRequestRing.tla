---------------------------- MODULE MCRequestRing ----------------------------
(* Two slots, one of them in the cache region, and a proposal for its      *)
(* first epoch beside an eviction.                                         *)
EXTENDS RequestRingRefinement

MCSlots == {"prime", "cache"}
MCCacheSlots == {"cache"}

MCRequests == {CommitRequest("cache", 0, 1, 1), EvictRequest}
=============================================================================
