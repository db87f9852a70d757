------------------------------ MODULE IdCache -------------------------------
(***************************************************************************)
(* The caches that recognise copies of a message (src/model/               *)
(* aodv-id-cache.cc, aodv-dpd.cc), as operators on a set of keys.  Every   *)
(* operation of the code first erases the identifiers whose time has       *)
(* passed, so one that has expired is as good as absent: the module that   *)
(* owns a cache takes keys out of it when their time passes.               *)
(***************************************************************************)

IsDuplicate(cache, key) == key \in cache

\* The cache after IsDuplicate was asked for key.
Remember(cache, key) == cache \cup {key}

Expire(cache, key) == cache \ {key}

=============================================================================
