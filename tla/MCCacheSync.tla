---------------------------- MODULE MCCacheSync ----------------------------
(***************************************************************************)
(* A process that serves requests and one that runs the cron jobs; two     *)
(* calls of the warmer's job, so that the lock has something to keep out.  *)
(***************************************************************************)
EXTENDS CacheSync, TLC

Symmetry == Permutations(WarmRuns)

\* The invariants say nothing once raced holds, and it holds for ever.
Unraced == ~raced
=============================================================================
