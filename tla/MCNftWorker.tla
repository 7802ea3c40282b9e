---------------------------- MODULE MCNftWorker ----------------------------
(***************************************************************************)
(* The settings of the create event, and of a request that leaves the      *)
(* thumbnail alone.                                                        *)
(***************************************************************************)
EXTENDS NftWorker, TLC

Created == {{"uploadAsset"}}

SomeRequests == {{"uploadAsset"}, {"forceRefreshMedia", "skipRefreshThumbnail"}}

Symmetry == Permutations(Jobs) \cup Permutations(Messages)
=============================================================================
