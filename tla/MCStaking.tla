------------------------------ MODULE MCStaking ------------------------------
(* Two nodes of one identity: one of a wallet, which may be merged into a delegation       *)
(* contract, and one of the contract, which waits in the queue until staking V4 puts it     *)
(* into auction in epoch 1, when the first one is in jail.                                 *)
EXTENDS Staking

MCMerges == {<<"o1", "p1">>}
MCOwnerOf == [p1 |-> "o2"]
MCIdentityOf == [o1 |-> "i1", p1 |-> "", b1 |-> "", b2 |-> "i1"]
MCClaimedBy == [b1 |-> "", b2 |-> "i1"]
MCProfiles == {"i1"}
MCInitialChain == [owner |-> [b1 |-> "o1", b2 |-> "p1"], topUp |-> [o1 |-> 1, p1 |-> 2], contracts |-> {"p1"}]
MCNetwork ==
    [e \in 0..1 |->
        IF e = 0 THEN [status |-> [b1 |-> "eligible", b2 |-> "new"], queue |-> {"b2"}]
        ELSE [status |-> [b1 |-> "jailed", b2 |-> "auction"], queue |-> {}]]
=============================================================================
