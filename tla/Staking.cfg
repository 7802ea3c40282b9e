SPECIFICATION FairSpec
CONSTANTS
    Blses = {"b1", "b2"}
    Wallets = {"o1"}
    Contracts = {"p1"}
    Merges <- MCMerges
    OwnerOf <- MCOwnerOf
    IdentityOf <- MCIdentityOf
    ClaimedBy <- MCClaimedBy
    Profiles <- MCProfiles
    BaseStake = 5
    InitialChain <- MCInitialChain
    Confirmed = {"b2"}
    Network <- MCNetwork
    MinimumStake = 5
    V4Epoch = 1
    MaxEpoch = 1
    MaxTroubles = 1
INVARIANTS IdentitiesAddUp
PROPERTIES OwnersSinceTheEpoch CountedOnce ListsHeal
CHECK_DEADLOCK FALSE
