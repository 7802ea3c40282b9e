------------------------------- MODULE Staking -------------------------------
(***************************************************************************)
(* Nodes, providers, identities and stake: the jobs of the cache warmer    *)
(* that compute each list from the chain and from what the other jobs have *)
(* published, the keys the lists are built from (the owner of a node in an *)
(* epoch, the owner of a provider, the stake of an address, the confirmed  *)
(* identity of a node), and the transaction processor that deletes some of *)
(* them.  A published list is one value here: how it gets from the warmer  *)
(* to the other processes is CacheSync's subject.  Amounts are in units of *)
(* the base stake of one node and of its parts; shares in hundredths.      *)
(***************************************************************************)
EXTENDS Integers, FiniteSets, FiniteSetsExt, TLC

CONSTANTS
    Blses,         \* the keys of the nodes
    Wallets,       \* addresses that stake themselves
    Contracts,     \* delegation contracts, which become providers
    Merges,        \* the wallets and the contracts they may be merged into
    OwnerOf,       \* the wallet that owns a delegation contract
    IdentityOf,    \* the identity that lists an address or a key among its owners, or ""
    ClaimedBy,     \* the identity a node gives itself in its heartbeat, or ""
    Profiles,      \* the identities that have a profile
    BaseStake,     \* what one node stakes
    InitialChain,  \* the chain's records: see Init
    Confirmed,     \* the nodes whose identity has been confirmed at first
    Network,       \* what the network says of the nodes in each epoch: their status and the queue
    MinimumStake,  \* MINIMUM_STAKE_AMOUNT
    V4Epoch,       \* getStakingV4ActivationEpoch; staking V4 is enabled
    MaxEpoch,      \* bound of the model
    MaxTroubles    \* bound on failed queries and jobs and delegations together

Addresses == Wallets \cup Contracts
None == "none"

ASSUME StakingAssumption ==
    /\ None \notin Addresses /\ "" \notin Addresses
    /\ BaseStake \in Nat \ {0} /\ MinimumStake \in Nat /\ V4Epoch \in Nat /\ MaxEpoch \in Nat
    /\ MaxTroubles \in Nat

\* The chain: every node has one owner, and a merge goes from a wallet to a contract.  The
\* network gives the nodes their statuses by epoch, and in no epoch is a node of the queue in
\* auction.
ASSUME ChainAssumption ==
    /\ IsFiniteSet(Blses) /\ Confirmed \subseteq Blses /\ Merges \subseteq Wallets \X Contracts
    /\ InitialChain \in [owner : [Blses -> Addresses], topUp : [Addresses -> Nat], contracts : SUBSET Contracts]
    /\ Network \in [0..MaxEpoch -> [status : [Blses -> STRING], queue : SUBSET Blses]]
    /\ \A e \in 0..MaxEpoch : \A b \in Network[e].queue : Network[e].status[b] # "auction"

VARIABLES
    \* the chain
    epoch,
    chain,         \* owner of a node, topUp of an address, contracts that exist
    transactions,  \* the transactions the processor has not seen yet
    \* the keys
    ownerCache,    \* OwnerByEpochAndBls
    providerOwner, \* ProviderOwner
    stakeTopup,    \* StakeTopup, of the addresses whose key is there
    confirmed,     \* ConfirmedIdentity
    \* the published lists the others are computed from
    nodes, providers,
    nodeJob,       \* handleNodeInvalidations: its step, its nodes and what its awaits have returned
    troubles,      \* queries that have failed, jobs given up and delegations
    ownedIn,       \* the owners each node has had in an epoch
    readIn         \* the epochs in which the published nodes' statuses, queue and auctions were read

chainVars == <<epoch, chain, transactions, ownedIn>>
keyVars == <<ownerCache, providerOwner, stakeTopup, confirmed>>
listVars == <<nodes, readIn, providers>>
vars == <<chainVars, keyVars, listVars, nodeJob, troubles>>

Without(f, k) == [x \in DOMAIN f \ {k} |-> f[x]]
Sum(F(_), S) == MapThenSumSet(F, S)
Epochs == 0..MaxEpoch
Idle == [step |-> "idle"]

-----------------------------------------------------------------------------
(* The chain and the transaction processor.                                *)

\* KeybaseService.confirmIdentity: an identity is confirmed for all the keys of an address it
\* lists, and for a key it lists itself if the node says so too.
confirmIdentity(b) ==
    IF IdentityOf[chain.owner[b]] # "" THEN IdentityOf[chain.owner[b]]
    ELSE IF IdentityOf[b] = ClaimedBy[b] THEN IdentityOf[b] ELSE ""

\* The job of the providers has run once and the confirmations have come to some of the nodes.
Init ==
    /\ epoch = 0
    /\ chain = InitialChain
    /\ transactions = {}
    /\ ownedIn = [b \in Blses |-> [e \in Epochs |-> IF e = 0 THEN {InitialChain.owner[b]} ELSE {}]]
    /\ ownerCache = [b \in Blses |-> [e \in Epochs |-> None]]
    /\ providerOwner = [c \in Contracts |-> IF c \in InitialChain.contracts THEN OwnerOf[c] ELSE ""]
    /\ stakeTopup = <<>>
    /\ confirmed = [b \in Blses |-> IF b \in Confirmed THEN confirmIdentity(b) ELSE ""]
    /\ nodes = {}
    /\ providers = {[provider |-> c, owner |-> OwnerOf[c], numNodes |-> 0, locked |-> 0] : c \in InitialChain.contracts}
    /\ nodeJob = Idle
    /\ troubles = 0
    /\ readIn = [statuses |-> 0, queue |-> 0, auctions |-> 0]

BlsesOf(a) == {b \in Blses : chain.owner[b] = a}

\* mergeValidatorToDelegationWithWhitelist and makeNewContractFromValidatorData: the nodes
\* and the stake of a wallet go to a contract, an existing or a new one.
Merge(w, c) ==
    /\ epoch < MaxEpoch
    /\ BlsesOf(w) # {}
    /\ chain' = [chain EXCEPT !.owner = [b \in Blses |-> IF chain.owner[b] = w THEN c ELSE chain.owner[b]],
                              !.topUp = [chain.topUp EXCEPT ![c] = @ + chain.topUp[w], ![w] = 0],
                              !.contracts = chain.contracts \cup {c}]
    /\ ownedIn' = [b \in Blses |-> IF chain.owner[b] = w THEN [ownedIn[b] EXCEPT ![epoch] = @ \cup {c}] ELSE ownedIn[b]]
    /\ transactions' = transactions \cup {[function |-> "merge", address |-> w]}
    /\ UNCHANGED <<epoch, keyVars, listVars, nodeJob, troubles>>

\* delegate: more stake for the nodes of a contract.
Delegate(c) ==
    /\ c \in chain.contracts
    /\ troubles < MaxTroubles
    /\ troubles' = troubles + 1
    /\ chain' = [chain EXCEPT !.topUp[c] = @ + 1]
    /\ transactions' = transactions \cup {[function |-> "delegate", address |-> c]}
    /\ UNCHANGED <<epoch, ownedIn, keyVars, listVars, nodeJob>>

NewEpoch ==
    /\ epoch < MaxEpoch
    /\ epoch' = epoch + 1
    /\ ownedIn' = [b \in Blses |-> [ownedIn[b] EXCEPT ![epoch + 1] = {chain.owner[b]}]]
    /\ UNCHANGED <<chain, transactions, keyVars, listVars, nodeJob, troubles>>

\* NodeService.deleteOwnersForAddressInCache: the nodes are those of the published list, in
\* which the owner of a provider's node is that of the provider.
deleteOwnersForAddressInCache(a) ==
    LET blses == {n.bls : n \in {n \in nodes : n.owner = a}}
    IN  ownerCache' = [b \in Blses |-> IF b \in blses THEN [ownerCache[b] EXCEPT ![epoch] = None] ELSE ownerCache[b]]

\* TransactionProcessorService, of one transaction.
tryInvalidateOwner(t) ==
    IF t.function = "merge" THEN deleteOwnersForAddressInCache(t.address) ELSE UNCHANGED ownerCache

tryInvalidateStakeTopup(t) ==
    stakeTopup' = IF t.function = "delegate" THEN Without(stakeTopup, t.address) ELSE stakeTopup

ProcessTransaction(t) ==
    /\ transactions' = transactions \ {t}
    /\ tryInvalidateOwner(t)
    /\ tryInvalidateStakeTopup(t)
    /\ UNCHANGED <<epoch, chain, ownedIn, providerOwner, confirmed, listVars, nodeJob, troubles>>

\* KeybaseService.confirmIdentities: what is no longer confirmed is not deleted.
confirmIdentities ==
    /\ confirmed' = [b \in Blses |-> IF confirmIdentity(b) # "" THEN confirmIdentity(b) ELSE confirmed[b]]
    /\ confirmed' # confirmed
    /\ UNCHANGED <<chainVars, ownerCache, providerOwner, stakeTopup, listVars, nodeJob, troubles>>

\* A confirmed identity is kept for 6 hours; those that still hold are renewed before that.
ExpireConfirmedIdentity(b) ==
    /\ confirmed[b] # "" /\ confirmIdentity(b) = ""
    /\ confirmed' = [confirmed EXCEPT ![b] = ""]
    /\ UNCHANGED <<chainVars, ownerCache, providerOwner, stakeTopup, listVars, nodeJob, troubles>>

-----------------------------------------------------------------------------
(* handleNodeInvalidations: NodeService.getAllNodesRaw, one step for each  *)
(* await whose answer a step of the chain or of another job may change.    *)

NoStake == [stake |-> 0, topUp |-> 0, locked |-> 0]

\* Every query of the job may fail, a bounded number of times.
May == {TRUE} \cup IF troubles < MaxTroubles THEN {FALSE} ELSE {}
Counted(answered) == troubles' = IF answered THEN troubles ELSE troubles + 1

\* The type and the status of a node from its validatorStatus and peerType.
TypeOfStatus(s) == IF s = "observer" THEN "observer" ELSE "validator"

getHeartbeatAndValidators ==
    {[bls |-> b, type |-> TypeOfStatus(Network[epoch].status[b]), status |-> Network[epoch].status[b],
      owner |-> "", provider |-> "", identity |-> ClaimedBy[b], auctioned |-> FALSE, auctionQualified |-> None,
      isInDangerZone |-> FALSE, auctionTopUp |-> 0, stake |-> 0, topUp |-> 0, locked |-> 0] :
        b \in Blses}

\* The job begins with the heartbeats and the statistics, which it asks for together.
ReadNodes ==
    /\ nodeJob.step = "idle"
    /\ nodeJob' = [step |-> "queue", list |-> getHeartbeatAndValidators, statuses |-> epoch]
    /\ UNCHANGED <<chainVars, keyVars, listVars, troubles>>

\* A queued node is a validator whatever the heartbeat said.
processQueuedNodes(ns, queue) ==
    {IF n.bls \in queue THEN [n EXCEPT !.type = "validator", !.status = "queued"] ELSE n : n \in ns}

\* An inactive node keeps the identity it claims, any other one has the one that is confirmed.
applyNodeIdentities(ns) == {IF n.status # "inactive" THEN [n EXCEPT !.identity = confirmed[n.bls]] ELSE n : n \in ns}

\* The queue, and in the same step the confirmed identities: nothing that may come between the
\* two changes both.
getQueue ==
    /\ nodeJob.step = "queue"
    /\ nodeJob' = [step |-> "epoch", list |-> applyNodeIdentities(processQueuedNodes(nodeJob.list, Network[epoch].queue)),
                   statuses |-> nodeJob.statuses, queue |-> epoch]
    /\ UNCHANGED <<chainVars, keyVars, listVars, troubles>>

\* applyNodeOwners reads the epoch that names the keys of the owners ...
ReadEpoch ==
    /\ nodeJob.step = "epoch"
    /\ nodeJob' = [step |-> "cached", list |-> nodeJob.list, statuses |-> nodeJob.statuses, queue |-> nodeJob.queue, epoch |-> epoch]
    /\ UNCHANGED <<chainVars, keyVars, listVars, troubles>>

ValidatorBlses(ns) == {n.bls : n \in {n \in ns : n.type = "validator"}}

\* getOwners, with what the cache has answered: the owners known so far, the nodes it had
\* none for, and those of them the loop has still to come to.
AskOwners(known) ==
    LET missing == {b \in DOMAIN known : known[b] = None} IN
    /\ nodeJob' = [step |-> "owners", list |-> nodeJob.list, statuses |-> nodeJob.statuses, queue |-> nodeJob.queue,
                   epoch |-> nodeJob.epoch, known |-> known, missing |-> missing, left |-> missing, owner |-> None, todo |-> {}]
    /\ UNCHANGED <<chainVars, keyVars, listVars, troubles>>

\* Mutant: the key of an owner does not name the epoch.
ReadOwnerCache_AnyEpoch ==
    /\ nodeJob.step = "cached"
    /\ AskOwners([b \in ValidatorBlses(nodeJob.list) |->
            IF \E e \in Epochs : ownerCache[b][e] # None
            THEN ownerCache[b][CHOOSE e \in Epochs : ownerCache[b][e] # None] ELSE None])

\* ... then the cache, for all the nodes at once ...
ReadOwnerCache ==
    /\ nodeJob.step = "cached"
    /\ AskOwners([b \in ValidatorBlses(nodeJob.list) |-> ownerCache[b][nodeJob.epoch]])

\* The nodes the loop will ask the owner of: not one whose owner has been found with another's keys.
Unknown == {b \in nodeJob.left : nodeJob.known[b] = None}

\* ... then, node by node, the owner.  Without an answer the node has none; an error ends the
\* job: see NodeJobFails.
getBlsOwner(b) ==
    /\ nodeJob.step = "owners"
    /\ \E answered \in May :
        /\ Counted(answered)
        /\ nodeJob' = [nodeJob EXCEPT !.step = IF answered THEN "keys" ELSE "owners",
                                      !.left = nodeJob.left \ {b}, !.owner = IF answered THEN chain.owner[b] ELSE None]
    /\ UNCHANGED <<chainVars, keyVars, listVars>>

\* ... and all the keys of that owner, none if they cannot be read ...
getOwnerBlses ==
    /\ nodeJob.step = "keys"
    /\ \E answered \in May :
        LET blses == IF answered THEN BlsesOf(nodeJob.owner) ELSE {} IN
        /\ Counted(answered)
        /\ nodeJob' = [nodeJob EXCEPT !.step = IF blses = {} THEN "owners" ELSE "setOwner",
                                      !.owner = IF blses = {} THEN None ELSE nodeJob.owner, !.todo = blses]
    /\ UNCHANGED <<chainVars, keyVars, listVars>>

\* ... which are kept one by one, under the epoch that was read at first, whatever has happened
\* to chain and keys since.
SetOwner(k) ==
    /\ nodeJob.step = "setOwner"
    /\ LET rest == nodeJob.todo \ {k} IN
        nodeJob' = [nodeJob EXCEPT
            !.step = IF rest = {} THEN "owners" ELSE "setOwner", !.todo = rest,
            !.owner = IF rest = {} THEN None ELSE nodeJob.owner,
            !.known = [b \in DOMAIN nodeJob.known |-> IF b = k /\ b \in nodeJob.missing THEN nodeJob.owner ELSE nodeJob.known[b]]]
    /\ ownerCache' = [b \in Blses |-> IF b = k THEN [ownerCache[b] EXCEPT ![nodeJob.epoch] = nodeJob.owner] ELSE ownerCache[b]]
    /\ UNCHANGED <<chainVars, providerOwner, stakeTopup, confirmed, listVars, troubles>>

OwnedBy(ns, known) ==
    {IF n.type = "validator" THEN [n EXCEPT !.owner = IF known[n.bls] = None THEN "" ELSE known[n.bls]] ELSE n : n \in ns}

\* A node whose owner is a provider that is known to be one belongs to the provider.
applyNodeProviders(ns) ==
    {IF n.type = "validator" /\ n.owner \in Contracts /\ providerOwner[n.owner] # ""
     THEN [n EXCEPT !.provider = n.owner, !.owner = providerOwner[n.owner]] ELSE n : n \in ns}

\* The loop is over: the nodes have their owners, and then, as far as these are known now, their
\* providers.
applyNodeOwners ==
    /\ nodeJob.step = "owners" /\ Unknown = {}
    /\ nodeJob' = [step |-> "stakes", list |-> applyNodeProviders(OwnedBy(nodeJob.list, nodeJob.known)),
                   statuses |-> nodeJob.statuses, queue |-> nodeJob.queue, epoch |-> nodeJob.epoch]
    /\ UNCHANGED <<chainVars, keyVars, listVars, troubles>>

StakedBy(n) == IF n.provider # "" THEN n.provider ELSE n.owner

\* StakeService.getAllStakesForAddressNodesRaw: each node of the address has an equal part.
\* Without an answer it is nothing, and that is kept like any other answer.
getAllStakesForAddressNodesRaw(a, answered) ==
    LET blses == {b \in BlsesOf(a) : Network[epoch].status[b] # "jailed"}
        n == Cardinality(blses)
        topUp == chain.topUp[a]
        staked == n * BaseStake
    IN  IF ~answered THEN NoStake @@ [blses |-> {}]
        ELSE IF n = 0 THEN NoStake @@ [blses |-> blses]
        ELSE [stake |-> staked \div n, topUp |-> topUp \div n, locked |-> (staked + topUp) \div n, blses |-> blses]

\* Mutant: it is kept for ever.
ExpireStakeTopup_Never(a) == FALSE /\ UNCHANGED vars

\* The stake of an address is kept for 15 minutes.  (One that is still right is left alone
\* here: it would be read again with the same result.)
ExpireStakeTopup(a) ==
    /\ a \in DOMAIN stakeTopup
    /\ stakeTopup[a] # getAllStakesForAddressNodesRaw(a, TRUE)
    /\ stakeTopup' = Without(stakeTopup, a)
    /\ UNCHANGED <<chainVars, ownerCache, providerOwner, confirmed, listVars, nodeJob, troubles>>

\* StakeService.getStakes: the stakes that are kept, and for the other addresses the answer of
\* the chain ...
getStakes ==
    /\ nodeJob.step = "stakes"
    /\ LET asked == {StakedBy(n) : n \in {n \in nodeJob.list : n.type = "validator"}} \ {""}
           fresh == asked \ DOMAIN stakeTopup
       IN  \E unanswered \in {{}} \cup IF troubles < MaxTroubles THEN {{a} : a \in fresh} ELSE {} :
            /\ Counted(unanswered = {})
            /\ nodeJob' = [step |-> "setStakes", list |-> nodeJob.list, statuses |-> nodeJob.statuses, queue |-> nodeJob.queue,
                           epoch |-> nodeJob.epoch,
                           stakes |-> [a \in asked |-> IF a \in fresh THEN getAllStakesForAddressNodesRaw(a, a \notin unanswered)
                                                       ELSE stakeTopup[a]],
                           fresh |-> fresh]
    /\ UNCHANGED <<chainVars, keyVars, listVars>>

\* The stake of a node is that of the first address that lists its key, whichever this is: the
\* nodes' order decides.  A jailed node, which no address lists, has a part like the other
\* nodes of its owner.
applyNodeStakeInfo(ns, stakes, first) ==
    LET listing(n) == {a \in DOMAIN stakes : IF n.status = "jailed" THEN a = StakedBy(n) /\ stakes[a].blses # {}
                                             ELSE n.bls \in stakes[a].blses}
        StakeOf(n) == IF listing(n) = {} THEN NoStake
                      ELSE stakes[IF first \in listing(n) THEN first ELSE CHOOSE a \in listing(n) : TRUE]
    IN  {IF n.type = "validator"
         THEN [n EXCEPT !.stake = StakeOf(n).stake, !.topUp = StakeOf(n).topUp, !.locked = StakeOf(n).locked] ELSE n : n \in ns}

\* ... which are kept, though what they say of the address may have been deleted since.  Then the
\* job reads the epoch again.
SetStakes ==
    /\ nodeJob.step = "setStakes"
    /\ stakeTopup' = [a \in nodeJob.fresh |-> nodeJob.stakes[a]] @@ stakeTopup
    /\ \E first \in Addresses :
        nodeJob' = [step |-> "auctions", list |-> applyNodeStakeInfo(nodeJob.list, nodeJob.stakes, first),
                    statuses |-> nodeJob.statuses, queue |-> nodeJob.queue, epoch |-> nodeJob.epoch, currentEpoch |-> epoch]
    /\ UNCHANGED <<chainVars, ownerCache, providerOwner, confirmed, listVars, troubles>>

\* The auction list of the gateway: the nodes in auction, with the top up of their address.  Who
\* qualifies is worked out for each request.
InAuctionOf(e) == {b \in Blses : Network[e].status[b] = "auction"}

ValidatorAuctions(qualified) ==
    {[bls |-> b, qualified |-> IF b \in qualified THEN "yes" ELSE "no",
      qualifiedTopUp |-> chain.topUp[chain.owner[b]] \div Cardinality(BlsesOf(chain.owner[b]))] : b \in InAuctionOf(epoch)}

\* StakeService.
getMinimumAuctionTopUp(auctions) ==
    LET topUps == {a.qualifiedTopUp : a \in {a \in auctions : a.qualified = "yes"}} IN IF topUps = {} THEN 0 ELSE Min(topUps)
getMinimumAuctionStake(auctions) == MinimumStake + getMinimumAuctionTopUp(auctions)

\* A node is in the danger zone when its stake is within 5% of the least that qualifies.
processAuctions(ns, auctions) ==
    LET threshold == (getMinimumAuctionStake(auctions) * 105) \div 100 IN
    {IF \E a \in auctions : a.bls = n.bls
     THEN LET a == CHOOSE a \in auctions : a.bls = n.bls
          IN  [n EXCEPT !.auctioned = TRUE, !.auctionTopUp = a.qualifiedTopUp, !.auctionQualified = a.qualified,
                        !.isInDangerZone = n.status = "auction" /\ a.qualified = "yes" /\ n.stake + a.qualifiedTopUp < threshold]
     ELSE n : n \in ns}

\* The auctions, if the epoch that was read has them, the unbonding periods (which nothing here
\* depends on), and the list is published.
PublishNodes ==
    /\ nodeJob.step = "auctions"
    /\ LET auctioned == nodeJob.currentEpoch >= V4Epoch IN
        /\ \E qualified \in SUBSET InAuctionOf(epoch) :
            nodes' = IF auctioned THEN processAuctions(nodeJob.list, ValidatorAuctions(qualified)) ELSE nodeJob.list
        /\ readIn' = [statuses |-> nodeJob.statuses, queue |-> nodeJob.queue,
                      auctions |-> IF auctioned THEN epoch ELSE nodeJob.currentEpoch]
    /\ nodeJob' = Idle
    /\ UNCHANGED <<chainVars, keyVars, providers, troubles>>

\* Any query whose error nobody catches, or a restart, ends the job where it is.
NodeJobFails ==
    /\ nodeJob.step # "idle"
    /\ troubles < MaxTroubles
    /\ troubles' = troubles + 1
    /\ nodeJob' = Idle
    /\ UNCHANGED <<chainVars, keyVars, listVars>>

handleNodeInvalidations ==
    \/ ReadNodes \/ getQueue \/ ReadEpoch \/ ReadOwnerCache
    \/ nodeJob.step = "owners" /\ \E b \in Unknown : getBlsOwner(b)
    \/ getOwnerBlses
    \/ nodeJob.step = "setOwner" /\ \E k \in nodeJob.todo : SetOwner(k)
    \/ applyNodeOwners \/ getStakes \/ SetStakes \/ PublishNodes

-----------------------------------------------------------------------------
(* handleProviderInvalidations: ProviderService.                           *)

\* getAllProvidersRaw: the contracts with their configuration; the owner of each is kept.  A
\* list of contracts that cannot be read is taken for an empty one, and a configuration that
\* cannot be read for one without an owner.
getAllProvidersRaw ==
    /\ \E known \in {chain.contracts} \cup IF troubles < MaxTroubles THEN {{}} ELSE {},
          unread \in {{}} \cup IF troubles < MaxTroubles THEN {{c} : c \in chain.contracts} ELSE {} :
        LET owner(c) == IF c \in unread THEN "" ELSE OwnerOf[c] IN
        /\ troubles' = IF known = chain.contracts /\ unread = {} THEN troubles ELSE troubles + 1
        /\ providers' = {[provider |-> c, owner |-> owner(c), numNodes |-> 0, locked |-> 0] : c \in known}
        /\ providerOwner' = [c \in Contracts |-> IF c \in known THEN owner(c) ELSE providerOwner[c]]
    /\ UNCHANGED <<chainVars, ownerCache, stakeTopup, confirmed, nodes, readIn, nodeJob>>

getNodesInfosForProvider(ns) == [numNodes |-> Cardinality(ns), locked |-> Sum(LAMBDA n : n.locked, ns)]

\* From here on: the lists that the warmer computes from the published ones, each at its own
\* time, as functions of what is published at that time.  They are read by the API alone.
getProvidersWithStakeInformationRaw ==
    {getNodesInfosForProvider({n \in nodes : n.provider = p.provider}) @@ p : p \in providers}

-----------------------------------------------------------------------------
(* handleIdentityInvalidations: IdentitiesService.getAllIdentitiesRaw.     *)

\* Mutant: nobody takes what the cutting leaves.
getStakeDistributionForIdentity_Cut(ns) ==
    LET keyOf(n) == IF n.provider # "" THEN n.provider ELSE "direct"
        locked == Sum(LAMBDA n : n.stake + n.topUp, ns)
    IN  [k \in {keyOf(n) : n \in ns} |->
            IF locked = 0 THEN 0 ELSE (100 * Sum(LAMBDA n : n.stake + n.topUp, {n \in ns : keyOf(n) = k})) \div locked]

\* The parts of what the identity has locked, by provider or "direct".  They are cut to whole
\* hundredths, and one of them (the first the code meets) takes what is missing to 1.
getStakeDistributionForIdentity(ns) ==
    LET keys == {IF n.provider # "" THEN n.provider ELSE "direct" : n \in ns}
        of(k) == {n \in ns : k = IF n.provider # "" THEN n.provider ELSE "direct"}
        locked == Sum(LAMBDA n : n.stake + n.topUp, ns)
        cut == [k \in keys |-> IF locked = 0 THEN 0 ELSE (100 * Sum(LAMBDA n : n.stake + n.topUp, of(k))) \div locked]
        first == CHOOSE k \in keys : TRUE
        parts == IF Cardinality(keys) > 1
                 THEN [cut EXCEPT ![first] = 100 - Sum(LAMBDA k : cut[k], keys \ {first})] ELSE cut
    IN  [k \in {k \in keys : parts[k] # 0 \/ locked = 0} |-> parts[k]]

\* The identity of a node counts only if it has a profile; without one the node is its own identity.
IdentityKey(n) == IF n.identity \in Profiles THEN n.identity ELSE n.bls

getStakeInfoForIdentity(ns) ==
    [validators |-> Cardinality({n \in ns : n.type = "validator" /\ n.status # "inactive"}),
     queued |-> Cardinality({n \in ns : n.type = "validator" /\ n.status = "queued"}),
     locked |-> Sum(LAMBDA n : n.stake + n.topUp, ns),
     providers |-> {n.provider : n \in ns} \ {""},
     distribution |-> getStakeDistributionForIdentity(ns)]

\* An identity without validators is left out.
getAllIdentitiesRaw ==
    LET keys == {IdentityKey(n) : n \in nodes}
        Info(k) == [identity |-> k] @@ getStakeInfoForIdentity({n \in nodes : IdentityKey(n) = k})
    IN  {i \in {Info(k) : k \in keys} : i.validators > 0}

-----------------------------------------------------------------------------
(* handleNodeAuctionInvalidations and handleStakeInvalidations.            *)

\* NodeService.getFilteredNodes, for the filters of the jobs and of the API, of a list.
getFilteredNodes(ns, f) == {n \in ns : \A k \in DOMAIN f : n[k] = f[k]}
getNodeCount(ns, f) == Cardinality(getFilteredNodes(ns, f))

\* getAllNodesAuctionsRaw: the nodes in auction by who stakes them and how much.
getAllNodesAuctionsRaw(ns) ==
    LET inAuction == getFilteredNodes(ns, [status |-> "auction"])
        key(n) == <<StakedBy(n), n.stake, n.topUp>>
        Group(k) == LET group == {n \in inAuction : key(n) = k} IN
            [staker |-> k[1], stake |-> k[2], topUp |-> k[3],
             auctionValidators |-> Cardinality({n \in group : n.auctioned}),
             qualifiedAuctionValidators |-> Cardinality({n \in group : n.auctionQualified = "yes"}),
             dangerZoneValidators |-> Cardinality({n \in group : n.isInDangerZone})]
    IN  {Group(key(n)) : n \in inAuction}

\* StakeService.getTotalAndInactiveValidators.  Each await has an answer of its own, between any
\* two of which a new list may be published and a new epoch begin: the list ns of getValidators,
\* currentEpoch, and the lists that the counts are taken from.
ActiveCount(ns) == Cardinality({n \in ns : n.type = "validator" /\ n.status \in {"eligible", "waiting"}})

BeforeStakingV4(ns) ==
    [totalValidators |-> ActiveCount(ns), inactiveValidators |-> getNodeCount(ns, [type |-> "validator", status |-> "queued"])]
DuringStakingV4(ns, counted) ==
    [totalValidators |-> ActiveCount(ns), inactiveValidators |-> getNodeCount(counted, [auctioned |-> TRUE])]
AfterStakingV4(ns, qualified, others) ==
    [totalValidators |-> ActiveCount(ns) + getNodeCount(qualified, [auctioned |-> TRUE, auctionQualified |-> "yes"]),
     inactiveValidators |-> getNodeCount(others, [auctioned |-> TRUE, auctionQualified |-> "no"])]

\* Mutant: every active validator is counted among those of the consensus.
getTotalAndInactiveValidators_Twice(ns, currentEpoch, first, second) ==
    [totalValidators |-> getNodeCount(ns, [type |-> "validator"]),
     inactiveValidators |-> IF currentEpoch < V4Epoch THEN getNodeCount(ns, [type |-> "validator", status |-> "queued"])
                            ELSE getNodeCount(second, [auctioned |-> TRUE])]

getTotalAndInactiveValidators(ns, currentEpoch, first, second) ==
    IF currentEpoch < V4Epoch THEN BeforeStakingV4(ns)
    ELSE IF currentEpoch = V4Epoch THEN DuringStakingV4(ns, first)
    ELSE AfterStakingV4(ns, first, second)

\* StakeService.getNakamotoCoefficient: how many identities, the largest first, it takes to
\* have more than a third of the validators (all of them, when they have not that many).
getNakamotoCoefficient(identities, totalValidators) ==
    LET threshold == (totalValidators * 33 + 99) \div 100
        most(n) == Max({Sum(LAMBDA i : i.validators, s) : s \in {s \in SUBSET identities : Cardinality(s) = n}})
        enough == {n \in 1..Cardinality(identities) : most(n) > threshold}
    IN  IF enough # {} THEN Min(enough) ELSE Cardinality(identities)

\* StakeService.getGlobalStakeRaw, of what getValidators returned, the epoch it reads itself,
\* the list each of its counts is taken from, and what getNakamotoCoefficient returned.
getGlobalStakeRaw(validators, currentEpoch, seen, nakamotoCoefficient) ==
    [totalObservers |-> getNodeCount(seen.totalObservers, [type |-> "observer"])] @@
    IF currentEpoch < V4Epoch
    THEN [totalValidators |-> validators.totalValidators, queueSize |-> getNodeCount(seen.queueSize, [status |-> "queued"])]
    ELSE validators @@
         [allStakedNodes |-> validators.totalValidators + validators.inactiveValidators,
          auctionValidators |-> getNodeCount(seen.auctionValidators, [auctioned |-> TRUE]),
          qualifiedAuctionValidators |-> getNodeCount(seen.qualifiedAuctionValidators, [auctionQualified |-> "yes"]),
          dangerZoneValidators |-> getNodeCount(seen.dangerZoneValidators, [isInDangerZone |-> TRUE, auctionQualified |-> "yes"]),
          eligibleValidators |-> getNodeCount(seen.eligibleValidators, [status |-> "eligible"]),
          waitingValidators |-> getNodeCount(seen.waitingValidators, [status |-> "waiting"]),
          nakamotoCoefficient |-> nakamotoCoefficient]

-----------------------------------------------------------------------------

Next ==
    \/ \E m \in Merges : Merge(m[1], m[2])
    \/ \E c \in Contracts : Delegate(c)
    \/ NewEpoch
    \/ \E t \in transactions : ProcessTransaction(t)
    \/ confirmIdentities
    \/ \E a \in Addresses : ExpireStakeTopup(a)
    \/ \E b \in Blses : ExpireConfirmedIdentity(b)
    \/ handleNodeInvalidations
    \/ NodeJobFails
    \/ getAllProvidersRaw

Spec == Init /\ [][Next]_vars

\* The jobs run on a schedule, every transaction is processed, epochs pass and keys expire.
FairSpec ==
    /\ Spec
    /\ WF_vars(NewEpoch)
    /\ WF_vars(\E t \in transactions : ProcessTransaction(t))
    /\ WF_vars(confirmIdentities)
    /\ \A a \in Addresses : WF_vars(ExpireStakeTopup(a))
    /\ \A b \in Blses : WF_vars(ExpireConfirmedIdentity(b))
    /\ WF_vars(handleNodeInvalidations)
    /\ WF_vars(getAllProvidersRaw)

-----------------------------------------------------------------------------
(* Properties.                                                             *)

Validators == {n \in nodes : n.type = "validator"}

\* The owners a node has had since an epoch began.
OwnedSince(b, e) == UNION {ownedIn[b][i] : i \in e..epoch}

\* A published node names an owner it has had since the epoch in which the job read the names
\* of the keys, or none: whatever a reader that was overtaken by a merge, a deletion or an epoch
\* has left in the cache is gone with the epoch it was kept for.
OwnersSinceTheEpoch ==
    [][nodes' # nodes => \A n \in nodes' : StakedBy(n) \in {""} \cup OwnedSince(n.bls, nodeJob.epoch)]_vars

\* The identities share the validators out: each active validator of the nodes they are made
\* from is one of exactly one of them, and the parts of what an identity has locked add up to
\* the whole though each is cut to hundredths.
IdentitiesAddUp ==
    /\ Sum(LAMBDA i : i.validators, getAllIdentitiesRaw) = Cardinality({n \in Validators : n.status # "inactive"})
    /\ \A i \in getAllIdentitiesRaw : i.locked > 0 => Sum(LAMBDA k : i.distribution[k], DOMAIN i.distribution) = 100

\* The validators in auction as their stakers' groups count them: one place for each.
AuctionPlaces(ns) == {p \in getAllNodesAuctionsRaw(ns) \X (1..Cardinality(ns)) : p[2] <= p[1].auctionValidators}

\* Who is staked, as far as the global stake counts: until staking V4 with the queue, after it
\* with the auction.
Staked(ns, currentEpoch) ==
    {n \in ns : n.type = "validator" /\ n.status \in
        {"eligible", "waiting"} \cup IF currentEpoch < V4Epoch THEN {"queued"} ELSE {"auction"}}

\* The lists, one after the other, that the awaits of getTotalAndInactiveValidators may see.
Sightings(old, new) == {<<old, old, old>>, <<old, old, new>>, <<old, new, new>>}

Qualified(ns) == {n.bls : n \in getFilteredNodes(ns, [auctioned |-> TRUE, auctionQualified |-> "yes"])}

\* Every validator is counted once, whatever the phase of staking V4, and wherever the awaits of
\* the job fall when one list takes the place of another: if the nodes of both lists are those
\* of one epoch x (statuses, queue and auctions), the epoch the job itself reads is of the same
\* side of the start of staking V4, and the two counts of the auction see the same nodes qualify.
\* The groups of the auction then have one place for each node in auction as well.
CountedOnce ==
    [][\A x \in Epochs :
        (nodes # {} /\ readIn = [statuses |-> x, queue |-> x, auctions |-> x] /\ readIn' = readIn) =>
            /\ \A s \in Sightings(nodes, nodes'), currentEpoch \in 0..(V4Epoch + 1) :
                (currentEpoch < V4Epoch <=> x < V4Epoch) /\ Qualified(s[2]) = Qualified(s[3]) =>
                    LET v == getTotalAndInactiveValidators(s[1], currentEpoch, s[2], s[3])
                    IN  v.totalValidators + v.inactiveValidators = Cardinality(Staked(nodes, x))
            /\ x >= V4Epoch => Cardinality(AuctionPlaces(nodes)) = getNodeCount(nodes, [auctioned |-> TRUE])]_vars

\* The global stake that is computed from what is published now.
GlobalStake ==
    LET validators == getTotalAndInactiveValidators(nodes, epoch, nodes, nodes)
        counts == {"totalObservers", "queueSize", "auctionValidators", "qualifiedAuctionValidators", "dangerZoneValidators",
                   "eligibleValidators", "waitingValidators"}
    IN  getGlobalStakeRaw(validators, epoch, [c \in counts |-> nodes],
                          getNakamotoCoefficient(getAllIdentitiesRaw, validators.totalValidators))

\* What the lists say of the chain: owner and stake of every validator, the stake of every
\* provider, and the staked nodes of the network.
Accurate ==
    /\ {n.bls : n \in nodes} = Blses
    /\ \A n \in Validators :
        /\ StakedBy(n) = chain.owner[n.bls]
        /\ n.locked = getAllStakesForAddressNodesRaw(chain.owner[n.bls], TRUE).locked
    /\ {p.provider : p \in getProvidersWithStakeInformationRaw} = chain.contracts
    /\ \A p \in getProvidersWithStakeInformationRaw :
        /\ p.owner = OwnerOf[p.provider]
        /\ p.locked = Sum(LAMBDA b : getAllStakesForAddressNodesRaw(p.provider, TRUE).locked, BlsesOf(p.provider))
    /\ epoch >= V4Epoch =>
        /\ GlobalStake.allStakedNodes = Cardinality({b \in Blses : Network[epoch].status[b] \in {"eligible", "waiting", "auction"}})
        /\ GlobalStake.allStakedNodes = GlobalStake.eligibleValidators + GlobalStake.waitingValidators + GlobalStake.auctionValidators

\* Owners that were cached after their deletion, queries that failed and were kept as zero,
\* lists made from older lists or in the middle of an epoch's change: the published lists come
\* to agree with the chain and stay so.
ListsHeal == <>[]Accurate
=============================================================================
