-------------------------- MODULE StakingEndpoints --------------------------
(***************************************************************************)
(* The handlers of the controllers of nodes, providers, identities, keys,  *)
(* the waiting list and the details of an account (whose owner may be that *)
(* of a provider), with the services they call, over published lists *)
(* (module Staking has how those are computed).  Options that only add     *)
(* fields to what is listed (withIdentityInfo) are left out.               *)
(***************************************************************************)
EXTENDS Sequences, AccountEndpoints

CONSTANTS
    NodeList, ProviderList, IdentityList, \* getAllNodes, getProvidersWithStakeInformation, getAllIdentities
    DelegationProviders, \* the providers the delegation API knows
    Delegators,          \* the documents of the index "delegators"
    NodeStates,          \* what a contract answers to getAllNodeStates: a status, its keys, the next status...
    BlsKeysStatus,       \* what the auction contract answers of an address: a key, its status, the next key...
    WaitingListEncoded   \* what the delegation contract answers: an address, a value, a nonce, the next address...

StakingParams ==
    LET nodes == {"search", "online", "type", "status", "shard", "issues", "identity", "provider", "owner", "auctioned",
                  "fullHistory", "isQualified", "isAuctioned", "isAuctionDangerZone"}
    IN  [getNodes |-> nodes \cup {"keys"},
         getNodeCount |-> nodes,
         getProviders |-> {"identity", "owner", "providers", "withLatestInfo"},
         getIdentities |-> {"identities"},
         getAccountKeys |-> {"status"}]

-----------------------------------------------------------------------------
(* The services.                                                           *)

\* NodeService.getFilteredNodes.  Nothing is put aside for a node outside the danger zone
\* being asked for.  A node that is not in auction has no value for it ("" here, beside
\* "true" and "false"), which is not the one that is asked for by FALSE.
NodeMatches(f, n) ==
    /\ Given(f, "search") => f.search \in {n.bls, n.name, n.version}
    /\ \A k \in {"online", "type", "status", "shard", "auctioned"} : Given(f, k) => n[k] = f[k]
    /\ Given(f, "issues") => (f.issues <=> n.issues # {})
    /\ \A k \in {"identity", "provider", "owner"} : IsSet(f, k) => n[k] = f[k]
    /\ Given(f, "fullHistory") => (f.fullHistory <=> n.fullHistory)
    /\ IsTrue(f, "isAuctionDangerZone") => n.isInDangerZone
    /\ Given(f, "keys") => n.bls \in f.keys
    /\ Given(f, "isQualified") => n.auctionQualified = f.isQualified
    /\ Given(f, "isAuctioned") => n.auctioned = f.isAuctioned

NodeService_getNodes(f) == {n \in NodeList : NodeMatches(f, n)}
NodeService_getNodeCount(f) == {n \in NodeList : NodeMatches(f, n)}
NodeService_getNode(b) == {n \in NodeList : n.bls = b}

getFilteredProviders(f) ==
    {p \in ProviderList :
        /\ IsSet(f, "identity") => p.identity = f.identity
        /\ Given(f, "providers") => p.provider \in f.providers
        /\ IsSet(f, "owner") => p.owner = f.owner}

\* A provider the delegation API does not know is no provider.
ProviderService_getProvider(a) == {p \in getFilteredProviders(<<>>) : p.provider = a /\ a \in DelegationProviders}
isProvider(a) == ProviderService_getProvider(a) # {}
getProviderDelegators(a) == {d \in Delegators : d.contract = a}
getProviderDelegatorsCount(a) == {d \in Delegators : d.contract = a}

\* No identities to choose from are no choice.
IdentitiesService_getIdentities(f) == {i \in IdentityList : NonEmpty(f, "identities") => i.identity \in f.identities}
IdentitiesService_getIdentity(i) == {d \in IdentityList : d.identity = i}

NodeStatusRaw == {"staked", "jailed", "queued", "unStaked", "notStaked"}

\* AccountService.getInactiveNodesBuffers: what follows the status notStaked up to the next
\* status, or to the end.
getInactiveNodesBuffers(states) ==
    LET statuses == {i \in DOMAIN states : states[i] \in NodeStatusRaw}
        under(i) == {j \in DOMAIN states : i < j /\ \A k \in statuses : ~(i < k /\ k <= j)}
    IN  {states[j] : j \in UNION {under(i) : i \in {i \in statuses : states[i] = "notStaked"}}}

createNotStakedNodes(keys) == {[blsKey |-> k, status |-> "notStaked"] : k \in keys}
createAccountKeys(s) == {[blsKey |-> s[i], status |-> s[i + 1]] : i \in {i \in DOMAIN s : i % 2 = 1}}

\* The keys of a provider that are not staked, and those the auction contract knows.
getKeys(a, f) ==
    LET notStaked == IF isProvider(a) THEN createNotStakedNodes(getInactiveNodesBuffers(NodeStates[a])) ELSE {}
    IN  {k \in notStaked \cup createAccountKeys(BlsKeysStatus[a]) : NonEmpty(f, "status") => k.status \in f.status}

\* The account of the gateway; an address it does not answer for is none.
getAccountRaw(a) ==
    IF a \notin DOMAIN GatewayAccounts THEN {}
    ELSE {[address |-> a, balance |-> GatewayAccounts[a].balance, ownerAddress |-> GatewayAccounts[a].ownerAddress,
           isVerified |-> a \in Contracts \cap VerifiedAccounts, txCount |-> {}, scrCount |-> {}]}

\* AccountService.getAccount.  The owner of a provider is not the owner of its contract.
AccountService_getAccount(a, f) ==
    {[d EXCEPT !.txCount = IF IsTrue(f, "withTxCount") THEN getAccountTxCount(a) ELSE @,
               !.scrCount = IF IsTrue(f, "withScrCount") THEN getAccountScResultsOf(a) ELSE @,
               !.ownerAddress = IF a \in Contracts /\ isProvider(a)
                                THEN (CHOOSE p \in ProviderService_getProvider(a) : TRUE).owner ELSE @] :
        d \in getAccountRaw(a)}

\* WaitingListService: three answers make an entry, which is ranked by its place.
getFullWaitingListRaw ==
    LET s == WaitingListEncoded IN
    {[address |-> s[i], value |-> s[i + 1], nonce |-> s[i + 2], rank |-> (i + 2) \div 3] : i \in {i \in DOMAIN s : i % 3 = 1}}
getWaitingListForAddress(a) == {w \in getFullWaitingListRaw : w.address = a}

-----------------------------------------------------------------------------
(* The handlers.                                                           *)

NodeController_getNodes(q) == NodeService_getNodes(Pick(q, StakingParams.getNodes))
NodeController_getNodeCount(q) == NodeService_getNodeCount(Pick(q, StakingParams.getNodeCount))
NodeController_getNodeCountAlternative(q) == NodeService_getNodeCount(Pick(q, StakingParams.getNodeCount))
NodeController_getNode(b) == FoundOr404(NodeService_getNode(b))

\* The latest information is for the providers of an owner only.
ProviderController_getProviders(q) ==
    IF IsTrue(q, "withLatestInfo") /\ ~IsSet(q, "owner") THEN BadRequest
    ELSE getFilteredProviders(Pick(q, StakingParams.getProviders))
ProviderController_getProvider(a) == FoundOr404(ProviderService_getProvider(a))
ProviderController_getProviderAccounts(a) == getProviderDelegators(a)
ProviderController_getProviderAccountsCount(a) == getProviderDelegatorsCount(a)

IdentitiesController_getIdentities(q) == IdentitiesService_getIdentities(Pick(q, StakingParams.getIdentities))
IdentitiesController_getIdentity(i) == FoundOr404(IdentitiesService_getIdentity(i))

\* The time is that of the index, which may not have the account.
AccountController_getAccountDetails(a, q) ==
    IF AccountService_getAccount(a, q) # {} /\ IsTrue(q, "withTimestamp") /\ ~(\E d \in Accounts : d.address = a) THEN Failed
    ELSE FoundOr404(AccountService_getAccount(a, q))
AccountController_getAccountKeys(a, q) == getKeys(a, Pick(q, StakingParams.getAccountKeys))
AccountController_getAccountWaitingList(a) == getWaitingListForAddress(a)

WaitingListController_getWaitingList == getFullWaitingListRaw
WaitingListController_getWaitingListCount == getFullWaitingListRaw
WaitingListController_getWaitingListCountAlternative == getFullWaitingListRaw
=============================================================================
