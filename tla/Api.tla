-------------------------------- MODULE Api --------------------------------
(***************************************************************************)
(* A client of the REST API that opens a listing and narrows it by one     *)
(* parameter at a time.  For each request the model keeps what the list,   *)
(* the count and its alternative ("/count" and "/c") answer to the same    *)
(* query over the same documents, and which of the listed documents their  *)
(* own endpoint does not find.  The handlers are those of the modules      *)
(* whose names end in Endpoints; a handler that has no alternative stands  *)
(* for it itself.  Two computations are asked for too: the action of a     *)
(* transaction (module Actions) and the price per unit of gas (module      *)
(* Ppu).                                                                   *)
(***************************************************************************)
EXTENDS AssetEndpoints, ChainEndpoints, StakingEndpoints, ExchangeEndpoints, Actions, Ppu

CONSTANTS
    Addresses,   \* the accounts asked for
    TokenIds, CollectionIds, NftIds, \* the assets asked for
    Decodable,   \* the transactions given to be decoded
    PoolTransactions, \* the transactions of a shard there may be in the pool
    Values,      \* Values[kind][parameter]: the values a client gives it
    MaxParams    \* MaxParams[kind]: how many parameters a request has

ASSUME ApiAssumption == \A k \in DOMAIN MaxParams : MaxParams[k] \in Nat

\* What ParseAddressPipe, ParseTokenPipe, ParseCollectionPipe and ParseNftPipe let into a path:
\* not the empty string and not "EGLD", and an identifier with one dash is of a token or a
\* collection, one with two of an NFT.  The gateway answers for every address.
ASSUME PathsAssumption ==
    /\ "" \notin Addresses \cup CollectionIds
    /\ Addresses \subseteq DOMAIN GatewayAccounts
    /\ "EGLD" \notin TokenIds \cup CollectionIds \cup NftIds
    /\ \A d \in AccountsEsdt : d.identifier \notin CollectionIds /\ d.token \notin NftIds

VARIABLES
    resource,    \* the listing the client is at, "" before the first request
    path,        \* the address or the asset in its path
    query,       \* the parameters of the last request
    list, count, alternative, \* the answers to it
    missing      \* the listed documents the endpoint of one document does not find

vars == <<resource, path, query, list, count, alternative, missing>>

NoQuery == <<>>
Errors == NotFound \cup BadRequest

Init ==
    /\ resource = "" /\ path = "" /\ query = NoQuery
    /\ list = {} /\ count = {} /\ alternative = {} /\ missing = {}

NoLookUp(p, d) == {d}

\* The query with one more parameter.
OneMore(q, k, v) == [n \in DOMAIN q \cup {k} |-> IF n = k THEN v ELSE q[n]]

Answer(r, p, q, List(_, _), Count(_, _), Alternative(_, _), LookUp(_, _)) ==
    /\ resource' = r /\ path' = p /\ query' = q
    /\ list' = List(p, q)
    /\ count' = Count(p, q)
    /\ alternative' = Alternative(p, q)
    /\ missing' = {d \in list' \ Errors : LookUp(p, d) \in {NotFound, Failed}}

Ask(r, kind, paths, params, List(_, _), Count(_, _), Alternative(_, _), LookUp(_, _)) ==
    \/ /\ resource = ""
       /\ \E p \in paths : Answer(r, p, NoQuery, List, Count, Alternative, LookUp)
    \/ /\ resource = r
       /\ Cardinality(DOMAIN query) < MaxParams[kind]
       /\ \E k \in params \ DOMAIN query : \E v \in Values[kind][k] :
              Answer(r, path, OneMore(query, k, v), List, Count, Alternative, LookUp)

-----------------------------------------------------------------------------
(* One action for each listing.                                            *)

AskAccounts ==
    Ask("accounts", "accounts", {""}, AccountParams.getAccounts \cup AccountParams.getAccountsCount,
        LAMBDA p, q : AccountController_getAccounts(q),
        LAMBDA p, q : AccountController_getAccountsCount(q),
        LAMBDA p, q : AccountController_getAccountsCountAlternative(q),
        LAMBDA p, d : AccountController_getAccountDetails(d.address, [withTimestamp |-> TRUE]))

\* The transactions and the results the details of an account count, beside its transfers.
AskAccount ==
    Ask("account", "none", Addresses, {},
        AccountController_getAccountTransfers,
        LAMBDA a, q : UNION {d.txCount \cup d.scrCount :
                                d \in AccountController_getAccountDetails(a, [withTxCount |-> TRUE, withScrCount |-> TRUE])},
        AccountController_getAccountTransfersCount,
        NoLookUp)

AskAccountTokens ==
    Ask("accounts/tokens", "tokens", Addresses, AccountParams.getAccountTokens,
        AccountController_getAccountTokens, AccountController_getTokenCount, AccountController_getTokenCountAlternative,
        LAMBDA a, d : AccountController_getAccountToken(a, IF Exists(d.identifier) THEN d.identifier ELSE d.token))

AskAccountCollectionsWithRoles ==
    Ask("accounts/roles/collections", "collectionRoles", Addresses, AccountParams.getAccountCollectionsWithRoles,
        AccountController_getAccountCollectionsWithRoles, AccountController_getCollectionWithRolesCount,
        AccountController_getCollectionCountAlternative,
        LAMBDA a, d : AccountController_getAccountCollection(a, d.token))

AskAccountTokensWithRoles ==
    Ask("accounts/roles/tokens", "tokenRoles", Addresses, AccountParams.getAccountTokensWithRoles,
        AccountController_getAccountTokensWithRoles, AccountController_getTokensWithRolesCount,
        AccountController_getTokensWithRolesCountAlternative,
        LAMBDA a, d : AccountController_getTokenWithRoles(a, d.token))

AskAccountNftCollections ==
    Ask("accounts/collections", "collections", Addresses, AccountParams.getAccountNftCollections,
        AccountController_getAccountNftCollections, AccountController_getNftCollectionCount,
        AccountController_getNftCollectionCountAlternative,
        LAMBDA a, d : AccountController_getAccountNftCollection(a, d.token))

AskAccountNfts ==
    Ask("accounts/nfts", "nfts", Addresses, AccountParams.getAccountNfts,
        AccountController_getAccountNfts, AccountController_getNftCount, AccountController_getNftCountAlternative,
        LAMBDA a, d : AccountController_getAccountNft(a, d.identifier))

AskAccountTransactions ==
    Ask("accounts/transactions", "operations", Addresses, AccountParams.getAccountTransactions,
        AccountController_getAccountTransactions, AccountController_getAccountTransactionsCount,
        AccountController_getAccountTransactionsCount,
        LAMBDA a, d : TransactionController_getTransaction(d.hash))

AskAccountTransfers ==
    Ask("accounts/transfers", "transfers", Addresses, AccountParams.getAccountTransfers,
        AccountController_getAccountTransfers, AccountController_getAccountTransfersCount,
        AccountController_getAccountTransfersCountAlternative,
        LAMBDA a, d : TransactionController_getTransaction(d.hash))

AskAccountDeploys ==
    Ask("accounts/deploys", "none", Addresses, {},
        LAMBDA a, q : AccountController_getAccountDeploys(a),
        LAMBDA a, q : AccountController_getAccountDeploysCount(a),
        LAMBDA a, q : AccountController_getAccountDeploysCountAlternative(a),
        NoLookUp)

AskAccountContracts ==
    Ask("accounts/contracts", "none", Addresses, {},
        LAMBDA a, q : AccountController_getAccountContracts(a),
        LAMBDA a, q : AccountController_getAccountContractsCount(a),
        LAMBDA a, q : AccountController_getAccountContractsCountAlternative(a),
        NoLookUp)

AskAccountScResults ==
    Ask("accounts/results", "none", Addresses, {},
        LAMBDA a, q : AccountController_getAccountScResults(a),
        LAMBDA a, q : AccountController_getAccountScResultsCount(a),
        LAMBDA a, q : AccountController_getAccountScResultsCount(a),
        LAMBDA a, d : AccountController_getAccountScResult(a, d.hash))

AskAccountHistory ==
    Ask("accounts/history", "history", Addresses, AccountParams.getAccountHistory,
        AccountController_getAccountHistory, AccountController_getAccountHistoryCount,
        AccountController_getAccountHistoryCount, NoLookUp)

AskAccountEsdtHistory ==
    Ask("accounts/esdthistory", "history", Addresses, AccountParams.getAccountEsdtHistory,
        AccountController_getAccountEsdtHistory, AccountController_getAccountEsdtHistoryCount,
        AccountController_getAccountEsdtHistoryCount, NoLookUp)

\* The path has the address and the identifier.
AskAccountTokenHistory ==
    Ask("accounts/history/token", "history", Addresses \X (TokenIds \cup NftIds), AccountParams.getAccountHistory,
        LAMBDA p, q : AccountController_getAccountTokenHistory(p[1], p[2], q),
        LAMBDA p, q : AccountController_getAccountTokenHistoryCount(p[1], p[2], q),
        LAMBDA p, q : AccountController_getAccountTokenHistoryCount(p[1], p[2], q),
        NoLookUp)

AskTokens ==
    Ask("tokens", "tokens", {""}, AssetParams.getTokens,
        LAMBDA p, q : TokenController_getTokens(q),
        LAMBDA p, q : TokenController_getTokenCount(q),
        LAMBDA p, q : TokenController_getTokenCountAlternative(q),
        LAMBDA p, d : TokenController_getToken(d.token))

AskTokenAccounts ==
    Ask("tokens/accounts", "none", TokenIds, {},
        LAMBDA i, q : TokenController_getTokenAccounts(i),
        LAMBDA i, q : TokenController_getTokenAccountsCount(i),
        LAMBDA i, q : TokenController_getTokenAccountsCount(i),
        LAMBDA i, d : IF d.address \in Contracts THEN {d} ELSE AccountController_getAccountToken(d.address, i))

\* The roles of each address that is listed are there.
AskTokenRoles ==
    Ask("tokens/roles", "none", TokenIds, {},
        LAMBDA i, q : TokenController_getTokenRoles(i),
        LAMBDA i, q : TokenController_getTokenRoles(i),
        LAMBDA i, q : TokenController_getTokenRoles(i),
        LAMBDA i, d : FoundOr404(TokenController_getTokenRolesForAddress(i, d.address)))

AskTokenTransactions ==
    Ask("tokens/transactions", "operations", TokenIds, AssetParams.getTokenTransactions,
        TokenController_getTokenTransactions, TokenController_getTokenTransactionsCount,
        TokenController_getTokenTransactionsCount,
        LAMBDA i, d : TransactionController_getTransaction(d.hash))

AskTokenTransfers ==
    Ask("tokens/transfers", "transfers", TokenIds, AssetParams.getTokenTransfers,
        TokenController_getTokenTransfers, TokenController_getTokenTransfersCount,
        TokenController_getAccountTransfersCountAlternative,
        LAMBDA i, d : TransactionController_getTransaction(d.hash))

AskCollections ==
    Ask("collections", "collections", {""}, AssetParams.getNftCollections,
        LAMBDA p, q : CollectionController_getNftCollections(q),
        LAMBDA p, q : CollectionController_getCollectionCount(q),
        LAMBDA p, q : CollectionController_getCollectionCountAlternative(q),
        LAMBDA p, d : CollectionController_getNftCollection(d.token))

AskCollectionNfts ==
    Ask("collections/nfts", "nfts", CollectionIds, AssetParams.getNftsOfCollection,
        CollectionController_getNfts, CollectionController_getNftCount, CollectionController_getNftCount,
        LAMBDA c, d : NftController_getNft(d.identifier))

\* An account of a collection finds the collection among its own.
AskCollectionAccounts ==
    Ask("collections/accounts", "none", CollectionIds, {},
        LAMBDA c, q : CollectionController_getNftAccounts(c),
        LAMBDA c, q : CollectionController_getNftAccounts(c),
        LAMBDA c, q : CollectionController_getNftAccounts(c),
        LAMBDA c, d : AccountController_getAccountNftCollection(d.address, c))

AskCollectionTransactions ==
    Ask("collections/transactions", "operations", CollectionIds, AssetParams.getCollectionTransactions,
        CollectionController_getCollectionTransactions, CollectionController_getCollectionTransactionsCount,
        CollectionController_getCollectionTransactionsCount,
        LAMBDA c, d : TransactionController_getTransaction(d.hash))

AskCollectionTransfers ==
    Ask("collections/transfers", "operations", CollectionIds, AssetParams.getCollectionTransfers,
        CollectionController_getCollectionTransfers, CollectionController_getCollectionTransfersCount,
        CollectionController_getCollectionTransfersCount,
        LAMBDA c, d : TransactionController_getTransaction(d.hash))

AskNfts ==
    Ask("nfts", "nfts", {""}, AssetParams.getNfts,
        LAMBDA p, q : NftController_getNfts(q),
        LAMBDA p, q : NftController_getNftCount(q),
        LAMBDA p, q : NftController_getNftCountAlternative(q),
        LAMBDA p, d : NftController_getNft(d.identifier))

AskNftAccounts ==
    Ask("nfts/accounts", "none", NftIds, {},
        LAMBDA i, q : NftController_getNftAccounts(i),
        LAMBDA i, q : NftController_getNftAccountsCount(i),
        LAMBDA i, q : NftController_getNftAccountsCount(i),
        LAMBDA i, d : AccountController_getAccountNft(d.address, i))

AskNftTransactions ==
    Ask("nfts/transactions", "operations", NftIds, AssetParams.getNftTransactions,
        NftController_getNftTransactions, NftController_getNftTransactionsCount, NftController_getNftTransactionsCount,
        LAMBDA i, d : TransactionController_getTransaction(d.hash))

AskNftTransfers ==
    Ask("nfts/transfers", "operations", NftIds, AssetParams.getNftTransfers,
        NftController_getNftTransfers, NftController_getNftTransfersCount, NftController_getNftTransfersCount,
        LAMBDA i, d : TransactionController_getTransaction(d.hash))

AskTransactions ==
    Ask("transactions", "operations", {""}, ChainParams.getTransactions,
        LAMBDA p, q : TransactionController_getTransactions(q),
        LAMBDA p, q : TransactionController_getTransactionCount(q),
        LAMBDA p, q : TransactionController_getTransactionCountAlternative(q),
        LAMBDA p, d : TransactionController_getTransaction(d.hash))

AskTransfers ==
    Ask("transfers", "transfers", {""}, ChainParams.getTransfers,
        LAMBDA p, q : TransferController_getAccountTransfers(q),
        LAMBDA p, q : TransferController_getAccountTransfersCount(q),
        LAMBDA p, q : TransferController_getAccountTransfersCountAlternative(q),
        LAMBDA p, d : TransactionController_getTransaction(d.hash))

\* The details of a block have the proposer and the validators that were listed, but for
\* round 0 and for the validators since Andromeda.
SameBlock(d, b) ==
    d.round > 0 => b.proposer = d.proposer /\ (~isAndromeda(d.epoch) => b.validators = d.validators)

AskBlocks ==
    Ask("blocks", "blocks", {""}, ChainParams.getBlocks,
        LAMBDA p, q : BlockController_getBlocks(q),
        LAMBDA p, q : BlockController_getBlocksCount(q),
        LAMBDA p, q : BlockController_getBlocksCountAlternative(q),
        LAMBDA p, d : FoundOr404({b \in BlockController_getBlock(d.hash) : b \in NotFound \/ SameBlock(d, b)}))

AskRounds ==
    Ask("rounds", "rounds", {""}, ChainParams.getRounds,
        LAMBDA p, q : RoundController_getRounds(q),
        LAMBDA p, q : RoundController_getRoundCount(q),
        LAMBDA p, q : RoundController_getRoundCountAlternative(q),
        LAMBDA p, d : RoundController_getRound(d.shardId, d.round))

AskEvents ==
    Ask("events", "events", {""}, ChainParams.getEvents,
        LAMBDA p, q : EventsController_getEvents(q),
        LAMBDA p, q : EventsController_getEventsCount(q),
        LAMBDA p, q : EventsController_getEventsCount(q),
        LAMBDA p, d : EventsController_getEvent(d.txHash))

AskScResults ==
    Ask("results", "results", {""}, ChainParams.getScResults,
        LAMBDA p, q : SmartContractResultController_getScResults(q),
        LAMBDA p, q : SmartContractResultController_getScResultsCount(q),
        LAMBDA p, q : SmartContractResultController_getScResultsCount(q),
        LAMBDA p, d : SmartContractResultController_getScResult(d.hash))

AskApplications ==
    Ask("applications", "history", {""}, ChainParams.getApplications,
        LAMBDA p, q : ApplicationController_getApplications(q),
        LAMBDA p, q : ApplicationController_getApplicationsCount(q),
        LAMBDA p, q : ApplicationController_getApplicationsCount(q),
        LAMBDA p, d : ApplicationController_getApplication(d.contract))

AskPool ==
    Ask("pool", "pool", {""}, ChainParams.getTransactionPool,
        LAMBDA p, q : PoolController_getTransactionPool(q),
        LAMBDA p, q : PoolController_getTransactionPoolCount(q),
        LAMBDA p, q : PoolController_getTransactionPoolCountAlternative(q),
        LAMBDA p, d : PoolController_getTransactionFromPool(d.txHash))

\* What a subscriber is sent, beside the count of the endpoint for the same parameters.
AskTransactionUpdates ==
    Ask("subscribeTransactions", "operations", {""}, ChainParams.subscribeTransactions,
        LAMBDA p, q : TransactionsGateway_pushTransactionsForRoom(q).transactions,
        LAMBDA p, q : TransactionsGateway_pushTransactionsForRoom(q).transactionsCount,
        LAMBDA p, q : TransactionController_getTransactionCount(q),
        LAMBDA p, d : TransactionController_getTransaction(d.hash))

AskBlockUpdates ==
    Ask("subscribeBlocks", "blocks", {""}, ChainParams.subscribeBlocks,
        LAMBDA p, q : BlocksGateway_pushBlocksForRoom(q).blocks,
        LAMBDA p, q : BlocksGateway_pushBlocksForRoom(q).blocksCount,
        LAMBDA p, q : BlockController_getBlocksCount(q),
        LAMBDA p, d : BlockController_getBlock(d.hash))

AskEventUpdates ==
    Ask("subscribeEvents", "events", {""}, ChainParams.subscribeEvents,
        LAMBDA p, q : EventsGateway_pushEventsForRoom(q).events,
        LAMBDA p, q : EventsGateway_pushEventsForRoom(q).eventsCount,
        LAMBDA p, q : EventsController_getEventsCount(q),
        LAMBDA p, d : EventsController_getEvent(d.txHash))

AskPoolUpdates ==
    Ask("subscribePool", "pool", {""}, ChainParams.subscribePool,
        LAMBDA p, q : PoolGateway_pushPoolForRoom(q).pool,
        LAMBDA p, q : PoolGateway_pushPoolForRoom(q).poolCount,
        LAMBDA p, q : PoolController_getTransactionPoolCount(q),
        LAMBDA p, d : PoolController_getTransactionFromPool(d.txHash))

AskNodes ==
    Ask("nodes", "nodes", {""}, StakingParams.getNodes,
        LAMBDA p, q : NodeController_getNodes(q),
        LAMBDA p, q : NodeController_getNodeCount(q),
        LAMBDA p, q : NodeController_getNodeCountAlternative(q),
        LAMBDA p, d : NodeController_getNode(d.bls))

AskProviders ==
    Ask("providers", "providers", {""}, StakingParams.getProviders,
        LAMBDA p, q : ProviderController_getProviders(q),
        LAMBDA p, q : ProviderController_getProviders(q),
        LAMBDA p, q : ProviderController_getProviders(q),
        LAMBDA p, d : ProviderController_getProvider(d.provider))

AskProviderAccounts ==
    Ask("providers/accounts", "none", {d.provider : d \in ProviderList}, {},
        LAMBDA a, q : ProviderController_getProviderAccounts(a),
        LAMBDA a, q : ProviderController_getProviderAccountsCount(a),
        LAMBDA a, q : ProviderController_getProviderAccountsCount(a),
        NoLookUp)

\* The identity of a node without one has no name to ask for.
AskIdentities ==
    Ask("identities", "identities", {""}, StakingParams.getIdentities,
        LAMBDA p, q : IdentitiesController_getIdentities(q),
        LAMBDA p, q : IdentitiesController_getIdentities(q),
        LAMBDA p, q : IdentitiesController_getIdentities(q),
        LAMBDA p, d : IF Exists(d.identity) THEN IdentitiesController_getIdentity(d.identity) ELSE {d})

AskAccountKeys ==
    Ask("accounts/keys", "keys", DOMAIN BlsKeysStatus, StakingParams.getAccountKeys,
        AccountController_getAccountKeys, AccountController_getAccountKeys, AccountController_getAccountKeys, NoLookUp)

AskWaitingList ==
    Ask("waiting-list", "none", {""}, {},
        LAMBDA p, q : WaitingListController_getWaitingList,
        LAMBDA p, q : WaitingListController_getWaitingListCount,
        LAMBDA p, q : WaitingListController_getWaitingListCountAlternative,
        LAMBDA p, d : FoundOr404(AccountController_getAccountWaitingList(d.address)))

AskMexPairs ==
    Ask("mex/pairs", "mex", {""}, ExchangeParams.getMexPairs,
        LAMBDA p, q : MexController_getMexPairs(q),
        LAMBDA p, q : MexController_getMexPairsCount(q),
        LAMBDA p, q : MexController_getMexPairsTemp(q),
        LAMBDA p, d : MexController_getMexPair(d.baseId, d.quoteId))

AskMexTokens ==
    Ask("mex/tokens", "none", {""}, {},
        LAMBDA p, q : MexController_getMexTokens,
        LAMBDA p, q : MexController_getMexTokensCount,
        LAMBDA p, q : MexController_getMexTokensCount,
        LAMBDA p, d : MexController_getMexTokenIdentifier(d.id))

AskMexFarms ==
    Ask("mex/farms", "none", {""}, {},
        LAMBDA p, q : MexController_getMexFarms,
        LAMBDA p, q : MexController_getMexFarmsCount,
        LAMBDA p, q : MexController_getMexFarmsCount,
        NoLookUp)

AskAuctions ==
    Ask("auctions", "auctions", {""}, ExchangeParams.getAuctionsCount,
        LAMBDA p, q : NftMarketplaceController_getAuctions,
        LAMBDA p, q : NftMarketplaceController_getAuctionsCount(q),
        LAMBDA p, q : NftMarketplaceController_getAuctionsCountAlternative(q),
        LAMBDA p, d : NftMarketplaceController_getAuctionId(d.auctionId))

AskAccountAuctions ==
    Ask("accounts/auctions", "auctions", Addresses, ExchangeParams.getAccountAuctions,
        NftMarketplaceController_getAccountAuctions,
        LAMBDA a, q : NftMarketplaceController_getAccountAuctionsCount(a),
        LAMBDA a, q : NftMarketplaceController_getAccountAuctionsCount(a),
        LAMBDA a, d : NftMarketplaceController_getAuctionId(d.auctionId))

AskCollectionAuctions ==
    Ask("collections/auctions", "none", CollectionIds, {},
        LAMBDA c, q : NftMarketplaceController_getCollectionAuctions(c),
        LAMBDA c, q : NftMarketplaceController_getCollectionAuctionsCount(c),
        LAMBDA c, q : NftMarketplaceController_getCollectionAuctionsCount(c),
        LAMBDA c, d : NftMarketplaceController_getAuctionId(d.auctionId))

\* POST /transactions/decode, and what the details and the lists of transactions show too.
decodeTransaction ==
    /\ resource = ""
    /\ \E t \in Decodable : /\ resource' = "transactions/decode" /\ path' = t
                            /\ list' = {getTransactionAction(t)}
    /\ count' = list' /\ alternative' = list'
    /\ UNCHANGED <<query, missing>>

\* GET /transactions/ppu/:shardId, at a time these transactions of the shard are in the pool.
getPpuByShardId ==
    /\ resource = ""
    /\ \E ts \in SUBSET PoolTransactions : \E ppu \in getPpuByShardIdRaw(ts) :
            resource' = "transactions/ppu" /\ path' = ts /\ list' = {ppu}
    /\ count' = list' /\ alternative' = list'
    /\ UNCHANGED <<query, missing>>

\* handleEsdtTokenInvalidations computes the list of all tokens, and this goes wrong meanwhile.
getAllTokens ==
    /\ resource = ""
    /\ \E g \in BOOLEAN, troubles \in SUBSET Troubles :
            /\ resource' = "tokens/all" /\ path' = [fromGateway |-> g, troubles |-> troubles]
            /\ list' = getAllTokensRaw(g, troubles)
    /\ count' = list' /\ alternative' = list'
    /\ UNCHANGED <<query, missing>>

Next ==
    \/ decodeTransaction \/ getPpuByShardId \/ getAllTokens
    \/ AskAccounts \/ AskAccount \/ AskTransactionUpdates \/ AskBlockUpdates \/ AskEventUpdates \/ AskPoolUpdates
    \/ AskAccountTokens \/ AskAccountCollectionsWithRoles \/ AskAccountTokensWithRoles
    \/ AskAccountNftCollections \/ AskAccountNfts \/ AskAccountTransactions \/ AskAccountTransfers
    \/ AskAccountDeploys \/ AskAccountContracts \/ AskAccountScResults \/ AskAccountHistory
    \/ AskAccountEsdtHistory \/ AskAccountTokenHistory
    \/ AskTokens \/ AskTokenAccounts \/ AskTokenRoles \/ AskTokenTransactions \/ AskTokenTransfers
    \/ AskCollections \/ AskCollectionNfts \/ AskCollectionAccounts \/ AskCollectionTransactions \/ AskCollectionTransfers
    \/ AskNfts \/ AskNftAccounts \/ AskNftTransactions \/ AskNftTransfers
    \/ AskTransactions \/ AskTransfers \/ AskBlocks \/ AskRounds \/ AskEvents \/ AskScResults \/ AskApplications \/ AskPool
    \/ AskNodes \/ AskProviders \/ AskProviderAccounts \/ AskIdentities \/ AskAccountKeys \/ AskWaitingList
    \/ AskMexPairs \/ AskMexTokens \/ AskMexFarms \/ AskAuctions \/ AskAccountAuctions \/ AskCollectionAuctions

Spec == Init /\ [][Next]_vars

-----------------------------------------------------------------------------
(* The properties.  Where the code deviates from one, the deviation is     *)
(* named: the properties say that there is no other.                       *)

TransactionLists == {"transactions", "accounts/transactions", "tokens/transactions", "collections/transactions", "nfts/transactions"}

\* Transactions asked for by hash come from the gateway too, which knows no filter.
FromTheGateway == resource \in TransactionLists /\ Given(query, "hashes")

\* The parameters the list takes and the count does not, or the reverse.
Uncounted ==
    CASE resource = "accounts" -> {"sort", "addresses", "withBalance"}
      [] resource = "accounts/tokens" -> {"subType"}
      [] resource = "accounts/roles/collections" -> {"canUpdateAttributes", "canAddUri", "canTransferRole"}
      [] resource = "accounts/nfts" -> {"source"}
      [] resource = "accounts/transfers" -> {"relayer"}
      [] resource = "collections" -> {"identifiers"}
      [] resource = "collections/nfts" -> {"isNsfw"}
      [] resource = "blocks" -> {"hashes"}
      [] resource = "nodes" -> {"keys"}
      [] resource = "events" -> {"logAddress", "order"}
      [] resource = "results" -> {"miniBlockHash", "originalTxHashes"}
      [] resource \in {"tokens/transactions", "collections/transactions", "nfts/transactions", "nfts/transfers", "pool"} -> {"function"}
      [] OTHER -> {}

\* What a service takes out of the page the index answered with, and the count keeps.
LeftOut(d) ==
    CASE resource \in {"accounts/tokens", "accounts/roles/tokens"} -> ~isToken(d.token)
      [] resource \in {"accounts/roles/collections", "collections"} -> batchGetCollectionsProperties(PropertiesFromGateway, d.token) = {}
      [] resource = "tokens" -> d.token = EgldIdentifier
      [] resource = "tokens/accounts" -> d.address = "pending"
      [] OTHER -> FALSE

\* The other differences: NFTs of the gateway need all the tags, are searched for by their
\* identifiers too, and are filtered by isScam = FALSE; the conditions of rounds are
\* alternatives to the list, and it drops the validator; the pool may be disabled.  One
\* auction is listed of each NFT, if it has begun, and the auctions of an account are counted
\* while they run.
CountDiffers ==
    \/ FromTheGateway
    \/ resource = "accounts/nfts"
       /\ (Given(query, "tags") \/ Given(query, "search") \/ (Given(query, "isScam") /\ ~query.isScam))
    \/ resource = "rounds" /\ (Given(query, "condition") \/ Given(query, "validator"))
    \/ resource \in {"pool", "subscribePool"} /\ ~PoolEnabled
    \/ resource = "auctions"
    \/ resource = "accounts/auctions" /\ ~(Given(query, "status") /\ query.status = "running")

AlternativeDiffers ==
    \/ resource = "collections" /\ Given(query, "subType")
    \/ resource = "pool" /\ (Given(query, "senderShard") \/ Given(query, "receiverShard"))

\* What a document is known by, where the service shows it in another form.
Id(d) ==
    CASE resource \in {"accounts", "accounts/deploys", "accounts/contracts"} -> d.address
      [] resource = "applications" -> IF Given(d, "contract") THEN d.contract ELSE d.address
      [] resource \in {"blocks", "subscribeBlocks", "account", "accounts/transfers", "tokens/transfers", "collections/transfers",
                       "nfts/transfers", "transfers"} /\ d \notin Errors -> d.hash
      [] OTHER -> d

\* The count and its alternative are of the documents that are listed for the same query:
\* a client that pages through "/x" by "/x/count" sees all of them and no empty page.
CountIsOfTheList ==
    /\ DOMAIN query \cap Uncounted = {} /\ ~CountDiffers
       => {Id(d) : d \in list} = {Id(d) : d \in {d \in count : d \in Errors \/ ~LeftOut(d)}}
    /\ ~AlternativeDiffers => alternative = count

\* The parameters that ask for more.
Widening == {"includeMetaESDT", "withRelayedScresults", "withRefunds", "withTxsRelayedByAddress", "condition", "source"}

\* Where conditions are alternatives, one more of them may add documents: the parties of a
\* transaction (condition = should, or a relayer beside the relayed results), those of a
\* result, the conditions of a round (or those that go with an epoch before Andromeda).  The
\* tags of accounts put aside what else was asked for, one identifier sends the NFTs of a
\* contract to the gateway (whose search finds identifiers too), the tokens of a contract are
\* searched for by the name only, a type puts excludeMetaESDT aside, and canCreate puts the
\* creator aside.
Alternatives ==
    \/ FromTheGateway
    \/ resource = "transactions" /\ (Given(query, "condition") \/ Given(query, "relayer"))
    \/ resource = "results"
    \/ resource = "rounds" /\ Given(query, "condition")
    \/ resource = "accounts" /\ (NonEmpty(query, "tags") \/ NonEmpty(query, "excludeTags"))
    \/ resource = "accounts/tokens" /\ path \in Contracts /\ Given(query, "search")
    \/ resource \in {"collections", "accounts/collections", "accounts/roles/collections"}
       /\ Given(query, "type") /\ Given(query, "excludeMetaESDT")
    \/ resource = "collections" /\ Given(query, "creator") /\ Given(query, "canCreate")
    \/ resource = "accounts/nfts" /\ Given(query, "identifiers") /\ Cardinality(query.identifiers) = 1
       /\ (path \in Contracts \/ Given(query, "source"))

\* A filter never adds a document: what is listed with one more parameter was listed without
\* it (the queries are conjunctions, and no filter undoes another).
FiltersNarrow ==
    [][ resource # "" /\ (DOMAIN query' \ DOMAIN query) \cap Widening = {} /\ ~Alternatives'
        => {Id(d) : d \in list' \ Errors} \subseteq {Id(d) : d \in list \ Errors} \/ list = BadRequest ]_vars

\* What is listed is found by its own endpoint, under the same path: the two ways to a
\* document ask different sources and none of them answers 404 (or fails) for what the other
\* lists.  The further receivers of a result are the exception, and the providers the
\* delegation API does not know.
ListedIsFound ==
    \A d \in missing : \/ resource = "accounts/results" /\ path \in d.receivers
                       \/ resource = "providers" /\ d.provider \notin DelegationProviders

\* The address or the asset in the path is a party of all that is listed under it, whatever
\* the query adds.
InPath(d) ==
    CASE resource \in {"accounts/tokens", "accounts/nfts", "accounts/history", "accounts/esdthistory"} -> d.address = path
      [] resource \in {"accounts/transactions", "accounts/transfers", "accounts/results"} ->
            path \in {d.sender, d.receiver, d.relayer} \cup d.receivers
      [] resource = "account" -> path \in {d.sender, d.receiver} \cup d.receivers
      [] resource = "accounts/roles/tokens" -> d.currentOwner = path \/ \E r \in DOMAIN d.roles : path \in d.roles[r]
      [] resource = "accounts/roles/collections" -> d.currentOwner = path \/ \E r \in DOMAIN d.roles : path \in d.roles[r]
      [] resource = "accounts/collections" -> \E e \in GatewayEsdts(path) : e.token = d.token
      [] resource \in {"tokens/transactions", "tokens/transfers", "collections/transactions", "collections/transfers",
                       "nfts/transactions", "nfts/transfers"} -> path \in d.tokens
      [] resource \in {"tokens/accounts", "collections/nfts", "collections/accounts"} -> d.token = path
      [] resource = "nfts/accounts" -> d.identifier = path
      [] resource = "providers/accounts" -> d.contract = path
      [] resource = "accounts/auctions" -> d.owner = path
      [] resource = "collections/auctions" -> d.collection = path
      [] OTHER -> TRUE

ListedIsInPath == ~FromTheGateway => \A d \in list \ Errors : InPath(d)

\* The forms a transaction may have that stand for the same: relayed, and put as the result
\* of a contract.
RelayedV1(t) ==
    [sender |-> "relayer", receiver |-> t.sender, value |-> "0", type |-> "Transaction", function |-> "relayedTx",
     args |-> <<"inner">>, inner |-> <<t>> \o Carried(t)]
RelayedV2(t) ==
    [sender |-> "relayer", receiver |-> t.sender, value |-> "0", type |-> "Transaction", function |-> "relayedTxV2",
     args |-> <<"receiver", "nonce", "data", "signature">>, inner |-> <<[t EXCEPT !.sender = "", !.value = ""]>> \o Carried(t)]
AsResult(t) ==
    IF t.function = "MultiESDTNFTTransfer"
    THEN [t EXCEPT !.type = "SmartContractResult", !.receiver = t.args[1], !.args = Tail(@)]
    ELSE [t EXCEPT !.type = "SmartContractResult", !.receiver = t.args[4]]

\* A transaction has the action it has when it is relayed (by version 2: without a value), once
\* or twice, and a token transfer in the result of a contract has the action of the one an
\* account sends.
SameAction ==
    resource = "transactions/decode" =>
        /\ list = {getTransactionAction(RelayedV1(path))}
        /\ path.value = "0" => list = {getTransactionAction(RelayedV2(path))}
        /\ path.value = "0" => list = {getTransactionAction(RelayedV1(RelayedV2(path)))}
        /\ /\ path.function \in {"MultiESDTNFTTransfer", "ESDTNFTTransfer"} /\ path.sender = path.receiver
           /\ Len(path.args) > 3
           => list = {getTransactionAction(AsResult(path))}

\* The ends of the buckets of a sequence of transactions: each bucket but the last has the
\* gas of a bucket, and has not without its last transaction.
GasOf(s, i, j) == MapThenSumSet(LAMBDA n : s[n].gasLimit, i..j)
AreEnds(s, ends) ==
    /\ Len(s) \in ends
    /\ \A e \in ends :
          LET before == {d \in ends : d < e}
              first == IF before = {} THEN 1 ELSE Max(before) + 1
          IN  /\ e # Len(s) => GasOf(s, first, e) >= GAS_BUCKET_SIZE
              /\ GasOf(s, first, e - 1) < GAS_BUCKET_SIZE

\* The price per unit that is answered is that of the transaction which fills the first
\* bucket of gas (the third one for "fast"), or of the last one if the pool ends before.
PpuIsOfTheBucket ==
    resource = "transactions/ppu" /\ path # {} =>
        \A ppu \in list :
            \E ends \in SUBSET DOMAIN ppu.order :
                /\ AreEnds(ppu.order, ends)
                /\ ppu.faster = calculatePpu(ppu.order[Min(ends)])
                /\ ppu.fast = IF Cardinality(ends) < 3 THEN 0
                             ELSE LET later == ends \ {Min(ends)}
                                  IN  calculatePpu(ppu.order[Min(later \ {Min(later)})])

\* The tokens whose price is that of the exchange.
PricedByExchange(t) ==
    /\ t.type = "FungibleESDT" /\ t.priceSource = "" /\ t.price # 0 /\ t.token \in DOMAIN getMexPricesRaw
    /\ getMexPricesRaw[t.token].isToken /\ getMexPricesRaw[t.token].price = t.price

\* The list of all tokens is of one piece, whatever fails while it is put together from what
\* the index, the gateway, the exchange, the assets and the price sources know: no failure but
\* that of the gateway's list costs a token; the market cap shown is that of the price and the
\* supply shown (unless the supply is not answered), within the threshold; what is counted is
\* what the endpoints of the token count; and what counts for the total market cap is covered
\* by liquidity, where the exchange gives the price and its pairs were there in time.
TokensAddUp ==
    resource = "tokens/all" =>
        /\ "list" \notin path.troubles => {t.token : t \in list} = {t.token : t \in getAllTokensRaw(path.fromGateway, {})}
        /\ \A t \in list \ {EgldToken} :
              /\ t.marketCap <= thresholdFaultyMarketCap
              /\ "supply" \notin path.troubles /\ t.price # 0
                 => \/ t.marketCap = t.price * t.circulatingSupply
                    \/ t.marketCap = 0 /\ t.price * t.circulatingSupply > thresholdFaultyMarketCap
              /\ isToken(t.token) =>
                 /\ t.transactions \subseteq {TokenController_getTokenTransactionsCount(t.token, NoQuery)}
                 /\ t.transfers \subseteq {TokenController_getTokenTransfersCount(t.token, NoQuery)}
                 /\ "noExtra" \in path.troubles \/ TokenAccountsExtra(t) = {}
                    => t.accounts \subseteq {TokenController_getTokenAccountsCount(t.token)}
        /\ path.troubles \cap {"pairs", "prices", "mexSupply", "pricesFirst"} = {} =>
              \A ts \in SUBSET {t \in list : PricedByExchange(t)} :
                  getTokenMarketCapRaw(ts) * LowLiquidity <= 1000 * MapThenSumSet(LAMBDA t : t.totalLiquidity, ts)
=============================================================================
