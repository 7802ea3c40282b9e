----------------------------- MODULE ApiProofs -----------------------------
(***************************************************************************)
(* What the endpoints answer, for any documents of the index, answers of   *)
(* the gateway and published lists, and for every query.                   *)
(*                                                                         *)
(* Answered says which handler gave the list, the count and the            *)
(* alternative count that a client holds, whatever it asked before; the    *)
(* rest is about the handlers.  A list and its count take different ways   *)
(* (a filter built twice, another index, the gateway): what has to be      *)
(* shown is that both ways select the same documents, parameter by         *)
(* parameter, but for those Uncounted, CountDiffers and LeftOut name.      *)
(***************************************************************************)
EXTENDS Api, TLAPS

\* The client is at listing r, its path and parameters are of r, and the answers are those of
\* the handlers to both.
Answers(r, paths, params, l, c, a) ==
    resource = r => /\ path \in paths /\ DOMAIN query \subseteq params
                    /\ list = l /\ count = c /\ alternative = a

\* What the client has before it are the answers to its path and its query: at the listings of
\* accounts and what they hold, ...
AccountsAnswered ==
    /\ Answers("accounts", {""}, AccountParams.getAccounts \cup AccountParams.getAccountsCount,
            AccountController_getAccounts(query), AccountController_getAccountsCount(query),
            AccountController_getAccountsCountAlternative(query))
    /\ Answers("account", Addresses, {},
            AccountController_getAccountTransfers(path, query),
            UNION {d.txCount \cup d.scrCount : d \in AccountController_getAccountDetails(path, [withTxCount |-> TRUE, withScrCount |-> TRUE])},
            AccountController_getAccountTransfersCount(path, query))
    /\ Answers("accounts/tokens", Addresses, AccountParams.getAccountTokens,
            AccountController_getAccountTokens(path, query), AccountController_getTokenCount(path, query),
            AccountController_getTokenCountAlternative(path, query))
    /\ Answers("accounts/roles/collections", Addresses, AccountParams.getAccountCollectionsWithRoles,
            AccountController_getAccountCollectionsWithRoles(path, query),
            AccountController_getCollectionWithRolesCount(path, query),
            AccountController_getCollectionCountAlternative(path, query))
    /\ Answers("accounts/roles/tokens", Addresses, AccountParams.getAccountTokensWithRoles,
            AccountController_getAccountTokensWithRoles(path, query),
            AccountController_getTokensWithRolesCount(path, query),
            AccountController_getTokensWithRolesCountAlternative(path, query))
    /\ Answers("accounts/collections", Addresses, AccountParams.getAccountNftCollections,
            AccountController_getAccountNftCollections(path, query),
            AccountController_getNftCollectionCount(path, query),
            AccountController_getNftCollectionCountAlternative(path, query))
    /\ Answers("accounts/nfts", Addresses, AccountParams.getAccountNfts,
            AccountController_getAccountNfts(path, query), AccountController_getNftCount(path, query),
            AccountController_getNftCountAlternative(path, query))

\* ... of what accounts did, ...
HistoryAnswered ==
    /\ Answers("accounts/transactions", Addresses, AccountParams.getAccountTransactions,
            AccountController_getAccountTransactions(path, query),
            AccountController_getAccountTransactionsCount(path, query),
            AccountController_getAccountTransactionsCount(path, query))
    /\ Answers("accounts/transfers", Addresses, AccountParams.getAccountTransfers,
            AccountController_getAccountTransfers(path, query),
            AccountController_getAccountTransfersCount(path, query),
            AccountController_getAccountTransfersCountAlternative(path, query))
    /\ Answers("accounts/deploys", Addresses, {},
            AccountController_getAccountDeploys(path), AccountController_getAccountDeploysCount(path),
            AccountController_getAccountDeploysCountAlternative(path))
    /\ Answers("accounts/contracts", Addresses, {},
            AccountController_getAccountContracts(path), AccountController_getAccountContractsCount(path),
            AccountController_getAccountContractsCountAlternative(path))
    /\ Answers("accounts/results", Addresses, {},
            AccountController_getAccountScResults(path), AccountController_getAccountScResultsCount(path),
            AccountController_getAccountScResultsCount(path))
    /\ Answers("accounts/history", Addresses, AccountParams.getAccountHistory,
            AccountController_getAccountHistory(path, query), AccountController_getAccountHistoryCount(path, query),
            AccountController_getAccountHistoryCount(path, query))
    /\ Answers("accounts/esdthistory", Addresses, AccountParams.getAccountEsdtHistory,
            AccountController_getAccountEsdtHistory(path, query),
            AccountController_getAccountEsdtHistoryCount(path, query),
            AccountController_getAccountEsdtHistoryCount(path, query))
    /\ Answers("accounts/history/token", Addresses \X (TokenIds \cup NftIds), AccountParams.getAccountHistory,
            AccountController_getAccountTokenHistory(path[1], path[2], query),
            AccountController_getAccountTokenHistoryCount(path[1], path[2], query),
            AccountController_getAccountTokenHistoryCount(path[1], path[2], query))

\* ... of tokens, ...
TokensAnswered ==
    /\ Answers("tokens", {""}, AssetParams.getTokens,
            TokenController_getTokens(query), TokenController_getTokenCount(query),
            TokenController_getTokenCountAlternative(query))
    /\ Answers("tokens/accounts", TokenIds, {},
            TokenController_getTokenAccounts(path), TokenController_getTokenAccountsCount(path),
            TokenController_getTokenAccountsCount(path))
    /\ Answers("tokens/roles", TokenIds, {},
            TokenController_getTokenRoles(path), TokenController_getTokenRoles(path),
            TokenController_getTokenRoles(path))
    /\ Answers("tokens/transactions", TokenIds, AssetParams.getTokenTransactions,
            TokenController_getTokenTransactions(path, query), TokenController_getTokenTransactionsCount(path, query),
            TokenController_getTokenTransactionsCount(path, query))
    /\ Answers("tokens/transfers", TokenIds, AssetParams.getTokenTransfers,
            TokenController_getTokenTransfers(path, query), TokenController_getTokenTransfersCount(path, query),
            TokenController_getAccountTransfersCountAlternative(path, query))

\* ... of collections and NFTs, ...
NftsAnswered ==
    /\ Answers("collections", {""}, AssetParams.getNftCollections,
            CollectionController_getNftCollections(query), CollectionController_getCollectionCount(query),
            CollectionController_getCollectionCountAlternative(query))
    /\ Answers("collections/nfts", CollectionIds, AssetParams.getNftsOfCollection,
            CollectionController_getNfts(path, query), CollectionController_getNftCount(path, query),
            CollectionController_getNftCount(path, query))
    /\ Answers("collections/accounts", CollectionIds, {},
            CollectionController_getNftAccounts(path), CollectionController_getNftAccounts(path),
            CollectionController_getNftAccounts(path))
    /\ Answers("collections/transactions", CollectionIds, AssetParams.getCollectionTransactions,
            CollectionController_getCollectionTransactions(path, query),
            CollectionController_getCollectionTransactionsCount(path, query),
            CollectionController_getCollectionTransactionsCount(path, query))
    /\ Answers("collections/transfers", CollectionIds, AssetParams.getCollectionTransfers,
            CollectionController_getCollectionTransfers(path, query),
            CollectionController_getCollectionTransfersCount(path, query),
            CollectionController_getCollectionTransfersCount(path, query))
    /\ Answers("nfts", {""}, AssetParams.getNfts,
            NftController_getNfts(query), NftController_getNftCount(query), NftController_getNftCountAlternative(query))
    /\ Answers("nfts/accounts", NftIds, {},
            NftController_getNftAccounts(path), NftController_getNftAccountsCount(path),
            NftController_getNftAccountsCount(path))
    /\ Answers("nfts/transactions", NftIds, AssetParams.getNftTransactions,
            NftController_getNftTransactions(path, query), NftController_getNftTransactionsCount(path, query),
            NftController_getNftTransactionsCount(path, query))
    /\ Answers("nfts/transfers", NftIds, AssetParams.getNftTransfers,
            NftController_getNftTransfers(path, query), NftController_getNftTransfersCount(path, query),
            NftController_getNftTransfersCount(path, query))

\* ... of what happened on the chain, ...
ChainAnswered ==
    /\ Answers("transactions", {""}, ChainParams.getTransactions,
            TransactionController_getTransactions(query), TransactionController_getTransactionCount(query),
            TransactionController_getTransactionCountAlternative(query))
    /\ Answers("transfers", {""}, ChainParams.getTransfers,
            TransferController_getAccountTransfers(query), TransferController_getAccountTransfersCount(query),
            TransferController_getAccountTransfersCountAlternative(query))
    /\ Answers("blocks", {""}, ChainParams.getBlocks,
            BlockController_getBlocks(query), BlockController_getBlocksCount(query),
            BlockController_getBlocksCountAlternative(query))
    /\ Answers("rounds", {""}, ChainParams.getRounds,
            RoundController_getRounds(query), RoundController_getRoundCount(query),
            RoundController_getRoundCountAlternative(query))
    /\ Answers("events", {""}, ChainParams.getEvents,
            EventsController_getEvents(query), EventsController_getEventsCount(query),
            EventsController_getEventsCount(query))
    /\ Answers("results", {""}, ChainParams.getScResults,
            SmartContractResultController_getScResults(query), SmartContractResultController_getScResultsCount(query),
            SmartContractResultController_getScResultsCount(query))
    /\ Answers("applications", {""}, ChainParams.getApplications,
            ApplicationController_getApplications(query), ApplicationController_getApplicationsCount(query),
            ApplicationController_getApplicationsCount(query))
    /\ Answers("pool", {""}, ChainParams.getTransactionPool,
            PoolController_getTransactionPool(query), PoolController_getTransactionPoolCount(query),
            PoolController_getTransactionPoolCountAlternative(query))

\* ... in the rooms, ...
UpdatesAnswered ==
    /\ Answers("subscribeTransactions", {""}, ChainParams.subscribeTransactions,
            TransactionsGateway_pushTransactionsForRoom(query).transactions,
            TransactionsGateway_pushTransactionsForRoom(query).transactionsCount,
            TransactionController_getTransactionCount(query))
    /\ Answers("subscribeBlocks", {""}, ChainParams.subscribeBlocks,
            BlocksGateway_pushBlocksForRoom(query).blocks, BlocksGateway_pushBlocksForRoom(query).blocksCount,
            BlockController_getBlocksCount(query))
    /\ Answers("subscribeEvents", {""}, ChainParams.subscribeEvents,
            EventsGateway_pushEventsForRoom(query).events, EventsGateway_pushEventsForRoom(query).eventsCount,
            EventsController_getEventsCount(query))
    /\ Answers("subscribePool", {""}, ChainParams.subscribePool,
            PoolGateway_pushPoolForRoom(query).pool, PoolGateway_pushPoolForRoom(query).poolCount,
            PoolController_getTransactionPoolCount(query))

\* ... of nodes, providers and identities, ...
StakingAnswered ==
    /\ Answers("nodes", {""}, StakingParams.getNodes,
            NodeController_getNodes(query), NodeController_getNodeCount(query),
            NodeController_getNodeCountAlternative(query))
    /\ Answers("providers", {""}, StakingParams.getProviders,
            ProviderController_getProviders(query), ProviderController_getProviders(query),
            ProviderController_getProviders(query))
    /\ Answers("providers/accounts", {d.provider : d \in ProviderList}, {},
            ProviderController_getProviderAccounts(path), ProviderController_getProviderAccountsCount(path),
            ProviderController_getProviderAccountsCount(path))
    /\ Answers("identities", {""}, StakingParams.getIdentities,
            IdentitiesController_getIdentities(query), IdentitiesController_getIdentities(query),
            IdentitiesController_getIdentities(query))
    /\ Answers("accounts/keys", DOMAIN BlsKeysStatus, StakingParams.getAccountKeys,
            AccountController_getAccountKeys(path, query), AccountController_getAccountKeys(path, query),
            AccountController_getAccountKeys(path, query))
    /\ Answers("waiting-list", {""}, {},
            WaitingListController_getWaitingList, WaitingListController_getWaitingListCount,
            WaitingListController_getWaitingListCountAlternative)

\* ... and of the exchanges.
ExchangeAnswered ==
    /\ Answers("mex/pairs", {""}, ExchangeParams.getMexPairs,
            MexController_getMexPairs(query), MexController_getMexPairsCount(query),
            MexController_getMexPairsTemp(query))
    /\ Answers("mex/tokens", {""}, {},
            MexController_getMexTokens, MexController_getMexTokensCount, MexController_getMexTokensCount)
    /\ Answers("mex/farms", {""}, {},
            MexController_getMexFarms, MexController_getMexFarmsCount, MexController_getMexFarmsCount)
    /\ Answers("auctions", {""}, ExchangeParams.getAuctionsCount,
            NftMarketplaceController_getAuctions, NftMarketplaceController_getAuctionsCount(query),
            NftMarketplaceController_getAuctionsCountAlternative(query))
    /\ Answers("accounts/auctions", Addresses, ExchangeParams.getAccountAuctions,
            NftMarketplaceController_getAccountAuctions(path, query),
            NftMarketplaceController_getAccountAuctionsCount(path),
            NftMarketplaceController_getAccountAuctionsCount(path))
    /\ Answers("collections/auctions", CollectionIds, {},
            NftMarketplaceController_getCollectionAuctions(path),
            NftMarketplaceController_getCollectionAuctionsCount(path),
            NftMarketplaceController_getCollectionAuctionsCount(path))

\* The listings that take requests.
Listings ==
    {"accounts", "account", "accounts/tokens", "accounts/roles/collections", "accounts/roles/tokens", "accounts/collections",
     "accounts/nfts", "accounts/transactions", "accounts/transfers", "accounts/deploys", "accounts/contracts", "accounts/results",
     "accounts/history", "accounts/esdthistory", "accounts/history/token", "tokens", "tokens/accounts", "tokens/roles",
     "tokens/transactions", "tokens/transfers", "collections", "collections/nfts", "collections/accounts", "collections/transactions",
     "collections/transfers", "nfts", "nfts/accounts", "nfts/transactions", "nfts/transfers", "transactions",
     "transfers", "blocks", "rounds", "events", "results", "applications",
     "pool", "subscribeTransactions", "subscribeBlocks", "subscribeEvents", "subscribePool", "nodes",
     "providers", "providers/accounts", "identities", "accounts/keys", "waiting-list", "mex/pairs",
     "mex/tokens", "mex/farms", "auctions", "accounts/auctions", "collections/auctions"}

\* The first request has not been made, or it has been answered.
Answered ==
    /\ resource \in {"", "transactions/decode", "transactions/ppu", "tokens/all"} \cup Listings
    /\ resource \notin Listings => count = list /\ alternative = list
    /\ AccountsAnswered /\ HistoryAnswered /\ TokensAnswered /\ NftsAnswered
    /\ ChainAnswered /\ UpdatesAnswered /\ StakingAnswered /\ ExchangeAnswered

\* A request without parameters has none.
LEMMA NoQueryIsEmpty == DOMAIN NoQuery = {}
  BY DEF NoQuery

\* A request with one more parameter has that one more.
LEMMA OneMoreParameter ==
    ASSUME NEW f, NEW k, NEW v
    PROVE  DOMAIN OneMore(f, k, v) = DOMAIN f \cup {k}
  BY DEF OneMore

\* The next request has no parameters, or one more than this one.
Asks(params) ==
    \/ query' = NoQuery
    \/ DOMAIN query \subseteq params /\ \E k \in params : \E v : query' = OneMore(query, k, v)

\* Its parameters are those it may have.
LEMMA AsksItsParameters ==
    ASSUME NEW params, Asks(params)
    PROVE  DOMAIN query' \subseteq params
<1>1. CASE query' = NoQuery
    BY <1>1, NoQueryIsEmpty
<1>2. CASE DOMAIN query \subseteq params /\ \E k \in params : \E v : query' = OneMore(query, k, v)
  <2> PICK k \in params : \E v : query' = OneMore(query, k, v)
      BY <1>2
  <2> PICK v : query' = OneMore(query, k, v)
      OBVIOUS
  <2>1. DOMAIN query' = DOMAIN query \cup {k}
     BY OneMoreParameter, Zenon
  <2> QED
      BY <1>2, <2>1
<1> QED
    BY <1>1, <1>2 DEF Asks

\* Every request leaves the client with the answers to it.
LEMMA NextAnswered ==
    ASSUME Answered, Next
    PROVE  Answered'
<1>1. CASE decodeTransaction
    BY <1>1
       DEF decodeTransaction, Listings, Answered, AccountsAnswered, HistoryAnswered, TokensAnswered,
           NftsAnswered, ChainAnswered, UpdatesAnswered, StakingAnswered, ExchangeAnswered, Answers
<1>2. CASE getPpuByShardId
    BY <1>2
       DEF getPpuByShardId, Listings, Answered, AccountsAnswered, HistoryAnswered, TokensAnswered, NftsAnswered,
           ChainAnswered, UpdatesAnswered, StakingAnswered, ExchangeAnswered, Answers
<1>3. CASE getAllTokens
    BY <1>3
       DEF getAllTokens, Listings, Answered, AccountsAnswered, HistoryAnswered, TokensAnswered, NftsAnswered,
           ChainAnswered, UpdatesAnswered, StakingAnswered, ExchangeAnswered, Answers
<1>4. CASE AskAccounts
  <2>1. resource = "accounts" =>
          path \in {""} /\ DOMAIN query \subseteq AccountParams.getAccounts \cup AccountParams.getAccountsCount
      BY DEF Answered, AccountsAnswered, Answers
  <2>2. /\ resource' = "accounts" /\ path' \in {""} /\ Asks(AccountParams.getAccounts \cup AccountParams.getAccountsCount)
        /\ list' = AccountController_getAccounts(query')
        /\ count' = AccountController_getAccountsCount(query')
        /\ alternative' = AccountController_getAccountsCountAlternative(query')
      BY <1>4, <2>1 DEF AskAccounts, Ask, Answer, Asks
  <2>3. DOMAIN query' \subseteq AccountParams.getAccounts \cup AccountParams.getAccountsCount
      BY <2>2, AsksItsParameters
  <2> QED
      BY <2>2, <2>3
         DEF Listings, Answered, AccountsAnswered, HistoryAnswered, TokensAnswered, NftsAnswered, ChainAnswered,
             UpdatesAnswered, StakingAnswered, ExchangeAnswered, Answers
<1>5. CASE AskAccount
  <2>1. resource = "account" => path \in Addresses /\ DOMAIN query \subseteq {}
      BY DEF Answered, AccountsAnswered, Answers
  <2>2. /\ resource' = "account" /\ path' \in Addresses /\ Asks({})
        /\ list' = AccountController_getAccountTransfers(path', query')
        /\ count' = UNION {d.txCount \cup d.scrCount : d \in AccountController_getAccountDetails(path', [withTxCount |-> TRUE, withScrCount |-> TRUE])}
        /\ alternative' = AccountController_getAccountTransfersCount(path', query')
      BY <1>5, <2>1 DEF AskAccount, Ask, Answer, Asks
  <2>3. DOMAIN query' \subseteq {}
      BY <2>2, AsksItsParameters
  <2> QED
      BY <2>2, <2>3
         DEF Listings, Answered, AccountsAnswered, HistoryAnswered, TokensAnswered, NftsAnswered, ChainAnswered,
             UpdatesAnswered, StakingAnswered, ExchangeAnswered, Answers
<1>6. CASE AskAccountTokens
  <2>1. resource = "accounts/tokens" =>
          path \in Addresses /\ DOMAIN query \subseteq AccountParams.getAccountTokens
      BY DEF Answered, AccountsAnswered, Answers
  <2>2. /\ resource' = "accounts/tokens" /\ path' \in Addresses /\ Asks(AccountParams.getAccountTokens)
        /\ list' = AccountController_getAccountTokens(path', query')
        /\ count' = AccountController_getTokenCount(path', query')
        /\ alternative' = AccountController_getTokenCountAlternative(path', query')
      BY <1>6, <2>1 DEF AskAccountTokens, Ask, Answer, Asks
  <2>3. DOMAIN query' \subseteq AccountParams.getAccountTokens
      BY <2>2, AsksItsParameters
  <2> QED
      BY <2>2, <2>3
         DEF Listings, Answered, AccountsAnswered, HistoryAnswered, TokensAnswered, NftsAnswered, ChainAnswered,
             UpdatesAnswered, StakingAnswered, ExchangeAnswered, Answers
<1>7. CASE AskAccountCollectionsWithRoles
  <2>1. resource = "accounts/roles/collections" =>
          path \in Addresses /\ DOMAIN query \subseteq AccountParams.getAccountCollectionsWithRoles
      BY DEF Answered, AccountsAnswered, Answers
  <2>2. /\ resource' = "accounts/roles/collections" /\ path' \in Addresses /\ Asks(AccountParams.getAccountCollectionsWithRoles)
        /\ list' = AccountController_getAccountCollectionsWithRoles(path', query')
        /\ count' = AccountController_getCollectionWithRolesCount(path', query')
        /\ alternative' = AccountController_getCollectionCountAlternative(path', query')
      BY <1>7, <2>1 DEF AskAccountCollectionsWithRoles, Ask, Answer, Asks
  <2>3. DOMAIN query' \subseteq AccountParams.getAccountCollectionsWithRoles
      BY <2>2, AsksItsParameters
  <2> QED
      BY <2>2, <2>3
         DEF Listings, Answered, AccountsAnswered, HistoryAnswered, TokensAnswered, NftsAnswered, ChainAnswered,
             UpdatesAnswered, StakingAnswered, ExchangeAnswered, Answers
<1>8. CASE AskAccountTokensWithRoles
  <2>1. resource = "accounts/roles/tokens" =>
          path \in Addresses /\ DOMAIN query \subseteq AccountParams.getAccountTokensWithRoles
      BY DEF Answered, AccountsAnswered, Answers
  <2>2. /\ resource' = "accounts/roles/tokens" /\ path' \in Addresses /\ Asks(AccountParams.getAccountTokensWithRoles)
        /\ list' = AccountController_getAccountTokensWithRoles(path', query')
        /\ count' = AccountController_getTokensWithRolesCount(path', query')
        /\ alternative' = AccountController_getTokensWithRolesCountAlternative(path', query')
      BY <1>8, <2>1 DEF AskAccountTokensWithRoles, Ask, Answer, Asks
  <2>3. DOMAIN query' \subseteq AccountParams.getAccountTokensWithRoles
      BY <2>2, AsksItsParameters
  <2> QED
      BY <2>2, <2>3
         DEF Listings, Answered, AccountsAnswered, HistoryAnswered, TokensAnswered, NftsAnswered, ChainAnswered,
             UpdatesAnswered, StakingAnswered, ExchangeAnswered, Answers
<1>9. CASE AskAccountNftCollections
  <2>1. resource = "accounts/collections" =>
          path \in Addresses /\ DOMAIN query \subseteq AccountParams.getAccountNftCollections
      BY DEF Answered, AccountsAnswered, Answers
  <2>2. /\ resource' = "accounts/collections" /\ path' \in Addresses /\ Asks(AccountParams.getAccountNftCollections)
        /\ list' = AccountController_getAccountNftCollections(path', query')
        /\ count' = AccountController_getNftCollectionCount(path', query')
        /\ alternative' = AccountController_getNftCollectionCountAlternative(path', query')
      BY <1>9, <2>1 DEF AskAccountNftCollections, Ask, Answer, Asks
  <2>3. DOMAIN query' \subseteq AccountParams.getAccountNftCollections
      BY <2>2, AsksItsParameters
  <2> QED
      BY <2>2, <2>3
         DEF Listings, Answered, AccountsAnswered, HistoryAnswered, TokensAnswered, NftsAnswered, ChainAnswered,
             UpdatesAnswered, StakingAnswered, ExchangeAnswered, Answers
<1>10. CASE AskAccountNfts
  <2>1. resource = "accounts/nfts" => path \in Addresses /\ DOMAIN query \subseteq AccountParams.getAccountNfts
      BY DEF Answered, AccountsAnswered, Answers
  <2>2. /\ resource' = "accounts/nfts" /\ path' \in Addresses /\ Asks(AccountParams.getAccountNfts)
        /\ list' = AccountController_getAccountNfts(path', query')
        /\ count' = AccountController_getNftCount(path', query')
        /\ alternative' = AccountController_getNftCountAlternative(path', query')
      BY <1>10, <2>1 DEF AskAccountNfts, Ask, Answer, Asks
  <2>3. DOMAIN query' \subseteq AccountParams.getAccountNfts
      BY <2>2, AsksItsParameters
  <2> QED
      BY <2>2, <2>3
         DEF Listings, Answered, AccountsAnswered, HistoryAnswered, TokensAnswered, NftsAnswered, ChainAnswered,
             UpdatesAnswered, StakingAnswered, ExchangeAnswered, Answers
<1>11. CASE AskAccountTransactions
  <2>1. resource = "accounts/transactions" =>
          path \in Addresses /\ DOMAIN query \subseteq AccountParams.getAccountTransactions
      BY DEF Answered, HistoryAnswered, Answers
  <2>2. /\ resource' = "accounts/transactions" /\ path' \in Addresses /\ Asks(AccountParams.getAccountTransactions)
        /\ list' = AccountController_getAccountTransactions(path', query')
        /\ count' = AccountController_getAccountTransactionsCount(path', query')
        /\ alternative' = AccountController_getAccountTransactionsCount(path', query')
      BY <1>11, <2>1 DEF AskAccountTransactions, Ask, Answer, Asks
  <2>3. DOMAIN query' \subseteq AccountParams.getAccountTransactions
      BY <2>2, AsksItsParameters
  <2> QED
      BY <2>2, <2>3
         DEF Listings, Answered, AccountsAnswered, HistoryAnswered, TokensAnswered, NftsAnswered, ChainAnswered,
             UpdatesAnswered, StakingAnswered, ExchangeAnswered, Answers
<1>12. CASE AskAccountTransfers
  <2>1. resource = "accounts/transfers" =>
          path \in Addresses /\ DOMAIN query \subseteq AccountParams.getAccountTransfers
      BY DEF Answered, HistoryAnswered, Answers
  <2>2. /\ resource' = "accounts/transfers" /\ path' \in Addresses /\ Asks(AccountParams.getAccountTransfers)
        /\ list' = AccountController_getAccountTransfers(path', query')
        /\ count' = AccountController_getAccountTransfersCount(path', query')
        /\ alternative' = AccountController_getAccountTransfersCountAlternative(path', query')
      BY <1>12, <2>1 DEF AskAccountTransfers, Ask, Answer, Asks
  <2>3. DOMAIN query' \subseteq AccountParams.getAccountTransfers
      BY <2>2, AsksItsParameters
  <2> QED
      BY <2>2, <2>3
         DEF Listings, Answered, AccountsAnswered, HistoryAnswered, TokensAnswered, NftsAnswered, ChainAnswered,
             UpdatesAnswered, StakingAnswered, ExchangeAnswered, Answers
<1>13. CASE AskAccountDeploys
  <2>1. resource = "accounts/deploys" => path \in Addresses /\ DOMAIN query \subseteq {}
      BY DEF Answered, HistoryAnswered, Answers
  <2>2. /\ resource' = "accounts/deploys" /\ path' \in Addresses /\ Asks({})
        /\ list' = AccountController_getAccountDeploys(path')
        /\ count' = AccountController_getAccountDeploysCount(path')
        /\ alternative' = AccountController_getAccountDeploysCountAlternative(path')
      BY <1>13, <2>1 DEF AskAccountDeploys, Ask, Answer, Asks
  <2>3. DOMAIN query' \subseteq {}
      BY <2>2, AsksItsParameters
  <2> QED
      BY <2>2, <2>3
         DEF Listings, Answered, AccountsAnswered, HistoryAnswered, TokensAnswered, NftsAnswered, ChainAnswered,
             UpdatesAnswered, StakingAnswered, ExchangeAnswered, Answers
<1>14. CASE AskAccountContracts
  <2>1. resource = "accounts/contracts" => path \in Addresses /\ DOMAIN query \subseteq {}
      BY DEF Answered, HistoryAnswered, Answers
  <2>2. /\ resource' = "accounts/contracts" /\ path' \in Addresses /\ Asks({})
        /\ list' = AccountController_getAccountContracts(path')
        /\ count' = AccountController_getAccountContractsCount(path')
        /\ alternative' = AccountController_getAccountContractsCountAlternative(path')
      BY <1>14, <2>1 DEF AskAccountContracts, Ask, Answer, Asks
  <2>3. DOMAIN query' \subseteq {}
      BY <2>2, AsksItsParameters
  <2> QED
      BY <2>2, <2>3
         DEF Listings, Answered, AccountsAnswered, HistoryAnswered, TokensAnswered, NftsAnswered, ChainAnswered,
             UpdatesAnswered, StakingAnswered, ExchangeAnswered, Answers
<1>15. CASE AskAccountScResults
  <2>1. resource = "accounts/results" => path \in Addresses /\ DOMAIN query \subseteq {}
      BY DEF Answered, HistoryAnswered, Answers
  <2>2. /\ resource' = "accounts/results" /\ path' \in Addresses /\ Asks({})
        /\ list' = AccountController_getAccountScResults(path')
        /\ count' = AccountController_getAccountScResultsCount(path')
        /\ alternative' = AccountController_getAccountScResultsCount(path')
      BY <1>15, <2>1 DEF AskAccountScResults, Ask, Answer, Asks
  <2>3. DOMAIN query' \subseteq {}
      BY <2>2, AsksItsParameters
  <2> QED
      BY <2>2, <2>3
         DEF Listings, Answered, AccountsAnswered, HistoryAnswered, TokensAnswered, NftsAnswered, ChainAnswered,
             UpdatesAnswered, StakingAnswered, ExchangeAnswered, Answers
<1>16. CASE AskAccountHistory
  <2>1. resource = "accounts/history" =>
          path \in Addresses /\ DOMAIN query \subseteq AccountParams.getAccountHistory
      BY DEF Answered, HistoryAnswered, Answers
  <2>2. /\ resource' = "accounts/history" /\ path' \in Addresses /\ Asks(AccountParams.getAccountHistory)
        /\ list' = AccountController_getAccountHistory(path', query')
        /\ count' = AccountController_getAccountHistoryCount(path', query')
        /\ alternative' = AccountController_getAccountHistoryCount(path', query')
      BY <1>16, <2>1 DEF AskAccountHistory, Ask, Answer, Asks
  <2>3. DOMAIN query' \subseteq AccountParams.getAccountHistory
      BY <2>2, AsksItsParameters
  <2> QED
      BY <2>2, <2>3
         DEF Listings, Answered, AccountsAnswered, HistoryAnswered, TokensAnswered, NftsAnswered, ChainAnswered,
             UpdatesAnswered, StakingAnswered, ExchangeAnswered, Answers
<1>17. CASE AskAccountEsdtHistory
  <2>1. resource = "accounts/esdthistory" =>
          path \in Addresses /\ DOMAIN query \subseteq AccountParams.getAccountEsdtHistory
      BY DEF Answered, HistoryAnswered, Answers
  <2>2. /\ resource' = "accounts/esdthistory" /\ path' \in Addresses /\ Asks(AccountParams.getAccountEsdtHistory)
        /\ list' = AccountController_getAccountEsdtHistory(path', query')
        /\ count' = AccountController_getAccountEsdtHistoryCount(path', query')
        /\ alternative' = AccountController_getAccountEsdtHistoryCount(path', query')
      BY <1>17, <2>1 DEF AskAccountEsdtHistory, Ask, Answer, Asks
  <2>3. DOMAIN query' \subseteq AccountParams.getAccountEsdtHistory
      BY <2>2, AsksItsParameters
  <2> QED
      BY <2>2, <2>3
         DEF Listings, Answered, AccountsAnswered, HistoryAnswered, TokensAnswered, NftsAnswered, ChainAnswered,
             UpdatesAnswered, StakingAnswered, ExchangeAnswered, Answers
<1>18. CASE AskAccountTokenHistory
  <2>1. resource = "accounts/history/token" =>
          path \in Addresses \X (TokenIds \cup NftIds) /\ DOMAIN query \subseteq AccountParams.getAccountHistory
      BY DEF Answered, HistoryAnswered, Answers
  <2>2. /\ resource' = "accounts/history/token" /\ path' \in Addresses \X (TokenIds \cup NftIds) /\ Asks(AccountParams.getAccountHistory)
        /\ list' = AccountController_getAccountTokenHistory(path'[1], path'[2], query')
        /\ count' = AccountController_getAccountTokenHistoryCount(path'[1], path'[2], query')
        /\ alternative' = AccountController_getAccountTokenHistoryCount(path'[1], path'[2], query')
      BY <1>18, <2>1 DEF AskAccountTokenHistory, Ask, Answer, Asks
  <2>3. DOMAIN query' \subseteq AccountParams.getAccountHistory
      BY <2>2, AsksItsParameters
  <2> QED
      BY <2>2, <2>3
         DEF Listings, Answered, AccountsAnswered, HistoryAnswered, TokensAnswered, NftsAnswered, ChainAnswered,
             UpdatesAnswered, StakingAnswered, ExchangeAnswered, Answers
<1>19. CASE AskTokens
  <2>1. resource = "tokens" => path \in {""} /\ DOMAIN query \subseteq AssetParams.getTokens
      BY DEF Answered, TokensAnswered, Answers
  <2>2. /\ resource' = "tokens" /\ path' \in {""} /\ Asks(AssetParams.getTokens)
        /\ list' = TokenController_getTokens(query')
        /\ count' = TokenController_getTokenCount(query')
        /\ alternative' = TokenController_getTokenCountAlternative(query')
      BY <1>19, <2>1 DEF AskTokens, Ask, Answer, Asks
  <2>3. DOMAIN query' \subseteq AssetParams.getTokens
      BY <2>2, AsksItsParameters
  <2> QED
      BY <2>2, <2>3
         DEF Listings, Answered, AccountsAnswered, HistoryAnswered, TokensAnswered, NftsAnswered, ChainAnswered,
             UpdatesAnswered, StakingAnswered, ExchangeAnswered, Answers
<1>20. CASE AskTokenAccounts
  <2>1. resource = "tokens/accounts" => path \in TokenIds /\ DOMAIN query \subseteq {}
      BY DEF Answered, TokensAnswered, Answers
  <2>2. /\ resource' = "tokens/accounts" /\ path' \in TokenIds /\ Asks({})
        /\ list' = TokenController_getTokenAccounts(path')
        /\ count' = TokenController_getTokenAccountsCount(path')
        /\ alternative' = TokenController_getTokenAccountsCount(path')
      BY <1>20, <2>1 DEF AskTokenAccounts, Ask, Answer, Asks
  <2>3. DOMAIN query' \subseteq {}
      BY <2>2, AsksItsParameters
  <2> QED
      BY <2>2, <2>3
         DEF Listings, Answered, AccountsAnswered, HistoryAnswered, TokensAnswered, NftsAnswered, ChainAnswered,
             UpdatesAnswered, StakingAnswered, ExchangeAnswered, Answers
<1>21. CASE AskTokenRoles
  <2>1. resource = "tokens/roles" => path \in TokenIds /\ DOMAIN query \subseteq {}
      BY DEF Answered, TokensAnswered, Answers
  <2>2. /\ resource' = "tokens/roles" /\ path' \in TokenIds /\ Asks({})
        /\ list' = TokenController_getTokenRoles(path')
        /\ count' = TokenController_getTokenRoles(path')
        /\ alternative' = TokenController_getTokenRoles(path')
      BY <1>21, <2>1 DEF AskTokenRoles, Ask, Answer, Asks
  <2>3. DOMAIN query' \subseteq {}
      BY <2>2, AsksItsParameters
  <2> QED
      BY <2>2, <2>3
         DEF Listings, Answered, AccountsAnswered, HistoryAnswered, TokensAnswered, NftsAnswered, ChainAnswered,
             UpdatesAnswered, StakingAnswered, ExchangeAnswered, Answers
<1>22. CASE AskTokenTransactions
  <2>1. resource = "tokens/transactions" =>
          path \in TokenIds /\ DOMAIN query \subseteq AssetParams.getTokenTransactions
      BY DEF Answered, TokensAnswered, Answers
  <2>2. /\ resource' = "tokens/transactions" /\ path' \in TokenIds /\ Asks(AssetParams.getTokenTransactions)
        /\ list' = TokenController_getTokenTransactions(path', query')
        /\ count' = TokenController_getTokenTransactionsCount(path', query')
        /\ alternative' = TokenController_getTokenTransactionsCount(path', query')
      BY <1>22, <2>1 DEF AskTokenTransactions, Ask, Answer, Asks
  <2>3. DOMAIN query' \subseteq AssetParams.getTokenTransactions
      BY <2>2, AsksItsParameters
  <2> QED
      BY <2>2, <2>3
         DEF Listings, Answered, AccountsAnswered, HistoryAnswered, TokensAnswered, NftsAnswered, ChainAnswered,
             UpdatesAnswered, StakingAnswered, ExchangeAnswered, Answers
<1>23. CASE AskTokenTransfers
  <2>1. resource = "tokens/transfers" =>
          path \in TokenIds /\ DOMAIN query \subseteq AssetParams.getTokenTransfers
      BY DEF Answered, TokensAnswered, Answers
  <2>2. /\ resource' = "tokens/transfers" /\ path' \in TokenIds /\ Asks(AssetParams.getTokenTransfers)
        /\ list' = TokenController_getTokenTransfers(path', query')
        /\ count' = TokenController_getTokenTransfersCount(path', query')
        /\ alternative' = TokenController_getAccountTransfersCountAlternative(path', query')
      BY <1>23, <2>1 DEF AskTokenTransfers, Ask, Answer, Asks
  <2>3. DOMAIN query' \subseteq AssetParams.getTokenTransfers
      BY <2>2, AsksItsParameters
  <2> QED
      BY <2>2, <2>3
         DEF Listings, Answered, AccountsAnswered, HistoryAnswered, TokensAnswered, NftsAnswered, ChainAnswered,
             UpdatesAnswered, StakingAnswered, ExchangeAnswered, Answers
<1>24. CASE AskCollections
  <2>1. resource = "collections" => path \in {""} /\ DOMAIN query \subseteq AssetParams.getNftCollections
      BY DEF Answered, NftsAnswered, Answers
  <2>2. /\ resource' = "collections" /\ path' \in {""} /\ Asks(AssetParams.getNftCollections)
        /\ list' = CollectionController_getNftCollections(query')
        /\ count' = CollectionController_getCollectionCount(query')
        /\ alternative' = CollectionController_getCollectionCountAlternative(query')
      BY <1>24, <2>1 DEF AskCollections, Ask, Answer, Asks
  <2>3. DOMAIN query' \subseteq AssetParams.getNftCollections
      BY <2>2, AsksItsParameters
  <2> QED
      BY <2>2, <2>3
         DEF Listings, Answered, AccountsAnswered, HistoryAnswered, TokensAnswered, NftsAnswered, ChainAnswered,
             UpdatesAnswered, StakingAnswered, ExchangeAnswered, Answers
<1>25. CASE AskCollectionNfts
  <2>1. resource = "collections/nfts" =>
          path \in CollectionIds /\ DOMAIN query \subseteq AssetParams.getNftsOfCollection
      BY DEF Answered, NftsAnswered, Answers
  <2>2. /\ resource' = "collections/nfts" /\ path' \in CollectionIds /\ Asks(AssetParams.getNftsOfCollection)
        /\ list' = CollectionController_getNfts(path', query')
        /\ count' = CollectionController_getNftCount(path', query')
        /\ alternative' = CollectionController_getNftCount(path', query')
      BY <1>25, <2>1 DEF AskCollectionNfts, Ask, Answer, Asks
  <2>3. DOMAIN query' \subseteq AssetParams.getNftsOfCollection
      BY <2>2, AsksItsParameters
  <2> QED
      BY <2>2, <2>3
         DEF Listings, Answered, AccountsAnswered, HistoryAnswered, TokensAnswered, NftsAnswered, ChainAnswered,
             UpdatesAnswered, StakingAnswered, ExchangeAnswered, Answers
<1>26. CASE AskCollectionAccounts
  <2>1. resource = "collections/accounts" => path \in CollectionIds /\ DOMAIN query \subseteq {}
      BY DEF Answered, NftsAnswered, Answers
  <2>2. /\ resource' = "collections/accounts" /\ path' \in CollectionIds /\ Asks({})
        /\ list' = CollectionController_getNftAccounts(path')
        /\ count' = CollectionController_getNftAccounts(path')
        /\ alternative' = CollectionController_getNftAccounts(path')
      BY <1>26, <2>1 DEF AskCollectionAccounts, Ask, Answer, Asks
  <2>3. DOMAIN query' \subseteq {}
      BY <2>2, AsksItsParameters
  <2> QED
      BY <2>2, <2>3
         DEF Listings, Answered, AccountsAnswered, HistoryAnswered, TokensAnswered, NftsAnswered, ChainAnswered,
             UpdatesAnswered, StakingAnswered, ExchangeAnswered, Answers
<1>27. CASE AskCollectionTransactions
  <2>1. resource = "collections/transactions" =>
          path \in CollectionIds /\ DOMAIN query \subseteq AssetParams.getCollectionTransactions
      BY DEF Answered, NftsAnswered, Answers
  <2>2. /\ resource' = "collections/transactions" /\ path' \in CollectionIds /\ Asks(AssetParams.getCollectionTransactions)
        /\ list' = CollectionController_getCollectionTransactions(path', query')
        /\ count' = CollectionController_getCollectionTransactionsCount(path', query')
        /\ alternative' = CollectionController_getCollectionTransactionsCount(path', query')
      BY <1>27, <2>1 DEF AskCollectionTransactions, Ask, Answer, Asks
  <2>3. DOMAIN query' \subseteq AssetParams.getCollectionTransactions
      BY <2>2, AsksItsParameters
  <2> QED
      BY <2>2, <2>3
         DEF Listings, Answered, AccountsAnswered, HistoryAnswered, TokensAnswered, NftsAnswered, ChainAnswered,
             UpdatesAnswered, StakingAnswered, ExchangeAnswered, Answers
<1>28. CASE AskCollectionTransfers
  <2>1. resource = "collections/transfers" =>
          path \in CollectionIds /\ DOMAIN query \subseteq AssetParams.getCollectionTransfers
      BY DEF Answered, NftsAnswered, Answers
  <2>2. /\ resource' = "collections/transfers" /\ path' \in CollectionIds /\ Asks(AssetParams.getCollectionTransfers)
        /\ list' = CollectionController_getCollectionTransfers(path', query')
        /\ count' = CollectionController_getCollectionTransfersCount(path', query')
        /\ alternative' = CollectionController_getCollectionTransfersCount(path', query')
      BY <1>28, <2>1 DEF AskCollectionTransfers, Ask, Answer, Asks
  <2>3. DOMAIN query' \subseteq AssetParams.getCollectionTransfers
      BY <2>2, AsksItsParameters
  <2> QED
      BY <2>2, <2>3
         DEF Listings, Answered, AccountsAnswered, HistoryAnswered, TokensAnswered, NftsAnswered, ChainAnswered,
             UpdatesAnswered, StakingAnswered, ExchangeAnswered, Answers
<1>29. CASE AskNfts
  <2>1. resource = "nfts" => path \in {""} /\ DOMAIN query \subseteq AssetParams.getNfts
      BY DEF Answered, NftsAnswered, Answers
  <2>2. /\ resource' = "nfts" /\ path' \in {""} /\ Asks(AssetParams.getNfts)
        /\ list' = NftController_getNfts(query')
        /\ count' = NftController_getNftCount(query')
        /\ alternative' = NftController_getNftCountAlternative(query')
      BY <1>29, <2>1 DEF AskNfts, Ask, Answer, Asks
  <2>3. DOMAIN query' \subseteq AssetParams.getNfts
      BY <2>2, AsksItsParameters
  <2> QED
      BY <2>2, <2>3
         DEF Listings, Answered, AccountsAnswered, HistoryAnswered, TokensAnswered, NftsAnswered, ChainAnswered,
             UpdatesAnswered, StakingAnswered, ExchangeAnswered, Answers
<1>30. CASE AskNftAccounts
  <2>1. resource = "nfts/accounts" => path \in NftIds /\ DOMAIN query \subseteq {}
      BY DEF Answered, NftsAnswered, Answers
  <2>2. /\ resource' = "nfts/accounts" /\ path' \in NftIds /\ Asks({})
        /\ list' = NftController_getNftAccounts(path')
        /\ count' = NftController_getNftAccountsCount(path')
        /\ alternative' = NftController_getNftAccountsCount(path')
      BY <1>30, <2>1 DEF AskNftAccounts, Ask, Answer, Asks
  <2>3. DOMAIN query' \subseteq {}
      BY <2>2, AsksItsParameters
  <2> QED
      BY <2>2, <2>3
         DEF Listings, Answered, AccountsAnswered, HistoryAnswered, TokensAnswered, NftsAnswered, ChainAnswered,
             UpdatesAnswered, StakingAnswered, ExchangeAnswered, Answers
<1>31. CASE AskNftTransactions
  <2>1. resource = "nfts/transactions" =>
          path \in NftIds /\ DOMAIN query \subseteq AssetParams.getNftTransactions
      BY DEF Answered, NftsAnswered, Answers
  <2>2. /\ resource' = "nfts/transactions" /\ path' \in NftIds /\ Asks(AssetParams.getNftTransactions)
        /\ list' = NftController_getNftTransactions(path', query')
        /\ count' = NftController_getNftTransactionsCount(path', query')
        /\ alternative' = NftController_getNftTransactionsCount(path', query')
      BY <1>31, <2>1 DEF AskNftTransactions, Ask, Answer, Asks
  <2>3. DOMAIN query' \subseteq AssetParams.getNftTransactions
      BY <2>2, AsksItsParameters
  <2> QED
      BY <2>2, <2>3
         DEF Listings, Answered, AccountsAnswered, HistoryAnswered, TokensAnswered, NftsAnswered, ChainAnswered,
             UpdatesAnswered, StakingAnswered, ExchangeAnswered, Answers
<1>32. CASE AskNftTransfers
  <2>1. resource = "nfts/transfers" => path \in NftIds /\ DOMAIN query \subseteq AssetParams.getNftTransfers
      BY DEF Answered, NftsAnswered, Answers
  <2>2. /\ resource' = "nfts/transfers" /\ path' \in NftIds /\ Asks(AssetParams.getNftTransfers)
        /\ list' = NftController_getNftTransfers(path', query')
        /\ count' = NftController_getNftTransfersCount(path', query')
        /\ alternative' = NftController_getNftTransfersCount(path', query')
      BY <1>32, <2>1 DEF AskNftTransfers, Ask, Answer, Asks
  <2>3. DOMAIN query' \subseteq AssetParams.getNftTransfers
      BY <2>2, AsksItsParameters
  <2> QED
      BY <2>2, <2>3
         DEF Listings, Answered, AccountsAnswered, HistoryAnswered, TokensAnswered, NftsAnswered, ChainAnswered,
             UpdatesAnswered, StakingAnswered, ExchangeAnswered, Answers
<1>33. CASE AskTransactions
  <2>1. resource = "transactions" => path \in {""} /\ DOMAIN query \subseteq ChainParams.getTransactions
      BY DEF Answered, ChainAnswered, Answers
  <2>2. /\ resource' = "transactions" /\ path' \in {""} /\ Asks(ChainParams.getTransactions)
        /\ list' = TransactionController_getTransactions(query')
        /\ count' = TransactionController_getTransactionCount(query')
        /\ alternative' = TransactionController_getTransactionCountAlternative(query')
      BY <1>33, <2>1 DEF AskTransactions, Ask, Answer, Asks
  <2>3. DOMAIN query' \subseteq ChainParams.getTransactions
      BY <2>2, AsksItsParameters
  <2> QED
      BY <2>2, <2>3
         DEF Listings, Answered, AccountsAnswered, HistoryAnswered, TokensAnswered, NftsAnswered, ChainAnswered,
             UpdatesAnswered, StakingAnswered, ExchangeAnswered, Answers
<1>34. CASE AskTransfers
  <2>1. resource = "transfers" => path \in {""} /\ DOMAIN query \subseteq ChainParams.getTransfers
      BY DEF Answered, ChainAnswered, Answers
  <2>2. /\ resource' = "transfers" /\ path' \in {""} /\ Asks(ChainParams.getTransfers)
        /\ list' = TransferController_getAccountTransfers(query')
        /\ count' = TransferController_getAccountTransfersCount(query')
        /\ alternative' = TransferController_getAccountTransfersCountAlternative(query')
      BY <1>34, <2>1 DEF AskTransfers, Ask, Answer, Asks
  <2>3. DOMAIN query' \subseteq ChainParams.getTransfers
      BY <2>2, AsksItsParameters
  <2> QED
      BY <2>2, <2>3
         DEF Listings, Answered, AccountsAnswered, HistoryAnswered, TokensAnswered, NftsAnswered, ChainAnswered,
             UpdatesAnswered, StakingAnswered, ExchangeAnswered, Answers
<1>35. CASE AskBlocks
  <2>1. resource = "blocks" => path \in {""} /\ DOMAIN query \subseteq ChainParams.getBlocks
      BY DEF Answered, ChainAnswered, Answers
  <2>2. /\ resource' = "blocks" /\ path' \in {""} /\ Asks(ChainParams.getBlocks)
        /\ list' = BlockController_getBlocks(query')
        /\ count' = BlockController_getBlocksCount(query')
        /\ alternative' = BlockController_getBlocksCountAlternative(query')
      BY <1>35, <2>1 DEF AskBlocks, Ask, Answer, Asks
  <2>3. DOMAIN query' \subseteq ChainParams.getBlocks
      BY <2>2, AsksItsParameters
  <2> QED
      BY <2>2, <2>3
         DEF Listings, Answered, AccountsAnswered, HistoryAnswered, TokensAnswered, NftsAnswered, ChainAnswered,
             UpdatesAnswered, StakingAnswered, ExchangeAnswered, Answers
<1>36. CASE AskRounds
  <2>1. resource = "rounds" => path \in {""} /\ DOMAIN query \subseteq ChainParams.getRounds
      BY DEF Answered, ChainAnswered, Answers
  <2>2. /\ resource' = "rounds" /\ path' \in {""} /\ Asks(ChainParams.getRounds)
        /\ list' = RoundController_getRounds(query')
        /\ count' = RoundController_getRoundCount(query')
        /\ alternative' = RoundController_getRoundCountAlternative(query')
      BY <1>36, <2>1 DEF AskRounds, Ask, Answer, Asks
  <2>3. DOMAIN query' \subseteq ChainParams.getRounds
      BY <2>2, AsksItsParameters
  <2> QED
      BY <2>2, <2>3
         DEF Listings, Answered, AccountsAnswered, HistoryAnswered, TokensAnswered, NftsAnswered, ChainAnswered,
             UpdatesAnswered, StakingAnswered, ExchangeAnswered, Answers
<1>37. CASE AskEvents
  <2>1. resource = "events" => path \in {""} /\ DOMAIN query \subseteq ChainParams.getEvents
      BY DEF Answered, ChainAnswered, Answers
  <2>2. /\ resource' = "events" /\ path' \in {""} /\ Asks(ChainParams.getEvents)
        /\ list' = EventsController_getEvents(query')
        /\ count' = EventsController_getEventsCount(query')
        /\ alternative' = EventsController_getEventsCount(query')
      BY <1>37, <2>1 DEF AskEvents, Ask, Answer, Asks
  <2>3. DOMAIN query' \subseteq ChainParams.getEvents
      BY <2>2, AsksItsParameters
  <2> QED
      BY <2>2, <2>3
         DEF Listings, Answered, AccountsAnswered, HistoryAnswered, TokensAnswered, NftsAnswered, ChainAnswered,
             UpdatesAnswered, StakingAnswered, ExchangeAnswered, Answers
<1>38. CASE AskScResults
  <2>1. resource = "results" => path \in {""} /\ DOMAIN query \subseteq ChainParams.getScResults
      BY DEF Answered, ChainAnswered, Answers
  <2>2. /\ resource' = "results" /\ path' \in {""} /\ Asks(ChainParams.getScResults)
        /\ list' = SmartContractResultController_getScResults(query')
        /\ count' = SmartContractResultController_getScResultsCount(query')
        /\ alternative' = SmartContractResultController_getScResultsCount(query')
      BY <1>38, <2>1 DEF AskScResults, Ask, Answer, Asks
  <2>3. DOMAIN query' \subseteq ChainParams.getScResults
      BY <2>2, AsksItsParameters
  <2> QED
      BY <2>2, <2>3
         DEF Listings, Answered, AccountsAnswered, HistoryAnswered, TokensAnswered, NftsAnswered, ChainAnswered,
             UpdatesAnswered, StakingAnswered, ExchangeAnswered, Answers
<1>39. CASE AskApplications
  <2>1. resource = "applications" => path \in {""} /\ DOMAIN query \subseteq ChainParams.getApplications
      BY DEF Answered, ChainAnswered, Answers
  <2>2. /\ resource' = "applications" /\ path' \in {""} /\ Asks(ChainParams.getApplications)
        /\ list' = ApplicationController_getApplications(query')
        /\ count' = ApplicationController_getApplicationsCount(query')
        /\ alternative' = ApplicationController_getApplicationsCount(query')
      BY <1>39, <2>1 DEF AskApplications, Ask, Answer, Asks
  <2>3. DOMAIN query' \subseteq ChainParams.getApplications
      BY <2>2, AsksItsParameters
  <2> QED
      BY <2>2, <2>3
         DEF Listings, Answered, AccountsAnswered, HistoryAnswered, TokensAnswered, NftsAnswered, ChainAnswered,
             UpdatesAnswered, StakingAnswered, ExchangeAnswered, Answers
<1>40. CASE AskPool
  <2>1. resource = "pool" => path \in {""} /\ DOMAIN query \subseteq ChainParams.getTransactionPool
      BY DEF Answered, ChainAnswered, Answers
  <2>2. /\ resource' = "pool" /\ path' \in {""} /\ Asks(ChainParams.getTransactionPool)
        /\ list' = PoolController_getTransactionPool(query')
        /\ count' = PoolController_getTransactionPoolCount(query')
        /\ alternative' = PoolController_getTransactionPoolCountAlternative(query')
      BY <1>40, <2>1 DEF AskPool, Ask, Answer, Asks
  <2>3. DOMAIN query' \subseteq ChainParams.getTransactionPool
      BY <2>2, AsksItsParameters
  <2> QED
      BY <2>2, <2>3
         DEF Listings, Answered, AccountsAnswered, HistoryAnswered, TokensAnswered, NftsAnswered, ChainAnswered,
             UpdatesAnswered, StakingAnswered, ExchangeAnswered, Answers
<1>41. CASE AskTransactionUpdates
  <2>1. resource = "subscribeTransactions" =>
          path \in {""} /\ DOMAIN query \subseteq ChainParams.subscribeTransactions
      BY DEF Answered, UpdatesAnswered, Answers
  <2>2. /\ resource' = "subscribeTransactions" /\ path' \in {""} /\ Asks(ChainParams.subscribeTransactions)
        /\ list' = TransactionsGateway_pushTransactionsForRoom(query').transactions
        /\ count' = TransactionsGateway_pushTransactionsForRoom(query').transactionsCount
        /\ alternative' = TransactionController_getTransactionCount(query')
      BY <1>41, <2>1 DEF AskTransactionUpdates, Ask, Answer, Asks
  <2>3. DOMAIN query' \subseteq ChainParams.subscribeTransactions
      BY <2>2, AsksItsParameters
  <2> QED
      BY <2>2, <2>3
         DEF Listings, Answered, AccountsAnswered, HistoryAnswered, TokensAnswered, NftsAnswered, ChainAnswered,
             UpdatesAnswered, StakingAnswered, ExchangeAnswered, Answers
<1>42. CASE AskBlockUpdates
  <2>1. resource = "subscribeBlocks" => path \in {""} /\ DOMAIN query \subseteq ChainParams.subscribeBlocks
      BY DEF Answered, UpdatesAnswered, Answers
  <2>2. /\ resource' = "subscribeBlocks" /\ path' \in {""} /\ Asks(ChainParams.subscribeBlocks)
        /\ list' = BlocksGateway_pushBlocksForRoom(query').blocks
        /\ count' = BlocksGateway_pushBlocksForRoom(query').blocksCount
        /\ alternative' = BlockController_getBlocksCount(query')
      BY <1>42, <2>1 DEF AskBlockUpdates, Ask, Answer, Asks
  <2>3. DOMAIN query' \subseteq ChainParams.subscribeBlocks
      BY <2>2, AsksItsParameters
  <2> QED
      BY <2>2, <2>3
         DEF Listings, Answered, AccountsAnswered, HistoryAnswered, TokensAnswered, NftsAnswered, ChainAnswered,
             UpdatesAnswered, StakingAnswered, ExchangeAnswered, Answers
<1>43. CASE AskEventUpdates
  <2>1. resource = "subscribeEvents" => path \in {""} /\ DOMAIN query \subseteq ChainParams.subscribeEvents
      BY DEF Answered, UpdatesAnswered, Answers
  <2>2. /\ resource' = "subscribeEvents" /\ path' \in {""} /\ Asks(ChainParams.subscribeEvents)
        /\ list' = EventsGateway_pushEventsForRoom(query').events
        /\ count' = EventsGateway_pushEventsForRoom(query').eventsCount
        /\ alternative' = EventsController_getEventsCount(query')
      BY <1>43, <2>1 DEF AskEventUpdates, Ask, Answer, Asks
  <2>3. DOMAIN query' \subseteq ChainParams.subscribeEvents
      BY <2>2, AsksItsParameters
  <2> QED
      BY <2>2, <2>3
         DEF Listings, Answered, AccountsAnswered, HistoryAnswered, TokensAnswered, NftsAnswered, ChainAnswered,
             UpdatesAnswered, StakingAnswered, ExchangeAnswered, Answers
<1>44. CASE AskPoolUpdates
  <2>1. resource = "subscribePool" => path \in {""} /\ DOMAIN query \subseteq ChainParams.subscribePool
      BY DEF Answered, UpdatesAnswered, Answers
  <2>2. /\ resource' = "subscribePool" /\ path' \in {""} /\ Asks(ChainParams.subscribePool)
        /\ list' = PoolGateway_pushPoolForRoom(query').pool
        /\ count' = PoolGateway_pushPoolForRoom(query').poolCount
        /\ alternative' = PoolController_getTransactionPoolCount(query')
      BY <1>44, <2>1 DEF AskPoolUpdates, Ask, Answer, Asks
  <2>3. DOMAIN query' \subseteq ChainParams.subscribePool
      BY <2>2, AsksItsParameters
  <2> QED
      BY <2>2, <2>3
         DEF Listings, Answered, AccountsAnswered, HistoryAnswered, TokensAnswered, NftsAnswered, ChainAnswered,
             UpdatesAnswered, StakingAnswered, ExchangeAnswered, Answers
<1>45. CASE AskNodes
  <2>1. resource = "nodes" => path \in {""} /\ DOMAIN query \subseteq StakingParams.getNodes
      BY DEF Answered, StakingAnswered, Answers
  <2>2. /\ resource' = "nodes" /\ path' \in {""} /\ Asks(StakingParams.getNodes)
        /\ list' = NodeController_getNodes(query')
        /\ count' = NodeController_getNodeCount(query')
        /\ alternative' = NodeController_getNodeCountAlternative(query')
      BY <1>45, <2>1 DEF AskNodes, Ask, Answer, Asks
  <2>3. DOMAIN query' \subseteq StakingParams.getNodes
      BY <2>2, AsksItsParameters
  <2> QED
      BY <2>2, <2>3
         DEF Listings, Answered, AccountsAnswered, HistoryAnswered, TokensAnswered, NftsAnswered, ChainAnswered,
             UpdatesAnswered, StakingAnswered, ExchangeAnswered, Answers
<1>46. CASE AskProviders
  <2>1. resource = "providers" => path \in {""} /\ DOMAIN query \subseteq StakingParams.getProviders
      BY DEF Answered, StakingAnswered, Answers
  <2>2. /\ resource' = "providers" /\ path' \in {""} /\ Asks(StakingParams.getProviders)
        /\ list' = ProviderController_getProviders(query')
        /\ count' = ProviderController_getProviders(query')
        /\ alternative' = ProviderController_getProviders(query')
      BY <1>46, <2>1 DEF AskProviders, Ask, Answer, Asks
  <2>3. DOMAIN query' \subseteq StakingParams.getProviders
      BY <2>2, AsksItsParameters
  <2> QED
      BY <2>2, <2>3
         DEF Listings, Answered, AccountsAnswered, HistoryAnswered, TokensAnswered, NftsAnswered, ChainAnswered,
             UpdatesAnswered, StakingAnswered, ExchangeAnswered, Answers
<1>47. CASE AskProviderAccounts
  <2>1. resource = "providers/accounts" =>
          path \in {d.provider : d \in ProviderList} /\ DOMAIN query \subseteq {}
      BY DEF Answered, StakingAnswered, Answers
  <2>2. /\ resource' = "providers/accounts" /\ path' \in {d.provider : d \in ProviderList} /\ Asks({})
        /\ list' = ProviderController_getProviderAccounts(path')
        /\ count' = ProviderController_getProviderAccountsCount(path')
        /\ alternative' = ProviderController_getProviderAccountsCount(path')
      BY <1>47, <2>1 DEF AskProviderAccounts, Ask, Answer, Asks
  <2>3. DOMAIN query' \subseteq {}
      BY <2>2, AsksItsParameters
  <2> QED
      BY <2>2, <2>3
         DEF Listings, Answered, AccountsAnswered, HistoryAnswered, TokensAnswered, NftsAnswered, ChainAnswered,
             UpdatesAnswered, StakingAnswered, ExchangeAnswered, Answers
<1>48. CASE AskIdentities
  <2>1. resource = "identities" => path \in {""} /\ DOMAIN query \subseteq StakingParams.getIdentities
      BY DEF Answered, StakingAnswered, Answers
  <2>2. /\ resource' = "identities" /\ path' \in {""} /\ Asks(StakingParams.getIdentities)
        /\ list' = IdentitiesController_getIdentities(query')
        /\ count' = IdentitiesController_getIdentities(query')
        /\ alternative' = IdentitiesController_getIdentities(query')
      BY <1>48, <2>1 DEF AskIdentities, Ask, Answer, Asks
  <2>3. DOMAIN query' \subseteq StakingParams.getIdentities
      BY <2>2, AsksItsParameters
  <2> QED
      BY <2>2, <2>3
         DEF Listings, Answered, AccountsAnswered, HistoryAnswered, TokensAnswered, NftsAnswered, ChainAnswered,
             UpdatesAnswered, StakingAnswered, ExchangeAnswered, Answers
<1>49. CASE AskAccountKeys
  <2>1. resource = "accounts/keys" =>
          path \in DOMAIN BlsKeysStatus /\ DOMAIN query \subseteq StakingParams.getAccountKeys
      BY DEF Answered, StakingAnswered, Answers
  <2>2. /\ resource' = "accounts/keys" /\ path' \in DOMAIN BlsKeysStatus /\ Asks(StakingParams.getAccountKeys)
        /\ list' = AccountController_getAccountKeys(path', query')
        /\ count' = AccountController_getAccountKeys(path', query')
        /\ alternative' = AccountController_getAccountKeys(path', query')
      BY <1>49, <2>1 DEF AskAccountKeys, Ask, Answer, Asks
  <2>3. DOMAIN query' \subseteq StakingParams.getAccountKeys
      BY <2>2, AsksItsParameters
  <2> QED
      BY <2>2, <2>3
         DEF Listings, Answered, AccountsAnswered, HistoryAnswered, TokensAnswered, NftsAnswered, ChainAnswered,
             UpdatesAnswered, StakingAnswered, ExchangeAnswered, Answers
<1>50. CASE AskWaitingList
  <2>1. resource = "waiting-list" => path \in {""} /\ DOMAIN query \subseteq {}
      BY DEF Answered, StakingAnswered, Answers
  <2>2. /\ resource' = "waiting-list" /\ path' \in {""} /\ Asks({})
        /\ list' = WaitingListController_getWaitingList
        /\ count' = WaitingListController_getWaitingListCount
        /\ alternative' = WaitingListController_getWaitingListCountAlternative
      BY <1>50, <2>1 DEF AskWaitingList, Ask, Answer, Asks
  <2>3. DOMAIN query' \subseteq {}
      BY <2>2, AsksItsParameters
  <2> QED
      BY <2>2, <2>3
         DEF Listings, Answered, AccountsAnswered, HistoryAnswered, TokensAnswered, NftsAnswered, ChainAnswered,
             UpdatesAnswered, StakingAnswered, ExchangeAnswered, Answers
<1>51. CASE AskMexPairs
  <2>1. resource = "mex/pairs" => path \in {""} /\ DOMAIN query \subseteq ExchangeParams.getMexPairs
      BY DEF Answered, ExchangeAnswered, Answers
  <2>2. /\ resource' = "mex/pairs" /\ path' \in {""} /\ Asks(ExchangeParams.getMexPairs)
        /\ list' = MexController_getMexPairs(query')
        /\ count' = MexController_getMexPairsCount(query')
        /\ alternative' = MexController_getMexPairsTemp(query')
      BY <1>51, <2>1 DEF AskMexPairs, Ask, Answer, Asks
  <2>3. DOMAIN query' \subseteq ExchangeParams.getMexPairs
      BY <2>2, AsksItsParameters
  <2> QED
      BY <2>2, <2>3
         DEF Listings, Answered, AccountsAnswered, HistoryAnswered, TokensAnswered, NftsAnswered, ChainAnswered,
             UpdatesAnswered, StakingAnswered, ExchangeAnswered, Answers
<1>52. CASE AskMexTokens
  <2>1. resource = "mex/tokens" => path \in {""} /\ DOMAIN query \subseteq {}
      BY DEF Answered, ExchangeAnswered, Answers
  <2>2. /\ resource' = "mex/tokens" /\ path' \in {""} /\ Asks({})
        /\ list' = MexController_getMexTokens
        /\ count' = MexController_getMexTokensCount
        /\ alternative' = MexController_getMexTokensCount
      BY <1>52, <2>1 DEF AskMexTokens, Ask, Answer, Asks
  <2>3. DOMAIN query' \subseteq {}
      BY <2>2, AsksItsParameters
  <2> QED
      BY <2>2, <2>3
         DEF Listings, Answered, AccountsAnswered, HistoryAnswered, TokensAnswered, NftsAnswered, ChainAnswered,
             UpdatesAnswered, StakingAnswered, ExchangeAnswered, Answers
<1>53. CASE AskMexFarms
  <2>1. resource = "mex/farms" => path \in {""} /\ DOMAIN query \subseteq {}
      BY DEF Answered, ExchangeAnswered, Answers
  <2>2. /\ resource' = "mex/farms" /\ path' \in {""} /\ Asks({})
        /\ list' = MexController_getMexFarms
        /\ count' = MexController_getMexFarmsCount
        /\ alternative' = MexController_getMexFarmsCount
      BY <1>53, <2>1 DEF AskMexFarms, Ask, Answer, Asks
  <2>3. DOMAIN query' \subseteq {}
      BY <2>2, AsksItsParameters
  <2> QED
      BY <2>2, <2>3
         DEF Listings, Answered, AccountsAnswered, HistoryAnswered, TokensAnswered, NftsAnswered, ChainAnswered,
             UpdatesAnswered, StakingAnswered, ExchangeAnswered, Answers
<1>54. CASE AskAuctions
  <2>1. resource = "auctions" => path \in {""} /\ DOMAIN query \subseteq ExchangeParams.getAuctionsCount
      BY DEF Answered, ExchangeAnswered, Answers
  <2>2. /\ resource' = "auctions" /\ path' \in {""} /\ Asks(ExchangeParams.getAuctionsCount)
        /\ list' = NftMarketplaceController_getAuctions
        /\ count' = NftMarketplaceController_getAuctionsCount(query')
        /\ alternative' = NftMarketplaceController_getAuctionsCountAlternative(query')
      BY <1>54, <2>1 DEF AskAuctions, Ask, Answer, Asks
  <2>3. DOMAIN query' \subseteq ExchangeParams.getAuctionsCount
      BY <2>2, AsksItsParameters
  <2> QED
      BY <2>2, <2>3
         DEF Listings, Answered, AccountsAnswered, HistoryAnswered, TokensAnswered, NftsAnswered, ChainAnswered,
             UpdatesAnswered, StakingAnswered, ExchangeAnswered, Answers
<1>55. CASE AskAccountAuctions
  <2>1. resource = "accounts/auctions" =>
          path \in Addresses /\ DOMAIN query \subseteq ExchangeParams.getAccountAuctions
      BY DEF Answered, ExchangeAnswered, Answers
  <2>2. /\ resource' = "accounts/auctions" /\ path' \in Addresses /\ Asks(ExchangeParams.getAccountAuctions)
        /\ list' = NftMarketplaceController_getAccountAuctions(path', query')
        /\ count' = NftMarketplaceController_getAccountAuctionsCount(path')
        /\ alternative' = NftMarketplaceController_getAccountAuctionsCount(path')
      BY <1>55, <2>1 DEF AskAccountAuctions, Ask, Answer, Asks
  <2>3. DOMAIN query' \subseteq ExchangeParams.getAccountAuctions
      BY <2>2, AsksItsParameters
  <2> QED
      BY <2>2, <2>3
         DEF Listings, Answered, AccountsAnswered, HistoryAnswered, TokensAnswered, NftsAnswered, ChainAnswered,
             UpdatesAnswered, StakingAnswered, ExchangeAnswered, Answers
<1>56. CASE AskCollectionAuctions
  <2>1. resource = "collections/auctions" => path \in CollectionIds /\ DOMAIN query \subseteq {}
      BY DEF Answered, ExchangeAnswered, Answers
  <2>2. /\ resource' = "collections/auctions" /\ path' \in CollectionIds /\ Asks({})
        /\ list' = NftMarketplaceController_getCollectionAuctions(path')
        /\ count' = NftMarketplaceController_getCollectionAuctionsCount(path')
        /\ alternative' = NftMarketplaceController_getCollectionAuctionsCount(path')
      BY <1>56, <2>1 DEF AskCollectionAuctions, Ask, Answer, Asks
  <2>3. DOMAIN query' \subseteq {}
      BY <2>2, AsksItsParameters
  <2> QED
      BY <2>2, <2>3
         DEF Listings, Answered, AccountsAnswered, HistoryAnswered, TokensAnswered, NftsAnswered, ChainAnswered,
             UpdatesAnswered, StakingAnswered, ExchangeAnswered, Answers
<1> QED
    BY <1>1, <1>2, <1>3, <1>4, <1>5, <1>6, <1>7, <1>8, <1>9, <1>10, <1>11, <1>12, <1>13, <1>14, <1>15,
       <1>16, <1>17, <1>18, <1>19, <1>20, <1>21, <1>22, <1>23, <1>24, <1>25, <1>26, <1>27, <1>28, <1>29, <1>30,
       <1>31, <1>32, <1>33, <1>34, <1>35, <1>36, <1>37, <1>38, <1>39, <1>40, <1>41, <1>42, <1>43, <1>44, <1>45,
       <1>46, <1>47, <1>48, <1>49, <1>50, <1>51, <1>52, <1>53, <1>54, <1>55, <1>56 DEF Next

-----------------------------------------------------------------------------
(* What is listed is in the path.                                          *)

\* Hashes are in the filter only if they are in the query.
LEMMA HashesAreAsked ==
    ASSUME NEW q, NEW P, Given(TransactionFilter(Pick(q, P)), "hashes")
    PROVE  Given(q, "hashes")
<1>1. \A f, k, l : Given(As(f, k, l), "hashes") => Given(f, "hashes") \/ l = "hashes"
    BY DEF As, Given
<1>2. Given(As(As(Pick(q, P), "receiver", "receivers"), "function", "functions"), "hashes")
    BY DEF TransactionFilter, With, Given
<1>3. Given(Pick(q, P), "hashes")
    BY <1>1, <1>2
<1> QED
    BY <1>3 DEF Pick, Given

\* A field that is put over a filter is in it.
LEMMA WithIsOver ==
    /\ \A f, v : Given(With([address |-> v], f), "address") /\ With([address |-> v], f).address = v
    /\ \A f, v : Given(With([token |-> v], f), "token") /\ With([token |-> v], f).token = v
    /\ \A f, v : Given(With([collection |-> v], f), "collection") /\ With([collection |-> v], f).collection = v
  BY DEF With, Given

\* TransactionService.getTransactions: what does not come from the gateway meets the filter.
LEMMA FromTheIndex ==
    ASSUME NEW f, NEW a, NEW d \in TransactionService_getTransactions(f, a), ~Given(f, "hashes")
    PROVE  d \in Operations /\ buildTransactionFilterQuery(f, a, d)
  BY DEF TransactionService_getTransactions, getTransactions

\* OperationFilter: a token that is asked for is one of the operation's, but for EGLD.
LEMMA OfTheToken ==
    ASSUME NEW f, NEW d, OperationFilter(f, d), Given(f, "token"), f.token # "EGLD"
    PROVE  f.token \in d.tokens
  BY DEF OperationFilter

\* TransferService.getTransfers: the parties and the tokens of a transfer are those of a document.
LEMMA TransferOf ==
    ASSUME NEW f, NEW d \in TransferService_getTransfers(f)
    PROVE  \E o \in Operations :
              /\ buildTransferFilterQuery(f, o)
              /\ d.sender = o.sender /\ d.receiver = o.receiver /\ d.receivers = o.receivers
              /\ d.tokens = o.tokens /\ d.hash = o.hash
              /\ Exists(o.relayer) => d.relayer = o.relayer
<1>1. PICK o \in getTransfers(f) :
        d = [o EXCEPT !.type = IF @ = "normal" THEN "Transaction" ELSE "SmartContractResult",
                      !.relayer = IF Exists(@) THEN @ ELSE o.relayerAddr,
                      !.isRelayed = @ \/ Exists(o.relayer)]
    BY DEF TransferService_getTransfers
<1>2. o \in Operations /\ buildTransferFilterQuery(f, o)
    BY DEF getTransfers
<1>3. {"type", "hash", "sender", "receiver", "receivers", "relayer", "relayerAddr", "isRelayed", "tokens"} \subseteq DOMAIN o
    BY <1>2, DocumentsAssumption
<1> QED
    BY <1>1, <1>2, <1>3

\* The transactions of an asset are of the asset.
LEMMA TransactionsOfAsset ==
    ASSUME NEW i, NEW q, NEW P, i # "EGLD", ~Given(q, "hashes"),
           NEW d \in TransactionService_getTransactions(With([token |-> i], TransactionFilter(Pick(q, P))), "")
    PROVE  i \in d.tokens
<1> DEFINE f == With([token |-> i], TransactionFilter(Pick(q, P)))
<1>1. ~Given(f, "hashes")
    BY HashesAreAsked DEF With, Given
<1>2. Given(f, "token") /\ f.token = i
    BY WithIsOver
<1> HIDE DEF f
<1>3. OperationFilter(f, d)
    BY <1>1, FromTheIndex DEF f, buildTransactionFilterQuery
<1> QED
    BY <1>2, <1>3, OfTheToken

\* So are its transfers.
LEMMA TransfersOfAsset ==
    ASSUME NEW i, NEW g, i # "EGLD", NEW d \in TransferService_getTransfers(With([token |-> i], g))
    PROVE  i \in d.tokens
<1> DEFINE f == With([token |-> i], g)
<1>1. Given(f, "token") /\ f.token = i
    BY WithIsOver
<1> HIDE DEF f
<1>2. PICK o \in Operations : buildTransferFilterQuery(f, o) /\ d.tokens = o.tokens
    BY TransferOf DEF f
<1>3. OperationFilter(f, o)
    BY <1>2 DEF buildTransferFilterQuery
<1> QED
    BY <1>1, <1>2, <1>3, OfTheToken

\* The transactions of an account are its own.
LEMMA TransactionsOfAccount ==
    ASSUME NEW a, NEW q, NEW P, a # "", ~Given(q, "hashes"),
           NEW d \in TransactionService_getTransactions(TransactionFilter(Pick(q, P)), a)
    PROVE  a \in {d.sender, d.receiver} \cup d.receivers
<1> DEFINE f == TransactionFilter(Pick(q, P))
<1>1. ~Given(f, "hashes")
    BY HashesAreAsked
<1> HIDE DEF f
<1>2. buildTransactionFilterQuery(f, a, d)
    BY <1>1, FromTheIndex DEF f
<1>3. Exists(a)
    BY DEF Exists
<1> QED
    BY <1>2, <1>3 DEF buildTransactionFilterQuery

\* So are its transfers, or it relayed them; this is asked for.
LEMMA TransfersOfAccount ==
    ASSUME NEW a, NEW g, a # "", NEW d \in TransferService_getTransfers(With([address |-> a], g))
    PROVE  \/ a \in {d.sender, d.receiver} \cup d.receivers
           \/ Given(g, "withTxsRelayedByAddress") /\ a = d.relayer
<1> DEFINE f == With([address |-> a], g)
<1>1. Given(f, "address") /\ f.address = a
    BY WithIsOver
<1>2. Given(f, "withTxsRelayedByAddress") => Given(g, "withTxsRelayedByAddress")
    BY DEF With, Given
<1> HIDE DEF f
<1>3. PICK o \in Operations :
              /\ buildTransferFilterQuery(f, o)
              /\ d.sender = o.sender /\ d.receiver = o.receiver /\ d.receivers = o.receivers
              /\ Exists(o.relayer) => d.relayer = o.relayer
    BY TransferOf DEF f
<1>4. AddressOfTransfer(f, o)
    BY <1>1, <1>3 DEF buildTransferFilterQuery, IsSet
<1>5. \/ a \in {o.sender, o.receiver} \cup o.receivers
      \/ Given(f, "withTxsRelayedByAddress") /\ a = o.relayer
    BY <1>1, <1>4 DEF AddressOfTransfer, IsTrue
<1> QED
    BY <1>2, <1>3, <1>5 DEF Exists

\* The address or the asset in the path is a party of every document that is listed.
LEMMA AnswersAreInPath ==
    ASSUME Answered, ~FromTheGateway, NEW d \in list \ Errors
    PROVE  InPath(d)
<1>0. ~Given(query, "hashes") \/ resource \notin TransactionLists
    BY DEF FromTheGateway
<1>1. CASE resource = "accounts/tokens"
  <2>1. path \in Addresses /\ d \in AccountController_getAccountTokens(path, query)
      BY <1>1 DEF Answered, AccountsAnswered, Answers
  <2>2. d.address = path
      BY <2>1
         DEF AccountController_getAccountTokens, TokenService_getTokensForAddress,
             getTokensForAddressFromElastic, getTokensForAddress, getAllTokensForAddress, GatewayEsdts
  <2> QED
      BY <1>1, <2>2 DEF InPath
<1>2. CASE resource = "accounts/nfts"
  <2>1. path \in Addresses /\ d \in AccountController_getAccountNfts(path, query)
      BY <1>2 DEF Answered, AccountsAnswered, Answers
  <2>2. d.address = path
      BY <2>1, PathsAssumption
         DEF AccountController_getAccountNfts, NftService_getNftsForAddress,
             EsdtAddressService_getNftsForAddress, getNftsForAddress, getNftsForAddressFromGateway,
             GatewayEsdts, buildElasticNftFilter, Exists
  <2> QED
      BY <1>2, <2>2 DEF InPath
<1>3. CASE resource = "accounts/history"
  <2>1. path \in Addresses /\ d \in AccountController_getAccountHistory(path, query)
      BY <1>3 DEF Answered, HistoryAnswered, Answers
  <2>2. d.address = path
      BY <2>1 DEF AccountController_getAccountHistory, getAccountHistory, buildAccountHistoryFilterQuery
  <2> QED
      BY <1>3, <2>2 DEF InPath
<1>4. CASE resource = "accounts/esdthistory"
  <2>1. path \in Addresses /\ d \in AccountController_getAccountEsdtHistory(path, query)
      BY <1>4 DEF Answered, HistoryAnswered, Answers
  <2>2. d.address = path
      BY <2>1 DEF AccountController_getAccountEsdtHistory, getAccountEsdtHistory, buildAccountHistoryFilterQuery
  <2> QED
      BY <1>4, <2>2 DEF InPath
<1>5. CASE resource = "accounts/transactions"
  <2>1. path \in Addresses /\ d \in AccountController_getAccountTransactions(path, query) /\ ~Given(query, "hashes")
      BY <1>0, <1>5 DEF Answered, HistoryAnswered, Answers, TransactionLists
  <2>2. path \in {d.sender, d.receiver} \cup d.receivers
      BY <2>1, PathsAssumption, TransactionsOfAccount DEF AccountController_getAccountTransactions
  <2> QED
      BY <1>5, <2>2 DEF InPath
<1>6. CASE resource = "accounts/transfers"
  <2>1. path \in Addresses /\ d \in AccountController_getAccountTransfers(path, query)
      BY <1>6 DEF Answered, HistoryAnswered, Answers
  <2>2. path \in {d.sender, d.receiver, d.relayer} \cup d.receivers
      BY <2>1, PathsAssumption, TransfersOfAccount DEF AccountController_getAccountTransfers
  <2> QED
      BY <1>6, <2>2 DEF InPath
<1>7. CASE resource = "accounts/results"
  <2>1. path \in Addresses /\ d \in AccountController_getAccountScResults(path)
      BY <1>7 DEF Answered, HistoryAnswered, Answers
  <2>2. path \in {d.sender, d.receiver} \cup d.receivers
      BY <2>1, PathsAssumption
         DEF AccountController_getAccountScResults, getAccountScResults, buildSmartContractResultFilterQuery,
             Exists
  <2> QED
      BY <1>7, <2>2 DEF InPath
<1>8. CASE resource = "account"
  <2>1. path \in Addresses /\ d \in AccountController_getAccountTransfers(path, query) /\ DOMAIN query = {}
      BY <1>8 DEF Answered, AccountsAnswered, Answers
  <2> DEFINE g == TransferFilter(Pick(query, AccountParams.getAccountTransfers))
  <2>2. ~Given(g, "withTxsRelayedByAddress")
    <3>1. DOMAIN Pick(query, AccountParams.getAccountTransfers) = {}
        BY <2>1 DEF Pick
    <3> QED
        BY <3>1 DEF TransferFilter, TransactionFilter, As, With, Given
  <2> HIDE DEF g
  <2>3. path \in {d.sender, d.receiver} \cup d.receivers
      BY <2>1, <2>2, PathsAssumption, TransfersOfAccount DEF AccountController_getAccountTransfers, g
  <2> QED
      BY <1>8, <2>3 DEF InPath
<1>9. CASE resource = "accounts/roles/tokens"
  <2>1. path \in Addresses /\ d \in AccountController_getAccountTokensWithRoles(path, query)
      BY <1>9 DEF Answered, AccountsAnswered, Answers
  <2> DEFINE f == Pick(query, AccountParams.getAccountTokensWithRoles)
  <2>2. d \in Tokens /\ buildTokensWithRolesForAddressQuery(path, f, d)
      BY <2>1 DEF AccountController_getAccountTokensWithRoles, TokenService_getTokensWithRolesForAddress,
                  getTokensWithRolesForAddress
  <2> HIDE DEF f
  <2>3. d.currentOwner = path \/ \E r \in AllRoles : path \in d.roles[r]
    <3>1. {"ESDTRoleLocalMint", "ESDTRoleLocalBurn", "ESDTTransferRole"} \subseteq AllRoles
        BY DEF AllRoles, CollectionRoles
    <3>2. {CollectionRoles[k] : k \in DOMAIN CollectionRoles} \subseteq AllRoles
        BY DEF AllRoles
    <3> QED
        BY <2>2, <3>1, <3>2 DEF buildTokensWithRolesForAddressQuery
  <2>4. AllRoles \subseteq DOMAIN d.roles
      BY <2>2, DocumentsAssumption
  <2>5. d.currentOwner = path \/ \E r \in DOMAIN d.roles : path \in d.roles[r]
      BY <2>3, <2>4
  <2> QED
      BY <1>9, <2>5 DEF InPath
<1>10. CASE resource = "accounts/roles/collections"
  <2>1. path \in Addresses /\ d \in AccountController_getAccountCollectionsWithRoles(path, query)
      BY <1>10 DEF Answered, AccountsAnswered, Answers
  <2> DEFINE f == Pick(query, AccountParams.getAccountCollectionsWithRoles)
  <2>2. d \in Tokens /\ buildCollectionRolesFilter(f, path, d)
      BY <2>1 DEF AccountController_getAccountCollectionsWithRoles, EsdtAddressService_getCollectionsForAddress,
                  applyPropertiesToCollections, getNftCollections
  <2> HIDE DEF f
  <2>3. Exists(path)
      BY <2>1, PathsAssumption DEF Exists
  <2>4. d.currentOwner = path \/ \E k \in DOMAIN CollectionRoles : path \in d.roles[CollectionRoles[k]]
      BY <2>2, <2>3 DEF buildCollectionRolesFilter
  <2>5. AllRoles \subseteq DOMAIN d.roles
      BY <2>2, DocumentsAssumption
  <2>6. d.currentOwner = path \/ \E r \in DOMAIN d.roles : path \in d.roles[r]
      BY <2>4, <2>5 DEF AllRoles
  <2> QED
      BY <1>10, <2>6 DEF InPath
<1>11. CASE resource = "accounts/collections"
  <2>1. path \in Addresses /\ d \in AccountController_getAccountNftCollections(path, query)
      BY <1>11 DEF Answered, AccountsAnswered, Answers
  <2> DEFINE f == Pick(query, AccountParams.getAccountNftCollections)
             held == getCollectionsForAddress(path, f)
             g == [identifiers |-> held]
  <2>2. held # {} /\ d \in CollectionService_getNftCollections(PropertiesFromGateway, g)
      BY <2>1 DEF AccountController_getAccountNftCollections, CollectionService_getCollectionsForAddress
  <2>3. NonEmpty(g, "identifiers") /\ g.identifiers = held
      BY <2>2 DEF NonEmpty, Given
  <2> HIDE DEF held, g
  <2>4. d.token \in held
      BY <2>2, <2>3 DEF CollectionService_getNftCollections, applyPropertiesToCollections, getNftCollections,
                        buildCollectionRolesFilter, MustMultiShould
  <2>5. \E e \in AccountsEsdt : e.address = path /\ e.token = d.token
      BY <2>4 DEF held, getCollectionsForAddress
  <2>6. \E e \in GatewayEsdts(path) : e.token = d.token
      BY <2>5 DEF GatewayEsdts
  <2> QED
      BY <1>11, <2>6 DEF InPath
<1>12. CASE resource = "tokens/transactions"
  <2>1. path \in TokenIds /\ d \in TokenController_getTokenTransactions(path, query) /\ d \notin Errors /\ ~Given(query, "hashes")
      BY <1>0, <1>12 DEF Answered, TokensAnswered, Answers, TransactionLists
  <2>2. path \in d.tokens
      BY <2>1, PathsAssumption, TransactionsOfAsset DEF TokenController_getTokenTransactions, Errors
  <2> QED
      BY <1>12, <2>2 DEF InPath
<1>13. CASE resource = "tokens/transfers"
  <2>1. path \in TokenIds /\ d \in TokenController_getTokenTransfers(path, query) /\ d \notin Errors
      BY <1>13 DEF Answered, TokensAnswered, Answers
  <2>2. path \in d.tokens
      BY <2>1, PathsAssumption, TransfersOfAsset DEF TokenController_getTokenTransfers, Errors
  <2> QED
      BY <1>13, <2>2 DEF InPath
<1>14. CASE resource = "collections/transactions"
  <2>1. path \in CollectionIds /\ d \in CollectionController_getCollectionTransactions(path, query) /\ d \notin Errors /\ ~Given(query, "hashes")
      BY <1>0, <1>14 DEF Answered, NftsAnswered, Answers, TransactionLists
  <2>2. path \in d.tokens
      BY <2>1, PathsAssumption, TransactionsOfAsset DEF CollectionController_getCollectionTransactions, Errors
  <2> QED
      BY <1>14, <2>2 DEF InPath
<1>15. CASE resource = "collections/transfers"
  <2>1. path \in CollectionIds /\ d \in CollectionController_getCollectionTransfers(path, query) /\ d \notin Errors
      BY <1>15 DEF Answered, NftsAnswered, Answers
  <2>2. path \in d.tokens
      BY <2>1, PathsAssumption, TransfersOfAsset DEF CollectionController_getCollectionTransfers, Errors
  <2> QED
      BY <1>15, <2>2 DEF InPath
<1>16. CASE resource = "nfts/transactions"
  <2>1. path \in NftIds /\ d \in NftController_getNftTransactions(path, query) /\ d \notin Errors /\ ~Given(query, "hashes")
      BY <1>0, <1>16 DEF Answered, NftsAnswered, Answers, TransactionLists
  <2>2. path \in d.tokens
      BY <2>1, PathsAssumption, TransactionsOfAsset DEF NftController_getNftTransactions, Errors
  <2> QED
      BY <1>16, <2>2 DEF InPath
<1>17. CASE resource = "nfts/transfers"
  <2>1. path \in NftIds /\ d \in NftController_getNftTransfers(path, query) /\ d \notin Errors
      BY <1>17 DEF Answered, NftsAnswered, Answers
  <2>2. path \in d.tokens
      BY <2>1, PathsAssumption, TransfersOfAsset DEF NftController_getNftTransfers, Errors
  <2> QED
      BY <1>17, <2>2 DEF InPath
<1>18. CASE resource = "tokens/accounts"
  <2>1. path \in TokenIds /\ d \in TokenController_getTokenAccounts(path) /\ d \notin Errors
      BY <1>18 DEF Answered, TokensAnswered, Answers
  <2>2. d.token = path
      BY <2>1 DEF TokenController_getTokenAccounts, TokenService_getTokenAccounts, getTokenAccounts, Errors
  <2> QED
      BY <1>18, <2>2 DEF InPath
<1>19. CASE resource = "collections/nfts"
  <2>1. path \in CollectionIds /\ d \in CollectionController_getNfts(path, query) /\ d \notin Errors
      BY <1>19 DEF Answered, NftsAnswered, Answers
  <2> DEFINE f == With([collection |-> path], Pick(query, AssetParams.getNftsOfCollection))
  <2>2. IsSet(f, "collection") /\ f.collection = path
      BY <2>1, PathsAssumption, WithIsOver DEF IsSet
  <2> HIDE DEF f
  <2>3. buildElasticNftFilter(f, "", d)
      BY <2>1 DEF CollectionController_getNfts, Errors, getNfts, f
  <2>4. d.token = path
      BY <2>2, <2>3 DEF buildElasticNftFilter
  <2> QED
      BY <1>19, <2>4 DEF InPath
<1>20. CASE resource = "collections/accounts"
  <2>1. path \in CollectionIds /\ d \in CollectionController_getNftAccounts(path)
      BY <1>20 DEF Answered, NftsAnswered, Answers
  <2>2. d.token = path
      BY <2>1, PathsAssumption
         DEF CollectionController_getNftAccounts, getCollectionOwners, getAccountEsdtByIdentifiers
  <2> QED
      BY <1>20, <2>2 DEF InPath
<1>21. CASE resource = "nfts/accounts"
  <2>1. path \in NftIds /\ d \in NftController_getNftAccounts(path) /\ d \notin Errors
      BY <1>21 DEF Answered, NftsAnswered, Answers
  <2>2. d.identifier = path
      BY <2>1, PathsAssumption
         DEF NftController_getNftAccounts, getNftOwners, getAccountEsdtByIdentifiers, Errors
  <2> QED
      BY <1>21, <2>2 DEF InPath
<1>22. CASE resource = "providers/accounts"
  <2>1. path \in {p.provider : p \in ProviderList} /\ d \in ProviderController_getProviderAccounts(path)
      BY <1>22 DEF Answered, StakingAnswered, Answers
  <2>2. d.contract = path
      BY <2>1 DEF ProviderController_getProviderAccounts, getProviderDelegators
  <2> QED
      BY <1>22, <2>2 DEF InPath
<1>23. CASE resource = "accounts/auctions"
  <2>1. path \in Addresses /\ d \in NftMarketplaceController_getAccountAuctions(path, query)
      BY <1>23 DEF Answered, ExchangeAnswered, Answers
  <2>2. d.owner = path
      BY <2>1 DEF NftMarketplaceController_getAccountAuctions, NftMarketplaceService_getAccountAuctions
  <2> QED
      BY <1>23, <2>2 DEF InPath
<1>24. CASE resource = "collections/auctions"
  <2>1. path \in CollectionIds /\ d \in NftMarketplaceController_getCollectionAuctions(path)
      BY <1>24 DEF Answered, ExchangeAnswered, Answers
  <2>2. d.collection = path
      BY <2>1 DEF NftMarketplaceController_getCollectionAuctions, NftMarketplaceService_getCollectionAuctions
  <2> QED
      BY <1>24, <2>2 DEF InPath
<1> QED
    BY <1>1, <1>2, <1>3, <1>4, <1>5, <1>6, <1>7, <1>8, <1>9, <1>10, <1>11, <1>12, <1>13, <1>14, <1>15, <1>16,
       <1>17, <1>18, <1>19, <1>20, <1>21, <1>22, <1>23, <1>24 DEF InPath

-----------------------------------------------------------------------------
(* What holds of every answer.                                             *)

\* Whatever the client asked last, the answers are those of the handlers to it.
LEMMA AlwaysAnswered == Spec => []Answered
<1>1. Init => Answered
    BY DEF Init, Listings, Answered, AccountsAnswered, HistoryAnswered, TokensAnswered, NftsAnswered,
           ChainAnswered, UpdatesAnswered, StakingAnswered, ExchangeAnswered, Answers
<1>2. Answered /\ [Next]_vars => Answered'
  <2>1. CASE Next
      BY <2>1, NextAnswered
  <2>2. CASE UNCHANGED vars
    <3>1. /\ resource' = resource /\ path' = path /\ query' = query
          /\ list' = list /\ count' = count /\ alternative' = alternative
        BY <2>2 DEF vars
    <3>2. AccountsAnswered => AccountsAnswered'
        BY <3>1 DEF AccountsAnswered, Answers
    <3>3. HistoryAnswered => HistoryAnswered'
        BY <3>1 DEF HistoryAnswered, Answers
    <3>4. TokensAnswered => TokensAnswered'
        BY <3>1 DEF TokensAnswered, Answers
    <3>5. NftsAnswered => NftsAnswered'
        BY <3>1 DEF NftsAnswered, Answers
    <3>6. ChainAnswered => ChainAnswered'
        BY <3>1 DEF ChainAnswered, Answers
    <3>7. UpdatesAnswered => UpdatesAnswered'
        BY <3>1 DEF UpdatesAnswered, Answers
    <3>8. StakingAnswered => StakingAnswered'
        BY <3>1 DEF StakingAnswered, Answers
    <3>9. ExchangeAnswered => ExchangeAnswered'
        BY <3>1 DEF ExchangeAnswered, Answers
    <3> QED
        BY <3>1, <3>2, <3>3, <3>4, <3>5, <3>6, <3>7, <3>8, <3>9 DEF Answered
  <2> QED
      BY <2>1, <2>2
<1> QED
    BY <1>1, <1>2, PTL DEF Spec

\* A listing under an address or an asset lists only what is of it, whatever else is asked for:
\* the filters of ElasticIndexerHelper and the services that go round them (the gateway, the
\* tokens of a contract, the collections an address holds) keep what the path says.
THEOREM ListedIsAlwaysInPath == Spec => []ListedIsInPath
<1>1. Answered => ListedIsInPath
  <2> SUFFICES ASSUME Answered, ~FromTheGateway, NEW d \in list \ Errors
               PROVE  InPath(d)
      BY DEF ListedIsInPath
  <2> QED
      BY AnswersAreInPath
<1> QED
    BY <1>1, AlwaysAnswered, PTL

-----------------------------------------------------------------------------
(* What is counted is what is listed.                                      *)

\* The listings whose list is the very set that is counted, where nothing that is not counted is asked for.
SameListings ==
    {"accounts/collections", "accounts/transactions", "accounts/results", "accounts/history", "accounts/esdthistory",
     "accounts/history/token", "tokens/roles", "tokens/transactions", "collections/nfts", "collections/accounts",
     "collections/transactions", "nfts", "nfts/accounts", "nfts/transactions", "transactions", "rounds", "events", "results",
     "pool", "subscribeTransactions", "subscribeEvents", "subscribePool", "nodes", "providers", "providers/accounts",
     "identities", "accounts/keys", "waiting-list", "mex/pairs", "mex/tokens", "mex/farms", "accounts/auctions",
     "collections/auctions"}

\* A handler that picks other parameters picks the same, if the query has none that make the difference.
LEMMA SamePick ==
    ASSUME NEW q, NEW P, NEW R, DOMAIN q \cap P = DOMAIN q \cap R
    PROVE  Pick(q, P) = Pick(q, R)
  BY DEF Pick

\* The counts of accounts and of what they have pick the parameters of the lists, but for some.
LEMMA CountsOfAccounts ==
    ASSUME NEW q
    PROVE  /\ DOMAIN q \cap {"sort", "addresses", "withBalance"} = {} =>
                Pick(q, AccountParams.getAccounts) = Pick(q, AccountParams.getAccountsCount)
           /\ DOMAIN q \cap {"subType"} = {} =>
                Pick(q, AccountParams.getAccountTokens) = Pick(q, AccountParams.getTokenCount)
           /\ DOMAIN q \cap {"canUpdateAttributes", "canAddUri", "canTransferRole"} = {} =>
                Pick(q, AccountParams.getAccountCollectionsWithRoles) = Pick(q, AccountParams.getCollectionWithRolesCount)
           /\ Pick(q, AccountParams.getAccountTransactions) = Pick(q, AccountParams.getAccountTransactionsCount)
           /\ DOMAIN q \cap {"relayer"} = {} =>
                Pick(q, AccountParams.getAccountTransfers) = Pick(q, AccountParams.getAccountTransfersCount)
<1>1. DOMAIN q \cap {"sort", "addresses", "withBalance"} = {} =>
        (DOMAIN q \cap AccountParams.getAccounts) = (DOMAIN q \cap AccountParams.getAccountsCount)
    BY DEF AccountParams
<1>2. DOMAIN q \cap {"subType"} = {} =>
        (DOMAIN q \cap AccountParams.getAccountTokens) = (DOMAIN q \cap AccountParams.getTokenCount)
    BY DEF AccountParams
<1>3. DOMAIN q \cap {"canUpdateAttributes", "canAddUri", "canTransferRole"} = {} =>
        (DOMAIN q \cap AccountParams.getAccountCollectionsWithRoles) = (DOMAIN q \cap AccountParams.getCollectionWithRolesCount)
    BY DEF AccountParams
<1>4. (DOMAIN q \cap AccountParams.getAccountTransactions) = (DOMAIN q \cap AccountParams.getAccountTransactionsCount)
    BY DEF AccountParams
<1>5. DOMAIN q \cap {"relayer"} = {} =>
        (DOMAIN q \cap AccountParams.getAccountTransfers) = (DOMAIN q \cap AccountParams.getAccountTransfersCount)
    BY DEF AccountParams
<1> QED
    BY <1>1, <1>2, <1>3, <1>4, <1>5, SamePick

\* ... and those of tokens, collections and NFTs, ...
LEMMA CountsOfAssets ==
    ASSUME NEW q
    PROVE  /\ Pick(q, AssetParams.getTokens) = Pick(q, AssetParams.getTokenCount)
           /\ DOMAIN q \cap {"function"} = {} =>
                Pick(q, AssetParams.getTokenTransactions) = Pick(q, AssetParams.getTokenTransactionsCount)
           /\ DOMAIN q \cap {"identifiers"} = {} =>
                Pick(q, AssetParams.getNftCollections) = Pick(q, AssetParams.getCollectionCount)
           /\ DOMAIN q \cap {"subType"} = {} =>
                Pick(q, AssetParams.getCollectionCount) = Pick(q, AssetParams.getCollectionCountAlternative)
           /\ DOMAIN q \cap {"isNsfw"} = {} =>
                Pick(q, AssetParams.getNftsOfCollection) = Pick(q, AssetParams.getNftCountOfCollection)
           /\ DOMAIN q \cap {"function"} = {} =>
                Pick(q, AssetParams.getCollectionTransactions) = Pick(q, AssetParams.getCollectionTransactionsCount)
           /\ Pick(q, AssetParams.getNfts) = Pick(q, AssetParams.getNftCount)
           /\ DOMAIN q \cap {"function"} = {} =>
                Pick(q, AssetParams.getNftTransactions) = Pick(q, AssetParams.getNftTransactionsCount)
           /\ DOMAIN q \cap {"function"} = {} =>
                Pick(q, AssetParams.getNftTransfers) = Pick(q, AssetParams.getNftTransfersCount)
<1>1. (DOMAIN q \cap AssetParams.getTokens) = (DOMAIN q \cap AssetParams.getTokenCount)
    BY DEF AssetParams, OperationParams, NftParams
<1>2. DOMAIN q \cap {"function"} = {} =>
        (DOMAIN q \cap AssetParams.getTokenTransactions) = (DOMAIN q \cap AssetParams.getTokenTransactionsCount)
    BY DEF AssetParams, OperationParams, NftParams
<1>3. DOMAIN q \cap {"identifiers"} = {} =>
        (DOMAIN q \cap AssetParams.getNftCollections) = (DOMAIN q \cap AssetParams.getCollectionCount)
    BY DEF AssetParams, OperationParams, NftParams
<1>4. DOMAIN q \cap {"subType"} = {} =>
        (DOMAIN q \cap AssetParams.getCollectionCount) = (DOMAIN q \cap AssetParams.getCollectionCountAlternative)
    BY DEF AssetParams, OperationParams, NftParams
<1>5. DOMAIN q \cap {"isNsfw"} = {} =>
        (DOMAIN q \cap AssetParams.getNftsOfCollection) = (DOMAIN q \cap AssetParams.getNftCountOfCollection)
    BY DEF AssetParams, OperationParams, NftParams
<1>6. DOMAIN q \cap {"function"} = {} =>
        (DOMAIN q \cap AssetParams.getCollectionTransactions) = (DOMAIN q \cap AssetParams.getCollectionTransactionsCount)
    BY DEF AssetParams, OperationParams, NftParams
<1>7. (DOMAIN q \cap AssetParams.getNfts) = (DOMAIN q \cap AssetParams.getNftCount)
    BY DEF AssetParams, OperationParams, NftParams
<1>8. DOMAIN q \cap {"function"} = {} =>
        (DOMAIN q \cap AssetParams.getNftTransactions) = (DOMAIN q \cap AssetParams.getNftTransactionsCount)
    BY DEF AssetParams, OperationParams, NftParams
<1>9. DOMAIN q \cap {"function"} = {} =>
        (DOMAIN q \cap AssetParams.getNftTransfers) = (DOMAIN q \cap AssetParams.getNftTransfersCount)
    BY DEF AssetParams, OperationParams, NftParams
<1> QED
    BY <1>1, <1>2, <1>3, <1>4, <1>5, <1>6, <1>7, <1>8, <1>9, SamePick

\* ... and those of what happened on the chain, and of nodes.
LEMMA CountsOfTheChain ==
    ASSUME NEW q
    PROVE  /\ Pick(q, ChainParams.getTransactions) = Pick(q, ChainParams.getTransactionCount)
           /\ Pick(q, ChainParams.getTransfers) = Pick(q, ChainParams.getTransfersCount)
           /\ DOMAIN q \cap {"hashes"} = {} =>
                Pick(q, ChainParams.getBlocks) = Pick(q, ChainParams.getBlocksCount)
           /\ DOMAIN q \cap {"logAddress", "order"} = {} =>
                Pick(q, ChainParams.getEvents) = Pick(q, ChainParams.getEventsCount)
           /\ DOMAIN q \cap {"miniBlockHash", "originalTxHashes"} = {} =>
                Pick(q, ChainParams.getScResults) = Pick(q, ChainParams.getScResultsCount)
           /\ DOMAIN q \cap {"function"} = {} =>
                Pick(q, ChainParams.getTransactionPool) = Pick(q, ChainParams.getTransactionPoolCount)
           /\ DOMAIN q \cap {"senderShard", "receiverShard"} = {} =>
                Pick(q, ChainParams.getTransactionPoolCount) = Pick(q, ChainParams.getTransactionPoolCountAlternative)
           /\ DOMAIN q \cap {"keys"} = {} =>
                Pick(q, StakingParams.getNodes) = Pick(q, StakingParams.getNodeCount)
<1>1. (DOMAIN q \cap ChainParams.getTransactions) = (DOMAIN q \cap ChainParams.getTransactionCount)
    BY DEF ChainParams, OperationParams, StakingParams
<1>2. (DOMAIN q \cap ChainParams.getTransfers) = (DOMAIN q \cap ChainParams.getTransfersCount)
    BY DEF ChainParams, OperationParams, StakingParams
<1>3. DOMAIN q \cap {"hashes"} = {} =>
        (DOMAIN q \cap ChainParams.getBlocks) = (DOMAIN q \cap ChainParams.getBlocksCount)
    BY DEF ChainParams, OperationParams, StakingParams
<1>4. DOMAIN q \cap {"logAddress", "order"} = {} =>
        (DOMAIN q \cap ChainParams.getEvents) = (DOMAIN q \cap ChainParams.getEventsCount)
    BY DEF ChainParams, OperationParams, StakingParams
<1>5. DOMAIN q \cap {"miniBlockHash", "originalTxHashes"} = {} =>
        (DOMAIN q \cap ChainParams.getScResults) = (DOMAIN q \cap ChainParams.getScResultsCount)
    BY DEF ChainParams, OperationParams, StakingParams
<1>6. DOMAIN q \cap {"function"} = {} =>
        (DOMAIN q \cap ChainParams.getTransactionPool) = (DOMAIN q \cap ChainParams.getTransactionPoolCount)
    BY DEF ChainParams, OperationParams, StakingParams
<1>7. DOMAIN q \cap {"senderShard", "receiverShard"} = {} =>
        (DOMAIN q \cap ChainParams.getTransactionPoolCount) = (DOMAIN q \cap ChainParams.getTransactionPoolCountAlternative)
    BY DEF ChainParams, OperationParams, StakingParams
<1>8. DOMAIN q \cap {"keys"} = {} =>
        (DOMAIN q \cap StakingParams.getNodes) = (DOMAIN q \cap StakingParams.getNodeCount)
    BY DEF ChainParams, OperationParams, StakingParams
<1> QED
    BY <1>1, <1>2, <1>3, <1>4, <1>5, <1>6, <1>7, <1>8, SamePick

\* The parameters of a room are among those of the endpoint.
LEMMA RoomParams ==
    /\ ChainParams.subscribeTransactions = {"status", "isRelayed", "isScCall", "withRelayedScresults"}
    /\ ChainParams.subscribeTransactions \subseteq ChainParams.getTransactionCount
    /\ ChainParams.subscribeBlocks \subseteq ChainParams.getBlocksCount
    /\ ChainParams.subscribeEvents \subseteq ChainParams.getEventsCount
    /\ ChainParams.subscribePool \subseteq ChainParams.getTransactionPoolCount
  BY DEF ChainParams, OperationParams

\* With the senders a handler's filter always has, the count is of the query.
LEMMA CountOfTransactions ==
    ASSUME NEW f, NEW a, "senders" \in DOMAIN f
    PROVE  TransactionService_getTransactionCount(f, a) = getTransactionCount(f, a)
<1>1. DOMAIN f # {} /\ DOMAIN f # {"sender", "receivers", "condition"}
    OBVIOUS
<1> QED
    BY <1>1 DEF TransactionService_getTransactionCount

\* Without hashes nothing but the index is asked.
LEMMA ListOfTransactions ==
    ASSUME NEW f, NEW a, ~Given(f, "hashes")
    PROVE  TransactionService_getTransactions(f, a) = getTransactionCount(f, a)
  BY DEF TransactionService_getTransactions, getTransactions, getTransactionCount

\* The transactions that are listed are those that are counted, ...
LEMMA TransactionsAreCounted ==
    ASSUME NEW q, NEW P, NEW R, NEW a, ~Given(q, "hashes"), Pick(q, P) = Pick(q, R)
    PROVE  TransactionService_getTransactions(TransactionFilter(Pick(q, P)), a)
           = TransactionService_getTransactionCount(TransactionFilter(Pick(q, R)), a)
<1> DEFINE f == TransactionFilter(Pick(q, P))
<1>1. "senders" \in DOMAIN f /\ ~Given(f, "hashes")
    BY HashesAreAsked DEF TransactionFilter, With
<1> HIDE DEF f
<1>2. TransactionService_getTransactions(f, a) = TransactionService_getTransactionCount(f, a)
    BY <1>1, CountOfTransactions, ListOfTransactions
<1> QED
    BY <1>2 DEF f

\* ... and so are those of an asset, with a filter for it.
LEMMA TransactionsAreCountedWith ==
    ASSUME NEW q, NEW P, NEW R, NEW h, ~Given(h, "hashes"), ~Given(q, "hashes"), Pick(q, P) = Pick(q, R)
    PROVE  TransactionService_getTransactions(With(h, TransactionFilter(Pick(q, P))), "")
           = TransactionService_getTransactionCount(With(h, TransactionFilter(Pick(q, R))), "")
<1> DEFINE g == TransactionFilter(Pick(q, P))
           f == With(h, g)
<1>1. "senders" \in DOMAIN g /\ ~Given(g, "hashes")
    BY HashesAreAsked DEF TransactionFilter, With
<1>2. "senders" \in DOMAIN f /\ ~Given(f, "hashes")
    BY <1>1 DEF With, Given
<1> HIDE DEF g, f
<1>3. TransactionService_getTransactions(f, "") = TransactionService_getTransactionCount(f, "")
    BY <1>2, CountOfTransactions, ListOfTransactions
<1> QED
    BY <1>3 DEF f, g

\* There the list is the count.
LEMMA ListIsCount ==
    ASSUME Answered, resource \in SameListings, DOMAIN query \cap Uncounted = {}, ~CountDiffers
    PROVE  list = count
<1>1. CASE resource = "accounts/collections"
  <2>1. /\ list = AccountController_getAccountNftCollections(path, query)
        /\ count = AccountController_getNftCollectionCount(path, query)
      BY <1>1 DEF Answered, AccountsAnswered, Answers
  <2> QED
      BY <2>1 DEF AccountController_getAccountNftCollections, AccountController_getNftCollectionCount
<1>2. CASE resource = "accounts/transactions"
  <2>1. /\ list = AccountController_getAccountTransactions(path, query)
        /\ count = AccountController_getAccountTransactionsCount(path, query)
      BY <1>2 DEF Answered, HistoryAnswered, Answers
  <2>2. ~Given(query, "hashes")
      BY <1>2 DEF CountDiffers, FromTheGateway, TransactionLists
  <2>3. Pick(query, AccountParams.getAccountTransactions) = Pick(query, AccountParams.getAccountTransactionsCount)
      BY CountsOfAccounts
  <2> QED
      BY <2>1, <2>2, <2>3, TransactionsAreCounted
         DEF AccountController_getAccountTransactions, AccountController_getAccountTransactionsCount
<1>3. CASE resource = "accounts/results"
  <2>1. /\ list = AccountController_getAccountScResults(path)
        /\ count = AccountController_getAccountScResultsCount(path)
      BY <1>3 DEF Answered, HistoryAnswered, Answers
  <2> QED
      BY <2>1
         DEF AccountController_getAccountScResults, AccountController_getAccountScResultsCount,
             getAccountScResults, getAccountScResultsCount
<1>4. CASE resource = "accounts/history"
  <2>1. /\ list = AccountController_getAccountHistory(path, query)
        /\ count = AccountController_getAccountHistoryCount(path, query)
      BY <1>4 DEF Answered, HistoryAnswered, Answers
  <2> QED
      BY <2>1
         DEF AccountController_getAccountHistory, AccountController_getAccountHistoryCount, getAccountHistory,
             getAccountHistoryCount
<1>5. CASE resource = "accounts/esdthistory"
  <2>1. /\ list = AccountController_getAccountEsdtHistory(path, query)
        /\ count = AccountController_getAccountEsdtHistoryCount(path, query)
      BY <1>5 DEF Answered, HistoryAnswered, Answers
  <2> QED
      BY <2>1
         DEF AccountController_getAccountEsdtHistory, AccountController_getAccountEsdtHistoryCount,
             getAccountEsdtHistory, getAccountEsdtHistoryCount
<1>6. CASE resource = "accounts/history/token"
  <2>1. /\ list = AccountController_getAccountTokenHistory(path[1], path[2], query)
        /\ count = AccountController_getAccountTokenHistoryCount(path[1], path[2], query)
      BY <1>6 DEF Answered, HistoryAnswered, Answers
  <2> QED
      BY <2>1
         DEF AccountController_getAccountTokenHistory, AccountController_getAccountTokenHistoryCount,
             getAccountTokenHistory, getAccountTokenHistoryCount
<1>7. CASE resource = "tokens/roles"
    BY <1>7 DEF Answered, TokensAnswered, Answers
<1>8. CASE resource = "tokens/transactions"
  <2>1. /\ list = TokenController_getTokenTransactions(path, query)
        /\ count = TokenController_getTokenTransactionsCount(path, query)
      BY <1>8 DEF Answered, TokensAnswered, Answers
  <2>2. DOMAIN query \cap {"function"} = {}
      BY <1>8 DEF Uncounted
  <2>3. ~Given(query, "hashes")
      BY <1>8 DEF CountDiffers, FromTheGateway, TransactionLists
  <2>4. Pick(query, AssetParams.getTokenTransactions) = Pick(query, AssetParams.getTokenTransactionsCount)
      BY <2>2, <2>3, CountsOfAssets
  <2>5. ~Given([token |-> path], "hashes")
      BY DEF Given
  <2> QED
      BY <2>1, <2>2, <2>3, <2>4, <2>5, TransactionsAreCountedWith
         DEF TokenController_getTokenTransactions, TokenController_getTokenTransactionsCount
<1>9. CASE resource = "collections/nfts"
  <2>1. /\ list = CollectionController_getNfts(path, query)
        /\ count = CollectionController_getNftCount(path, query)
      BY <1>9 DEF Answered, NftsAnswered, Answers
  <2>2. DOMAIN query \cap {"isNsfw"} = {}
      BY <1>9 DEF Uncounted
  <2> QED
      BY <2>1, <2>2, CountsOfAssets
         DEF CollectionController_getNfts, CollectionController_getNftCount, getNfts, getNftCount
<1>10. CASE resource = "collections/accounts"
    BY <1>10 DEF Answered, NftsAnswered, Answers
<1>11. CASE resource = "collections/transactions"
  <2>1. /\ list = CollectionController_getCollectionTransactions(path, query)
        /\ count = CollectionController_getCollectionTransactionsCount(path, query)
      BY <1>11 DEF Answered, NftsAnswered, Answers
  <2>2. DOMAIN query \cap {"function"} = {}
      BY <1>11 DEF Uncounted
  <2>3. ~Given(query, "hashes")
      BY <1>11 DEF CountDiffers, FromTheGateway, TransactionLists
  <2>4. Pick(query, AssetParams.getCollectionTransactions) = Pick(query, AssetParams.getCollectionTransactionsCount)
      BY <2>2, <2>3, CountsOfAssets
  <2>5. ~Given([token |-> path], "hashes")
      BY DEF Given
  <2> QED
      BY <2>1, <2>2, <2>3, <2>4, <2>5, TransactionsAreCountedWith
         DEF CollectionController_getCollectionTransactions, CollectionController_getCollectionTransactionsCount
<1>12. CASE resource = "nfts"
  <2>1. list = NftController_getNfts(query) /\ count = NftController_getNftCount(query)
      BY <1>12 DEF Answered, NftsAnswered, Answers
  <2> QED
      BY <2>1, CountsOfAssets DEF NftController_getNfts, NftController_getNftCount, getNfts, getNftCount
<1>13. CASE resource = "nfts/accounts"
  <2>1. list = NftController_getNftAccounts(path) /\ count = NftController_getNftAccountsCount(path)
      BY <1>13 DEF Answered, NftsAnswered, Answers
  <2>2. path \in NftIds
      BY <1>13 DEF Answered, NftsAnswered, Answers
  <2> QED
      BY <2>1, <2>2, PathsAssumption
         DEF NftController_getNftAccounts, NftController_getNftAccountsCount, getNftOwners,
             NftService_getNftOwnersCount, getAccountEsdtByIdentifiers, getNftOwnersCount
<1>14. CASE resource = "nfts/transactions"
  <2>1. /\ list = NftController_getNftTransactions(path, query)
        /\ count = NftController_getNftTransactionsCount(path, query)
      BY <1>14 DEF Answered, NftsAnswered, Answers
  <2>2. DOMAIN query \cap {"function"} = {}
      BY <1>14 DEF Uncounted
  <2>3. ~Given(query, "hashes")
      BY <1>14 DEF CountDiffers, FromTheGateway, TransactionLists
  <2>4. Pick(query, AssetParams.getNftTransactions) = Pick(query, AssetParams.getNftTransactionsCount)
      BY <2>2, <2>3, CountsOfAssets
  <2>5. ~Given([token |-> path], "hashes")
      BY DEF Given
  <2> QED
      BY <2>1, <2>2, <2>3, <2>4, <2>5, TransactionsAreCountedWith
         DEF NftController_getNftTransactions, NftController_getNftTransactionsCount
<1>15. CASE resource = "transactions"
  <2>1. /\ list = TransactionController_getTransactions(query)
        /\ count = TransactionController_getTransactionCount(query)
      BY <1>15 DEF Answered, ChainAnswered, Answers
  <2>2. ~Given(query, "hashes")
      BY <1>15 DEF CountDiffers, FromTheGateway, TransactionLists
  <2>3. Pick(query, ChainParams.getTransactions) = Pick(query, ChainParams.getTransactionCount)
      BY CountsOfTheChain
  <2> DEFINE P == ChainParams.getTransactions
             R == ChainParams.getTransactionCount
             nobody == ""
  <2>4. /\ list = TransactionService_getTransactions(TransactionFilter(Pick(query, P)), nobody)
        /\ count = TransactionService_getTransactionCount(TransactionFilter(Pick(query, R)), nobody)
      BY <2>1 DEF TransactionController_getTransactions, TransactionController_getTransactionCount
  <2>5. Pick(query, P) = Pick(query, R)
      BY <2>3
  <2> HIDE DEF P, R, nobody
  <2> QED
      BY <2>2, <2>4, <2>5, TransactionsAreCounted
<1>16. CASE resource = "events"
  <2>1. list = EventsController_getEvents(query) /\ count = EventsController_getEventsCount(query)
      BY <1>16 DEF Answered, ChainAnswered, Answers
  <2>2. DOMAIN query \cap {"logAddress", "order"} = {}
      BY <1>16 DEF Uncounted
  <2> QED
      BY <2>1, <2>2, CountsOfTheChain
         DEF EventsController_getEvents, EventsController_getEventsCount, getEvents, getEventsCount
<1>17. CASE resource = "results"
  <2>1. /\ list = SmartContractResultController_getScResults(query)
        /\ count = SmartContractResultController_getScResultsCount(query)
      BY <1>17 DEF Answered, ChainAnswered, Answers
  <2>2. DOMAIN query \cap {"miniBlockHash", "originalTxHashes"} = {}
      BY <1>17 DEF Uncounted
  <2> QED
      BY <2>1, <2>2, CountsOfTheChain
         DEF SmartContractResultController_getScResults, SmartContractResultController_getScResultsCount,
             getScResults, getScResultsCount
<1>18. CASE resource = "subscribeEvents"
  <2>1. /\ list = EventsGateway_pushEventsForRoom(query).events
        /\ count = EventsGateway_pushEventsForRoom(query).eventsCount
      BY <1>18 DEF Answered, UpdatesAnswered, Answers
  <2> QED
      BY <2>1 DEF EventsGateway_pushEventsForRoom, getEvents, getEventsCount
<1>19. CASE resource = "subscribePool"
  <2>1. list = PoolGateway_pushPoolForRoom(query).pool /\ count = PoolGateway_pushPoolForRoom(query).poolCount
      BY <1>19 DEF Answered, UpdatesAnswered, Answers
  <2>2. PoolEnabled
      BY <1>19 DEF CountDiffers
  <2> QED
      BY <2>1, <2>2 DEF PoolGateway_pushPoolForRoom, getPool, getPoolCount
<1>20. CASE resource = "nodes"
  <2>1. list = NodeController_getNodes(query) /\ count = NodeController_getNodeCount(query)
      BY <1>20 DEF Answered, StakingAnswered, Answers
  <2>2. DOMAIN query \cap {"keys"} = {}
      BY <1>20 DEF Uncounted
  <2> QED
      BY <2>1, <2>2, CountsOfTheChain
         DEF NodeController_getNodes, NodeController_getNodeCount, NodeService_getNodes,
             NodeService_getNodeCount
<1>21. CASE resource = "providers"
    BY <1>21 DEF Answered, StakingAnswered, Answers
<1>22. CASE resource = "providers/accounts"
  <2>1. /\ list = ProviderController_getProviderAccounts(path)
        /\ count = ProviderController_getProviderAccountsCount(path)
      BY <1>22 DEF Answered, StakingAnswered, Answers
  <2> QED
      BY <2>1
         DEF ProviderController_getProviderAccounts, ProviderController_getProviderAccountsCount,
             getProviderDelegators, getProviderDelegatorsCount
<1>23. CASE resource = "identities"
    BY <1>23 DEF Answered, StakingAnswered, Answers
<1>24. CASE resource = "accounts/keys"
    BY <1>24 DEF Answered, StakingAnswered, Answers
<1>25. CASE resource = "waiting-list"
  <2>1. list = WaitingListController_getWaitingList /\ count = WaitingListController_getWaitingListCount
      BY <1>25 DEF Answered, StakingAnswered, Answers
  <2> QED
      BY <2>1 DEF WaitingListController_getWaitingList, WaitingListController_getWaitingListCount
<1>26. CASE resource = "mex/pairs"
  <2>1. list = MexController_getMexPairs(query) /\ count = MexController_getMexPairsCount(query)
      BY <1>26 DEF Answered, ExchangeAnswered, Answers
  <2> QED
      BY <2>1
         DEF MexController_getMexPairs, MexController_getMexPairsCount, MexPairService_getMexPairs,
             MexPairService_getMexPairsCount
<1>27. CASE resource = "mex/tokens"
  <2>1. list = MexController_getMexTokens /\ count = MexController_getMexTokensCount
      BY <1>27 DEF Answered, ExchangeAnswered, Answers
  <2> QED
      BY <2>1 DEF MexController_getMexTokens, MexController_getMexTokensCount
<1>28. CASE resource = "mex/farms"
  <2>1. list = MexController_getMexFarms /\ count = MexController_getMexFarmsCount
      BY <1>28 DEF Answered, ExchangeAnswered, Answers
  <2> QED
      BY <2>1 DEF MexController_getMexFarms, MexController_getMexFarmsCount
<1>29. CASE resource = "collections/auctions"
  <2>1. /\ list = NftMarketplaceController_getCollectionAuctions(path)
        /\ count = NftMarketplaceController_getCollectionAuctionsCount(path)
      BY <1>29 DEF Answered, ExchangeAnswered, Answers
  <2> QED
      BY <2>1
         DEF NftMarketplaceController_getCollectionAuctions,
             NftMarketplaceController_getCollectionAuctionsCount, NftMarketplaceService_getCollectionAuctions,
             NftMarketplaceService_getCollectionAuctionsCount
<1>30. CASE resource = "rounds"
  <2>1. list = RoundController_getRounds(query) /\ count = RoundController_getRoundCount(query)
      BY <1>30 DEF Answered, ChainAnswered, Answers
  <2> DEFINE f == Pick(query, ChainParams.getRounds)
  <2>2. ~Given(f, "validator") /\ ~Given(f, "condition")
      BY <1>30 DEF CountDiffers, Given, Pick
  <2>3. Pick(f, DOMAIN f \ {"validator"}) = f
      BY <2>2 DEF Pick, Given
  <2> HIDE DEF f
  <2>4. RoundService_getRounds(f) = getRoundCount(f)
      BY <2>2, <2>3 DEF RoundService_getRounds, getRounds, getRoundCount
  <2> QED
      BY <2>1, <2>4 DEF RoundController_getRounds, RoundController_getRoundCount, f
<1>31. CASE resource = "pool"
  <2>1. list = PoolController_getTransactionPool(query) /\ count = PoolController_getTransactionPoolCount(query)
      BY <1>31 DEF Answered, ChainAnswered, Answers
  <2>2. PoolEnabled /\ DOMAIN query \cap {"function"} = {}
      BY <1>31 DEF CountDiffers, Uncounted
  <2>3. Pick(query, ChainParams.getTransactionPool) = Pick(query, ChainParams.getTransactionPoolCount)
      BY <2>2, CountsOfTheChain
  <2>4. ~Given(Pick(query, ChainParams.getTransactionPool), "function")
      BY <2>2 DEF Pick, Given
  <2> QED
      BY <2>1, <2>2, <2>3, <2>4
         DEF PoolController_getTransactionPool, PoolController_getTransactionPoolCount, getPool, getPoolCount,
             As
<1>32. CASE resource = "subscribeTransactions"
  <2>1. /\ list = TransactionsGateway_pushTransactionsForRoom(query).transactions
        /\ count = TransactionsGateway_pushTransactionsForRoom(query).transactionsCount
      BY <1>32 DEF Answered, UpdatesAnswered, Answers
  <2> DEFINE f == Pick(query, ChainParams.subscribeTransactions)
  <2>2. ~Given(f, "hashes") /\ DOMAIN f # {"sender", "receivers", "condition"}
      BY RoomParams DEF Pick, Given
  <2> HIDE DEF f
  <2>3. TransactionService_getTransactions(f, "") = TransactionService_getTransactionCount(f, "")
      BY <2>2, ListOfTransactions DEF TransactionService_getTransactionCount, Exists
  <2> QED
      BY <2>1, <2>3 DEF TransactionsGateway_pushTransactionsForRoom, f
<1>33. CASE resource = "accounts/auctions"
  <2>1. /\ list = NftMarketplaceController_getAccountAuctions(path, query)
        /\ count = NftMarketplaceController_getAccountAuctionsCount(path)
      BY <1>33 DEF Answered, ExchangeAnswered, Answers
  <2>2. DOMAIN query \subseteq ExchangeParams.getAccountAuctions /\ Given(query, "status") /\ query.status = "running"
      BY <1>33 DEF Answered, ExchangeAnswered, Answers, CountDiffers
  <2>3. Given(Pick(query, ExchangeParams.getAccountAuctions), "status")
        /\ Pick(query, ExchangeParams.getAccountAuctions).status = "running"
      BY <2>2 DEF Pick, Given
  <2> QED
      BY <2>1, <2>3
         DEF NftMarketplaceController_getAccountAuctions, NftMarketplaceController_getAccountAuctionsCount,
             NftMarketplaceService_getAccountAuctions, NftMarketplaceService_getAccountAuctionsCount
<1> QED
    BY <1>1, <1>2, <1>3, <1>4, <1>5, <1>6, <1>7, <1>8, <1>9, <1>10, <1>11, <1>12, <1>13, <1>14, <1>15, <1>16,
       <1>17, <1>18, <1>19, <1>20, <1>21, <1>22, <1>23, <1>24, <1>25, <1>26, <1>27, <1>28, <1>29, <1>30, <1>31,
       <1>32, <1>33 DEF SameListings

\* What is listed is known by the same as what is counted and not left out.
SameIds == {Id(d) : d \in list} = {Id(d) : d \in {d \in count : d \in Errors \/ ~LeftOut(d)}}

\* So it is where the two are the same and none is left out.
LEMMA SameList ==
    ASSUME list = count, \A d \in count : d \in Errors \/ ~LeftOut(d)
    PROVE  SameIds
<1>1. {d \in count : d \in Errors \/ ~LeftOut(d)} = list
    OBVIOUS
<1> QED
    BY <1>1, Zenon DEF SameIds

\* ... and where the list is the count without what is left out.
LEMMA SameButLeftOut ==
    ASSUME list = {d \in count : ~LeftOut(d)}, \A d \in count : d \notin Errors
    PROVE  SameIds
<1>1. {d \in count : d \in Errors \/ ~LeftOut(d)} = list
    OBVIOUS
<1> QED
    BY <1>1, Zenon DEF SameIds

\* A document of the index is no error.
LEMMA NoErrors ==
    /\ \A d \in Operations \cup Tokens \cup AccountsEsdt \cup Blocks : d \notin Errors
    /\ \A d \in AllTokens : d \notin Errors
<1>1. \A d \in Errors : "hash" \notin DOMAIN d /\ "token" \notin DOMAIN d
    BY DEF Errors, NotFound, BadRequest
<1>2. \A d \in AllTokens : "token" \in DOMAIN d
    BY AllTokensAssumption
<1> QED
    BY <1>1, <1>2, DocumentsAssumption

\* A transfer has the hash of its document, and is no error either.
LEMMA TransferHash ==
    ASSUME NEW f
    PROVE  /\ {d.hash : d \in TransferService_getTransfers(f)} = {d.hash : d \in getTransfersCount(f)}
           /\ \A d \in TransferService_getTransfers(f) \cup getTransfersCount(f) : d \notin Errors
<1> DEFINE Shown(d) == [d EXCEPT !.type = IF @ = "normal" THEN "Transaction" ELSE "SmartContractResult",
                                 !.relayer = IF Exists(@) THEN @ ELSE d.relayerAddr,
                                 !.isRelayed = @ \/ Exists(d.relayer)]
<1>1. TransferService_getTransfers(f) = {Shown(d) : d \in getTransfersCount(f)}
    BY DEF TransferService_getTransfers, getTransfers, getTransfersCount
<1>2. \A d \in getTransfersCount(f) : d \in Operations /\ "hash" \in DOMAIN d
    BY DocumentsAssumption DEF getTransfersCount
<1>3. \A d \in getTransfersCount(f) : Shown(d).hash = d.hash /\ "hash" \in DOMAIN Shown(d)
    BY <1>2
<1>4. \A d \in Errors : "hash" \notin DOMAIN d
    BY DEF Errors, NotFound, BadRequest
<1> HIDE DEF Shown
<1> QED
    BY <1>1, <1>2, <1>3, <1>4

\* The listings of transfers.
TransferListings ==
    {"account", "accounts/transfers", "tokens/transfers", "collections/transfers", "nfts/transfers", "transfers"}

\* There the list has the hashes of the count.
LEMMA SameTransfers ==
    ASSUME resource \in TransferListings, NEW f,
           list = TransferService_getTransfers(f), count = getTransfersCount(f)
    PROVE  SameIds
<1>1. \A d : ~LeftOut(d)
    BY DEF TransferListings, LeftOut
<1>2. \A d \in list \cup count : Id(d) = d.hash
    BY TransferHash DEF TransferListings, Id
<1>3. {d \in count : d \in Errors \/ ~LeftOut(d)} = count
    BY <1>1
<1>4. {Id(d) : d \in list} = {d.hash : d \in list} /\ {Id(d) : d \in count} = {d.hash : d \in count}
    BY <1>2
<1> QED
    BY <1>3, <1>4, TransferHash, Zenon DEF SameIds

\* A filter that asks for no more than an address or a type lets every operation pass.
LEMMA NothingElseAsked ==
    ASSUME NEW f, NEW d, DOMAIN f \subseteq {"address", "type", "senders"}
    PROVE  OperationFilter(f, d)
  BY DEF OperationFilter, applyFunctionFilter, NonEmpty, MustMatch, DateRange, IsSet, NonZero, Given

\* The transfers of an account are its transactions and its results, which its details count.
LEMMA TransfersOfDetails ==
    ASSUME NEW a \in Addresses, NEW q, DOMAIN q = {}, NEW P
    PROVE  getTransfersCount(With([address |-> a], TransferFilter(Pick(q, P))))
           = UNION {d.txCount \cup d.scrCount : d \in AccountController_getAccountDetails(a, [withTxCount |-> TRUE, withScrCount |-> TRUE])}
<1> DEFINE f == With([address |-> a], TransferFilter(Pick(q, P)))
           t == [address |-> a, type |-> "Transaction"]
           s == [address |-> a, type |-> "SmartContractResult"]
           o == [withTxCount |-> TRUE, withScrCount |-> TRUE]
           D == AccountController_getAccountDetails(a, o)
<1>1. DOMAIN f = {"address", "senders"} /\ f.address = a /\ f.senders = {}
  <2>1. DOMAIN Pick(q, P) = {}
      BY DEF Pick
  <2>2. TransferFilter(Pick(q, P)) = With(Pick(q, P), [senders |-> {}])
      BY <2>1 DEF TransferFilter, TransactionFilter, As, Given
  <2>3. DOMAIN With(Pick(q, P), [senders |-> {}]) = {"senders"} /\ With(Pick(q, P), [senders |-> {}]).senders = {}
      BY <2>1 DEF With
  <2> QED
      BY <2>2, <2>3 DEF With
<1>2. a # ""
    BY PathsAssumption
<1> HIDE DEF f
<1>3. \A d : buildTransferFilterQuery(f, d) <=> AddressOfTransfer(f, d)
    BY <1>1, <1>2, NothingElseAsked DEF buildTransferFilterQuery, IsSet, MustMultiShould, NonEmpty, Given
<1>4. \A d : buildTransferFilterQuery(t, d) <=> AddressOfTransfer(t, d) /\ d.type = "normal"
  <2>1. DOMAIN t = {"address", "type"} /\ IsSet(t, "address") /\ IsSet(t, "type") /\ t.type = "Transaction"
      BY <1>2 DEF IsSet, Given
  <2> HIDE DEF t
  <2> QED
      BY <2>1, NothingElseAsked DEF buildTransferFilterQuery, IsSet, MustMultiShould, NonEmpty, Given
<1>5. \A d : buildTransferFilterQuery(s, d) <=> AddressOfTransfer(s, d) /\ d.type = "unsigned"
  <2>1. DOMAIN s = {"address", "type"} /\ IsSet(s, "address") /\ IsSet(s, "type") /\ s.type = "SmartContractResult"
      BY <1>2 DEF IsSet, Given
  <2> HIDE DEF s
  <2> QED
      BY <2>1, NothingElseAsked DEF buildTransferFilterQuery, IsSet, MustMultiShould, NonEmpty, Given
<1>6. \A d : /\ AddressOfTransfer(f, d) <=> AddressOfTransfer(t, d)
             /\ AddressOfTransfer(f, d) <=> AddressOfTransfer(s, d)
    BY <1>1 DEF AddressOfTransfer, IsTrue, Given
<1>7. \A d : AddressOfTransfer(f, d) => d.type \in {"normal", "unsigned"}
    BY DEF AddressOfTransfer
<1> HIDE DEF t, s
<1>8. getTransfersCount(f) = getTransfersCount(t) \cup getTransfersCount(s)
    BY <1>3, <1>4, <1>5, <1>6, <1>7 DEF getTransfersCount
<1>9. \A d \in D : d.txCount = getTransfersCount(t) /\ d.scrCount = getTransfersCount(s)
  <2>1. D = AccountService_getAccount(a, o)
    <3>1. getAccountRaw(a) # {}
        BY PathsAssumption DEF getAccountRaw
    <3>2. ~IsTrue(o, "withTimestamp")
        BY DEF IsTrue, Given
    <3> HIDE DEF o
    <3>3. AccountService_getAccount(a, o) # {}
      <4> DEFINE Shown(d) ==
                [d EXCEPT !.txCount = IF IsTrue(o, "withTxCount") THEN getAccountTxCount(a) ELSE @,
                          !.scrCount = IF IsTrue(o, "withScrCount") THEN getAccountScResultsOf(a) ELSE @,
                          !.ownerAddress = IF a \in Contracts /\ isProvider(a)
                                           THEN (CHOOSE p \in ProviderService_getProvider(a) : TRUE).owner ELSE @]
      <4>1. AccountService_getAccount(a, o) = {Shown(d) : d \in getAccountRaw(a)}
          BY DEF AccountService_getAccount
      <4> HIDE DEF Shown
      <4>2. PICK d \in getAccountRaw(a) : TRUE
          BY <3>1
      <4>3. Shown(d) \in {Shown(e) : e \in getAccountRaw(a)}
          OBVIOUS
      <4> QED
          BY <4>1, <4>3
    <3> QED
        BY <3>2, <3>3 DEF AccountController_getAccountDetails, FoundOr404
  <2>2. IsTrue(o, "withTxCount") /\ IsTrue(o, "withScrCount")
      BY DEF IsTrue, Given
  <2> HIDE DEF o
  <2> QED
      BY <2>1, <2>2 DEF AccountService_getAccount, getAccountRaw, getAccountTxCount, getAccountScResultsOf, t, s
<1>10. D # {}
  <2>1. \A docs : FoundOr404(docs) # {}
      BY DEF FoundOr404, NotFound
  <2> QED
      BY <2>1 DEF AccountController_getAccountDetails, Failed
<1> HIDE DEF D
<1>11. UNION {d.txCount \cup d.scrCount : d \in D} = getTransfersCount(t) \cup getTransfersCount(s)
    BY <1>9, <1>10
<1> QED
    BY <1>8, <1>11 DEF f, D

\* A block keeps its hash, and is no error.
LEMMA BlockHash ==
    ASSUME NEW f
    PROVE  /\ {d.hash : d \in BlockService_getBlocks(f)} = {d.hash : d \in getBlocksCount(f)}
           /\ \A d \in BlockService_getBlocks(f) \cup getBlocksCount(f) : d \notin Errors
<1>1. BlockService_getBlocks(f) = {computeProposerAndValidators(d) : d \in getBlocksCount(f)}
    BY DEF BlockService_getBlocks, getBlocks, getBlocksCount
<1>2. \A d \in getBlocksCount(f) : d \in Blocks /\ "hash" \in DOMAIN d
    BY DocumentsAssumption DEF getBlocksCount
<1>3. \A d \in getBlocksCount(f) : computeProposerAndValidators(d).hash = d.hash /\ "hash" \in DOMAIN computeProposerAndValidators(d)
    BY <1>2 DEF computeProposerAndValidators
<1>4. \A d \in Errors : "hash" \notin DOMAIN d
    BY DEF Errors, NotFound, BadRequest
<1> QED
    BY <1>1, <1>2, <1>3, <1>4

\* The blocks that are listed have the hashes of those that are counted.
LEMMA SameBlocks ==
    ASSUME resource \in {"blocks", "subscribeBlocks"}, NEW f,
           list = BlockService_getBlocks(f), count = getBlocksCount(f)
    PROVE  SameIds
<1>1. \A d : ~LeftOut(d)
    BY DEF LeftOut
<1>2. \A d \in list \cup count : Id(d) = d.hash
    BY BlockHash DEF Id
<1>3. {d \in count : d \in Errors \/ ~LeftOut(d)} = count
    BY <1>1
<1>4. {Id(d) : d \in list} = {d.hash : d \in list} /\ {Id(d) : d \in count} = {d.hash : d \in count}
    BY <1>2
<1> QED
    BY <1>3, <1>4, BlockHash, Zenon DEF SameIds

\* The accounts and the contracts that are listed have the addresses of those that are counted.
LEMMA SameAddresses ==
    ASSUME resource \in {"accounts", "accounts/deploys", "accounts/contracts"},
           {d.address : d \in list} = {d.address : d \in count}
    PROVE  SameIds
<1>1. \A d : ~LeftOut(d) /\ Id(d) = d.address
    BY DEF LeftOut, Id
<1>2. {d \in count : d \in Errors \/ ~LeftOut(d)} = count
    BY <1>1
<1>3. {Id(d) : d \in list} = {d.address : d \in list} /\ {Id(d) : d \in count} = {d.address : d \in count}
    BY <1>1
<1> QED
    BY <1>2, <1>3, Zenon DEF SameIds

\* An application is known by its contract, which is the address of the document that is counted.
LEMMA SameApplications ==
    ASSUME resource = "applications", NEW f, list = getApplicationsRaw(f), count = getApplicationCount(f)
    PROVE  SameIds
<1> DEFINE Shown(d) == IF IsTrue(f, "withTxCount") THEN With([txCount |-> getApplicationTxCount(d.address)], ToApplication(d))
                       ELSE ToApplication(d)
<1>1. list = {Shown(d) : d \in count}
    BY DEF getApplicationsRaw, getApplications, getApplicationCount
<1>2. \A d : Given(Shown(d), "contract") /\ Shown(d).contract = d.address
    BY DEF ToApplication, With, Given
<1> HIDE DEF Shown
<1>3. \A d : ~LeftOut(d)
    BY DEF LeftOut
<1>4. {d \in count : d \in Errors \/ ~LeftOut(d)} = count
    BY <1>3
<1>5. \A d \in count : ~Given(d, "contract")
    BY DocumentsAssumption DEF getApplicationCount, Given
<1>6. \A d \in count : Id(d) = d.address /\ Id(Shown(d)) = d.address
    BY <1>2, <1>5 DEF Id
<1>7. {Id(d) : d \in list} = {d.address : d \in count} /\ {Id(d) : d \in count} = {d.address : d \in count}
    BY <1>1, <1>6
<1> QED
    BY <1>4, <1>7, Zenon DEF SameIds

\* What is not counted of the accounts that are listed is not asked for.
LEMMA AddressesOfAccounts ==
    ASSUME NEW f, ~Given(f, "sort")
    PROVE  {d.address : d \in getAccountsRaw(f)} = {d.address : d \in getAccountsCount(f)}
<1> DEFINE Shown(d) == [address |-> d.address, ownerAddress |-> d.currentOwner, isVerified |-> d.address \in VerifiedAccounts,
                        balance |-> IF NonEmpty(f, "addresses") /\ d.address \in DOMAIN GatewayAccounts
                                    THEN GatewayAccounts[d.address].balance ELSE d.balance]
<1>1. getAccounts(f) = getAccountsCount(f)
    BY DEF getAccounts
<1>2. getAccountsRaw(f) = {Shown(d) : d \in getAccountsCount(f)}
    BY <1>1 DEF getAccountsRaw
<1>3. \A d : Shown(d).address = d.address
    OBVIOUS
<1> HIDE DEF Shown
<1> QED
    BY <1>2, <1>3

\* The contracts an account deployed or owns are listed by their addresses.
LEMMA AddressesOfContracts ==
    ASSUME NEW a
    PROVE  /\ {d.address : d \in AccountService_getAccountDeploys(a)} = {d.address : d \in getAccountDeploysCount(a)}
           /\ {d.address : d \in AccountService_getAccountContracts(a)} = {d.address : d \in getAccountContractsCount(a)}
<1> DEFINE Shown(d) == [address |-> d.address, timestamp |-> d.timestamp]
<1>1. /\ AccountService_getAccountDeploys(a) = {Shown(d) : d \in getAccountDeploysCount(a)}
      /\ AccountService_getAccountContracts(a) = {Shown(d) : d \in getAccountContractsCount(a)}
    BY DEF AccountService_getAccountDeploys, AccountService_getAccountContracts, getAccountDeploys,
           getAccountContracts,
           getAccountDeploysCount, getAccountContractsCount
<1>2. \A d : Shown(d).address = d.address
    OBVIOUS
<1> HIDE DEF Shown
<1> QED
    BY <1>1, <1>2

\* The count is of what is listed, but where the count is known to differ, and but for the
\* NFTs of an account, whose two filters agree only on the values they were written for.
LEMMA CountsWhatIsListed ==
    ASSUME Answered, resource # "accounts/nfts", DOMAIN query \cap Uncounted = {}, ~CountDiffers
    PROVE  SameIds
<1>1. CASE resource \in SameListings
  <2>1. \A d : ~LeftOut(d)
      BY <1>1 DEF SameListings, LeftOut
  <2> QED
      BY <1>1, <2>1, ListIsCount, SameList
<1>2. CASE resource \in {"", "transactions/decode", "transactions/ppu", "tokens/all"}
  <2>1. \A d : ~LeftOut(d)
      BY <1>2 DEF LeftOut
  <2> QED
      BY <1>2, <2>1, SameList DEF Answered, Listings
<1>3. CASE resource = "accounts"
  <2>1. list = AccountController_getAccounts(query) /\ count = AccountController_getAccountsCount(query)
      BY <1>3 DEF Answered, AccountsAnswered, Answers
  <2>2. DOMAIN query \cap {"sort", "addresses", "withBalance"} = {}
      BY <1>3 DEF Uncounted
  <2> DEFINE f == Pick(query, AccountParams.getAccounts)
  <2>3. f = Pick(query, AccountParams.getAccountsCount)
      BY <2>2, CountsOfAccounts
  <2>4. ~Given(f, "sort")
      BY <2>2 DEF Pick, Given
  <2>5. list = getAccountsRaw(f) /\ count = getAccountsCount(f)
      BY <2>1, <2>3 DEF AccountController_getAccounts, AccountController_getAccountsCount
  <2> HIDE DEF f
  <2> QED
      BY <1>3, <2>4, <2>5, AddressesOfAccounts, SameAddresses
<1>4. CASE resource = "account"
  <2>1. /\ path \in Addresses /\ DOMAIN query = {} /\ list = AccountController_getAccountTransfers(path, query)
        /\ count = UNION {d.txCount \cup d.scrCount :
                            d \in AccountController_getAccountDetails(path, [withTxCount |-> TRUE, withScrCount |-> TRUE])}
      BY <1>4 DEF Answered, AccountsAnswered, Answers
  <2> DEFINE f == With([address |-> path], TransferFilter(Pick(query, AccountParams.getAccountTransfers)))
  <2>2. count = getTransfersCount(f)
      BY <2>1, TransfersOfDetails
  <2>3. list = TransferService_getTransfers(f)
      BY <2>1 DEF AccountController_getAccountTransfers
  <2> HIDE DEF f
  <2> QED
      BY <1>4, <2>2, <2>3, SameTransfers DEF TransferListings
<1>5. CASE resource = "accounts/transfers"
  <2>1. /\ list = AccountController_getAccountTransfers(path, query)
        /\ count = AccountController_getAccountTransfersCount(path, query)
      BY <1>5 DEF Answered, HistoryAnswered, Answers
  <2>2. Pick(query, AccountParams.getAccountTransfers) = Pick(query, AccountParams.getAccountTransfersCount)
    <3>1. DOMAIN query \cap {"relayer"} = {}
        BY <1>5 DEF Uncounted
    <3> QED
        BY <3>1, CountsOfAccounts
  <2> DEFINE f == With([address |-> path], TransferFilter(Pick(query, AccountParams.getAccountTransfers)))
  <2>3. list = TransferService_getTransfers(f) /\ count = getTransfersCount(f)
      BY <2>1, <2>2 DEF AccountController_getAccountTransfers, AccountController_getAccountTransfersCount
  <2> HIDE DEF f
  <2> QED
      BY <1>5, <2>3, SameTransfers DEF TransferListings
<1>6. CASE resource = "tokens/transfers"
  <2>1. /\ list = TokenController_getTokenTransfers(path, query)
        /\ count = TokenController_getTokenTransfersCount(path, query)
      BY <1>6 DEF Answered, TokensAnswered, Answers
  <2> DEFINE f == With([token |-> path], TransferFilter(Pick(query, AssetParams.getTokenTransfers)))
  <2>2. CASE isToken(path)
    <3>1. list = TransferService_getTransfers(f) /\ count = getTransfersCount(f)
        BY <2>1, <2>2 DEF TokenController_getTokenTransfers, TokenController_getTokenTransfersCount
    <3> HIDE DEF f
    <3> QED
        BY <1>6, <3>1, SameTransfers DEF TransferListings
  <2>3. CASE ~isToken(path)
    <3>1. list = count
        BY <2>1, <2>3 DEF TokenController_getTokenTransfers, TokenController_getTokenTransfersCount
    <3>2. \A d : ~LeftOut(d)
        BY <1>6 DEF LeftOut
    <3> QED
        BY <3>1, <3>2, SameList
  <2> QED
      BY <2>2, <2>3
<1>7. CASE resource = "collections/transfers"
  <2>1. /\ list = CollectionController_getCollectionTransfers(path, query)
        /\ count = CollectionController_getCollectionTransfersCount(path, query)
      BY <1>7 DEF Answered, NftsAnswered, Answers
  <2> DEFINE f == With([token |-> path], TransactionFilter(Pick(query, AssetParams.getCollectionTransfers)))
  <2>2. CASE isCollection(path)
    <3>1. list = TransferService_getTransfers(f) /\ count = getTransfersCount(f)
        BY <2>1, <2>2
           DEF CollectionController_getCollectionTransfers, CollectionController_getCollectionTransfersCount
    <3> HIDE DEF f
    <3> QED
        BY <1>7, <3>1, SameTransfers DEF TransferListings
  <2>3. CASE ~isCollection(path)
    <3>1. list = count
        BY <2>1, <2>3
           DEF CollectionController_getCollectionTransfers, CollectionController_getCollectionTransfersCount
    <3>2. \A d : ~LeftOut(d)
        BY <1>7 DEF LeftOut
    <3> QED
        BY <3>1, <3>2, SameList
  <2> QED
      BY <2>2, <2>3
<1>8. CASE resource = "nfts/transfers"
  <2>1. /\ list = NftController_getNftTransfers(path, query)
        /\ count = NftController_getNftTransfersCount(path, query)
      BY <1>8 DEF Answered, NftsAnswered, Answers
  <2>2. Pick(query, AssetParams.getNftTransfers) = Pick(query, AssetParams.getNftTransfersCount)
    <3>1. DOMAIN query \cap {"function"} = {}
        BY <1>8 DEF Uncounted
    <3> QED
        BY <3>1, CountsOfAssets
  <2> DEFINE f == With([token |-> path], TransactionFilter(Pick(query, AssetParams.getNftTransfers)))
  <2>3. list = TransferService_getTransfers(f) /\ count = getTransfersCount(f)
      BY <2>1, <2>2 DEF NftController_getNftTransfers, NftController_getNftTransfersCount
  <2> HIDE DEF f
  <2> QED
      BY <1>8, <2>3, SameTransfers DEF TransferListings
<1>9. CASE resource = "transfers"
  <2>1. /\ list = TransferController_getAccountTransfers(query)
        /\ count = TransferController_getAccountTransfersCount(query)
      BY <1>9 DEF Answered, ChainAnswered, Answers
  <2> DEFINE f == TransferFilter(Pick(query, ChainParams.getTransfers))
  <2>2. list = TransferService_getTransfers(f) /\ count = getTransfersCount(f)
      BY <2>1, CountsOfTheChain
         DEF TransferController_getAccountTransfers, TransferController_getAccountTransfersCount
  <2> HIDE DEF f
  <2> QED
      BY <1>9, <2>2, SameTransfers DEF TransferListings
<1>10. CASE resource = "accounts/deploys"
  <2>1. /\ list = AccountController_getAccountDeploys(path)
        /\ count = AccountController_getAccountDeploysCount(path)
      BY <1>10 DEF Answered, HistoryAnswered, Answers
  <2> QED
      BY <1>10, <2>1, AddressesOfContracts, SameAddresses
      DEF AccountController_getAccountDeploys, AccountController_getAccountDeploysCount
<1>11. CASE resource = "accounts/contracts"
  <2>1. /\ list = AccountController_getAccountContracts(path)
        /\ count = AccountController_getAccountContractsCount(path)
      BY <1>11 DEF Answered, HistoryAnswered, Answers
  <2> QED
      BY <1>11, <2>1, AddressesOfContracts, SameAddresses
      DEF AccountController_getAccountContracts, AccountController_getAccountContractsCount
<1>12. CASE resource = "applications"
  <2>1. /\ list = ApplicationController_getApplications(query)
        /\ count = ApplicationController_getApplicationsCount(query)
      BY <1>12 DEF Answered, ChainAnswered, Answers
  <2> QED
      BY <1>12, <2>1, SameApplications
         DEF ApplicationController_getApplications, ApplicationController_getApplicationsCount
<1>13. CASE resource = "blocks"
  <2>1. list = BlockController_getBlocks(query) /\ count = BlockController_getBlocksCount(query)
      BY <1>13 DEF Answered, ChainAnswered, Answers
  <2>2. Pick(query, ChainParams.getBlocks) = Pick(query, ChainParams.getBlocksCount)
    <3>1. DOMAIN query \cap {"hashes"} = {}
        BY <1>13 DEF Uncounted
    <3> QED
        BY <3>1, CountsOfTheChain
  <2> QED
      BY <1>13, <2>1, <2>2, SameBlocks DEF BlockController_getBlocks, BlockController_getBlocksCount
<1>14. CASE resource = "subscribeBlocks"
  <2>1. /\ list = BlocksGateway_pushBlocksForRoom(query).blocks
        /\ count = BlocksGateway_pushBlocksForRoom(query).blocksCount
      BY <1>14 DEF Answered, UpdatesAnswered, Answers
  <2> QED
      BY <1>14, <2>1, SameBlocks DEF BlocksGateway_pushBlocksForRoom
<1>15. CASE resource = "accounts/tokens"
  <2>1. /\ list = AccountController_getAccountTokens(path, query)
        /\ count = AccountController_getTokenCount(path, query)
      BY <1>15 DEF Answered, AccountsAnswered, Answers
  <2> DEFINE f == Pick(query, AccountParams.getAccountTokens)
  <2>2. f = Pick(query, AccountParams.getTokenCount)
    <3>1. DOMAIN query \cap {"subType"} = {}
        BY <1>15 DEF Uncounted
    <3> QED
        BY <3>1, CountsOfAccounts
  <2>3. /\ list = TokenService_getTokensForAddress(path, f)
        /\ count = TokenService_getTokenCountForAddress(path, f)
      BY <2>1, <2>2 DEF AccountController_getAccountTokens, AccountController_getTokenCount
  <2> HIDE DEF f
  <2>4. \A d : LeftOut(d) <=> ~isToken(d.token)
      BY <1>15 DEF LeftOut
  <2>5. CASE path \in Contracts
    <3>1. list = {d \in count : isToken(d.token)} /\ count \subseteq AccountsEsdt
        BY <2>3, <2>5
           DEF TokenService_getTokensForAddress, TokenService_getTokenCountForAddress,
               getTokensForAddressFromElastic, getTokensForAddress, getTokenCountForAddress, isToken
    <3> QED
        BY <2>4, <3>1, NoErrors, SameButLeftOut
  <2>6. CASE path \notin Contracts
    <3>1. list = count /\ \A d \in count : isToken(d.token)
        BY <2>3, <2>6
           DEF TokenService_getTokensForAddress, TokenService_getTokenCountForAddress, getAllTokensForAddress,
               getFilteredTokens, isToken
    <3> QED
        BY <2>4, <3>1, SameList
  <2> QED
      BY <2>5, <2>6
<1>16. CASE resource = "accounts/roles/tokens"
  <2>1. /\ list = AccountController_getAccountTokensWithRoles(path, query)
        /\ count = AccountController_getTokensWithRolesCount(path, query)
      BY <1>16 DEF Answered, AccountsAnswered, Answers
  <2>2. \A d : LeftOut(d) <=> ~isToken(d.token)
      BY <1>16 DEF LeftOut
  <2>3. list = {d \in count : isToken(d.token)} /\ count \subseteq Tokens
      BY <2>1 DEF AccountController_getAccountTokensWithRoles, AccountController_getTokensWithRolesCount,
                  TokenService_getTokensWithRolesForAddress, getTokensWithRolesForAddress, getTokensWithRolesForAddressCount, isToken
  <2> QED
      BY <2>2, <2>3, NoErrors, SameButLeftOut
<1>17. CASE resource = "accounts/roles/collections"
  <2>1. /\ list = AccountController_getAccountCollectionsWithRoles(path, query)
        /\ count = AccountController_getCollectionWithRolesCount(path, query)
      BY <1>17 DEF Answered, AccountsAnswered, Answers
  <2>2. Pick(query, AccountParams.getAccountCollectionsWithRoles) = Pick(query, AccountParams.getCollectionWithRolesCount)
    <3>1. DOMAIN query \cap {"canUpdateAttributes", "canAddUri", "canTransferRole"} = {}
        BY <1>17 DEF Uncounted
    <3> QED
        BY <3>1, CountsOfAccounts
  <2>3. \A d : LeftOut(d) <=> batchGetCollectionsProperties(PropertiesFromGateway, d.token) = {}
      BY <1>17 DEF LeftOut
  <2>4. /\ list = {d \in count : batchGetCollectionsProperties(PropertiesFromGateway, d.token) # {}}
        /\ count \subseteq Tokens
      BY <2>1, <2>2
         DEF AccountController_getAccountCollectionsWithRoles, AccountController_getCollectionWithRolesCount,
             EsdtAddressService_getCollectionsForAddress, applyPropertiesToCollections, getNftCollections,
             getCollectionCountForAddress
  <2> QED
      BY <2>3, <2>4, NoErrors, SameButLeftOut
<1>18. CASE resource = "collections"
  <2>1. /\ list = CollectionController_getNftCollections(query)
        /\ count = CollectionController_getCollectionCount(query)
      BY <1>18 DEF Answered, NftsAnswered, Answers
  <2>2. Pick(query, AssetParams.getNftCollections) = Pick(query, AssetParams.getCollectionCount)
    <3>1. DOMAIN query \cap {"identifiers"} = {}
        BY <1>18 DEF Uncounted
    <3> QED
        BY <3>1, CountsOfAssets
  <2>3. \A d : LeftOut(d) <=> batchGetCollectionsProperties(PropertiesFromGateway, d.token) = {}
      BY <1>18 DEF LeftOut
  <2>4. /\ list = {d \in count : batchGetCollectionsProperties(PropertiesFromGateway, d.token) # {}}
        /\ count \subseteq Tokens
      BY <2>1, <2>2 DEF CollectionController_getNftCollections, CollectionController_getCollectionCount,
                        CollectionService_getNftCollections, applyPropertiesToCollections, getNftCollections, getNftCollectionCount
  <2> QED
      BY <2>3, <2>4, NoErrors, SameButLeftOut
<1>19. CASE resource = "tokens"
  <2>1. list = TokenController_getTokens(query) /\ count = TokenController_getTokenCount(query)
      BY <1>19 DEF Answered, TokensAnswered, Answers
  <2>2. Pick(query, AssetParams.getTokens) = Pick(query, AssetParams.getTokenCount)
      BY CountsOfAssets
  <2>3. \A d : LeftOut(d) <=> d.token = EgldIdentifier
      BY <1>19 DEF LeftOut
  <2>4. list = {d \in count : d.token # EgldIdentifier} /\ count \subseteq AllTokens
      BY <2>1, <2>2
         DEF TokenController_getTokens, TokenController_getTokenCount, TokenService_getTokens,
             TokenService_getTokenCount, getFilteredTokens
  <2> QED
      BY <2>3, <2>4, NoErrors, SameButLeftOut
<1>20. CASE resource = "tokens/accounts"
  <2>1. list = TokenController_getTokenAccounts(path) /\ count = TokenController_getTokenAccountsCount(path)
      BY <1>20 DEF Answered, TokensAnswered, Answers
  <2>2. \A d : LeftOut(d) <=> d.address = "pending"
      BY <1>20 DEF LeftOut
  <2>3. CASE isToken(path) /\ getTokenProperties(path) # {}
    <3>1. list = {d \in count : d.address # "pending"} /\ count \subseteq AccountsEsdt
        BY <2>1, <2>3
           DEF TokenController_getTokenAccounts, TokenController_getTokenAccountsCount,
               TokenService_getTokenAccounts, TokenService_getTokenAccountsCount, getTokenAccounts,
               getTokenAccountsCount
    <3> QED
        BY <2>2, <3>1, NoErrors, SameButLeftOut
  <2>4. CASE ~(isToken(path) /\ getTokenProperties(path) # {})
    <3>1. list = NotFound /\ count = NotFound
        BY <2>1, <2>4
           DEF TokenController_getTokenAccounts, TokenController_getTokenAccountsCount,
               TokenService_getTokenAccounts, TokenService_getTokenAccountsCount
    <3> QED
        BY <3>1, SameList DEF Errors
  <2> QED
      BY <2>3, <2>4
<1>21. resource # "auctions"
    BY DEF CountDiffers
<1> QED
    BY <1>1, <1>2, <1>3, <1>4, <1>5, <1>6, <1>7, <1>8, <1>9, <1>10, <1>11, <1>12, <1>13, <1>14, <1>15, <1>16,
       <1>17,
       <1>18, <1>19, <1>20, <1>21 DEF Answered, Listings, SameListings

\* The query of transactions does not look at the senders; in a room's filter is not much else.
LEMMA SameTransactions ==
    ASSUME NEW f, NEW g, DOMAIN f \subseteq {"status", "isRelayed", "isScCall", "withRelayedScresults"},
           DOMAIN g = DOMAIN f \cup {"senders"}, \A k \in DOMAIN f : g[k] = f[k]
    PROVE  getTransactionCount(f, "") = getTransactionCount(g, "")
<1>1. /\ Given(f, "status") <=> Given(g, "status")
      /\ Given(f, "isRelayed") <=> Given(g, "isRelayed")
      /\ Given(f, "isScCall") <=> Given(g, "isScCall")
      /\ Given(f, "withRelayedScresults") <=> Given(g, "withRelayedScresults")
    BY DEF Given
<1>2. /\ Given(f, "status") => f.status = g.status
      /\ Given(f, "isRelayed") => f.isRelayed = g.isRelayed
      /\ Given(f, "isScCall") => f.isScCall = g.isScCall
      /\ Given(f, "withRelayedScresults") => f.withRelayedScresults = g.withRelayedScresults
    BY DEF Given
<1>3. \A k \in {"functions", "token", "tokens", "senderShard", "receiverShard", "miniBlockHash", "hashes", "before", "after",
                 "senderOrReceiver", "round", "condition", "relayer", "sender", "receivers"} : ~Given(f, k) /\ ~Given(g, k)
    BY DEF Given
<1>4. \A d : OperationFilter(f, d) <=> OperationFilter(g, d)
    BY <1>1, <1>2, <1>3 DEF OperationFilter, applyFunctionFilter, NonEmpty, MustMatch, DateRange, IsSet, NonZero
<1>5. IsTrue(f, "withRelayedScresults") <=> IsTrue(g, "withRelayedScresults")
    BY <1>1, <1>2 DEF IsTrue
<1>6. \A d : buildTransactionFilterQuery(f, "", d) <=> buildTransactionFilterQuery(g, "", d)
    BY <1>3, <1>4, <1>5 DEF buildTransactionFilterQuery, IsSet, MustMatch, Exists
<1> QED
    BY <1>6 DEF getTransactionCount

\* The two counts of a listing are of the same documents.
LEMMA AlternativeIsCount ==
    ASSUME Answered, ~AlternativeDiffers
    PROVE  alternative = count
<1>1. CASE resource = "accounts"
  <2>1. /\ count = AccountController_getAccountsCount(query)
        /\ alternative = AccountController_getAccountsCountAlternative(query)
      BY <1>1 DEF Answered, AccountsAnswered, Answers
  <2> QED
      BY <2>1 DEF AccountController_getAccountsCount, AccountController_getAccountsCountAlternative
<1>2. CASE resource = "accounts/tokens"
  <2>1. /\ count = AccountController_getTokenCount(path, query)
        /\ alternative = AccountController_getTokenCountAlternative(path, query)
      BY <1>2 DEF Answered, AccountsAnswered, Answers
  <2> QED
      BY <2>1 DEF AccountController_getTokenCount, AccountController_getTokenCountAlternative
<1>3. CASE resource = "accounts/roles/collections"
  <2>1. /\ count = AccountController_getCollectionWithRolesCount(path, query)
        /\ alternative = AccountController_getCollectionCountAlternative(path, query)
      BY <1>3 DEF Answered, AccountsAnswered, Answers
  <2> QED
      BY <2>1 DEF AccountController_getCollectionWithRolesCount, AccountController_getCollectionCountAlternative
<1>4. CASE resource = "accounts/roles/tokens"
  <2>1. /\ count = AccountController_getTokensWithRolesCount(path, query)
        /\ alternative = AccountController_getTokensWithRolesCountAlternative(path, query)
      BY <1>4 DEF Answered, AccountsAnswered, Answers
  <2> QED
      BY <2>1
         DEF AccountController_getTokensWithRolesCount, AccountController_getTokensWithRolesCountAlternative
<1>5. CASE resource = "accounts/collections"
  <2>1. /\ count = AccountController_getNftCollectionCount(path, query)
        /\ alternative = AccountController_getNftCollectionCountAlternative(path, query)
      BY <1>5 DEF Answered, AccountsAnswered, Answers
  <2> QED
      BY <2>1 DEF AccountController_getNftCollectionCount, AccountController_getNftCollectionCountAlternative
<1>6. CASE resource = "accounts/nfts"
  <2>1. /\ count = AccountController_getNftCount(path, query)
        /\ alternative = AccountController_getNftCountAlternative(path, query)
      BY <1>6 DEF Answered, AccountsAnswered, Answers
  <2> QED
      BY <2>1 DEF AccountController_getNftCount, AccountController_getNftCountAlternative
<1>7. CASE resource = "accounts/transfers"
  <2>1. /\ count = AccountController_getAccountTransfersCount(path, query)
        /\ alternative = AccountController_getAccountTransfersCountAlternative(path, query)
      BY <1>7 DEF Answered, HistoryAnswered, Answers
  <2> QED
      BY <2>1
         DEF AccountController_getAccountTransfersCount, AccountController_getAccountTransfersCountAlternative
<1>8. CASE resource = "accounts/deploys"
  <2>1. /\ count = AccountController_getAccountDeploysCount(path)
        /\ alternative = AccountController_getAccountDeploysCountAlternative(path)
      BY <1>8 DEF Answered, HistoryAnswered, Answers
  <2> QED
      BY <2>1 DEF AccountController_getAccountDeploysCount, AccountController_getAccountDeploysCountAlternative
<1>9. CASE resource = "accounts/contracts"
  <2>1. /\ count = AccountController_getAccountContractsCount(path)
        /\ alternative = AccountController_getAccountContractsCountAlternative(path)
      BY <1>9 DEF Answered, HistoryAnswered, Answers
  <2> QED
      BY <2>1
         DEF AccountController_getAccountContractsCount, AccountController_getAccountContractsCountAlternative
<1>10. CASE resource = "tokens"
  <2>1. /\ count = TokenController_getTokenCount(query)
        /\ alternative = TokenController_getTokenCountAlternative(query)
      BY <1>10 DEF Answered, TokensAnswered, Answers
  <2> QED
      BY <2>1 DEF TokenController_getTokenCount, TokenController_getTokenCountAlternative
<1>11. CASE resource = "tokens/transfers"
  <2>1. /\ count = TokenController_getTokenTransfersCount(path, query)
        /\ alternative = TokenController_getAccountTransfersCountAlternative(path, query)
      BY <1>11 DEF Answered, TokensAnswered, Answers
  <2> QED
      BY <2>1 DEF TokenController_getTokenTransfersCount, TokenController_getAccountTransfersCountAlternative
<1>12. CASE resource = "nfts"
  <2>1. count = NftController_getNftCount(query) /\ alternative = NftController_getNftCountAlternative(query)
      BY <1>12 DEF Answered, NftsAnswered, Answers
  <2> QED
      BY <2>1 DEF NftController_getNftCount, NftController_getNftCountAlternative
<1>13. CASE resource = "transactions"
  <2>1. /\ count = TransactionController_getTransactionCount(query)
        /\ alternative = TransactionController_getTransactionCountAlternative(query)
      BY <1>13 DEF Answered, ChainAnswered, Answers
  <2> QED
      BY <2>1
         DEF TransactionController_getTransactionCount, TransactionController_getTransactionCountAlternative
<1>14. CASE resource = "transfers"
  <2>1. /\ count = TransferController_getAccountTransfersCount(query)
        /\ alternative = TransferController_getAccountTransfersCountAlternative(query)
      BY <1>14 DEF Answered, ChainAnswered, Answers
  <2> QED
      BY <2>1
         DEF TransferController_getAccountTransfersCount, TransferController_getAccountTransfersCountAlternative
<1>15. CASE resource = "blocks"
  <2>1. /\ count = BlockController_getBlocksCount(query)
        /\ alternative = BlockController_getBlocksCountAlternative(query)
      BY <1>15 DEF Answered, ChainAnswered, Answers
  <2> QED
      BY <2>1 DEF BlockController_getBlocksCount, BlockController_getBlocksCountAlternative
<1>16. CASE resource = "rounds"
  <2>1. /\ count = RoundController_getRoundCount(query)
        /\ alternative = RoundController_getRoundCountAlternative(query)
      BY <1>16 DEF Answered, ChainAnswered, Answers
  <2> QED
      BY <2>1 DEF RoundController_getRoundCount, RoundController_getRoundCountAlternative
<1>17. CASE resource = "nodes"
  <2>1. /\ count = NodeController_getNodeCount(query)
        /\ alternative = NodeController_getNodeCountAlternative(query)
      BY <1>17 DEF Answered, StakingAnswered, Answers
  <2> QED
      BY <2>1 DEF NodeController_getNodeCount, NodeController_getNodeCountAlternative
<1>18. CASE resource = "waiting-list"
  <2>1. /\ count = WaitingListController_getWaitingListCount
        /\ alternative = WaitingListController_getWaitingListCountAlternative
      BY <1>18 DEF Answered, StakingAnswered, Answers
  <2> QED
      BY <2>1
         DEF WaitingListController_getWaitingListCount, WaitingListController_getWaitingListCountAlternative
<1>19. CASE resource = "mex/pairs"
  <2>1. count = MexController_getMexPairsCount(query) /\ alternative = MexController_getMexPairsTemp(query)
      BY <1>19 DEF Answered, ExchangeAnswered, Answers
  <2> QED
      BY <2>1
         DEF MexController_getMexPairsCount, MexController_getMexPairsTemp, MexPairService_getMexPairs,
             MexPairService_getMexPairsCount
<1>20. CASE resource = "auctions"
  <2>1. /\ count = NftMarketplaceController_getAuctionsCount(query)
        /\ alternative = NftMarketplaceController_getAuctionsCountAlternative(query)
      BY <1>20 DEF Answered, ExchangeAnswered, Answers
  <2> QED
      BY <2>1
         DEF NftMarketplaceController_getAuctionsCount, NftMarketplaceController_getAuctionsCountAlternative
<1>21. CASE resource = "accounts/transactions"
  <2>1. /\ count = AccountController_getAccountTransactionsCount(path, query)
        /\ alternative = AccountController_getAccountTransactionsCount(path, query)
      BY <1>21 DEF Answered, HistoryAnswered, Answers
  <2> QED
      BY <2>1
<1>22. CASE resource = "accounts/results"
  <2>1. /\ count = AccountController_getAccountScResultsCount(path)
        /\ alternative = AccountController_getAccountScResultsCount(path)
      BY <1>22 DEF Answered, HistoryAnswered, Answers
  <2> QED
      BY <2>1
<1>23. CASE resource = "accounts/history"
  <2>1. /\ count = AccountController_getAccountHistoryCount(path, query)
        /\ alternative = AccountController_getAccountHistoryCount(path, query)
      BY <1>23 DEF Answered, HistoryAnswered, Answers
  <2> QED
      BY <2>1
<1>24. CASE resource = "accounts/esdthistory"
  <2>1. /\ count = AccountController_getAccountEsdtHistoryCount(path, query)
        /\ alternative = AccountController_getAccountEsdtHistoryCount(path, query)
      BY <1>24 DEF Answered, HistoryAnswered, Answers
  <2> QED
      BY <2>1
<1>25. CASE resource = "accounts/history/token"
  <2>1. /\ count = AccountController_getAccountTokenHistoryCount(path[1], path[2], query)
        /\ alternative = AccountController_getAccountTokenHistoryCount(path[1], path[2], query)
      BY <1>25 DEF Answered, HistoryAnswered, Answers
  <2> QED
      BY <2>1
<1>26. CASE resource = "tokens/accounts"
  <2>1. /\ count = TokenController_getTokenAccountsCount(path)
        /\ alternative = TokenController_getTokenAccountsCount(path)
      BY <1>26 DEF Answered, TokensAnswered, Answers
  <2> QED
      BY <2>1
<1>27. CASE resource = "tokens/roles"
  <2>1. count = TokenController_getTokenRoles(path) /\ alternative = TokenController_getTokenRoles(path)
      BY <1>27 DEF Answered, TokensAnswered, Answers
  <2> QED
      BY <2>1
<1>28. CASE resource = "tokens/transactions"
  <2>1. /\ count = TokenController_getTokenTransactionsCount(path, query)
        /\ alternative = TokenController_getTokenTransactionsCount(path, query)
      BY <1>28 DEF Answered, TokensAnswered, Answers
  <2> QED
      BY <2>1
<1>29. CASE resource = "collections/nfts"
  <2>1. /\ count = CollectionController_getNftCount(path, query)
        /\ alternative = CollectionController_getNftCount(path, query)
      BY <1>29 DEF Answered, NftsAnswered, Answers
  <2> QED
      BY <2>1
<1>30. CASE resource = "collections/accounts"
  <2>1. /\ count = CollectionController_getNftAccounts(path)
        /\ alternative = CollectionController_getNftAccounts(path)
      BY <1>30 DEF Answered, NftsAnswered, Answers
  <2> QED
      BY <2>1
<1>31. CASE resource = "collections/transactions"
  <2>1. /\ count = CollectionController_getCollectionTransactionsCount(path, query)
        /\ alternative = CollectionController_getCollectionTransactionsCount(path, query)
      BY <1>31 DEF Answered, NftsAnswered, Answers
  <2> QED
      BY <2>1
<1>32. CASE resource = "collections/transfers"
  <2>1. /\ count = CollectionController_getCollectionTransfersCount(path, query)
        /\ alternative = CollectionController_getCollectionTransfersCount(path, query)
      BY <1>32 DEF Answered, NftsAnswered, Answers
  <2> QED
      BY <2>1
<1>33. CASE resource = "nfts/accounts"
  <2>1. count = NftController_getNftAccountsCount(path) /\ alternative = NftController_getNftAccountsCount(path)
      BY <1>33 DEF Answered, NftsAnswered, Answers
  <2> QED
      BY <2>1
<1>34. CASE resource = "nfts/transactions"
  <2>1. /\ count = NftController_getNftTransactionsCount(path, query)
        /\ alternative = NftController_getNftTransactionsCount(path, query)
      BY <1>34 DEF Answered, NftsAnswered, Answers
  <2> QED
      BY <2>1
<1>35. CASE resource = "nfts/transfers"
  <2>1. /\ count = NftController_getNftTransfersCount(path, query)
        /\ alternative = NftController_getNftTransfersCount(path, query)
      BY <1>35 DEF Answered, NftsAnswered, Answers
  <2> QED
      BY <2>1
<1>36. CASE resource = "events"
  <2>1. count = EventsController_getEventsCount(query) /\ alternative = EventsController_getEventsCount(query)
      BY <1>36 DEF Answered, ChainAnswered, Answers
  <2> QED
      BY <2>1
<1>37. CASE resource = "results"
  <2>1. /\ count = SmartContractResultController_getScResultsCount(query)
        /\ alternative = SmartContractResultController_getScResultsCount(query)
      BY <1>37 DEF Answered, ChainAnswered, Answers
  <2> QED
      BY <2>1
<1>38. CASE resource = "applications"
  <2>1. /\ count = ApplicationController_getApplicationsCount(query)
        /\ alternative = ApplicationController_getApplicationsCount(query)
      BY <1>38 DEF Answered, ChainAnswered, Answers
  <2> QED
      BY <2>1
<1>39. CASE resource = "providers"
  <2>1. count = ProviderController_getProviders(query) /\ alternative = ProviderController_getProviders(query)
      BY <1>39 DEF Answered, StakingAnswered, Answers
  <2> QED
      BY <2>1
<1>40. CASE resource = "providers/accounts"
  <2>1. /\ count = ProviderController_getProviderAccountsCount(path)
        /\ alternative = ProviderController_getProviderAccountsCount(path)
      BY <1>40 DEF Answered, StakingAnswered, Answers
  <2> QED
      BY <2>1
<1>41. CASE resource = "identities"
  <2>1. /\ count = IdentitiesController_getIdentities(query)
        /\ alternative = IdentitiesController_getIdentities(query)
      BY <1>41 DEF Answered, StakingAnswered, Answers
  <2> QED
      BY <2>1
<1>42. CASE resource = "accounts/keys"
  <2>1. /\ count = AccountController_getAccountKeys(path, query)
        /\ alternative = AccountController_getAccountKeys(path, query)
      BY <1>42 DEF Answered, StakingAnswered, Answers
  <2> QED
      BY <2>1
<1>43. CASE resource = "mex/tokens"
  <2>1. count = MexController_getMexTokensCount /\ alternative = MexController_getMexTokensCount
      BY <1>43 DEF Answered, ExchangeAnswered, Answers
  <2> QED
      BY <2>1
<1>44. CASE resource = "mex/farms"
  <2>1. count = MexController_getMexFarmsCount /\ alternative = MexController_getMexFarmsCount
      BY <1>44 DEF Answered, ExchangeAnswered, Answers
  <2> QED
      BY <2>1
<1>45. CASE resource = "accounts/auctions"
  <2>1. /\ count = NftMarketplaceController_getAccountAuctionsCount(path)
        /\ alternative = NftMarketplaceController_getAccountAuctionsCount(path)
      BY <1>45 DEF Answered, ExchangeAnswered, Answers
  <2> QED
      BY <2>1
<1>46. CASE resource = "collections/auctions"
  <2>1. /\ count = NftMarketplaceController_getCollectionAuctionsCount(path)
        /\ alternative = NftMarketplaceController_getCollectionAuctionsCount(path)
      BY <1>46 DEF Answered, ExchangeAnswered, Answers
  <2> QED
      BY <2>1
<1>47. CASE resource = "account"
  <2>1. /\ path \in Addresses /\ DOMAIN query = {} /\ alternative = AccountController_getAccountTransfersCount(path, query)
        /\ count = UNION {d.txCount \cup d.scrCount :
                            d \in AccountController_getAccountDetails(path, [withTxCount |-> TRUE, withScrCount |-> TRUE])}
      BY <1>47 DEF Answered, AccountsAnswered, Answers
  <2> QED
      BY <2>1, TransfersOfDetails DEF AccountController_getAccountTransfersCount
<1>48. CASE resource = "collections"
  <2>1. /\ count = CollectionController_getCollectionCount(query)
        /\ alternative = CollectionController_getCollectionCountAlternative(query)
      BY <1>48 DEF Answered, NftsAnswered, Answers
  <2>2. DOMAIN query \cap {"subType"} = {}
      BY <1>48 DEF AlternativeDiffers, Given
  <2>3. Pick(query, AssetParams.getCollectionCount) = Pick(query, AssetParams.getCollectionCountAlternative)
      BY <2>2, CountsOfAssets
  <2> QED
      BY <2>1, <2>3
         DEF CollectionController_getCollectionCount, CollectionController_getCollectionCountAlternative
<1>49. CASE resource = "pool"
  <2>1. /\ count = PoolController_getTransactionPoolCount(query)
        /\ alternative = PoolController_getTransactionPoolCountAlternative(query)
      BY <1>49 DEF Answered, ChainAnswered, Answers
  <2>2. DOMAIN query \cap {"senderShard", "receiverShard"} = {}
      BY <1>49 DEF AlternativeDiffers, Given
  <2>3. Pick(query, ChainParams.getTransactionPoolCount) = Pick(query, ChainParams.getTransactionPoolCountAlternative)
      BY <2>2, CountsOfTheChain
  <2> QED
      BY <2>1, <2>3
         DEF PoolController_getTransactionPoolCount, PoolController_getTransactionPoolCountAlternative
<1>50. CASE resource = "subscribeBlocks"
  <2>1. /\ DOMAIN query \subseteq ChainParams.subscribeBlocks /\ count = BlocksGateway_pushBlocksForRoom(query).blocksCount
        /\ alternative = BlockController_getBlocksCount(query)
      BY <1>50 DEF Answered, UpdatesAnswered, Answers
  <2>2. DOMAIN query \cap ChainParams.subscribeBlocks = DOMAIN query \cap ChainParams.getBlocksCount
      BY <2>1, RoomParams
  <2>3. Pick(query, ChainParams.subscribeBlocks) = Pick(query, ChainParams.getBlocksCount)
      BY <2>2, SamePick
  <2> QED
      BY <2>1, <2>3 DEF BlocksGateway_pushBlocksForRoom, BlockController_getBlocksCount
<1>51. CASE resource = "subscribeEvents"
  <2>1. /\ DOMAIN query \subseteq ChainParams.subscribeEvents /\ count = EventsGateway_pushEventsForRoom(query).eventsCount
        /\ alternative = EventsController_getEventsCount(query)
      BY <1>51 DEF Answered, UpdatesAnswered, Answers
  <2>2. DOMAIN query \cap ChainParams.subscribeEvents = DOMAIN query \cap ChainParams.getEventsCount
      BY <2>1, RoomParams
  <2>3. Pick(query, ChainParams.subscribeEvents) = Pick(query, ChainParams.getEventsCount)
      BY <2>2, SamePick
  <2> QED
      BY <2>1, <2>3 DEF EventsGateway_pushEventsForRoom, EventsController_getEventsCount
<1>52. CASE resource = "subscribePool"
  <2>1. /\ DOMAIN query \subseteq ChainParams.subscribePool /\ count = PoolGateway_pushPoolForRoom(query).poolCount
        /\ alternative = PoolController_getTransactionPoolCount(query)
      BY <1>52 DEF Answered, UpdatesAnswered, Answers
  <2>2. DOMAIN query \cap ChainParams.subscribePool = DOMAIN query \cap ChainParams.getTransactionPoolCount
      BY <2>1, RoomParams
  <2>3. Pick(query, ChainParams.subscribePool) = Pick(query, ChainParams.getTransactionPoolCount)
      BY <2>2, SamePick
  <2> QED
      BY <2>1, <2>3 DEF PoolGateway_pushPoolForRoom, PoolController_getTransactionPoolCount
<1>53. CASE resource = "subscribeTransactions"
  <2>1. /\ DOMAIN query \subseteq ChainParams.subscribeTransactions
        /\ count = TransactionsGateway_pushTransactionsForRoom(query).transactionsCount
        /\ alternative = TransactionController_getTransactionCount(query)
      BY <1>53 DEF Answered, UpdatesAnswered, Answers
  <2> DEFINE f == Pick(query, ChainParams.subscribeTransactions)
             g == TransactionFilter(f)
  <2>2. DOMAIN query \cap ChainParams.subscribeTransactions = DOMAIN query \cap ChainParams.getTransactionCount
      BY <2>1, RoomParams
  <2>3. f = Pick(query, ChainParams.getTransactionCount)
      BY <2>2, SamePick
  <2>4. DOMAIN f \subseteq {"status", "isRelayed", "isScCall", "withRelayedScresults"}
      BY RoomParams DEF Pick
  <2>5. alternative = TransactionService_getTransactionCount(g, "")
      BY <2>1, <2>3 DEF TransactionController_getTransactionCount
  <2>6. count = TransactionService_getTransactionCount(f, "")
      BY <2>1 DEF TransactionsGateway_pushTransactionsForRoom
  <2>7. DOMAIN g = DOMAIN f \cup {"senders"} /\ \A k \in DOMAIN f : g[k] = f[k]
    <3>1. g = With(f, [senders |-> {}])
        BY <2>4 DEF TransactionFilter, As, Given
    <3> QED
        BY <3>1 DEF With
  <2> HIDE DEF f, g
  <2>8. TransactionService_getTransactionCount(g, "") = getTransactionCount(g, "")
      BY <2>7, CountOfTransactions
  <2>9. TransactionService_getTransactionCount(f, "") = getTransactionCount(f, "")
    <3>1. DOMAIN f # {"sender", "receivers", "condition"}
        BY <2>4
    <3> QED
        BY <3>1 DEF TransactionService_getTransactionCount, Exists
  <2> QED
      BY <2>4, <2>5, <2>6, <2>7, <2>8, <2>9, SameTransactions
<1>54. CASE resource \notin Listings
    BY <1>54 DEF Answered
<1> QED
    BY <1>1, <1>2, <1>3, <1>4, <1>5, <1>6, <1>7, <1>8, <1>9, <1>10, <1>11, <1>12, <1>13, <1>14, <1>15, <1>16,
       <1>17, <1>18, <1>19, <1>20, <1>21, <1>22, <1>23, <1>24, <1>25, <1>26, <1>27, <1>28, <1>29, <1>30, <1>31, <1>32,
       <1>33, <1>34, <1>35, <1>36, <1>37, <1>38, <1>39, <1>40, <1>41, <1>42, <1>43, <1>44, <1>45, <1>46, <1>47, <1>48,
       <1>49, <1>50, <1>51, <1>52, <1>53, <1>54 DEF Answered, Listings

\* A client that pages through "/x" by "/x/count" sees all of it and no empty page, whatever
\* it asks for, whatever the documents: but for the NFTs of an account, which come from the
\* gateway and are counted in the index, with filters of their own.
THEOREM CountIsAlwaysOfTheList == Spec => [](resource # "accounts/nfts" => CountIsOfTheList)
<1>1. Answered => (resource # "accounts/nfts" => CountIsOfTheList)
    BY CountsWhatIsListed, AlternativeIsCount DEF CountIsOfTheList, SameIds
<1> QED
    BY <1>1, AlwaysAnswered, PTL

\* There too the two counts are the same.
THEOREM AlternativeIsAlwaysTheCount == Spec => [](~AlternativeDiffers => alternative = count)
<1>1. Answered => (~AlternativeDiffers => alternative = count)
    BY AlternativeIsCount
<1> QED
    BY <1>1, AlwaysAnswered, PTL
=============================================================================
