--------------------------- MODULE AssetEndpoints ---------------------------
(***************************************************************************)
(* The handlers of TokenController, CollectionController and NftController *)
(* that list, count and look up, with the services they call.  The filters *)
(* of a path (the token, the collection, the NFT) are its arguments.       *)
(***************************************************************************)
EXTENDS AccountEndpoints

AssetParams ==
    LET tokens == {"type", "search", "name", "identifier", "identifiers", "includeMetaESDT", "mexPairType", "priceSource"}
        collections == {"search", "type", "subType", "creator", "before", "after"} \cup DOMAIN CollectionRoles
                       \cup {"excludeMetaESDT"}
        nfts == NftParams \cup {"type", "subType", "collection", "collections", "isWhitelistedStorage", "isNsfw",
                                "isScam", "scamType", "traits", "before", "after"}
        ofCollection == NftParams \cup {"isWhitelistedStorage", "traits", "nonceBefore", "nonceAfter"}
    IN  [getTokens |-> tokens,
         getTokenCount |-> tokens,
         getTokenTransactions |-> OperationParams \cup {"sender", "function", "round", "isScCall", "withRelayedScresults"},
         getTokenTransactionsCount |-> OperationParams \cup {"sender", "round", "isScCall", "withRelayedScresults"},
         getTokenTransfers |-> OperationParams \cup {"sender", "function", "round", "isScCall"},
         getNftCollections |-> collections \cup {"identifiers"},
         getCollectionCount |-> collections,
         getCollectionCountAlternative |-> collections \ {"subType"},
         getNftsOfCollection |-> ofCollection \cup {"isNsfw"},
         getNftCountOfCollection |-> ofCollection,
         getCollectionTransactions |-> OperationParams \cup {"sender", "function", "round", "withRelayedScresults"},
         getCollectionTransactionsCount |-> OperationParams \cup {"sender", "round", "withRelayedScresults"},
         getCollectionTransfers |-> OperationParams \cup {"sender", "function", "round"},
         getNfts |-> nfts,
         getNftCount |-> nfts,
         getNftTransactions |-> OperationParams \cup {"sender", "function", "withRelayedScresults"},
         getNftTransactionsCount |-> OperationParams \cup {"sender", "withRelayedScresults"},
         getNftTransfers |-> OperationParams \cup {"sender", "function"},
         getNftTransfersCount |-> OperationParams \cup {"sender"}]

-----------------------------------------------------------------------------
(* The services.                                                           *)

\* EGLD is taken out of the page after it was cut.
TokenService_getTokens(f) == {t \in getFilteredTokens(f) : t.token # EgldIdentifier}
TokenService_getTokenCount(f) == getFilteredTokens(f)
TokenService_getToken(i) == {t \in AllTokens : t.token = i}

\* TokenService.getTokenProperties: not of an NFT, and those of a collection that is no metaESDT
\* do not count.
getTokenProperties(i) ==
    {p \in getEsdtTokenProperties(i) : p.type \in {"FungibleESDT", "MetaESDT"} /\ ~\E d \in Tokens : d.identifier = i}

TokenService_getTokenAccounts(i) == IF getTokenProperties(i) = {} THEN NotFound ELSE getTokenAccounts(i)
TokenService_getTokenAccountsCount(i) == IF getTokenProperties(i) = {} THEN NotFound ELSE getTokenAccountsCount(i)

\* The addresses that have a role of the token.
getTokenRoles(i) == {[address |-> a] : a \in UNION {UNION {t.roles[r] : r \in DOMAIN t.roles} : t \in getToken(i)}}
getTokenRolesForIdentifierAndAddress(i, a) ==
    UNION {{[role |-> r] : r \in {r \in DOMAIN t.roles : a \in t.roles[r]}} : t \in getToken(i)}

\* A collection has a type of the NFTs.
CollectionService_getNftCollection(i) ==
    applyPropertiesToCollections(PropertiesFromGateway, {d \in getCollection(i) :
        d.type \in nonFungibleEsdtTypes \cup semiFungibleEsdtTypes \cup metaEsdtTypes})

\* NftService.getNftsInternal and getSingleNft.
getSingleNft(i) == {d \in getNft(i) : d.identifier = i}
getNftOwners(i) == IF isNft(i) THEN getAccountEsdtByIdentifiers({i}) ELSE NotFound
NftService_getNftOwnersCount(i) == IF isNft(i) THEN getNftOwnersCount(i) ELSE NotFound
getCollectionOwners(i) == getAccountEsdtByIdentifiers({i})

-----------------------------------------------------------------------------
(* The handlers.                                                           *)

TokenController_getTokens(q) == TokenService_getTokens(Pick(q, AssetParams.getTokens))
TokenController_getTokenCount(q) == TokenService_getTokenCount(Pick(q, AssetParams.getTokenCount))
TokenController_getTokenCountAlternative(q) == TokenService_getTokenCount(Pick(q, AssetParams.getTokenCount))
TokenController_getToken(i) == FoundOr404(TokenService_getToken(i))

TokenController_getTokenAccounts(i) == IF isToken(i) THEN TokenService_getTokenAccounts(i) ELSE NotFound
TokenController_getTokenAccountsCount(i) == IF isToken(i) THEN TokenService_getTokenAccountsCount(i) ELSE NotFound

TokenController_getTokenTransactions(i, q) ==
    IF ~isToken(i) THEN NotFound
    ELSE TransactionService_getTransactions(
            With([token |-> i], TransactionFilter(Pick(q, AssetParams.getTokenTransactions))), "")
TokenController_getTokenTransactionsCount(i, q) ==
    IF ~isToken(i) THEN NotFound
    ELSE TransactionService_getTransactionCount(
            With([token |-> i], TransactionFilter(Pick(q, AssetParams.getTokenTransactionsCount))), "")

TokenController_getTokenRoles(i) ==
    IF isToken(i) /\ getToken(i) # {} THEN getTokenRoles(i) ELSE NotFound
TokenController_getTokenRolesForAddress(i, a) ==
    IF isToken(i) /\ getToken(i) # {} THEN getTokenRolesForIdentifierAndAddress(i, a) ELSE NotFound

TokenController_getTokenTransfers(i, q) ==
    IF isToken(i) THEN TransferService_getTransfers(With([token |-> i], TransferFilter(Pick(q, AssetParams.getTokenTransfers)))) ELSE NotFound
TokenController_getTokenTransfersCount(i, q) ==
    IF isToken(i) THEN getTransfersCount(With([token |-> i], TransferFilter(Pick(q, AssetParams.getTokenTransfers)))) ELSE NotFound
TokenController_getAccountTransfersCountAlternative(i, q) ==
    IF isToken(i) THEN getTransfersCount(With([token |-> i], TransferFilter(Pick(q, AssetParams.getTokenTransfers)))) ELSE NotFound

\* canCreate goes before creator.
CollectionFilter(q) == IF Given(q, "canCreate") THEN q ELSE As(q, "creator", "canCreate")

CollectionController_getNftCollections(q) ==
    CollectionService_getNftCollections(PropertiesFromGateway, CollectionFilter(Pick(q, AssetParams.getNftCollections)))
CollectionController_getCollectionCount(q) ==
    getNftCollectionCount(CollectionFilter(Pick(q, AssetParams.getCollectionCount)))
CollectionController_getCollectionCountAlternative(q) ==
    getNftCollectionCount(CollectionFilter(Pick(q, AssetParams.getCollectionCountAlternative)))
CollectionController_getNftCollection(c) == FoundOr404(CollectionService_getNftCollection(c))

CollectionController_getNfts(c, q) ==
    IF isCollection(c) THEN getNfts(With([collection |-> c], Pick(q, AssetParams.getNftsOfCollection))) ELSE NotFound
CollectionController_getNftCount(c, q) ==
    IF isCollection(c) THEN getNftCount(With([collection |-> c], Pick(q, AssetParams.getNftCountOfCollection))) ELSE NotFound
CollectionController_getNftAccounts(c) == getCollectionOwners(c)

CollectionController_getCollectionTransactions(c, q) ==
    IF ~isCollection(c) THEN NotFound
    ELSE TransactionService_getTransactions(
            With([token |-> c], TransactionFilter(Pick(q, AssetParams.getCollectionTransactions))), "")
CollectionController_getCollectionTransactionsCount(c, q) ==
    IF ~isCollection(c) THEN NotFound
    ELSE TransactionService_getTransactionCount(
            With([token |-> c], TransactionFilter(Pick(q, AssetParams.getCollectionTransactionsCount))), "")

\* The sender is one, and no condition on one sender is in the query.
CollectionController_getCollectionTransfers(c, q) ==
    IF ~isCollection(c) THEN NotFound
    ELSE TransferService_getTransfers(With([token |-> c], TransactionFilter(Pick(q, AssetParams.getCollectionTransfers))))
CollectionController_getCollectionTransfersCount(c, q) ==
    IF ~isCollection(c) THEN NotFound
    ELSE getTransfersCount(With([token |-> c], TransactionFilter(Pick(q, AssetParams.getCollectionTransfers))))

NftController_getNfts(q) == getNfts(Pick(q, AssetParams.getNfts))
NftController_getNftCount(q) == getNftCount(Pick(q, AssetParams.getNftCount))
NftController_getNftCountAlternative(q) == getNftCount(Pick(q, AssetParams.getNftCount))
NftController_getNft(i) == FoundOr404(getSingleNft(i))
NftController_getNftAccounts(i) == getNftOwners(i)
NftController_getNftAccountsCount(i) == NftService_getNftOwnersCount(i)

NftController_getNftTransactions(i, q) ==
    TransactionService_getTransactions(With([token |-> i], TransactionFilter(Pick(q, AssetParams.getNftTransactions))), "")
NftController_getNftTransactionsCount(i, q) ==
    TransactionService_getTransactionCount(
        With([token |-> i], TransactionFilter(Pick(q, AssetParams.getNftTransactionsCount))), "")

NftController_getNftTransfers(i, q) ==
    TransferService_getTransfers(With([token |-> i], TransactionFilter(Pick(q, AssetParams.getNftTransfers))))
NftController_getNftTransfersCount(i, q) ==
    getTransfersCount(With([token |-> i], TransactionFilter(Pick(q, AssetParams.getNftTransfersCount))))
=============================================================================
