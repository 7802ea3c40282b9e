-------------------------- MODULE AccountEndpoints --------------------------
(***************************************************************************)
(* The handlers of AccountController that list, count and look up, with    *)
(* the services between them and the index.  A handler takes the path's    *)
(* address and the query q, a record of the parameters that were given; it *)
(* uses those it declares (AccountParams).  Its answer is a set of         *)
(* documents, or NotFound.                                                 *)
(***************************************************************************)
EXTENDS TokenList

CONSTANTS
    ExtendedAttributes, \* isNftExtendedAttributesEnabled
    GatewayAccounts,    \* the accounts the gateway knows, with their balance
    VerifiedAccounts    \* the contracts the verifier knows

ASSUME AccountEndpointsAssumption == ExtendedAttributes \in BOOLEAN

BadRequest == {[status |-> 400]}
NotFound == {[status |-> 404]}
Failed == {[status |-> 500]}
FoundOr404(docs) == IF docs = {} THEN NotFound ELSE docs

\* A look-up that reads the fields of what is not there, and nothing catches the exception.
FoundOr500(docs) == IF docs = {} THEN Failed ELSE docs

\* What the gateway returns as the balances of an address.
GatewayEsdts(a) == {d \in AccountsEsdt : d.address = a}

OperationParams ==
    {"receiver", "senderShard", "receiverShard", "miniBlockHash", "hashes", "status", "before", "after"}

NftParams == {"search", "identifiers", "name", "tags", "creator", "hasUris"}

AccountParams ==
    LET accounts == {"ownerAddress", "isSmartContract", "name", "tags", "excludeTags", "hasAssets", "search"}
        tokens == {"type", "search", "name", "identifier", "identifiers", "includeMetaESDT", "mexPairType"}
        roles == {"search", "type", "subType", "owner", "canCreate", "canBurn", "canAddQuantity", "excludeMetaESDT"}
        nfts == NftParams \cup {"type", "subType", "collection", "collections", "includeFlagged", "excludeMetaESDT",
                                "isScam", "scamType"}
        transactions == OperationParams \cup {"sender", "token", "function", "round", "senderOrReceiver", "isRelayed",
                                              "isScCall", "withRelayedScresults"}
        transfers == OperationParams \cup {"sender", "token", "function", "round", "senderOrReceiver", "isScCall",
                                           "withRefunds", "withTxsRelayedByAddress"}
    IN  [getAccounts |-> accounts \cup {"sort", "addresses"},
         getAccountsCount |-> accounts \cup {"withBalance"},
         getAccountTokens |-> tokens \cup {"subType"},
         getTokenCount |-> tokens,
         getAccountCollectionsWithRoles |-> roles \cup {"canUpdateAttributes", "canAddUri", "canTransferRole"},
         getCollectionWithRolesCount |-> roles,
         getAccountTokensWithRoles |-> {"search", "owner", "canMint", "canBurn", "includeMetaESDT"},
         getAccountNftCollections |-> {"search", "type", "subType", "excludeMetaESDT"},
         getAccountNfts |-> nfts \cup {"source"},
         getNftCount |-> nfts,
         getAccountTransactions |-> transactions,
         getAccountTransactionsCount |-> transactions,
         getAccountTransfers |-> transfers \cup {"relayer"},
         getAccountTransfersCount |-> transfers,
         getAccountHistory |-> {"before", "after"},
         getAccountEsdtHistory |-> {"before", "after", "identifier", "token"}]

-----------------------------------------------------------------------------
(* The services.                                                           *)

\* TokenService.getFilteredTokens: metaESDTs are left out unless asked for.  The search and the
\* identifier are looked for in a part of the token's, which here is the whole of it.
getFilteredTokens(f) ==
    {t \in AllTokens :
        /\ IsSet(f, "type") => t.type = f.type
        /\ IsSet(f, "subType") => t.subType = f.subType
        /\ IsSet(f, "search") => f.search \in {t.name, t.token}
        /\ IsSet(f, "name") => t.name = f.name
        /\ IsSet(f, "identifier") => t.token = f.identifier
        /\ Given(f, "identifiers") => t.token \in f.identifiers
        /\ ~IsTrue(f, "includeMetaESDT") => t.type = "FungibleESDT"
        /\ NonEmpty(f, "mexPairType") => t.mexPairType \in f.mexPairType
        /\ IsSet(f, "priceSource") => t.priceSource = f.priceSource}

getAllTokensForAddress(a, f) == {d \in GatewayEsdts(a) : \E t \in getFilteredTokens(f) : t.token = d.token}

getTokensForAddressFromElastic(a, f) == {d \in getTokensForAddress(a, f) : \E t \in AllTokens : t.token = d.token}

\* A contract is asked of the index, a user of the gateway.  (When the gateway's trie times out,
\* the list of a user comes from the index for a while: left out.)
TokenService_getTokensForAddress(a, f) ==
    IF a \in Contracts THEN getTokensForAddressFromElastic(a, f) ELSE getAllTokensForAddress(a, f)

TokenService_getTokenCountForAddress(a, f) ==
    IF a \in Contracts THEN getTokenCountForAddress(a, f) ELSE getAllTokensForAddress(a, f)

\* The balance has to be more than none.
getTokenForAddress(a, i) ==
    FoundOr404({d \in GatewayEsdts(a) :
        /\ i = (IF Exists(d.identifier) THEN d.identifier ELSE d.token)
        /\ \E t \in getFilteredTokens([identifier |-> d.token, includeMetaESDT |-> TRUE]) : TRUE})

\* A token of the index that is not among all tokens is left out.
TokenService_getTokensWithRolesForAddress(a, f) ==
    {d \in getTokensWithRolesForAddress(a, f) : \E t \in AllTokens : t.token = d.token}

\* Mutant: a MetaESDT is not looked for.
getTokenWithRolesForAddress_NoMeta(a, i) == FoundOr404(TokenService_getTokensWithRolesForAddress(a, [identifier |-> i]))

getTokenWithRolesForAddress(a, i) ==
    FoundOr404(TokenService_getTokensWithRolesForAddress(a, [identifier |-> i, includeMetaESDT |-> TRUE]))

EsdtAddressService_getCollectionsForAddress(a, f) == applyPropertiesToCollections(PropertiesFromGateway, getNftCollections(f, a))

getCollectionForAddressWithRole(a, c) ==
    FoundOr404(EsdtAddressService_getCollectionsForAddress(a, [collection |-> c]))

\* The collections the address holds something of, as the index lists them by name.
CollectionService_getCollectionsForAddress(a, f) ==
    LET held == getCollectionsForAddress(a, f)
    IN  IF held = {} THEN {} ELSE CollectionService_getNftCollections(PropertiesFromGateway, [identifiers |-> held])

CollectionService_getCollectionForAddress(a, c) ==
    FoundOr404({d \in CollectionService_getCollectionsForAddress(a, [collection |-> c]) : d.token = c})

\* All tags have to be there, where the index is content with one.
filterEsdtsForAddressFromGateway(f, d) ==
    /\ IsSet(f, "search") => f.search \in {d.name, d.token, d.identifier}
    /\ Given(f, "identifiers") => d.identifier \in f.identifiers
    /\ Given(f, "type") => TypeOf(d.type) \in f.type
    /\ Given(f, "subType") => d.type \in f.subType
    /\ IsSet(f, "collection") => d.token = f.collection
    /\ IsSet(f, "name") => d.name = f.name
    /\ Given(f, "collections") => d.token \in f.collections
    /\ Given(f, "tags") => f.tags \subseteq d.tags
    /\ IsSet(f, "creator") => d.creator = f.creator
    /\ Given(f, "hasUris") => (f.hasUris <=> d.nonEmptyURIs)
    /\ IsTrue(f, "excludeMetaESDT") => TypeOf(d.type) \in {"NonFungibleESDT", "SemiFungibleESDT"}

getNftsForAddressFromGateway(a, f) ==
    {d \in GatewayEsdts(a) : Exists(d.identifier) /\ filterEsdtsForAddressFromGateway(f, d)}

\* One identifier is always asked of the gateway.  (Without an answer in time the
\* index is asked, which is left out here.)
EsdtAddressService_getNftsForAddress(a, f, source) ==
    IF (Given(f, "identifiers") => Cardinality(f.identifiers) # 1) /\ (source = "elastic" \/ a \in Contracts)
    THEN getNftsForAddress(a, f)
    ELSE getNftsForAddressFromGateway(a, f)

\* Scam information comes with the extended attributes.
applyScamFilter(f, d) ==
    LET scam == IF ExtendedAttributes THEN d.scamInfoType ELSE "" IN
    /\ IsSet(f, "scamType") => scam = f.scamType
    /\ Given(f, "isScam") => (f.isScam <=> Exists(scam))

NftService_getNftsForAddress(a, f, source) ==
    {d \in EsdtAddressService_getNftsForAddress(a, f, source) : applyScamFilter(f, d)}

getNftForAddress(a, i) == FoundOr404(NftService_getNftsForAddress(a, [identifiers |-> {i}], "gateway"))

\* TransactionFilter, and that of the handlers that take several senders.  The senders are
\* the empty array where a handler sets none.
TransactionFilter(q) == With(As(As(q, "receiver", "receivers"), "function", "functions"), [senders |-> {}])
TransferFilter(q) == TransactionFilter(As(q, "sender", "senders"))

\* Without a filter the count of the address is taken, and so it is for what the
\* address sent or received; the senders a filter always has keep both from happening.
TransactionService_getTransactionCount(f, a) ==
    IF Exists(a) /\ DOMAIN f = {} THEN getTransactionCountForAddress(a)
    ELSE IF /\ DOMAIN f = {"sender", "receivers", "condition"}
            /\ f.sender \in f.receivers /\ f.condition = "should"
    THEN getTransactionCountForAddress(f.sender)
    ELSE getTransactionCount(f, a)

\* Hashes the index does not answer with are asked of the gateway, which knows no filter.
TransactionService_getTransactions(f, a) ==
    LET listed == getTransactions(f, a)
    IN  listed \cup {d \in Operations : /\ Given(f, "hashes") /\ d.hash \in f.hashes
                                        /\ d.hash \notin {t.hash : t \in listed}
                                        /\ d.type = "normal"}

\* TransferService.getTransfers: the type has the name of the API, and who relayed a result
\* is its relayer.
TransferService_getTransfers(f) ==
    {[d EXCEPT !.type = IF @ = "normal" THEN "Transaction" ELSE "SmartContractResult",
               !.relayer = IF Exists(@) THEN @ ELSE d.relayerAddr,
               !.isRelayed = @ \/ Exists(d.relayer)] : d \in getTransfers(f)}

\* AccountService.getAccountTxCount and getAccountScResults.
getAccountTxCount(a) == getTransfersCount([address |-> a, type |-> "Transaction"])
getAccountScResultsOf(a) == getTransfersCount([address |-> a, type |-> "SmartContractResult"])

\* The balances of accounts that are asked for by address are those of the gateway.
getAccountsRaw(f) ==
    {[address |-> d.address, ownerAddress |-> d.currentOwner, isVerified |-> d.address \in VerifiedAccounts,
      balance |-> IF NonEmpty(f, "addresses") /\ d.address \in DOMAIN GatewayAccounts
                  THEN GatewayAccounts[d.address].balance ELSE d.balance] : d \in getAccounts(f)}

AccountService_getAccountDeploys(a) == {[address |-> d.address, timestamp |-> d.timestamp] : d \in getAccountDeploys(a)}
AccountService_getAccountContracts(a) == {[address |-> d.address, timestamp |-> d.timestamp] : d \in getAccountContracts(a)}

isToken(i) == \E t \in AllTokens : t.token = i
isCollection(i) == getCollection(i) # {}
isNft(i) == getNft(i) # {}
IsTokenCollectionOrNft(i) == isToken(i) \/ isCollection(i) \/ isNft(i)

-----------------------------------------------------------------------------
(* The handlers.                                                           *)

AccountController_getAccounts(q) == getAccountsRaw(Pick(q, AccountParams.getAccounts))
AccountController_getAccountsCount(q) == getAccountsCount(Pick(q, AccountParams.getAccountsCount))
AccountController_getAccountsCountAlternative(q) == getAccountsCount(Pick(q, AccountParams.getAccountsCount))

AccountController_getAccountTokens(a, q) ==
    TokenService_getTokensForAddress(a, Pick(q, AccountParams.getAccountTokens))
AccountController_getTokenCount(a, q) ==
    TokenService_getTokenCountForAddress(a, Pick(q, AccountParams.getTokenCount))
AccountController_getTokenCountAlternative(a, q) ==
    TokenService_getTokenCountForAddress(a, Pick(q, AccountParams.getTokenCount))
AccountController_getAccountToken(a, i) == getTokenForAddress(a, i)

AccountController_getAccountCollectionsWithRoles(a, q) ==
    EsdtAddressService_getCollectionsForAddress(a, Pick(q, AccountParams.getAccountCollectionsWithRoles))
AccountController_getCollectionWithRolesCount(a, q) ==
    getCollectionCountForAddress(a, Pick(q, AccountParams.getCollectionWithRolesCount))
AccountController_getCollectionCountAlternative(a, q) ==
    getCollectionCountForAddress(a, Pick(q, AccountParams.getCollectionWithRolesCount))
AccountController_getAccountCollection(a, c) == getCollectionForAddressWithRole(a, c)

AccountController_getAccountTokensWithRoles(a, q) ==
    TokenService_getTokensWithRolesForAddress(a, Pick(q, AccountParams.getAccountTokensWithRoles))
AccountController_getTokensWithRolesCount(a, q) ==
    getTokensWithRolesForAddressCount(a, Pick(q, AccountParams.getAccountTokensWithRoles))
AccountController_getTokensWithRolesCountAlternative(a, q) ==
    getTokensWithRolesForAddressCount(a, Pick(q, AccountParams.getAccountTokensWithRoles))
AccountController_getTokenWithRoles(a, i) == getTokenWithRolesForAddress(a, i)

AccountController_getAccountNftCollections(a, q) ==
    CollectionService_getCollectionsForAddress(a, Pick(q, AccountParams.getAccountNftCollections))
AccountController_getNftCollectionCount(a, q) ==
    CollectionService_getCollectionsForAddress(a, Pick(q, AccountParams.getAccountNftCollections))
AccountController_getNftCollectionCountAlternative(a, q) ==
    CollectionService_getCollectionsForAddress(a, Pick(q, AccountParams.getAccountNftCollections))
AccountController_getAccountNftCollection(a, c) == CollectionService_getCollectionForAddress(a, c)

AccountController_getAccountNfts(a, q) ==
    NftService_getNftsForAddress(a, Pick(q, AccountParams.getNftCount), IF Given(q, "source") THEN q.source ELSE "gateway")
AccountController_getNftCount(a, q) == getNftCountForAddress(a, Pick(q, AccountParams.getNftCount))
AccountController_getNftCountAlternative(a, q) == getNftCountForAddress(a, Pick(q, AccountParams.getNftCount))
AccountController_getAccountNft(a, i) == getNftForAddress(a, i)

AccountController_getAccountTransactions(a, q) ==
    TransactionService_getTransactions(TransactionFilter(Pick(q, AccountParams.getAccountTransactions)), a)
AccountController_getAccountTransactionsCount(a, q) ==
    TransactionService_getTransactionCount(TransactionFilter(Pick(q, AccountParams.getAccountTransactionsCount)), a)

AccountController_getAccountTransfers(a, q) ==
    TransferService_getTransfers(With([address |-> a], TransferFilter(Pick(q, AccountParams.getAccountTransfers))))
AccountController_getAccountTransfersCount(a, q) ==
    getTransfersCount(With([address |-> a], TransferFilter(Pick(q, AccountParams.getAccountTransfersCount))))
AccountController_getAccountTransfersCountAlternative(a, q) ==
    getTransfersCount(With([address |-> a], TransferFilter(Pick(q, AccountParams.getAccountTransfersCount))))

AccountController_getAccountDeploys(a) == AccountService_getAccountDeploys(a)
AccountController_getAccountDeploysCount(a) == getAccountDeploysCount(a)
AccountController_getAccountDeploysCountAlternative(a) == getAccountDeploysCount(a)
AccountController_getAccountContracts(a) == AccountService_getAccountContracts(a)
AccountController_getAccountContractsCount(a) == getAccountContractsCount(a)
AccountController_getAccountContractsCountAlternative(a) == getAccountContractsCount(a)

AccountController_getAccountScResults(a) == getAccountScResults(a)
AccountController_getAccountScResultsCount(a) == getAccountScResultsCount(a)

\* A further receiver of a result does not find it.
AccountController_getAccountScResult(a, h) == FoundOr404({d \in getScResult(h) : a \in {d.sender, d.receiver}})

AccountController_getAccountHistory(a, q) == getAccountHistory(a, Pick(q, AccountParams.getAccountHistory))
AccountController_getAccountHistoryCount(a, q) == getAccountHistoryCount(a, Pick(q, AccountParams.getAccountHistory))
AccountController_getAccountEsdtHistory(a, q) ==
    getAccountEsdtHistory(a, As(Pick(q, AccountParams.getAccountEsdtHistory), "identifier", "identifiers"))
AccountController_getAccountEsdtHistoryCount(a, q) ==
    getAccountEsdtHistoryCount(a, As(Pick(q, AccountParams.getAccountEsdtHistory), "identifier", "identifiers"))
AccountController_getAccountTokenHistory(a, i, q) ==
    IF IsTokenCollectionOrNft(i) THEN getAccountTokenHistory(a, i, Pick(q, AccountParams.getAccountHistory)) ELSE NotFound
AccountController_getAccountTokenHistoryCount(a, i, q) ==
    IF IsTokenCollectionOrNft(i) THEN getAccountTokenHistoryCount(a, i, Pick(q, AccountParams.getAccountHistory)) ELSE NotFound
=============================================================================
