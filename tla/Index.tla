-------------------------------- MODULE Index --------------------------------
(***************************************************************************)
(* The queries the API sends to Elasticsearch (ElasticIndexerHelper and    *)
(* ElasticIndexerService).  A filter is a record that holds only the       *)
(* fields that were given; an array is a set.  A query is the predicate it *)
(* puts on a document, and an operation of the service is the set of       *)
(* documents it lists or counts.  A field a document does not have is "".  *)
(* Pagination and sorting choose among these documents; neither is         *)
(* modelled.                                                               *)
(***************************************************************************)
EXTENDS Integers, FiniteSets, TLC

CONSTANTS
    Operations,    \* the documents of the index "operations"
    Accounts,      \* "accounts"
    AccountsEsdt,  \* "accountsesdt"
    Tokens,        \* "tokens": tokens, collections and NFTs
    Blocks,        \* "blocks"
    Rounds,        \* "rounds"
    PublicKeys,    \* "validators": the keys of a shard in an epoch, in their order
    Events,        \* "events"
    ScDeploys,     \* "scdeploys"
    History,       \* "accountshistory" and "accountsesdthistory"
    Contracts,     \* the addresses that are smart contracts
    NsfwThreshold, \* nftExtendedAttributes.nsfwThreshold
    ScamInfoEnabled, \* features.nftScamInfo.enabled
    TransfersLast24hUrl \* is the URL of the transfers of the last day configured

ASSUME IndexAssumption ==
    NsfwThreshold \in Nat /\ ScamInfoEnabled \in BOOLEAN /\ TransfersLast24hUrl \in BOOLEAN

Given(f, k) == k \in DOMAIN f

\* The given ones of the parameters a handler has, and one of them under the name
\* it has in the filter.
Pick(q, ks) == [k \in DOMAIN q \cap ks |-> q[k]]
As(q, k, l) == IF Given(q, k) THEN [n \in (DOMAIN q \ {k}) \cup {l} |-> IF n = l THEN q[k] ELSE q[n]] ELSE q

\* Parameters with those that were not given taken from others.
With(f, others) ==
    [k \in DOMAIN f \cup DOMAIN others |-> IF k \in DOMAIN f THEN f[k] ELSE others[k]]

\* JavaScript's truth of a string or an array, of a number and of a Boolean.
IsSet(f, k) == Given(f, k) /\ f[k] # ""
NonEmpty(f, k) == Given(f, k) /\ f[k] # {}
NonZero(f, k) == Given(f, k) /\ f[k] # 0
IsTrue(f, k) == Given(f, k) /\ f[k]

Exists(v) == v # ""

\* The conditions of ElasticQuery in the forms the code uses them: a condition
\* on an undefined value, and a choice among no values, restrict nothing.
MustMatch(f, k, v) == Given(f, k) => v = f[k]
MustMultiShould(f, k, v) == NonEmpty(f, k) => v \in f[k]
DateRange(f, v) == (NonZero(f, "before") => v <= f.before) /\ (NonZero(f, "after") => v >= f.after)

nonFungibleEsdtTypes == {"NonFungibleESDT", "NonFungibleESDTv2", "DynamicNonFungibleESDT"}
semiFungibleEsdtTypes == {"SemiFungibleESDT", "DynamicSemiFungibleESDT"}
metaEsdtTypes == {"MetaESDT", "DynamicMetaESDT"}

\* The types a type stands for in a filter.
TypesOf(t) ==
    CASE t = "NonFungibleESDT" -> nonFungibleEsdtTypes
      [] t = "SemiFungibleESDT" -> semiFungibleEsdtTypes
      [] t = "MetaESDT" -> metaEsdtTypes
      [] OTHER -> {}

\* The roles of a collection by the filter that asks for them.
CollectionRoles ==
    [canCreate |-> "ESDTRoleNFTCreate", canBurn |-> "ESDTRoleNFTBurn", canAddQuantity |-> "ESDTRoleNFTAddQuantity",
     canUpdateAttributes |-> "ESDTRoleNFTUpdateAttributes", canAddUri |-> "ESDTRoleNFTAddURI",
     canTransferRole |-> "ESDTTransferRole"]

AllRoles == {CollectionRoles[k] : k \in DOMAIN CollectionRoles} \cup {"ESDTRoleLocalMint", "ESDTRoleLocalBurn"}

\* The documents have the fields and the roles a query may name.
ASSUME DocumentsAssumption ==
    /\ \A d \in Operations :
          {"type", "hash", "sender", "receiver", "receivers", "relayer", "relayerAddr", "isRelayed", "tokens"} \subseteq DOMAIN d
    /\ \A d \in Tokens :
          /\ {"token", "identifier", "currentOwner", "roles"} \subseteq DOMAIN d
          /\ AllRoles \subseteq DOMAIN d.roles
    /\ \A d \in AccountsEsdt : {"token", "identifier", "address"} \subseteq DOMAIN d
    /\ \A d \in Blocks : {"hash", "proposer", "validators"} \subseteq DOMAIN d
    /\ \A d \in ScDeploys : "address" \in DOMAIN d /\ "contract" \notin DOMAIN d

-----------------------------------------------------------------------------
(* The builders of ElasticIndexerHelper.                                   *)

getPublicKeys(s, e) == IF <<s, e>> \in DOMAIN PublicKeys THEN PublicKeys[<<s, e>>] ELSE <<>>

\* The position of a key, from 0, or -1: it stands for the key in the index.
getBlsIndex(k, s, e) ==
    LET keys == getPublicKeys(s, e)
        at == {i \in DOMAIN keys : keys[i] = k}
    IN  IF at = {} THEN -1 ELSE (CHOOSE i \in at : TRUE) - 1

\* The position of a node is looked up for a shard and an epoch only.
buildElasticBlocksFilter(f, d) ==
    LET located == Given(f, "shard") /\ Given(f, "epoch") IN
    /\ MustMatch(f, "nonce", d.nonce)
    /\ Given(f, "beforeNonce") => d.nonce <= f.beforeNonce
    /\ Given(f, "afterNonce") => d.nonce >= f.afterNonce
    /\ MustMatch(f, "shard", d.shardId)
    /\ MustMatch(f, "epoch", d.epoch)
    /\ IsSet(f, "proposer") /\ located => d.proposer = getBlsIndex(f.proposer, f.shard, f.epoch)
    /\ IsSet(f, "validator") /\ located => getBlsIndex(f.validator, f.shard, f.epoch) \in d.validators
    /\ MustMultiShould(f, "hashes", d.hash)

\* The value is "true", "false" or an address.  A role is asked of the address
\* that is given as the value, or of the account.
getRoleCondition(f, k, holders, address) ==
    Given(f, k) =>
        CASE f[k] = "false" -> address \notin holders
          [] f[k] = "true" -> address \in holders
          [] OTHER -> f[k] \in holders

\* A type in the filter that is none of the three adds nothing; when no type is
\* left, there is no condition on the type.
buildCollectionRolesFilter(f, address, d) ==
    LET types == UNION {TypesOf(t) : t \in f.type} IN
    /\ ~Exists(d.identifier)
    /\ d.type \in nonFungibleEsdtTypes \cup semiFungibleEsdtTypes \cup metaEsdtTypes
    /\ Exists(address) => \/ d.currentOwner = address
                         \/ \E k \in DOMAIN CollectionRoles : address \in d.roles[CollectionRoles[k]]
    /\ DateRange(f, d.timestamp)
    /\ \A k \in DOMAIN CollectionRoles : getRoleCondition(f, k, d.roles[CollectionRoles[k]], address)
    /\ IsTrue(f, "excludeMetaESDT") /\ ~Given(f, "type") => d.type \in nonFungibleEsdtTypes \cup semiFungibleEsdtTypes
    /\ Given(f, "type") /\ types # {} => d.type \in types
    /\ MustMultiShould(f, "subType", d.type)
    /\ MustMatch(f, "collection", d.token)
    /\ MustMultiShould(f, "identifiers", d.token)
    /\ IsSet(f, "search") => f.search \in {d.token, d.name}

\* Only the three documented types are asked for.
buildElasticNftFilter(f, address, d) ==
    LET types == UNION {TypesOf(t) : t \in f.type} IN
    /\ Exists(d.identifier)
    /\ Exists(address) => d.address = address
    /\ Given(f, "search") => f.search \in {d.name, d.token}
    /\ Given(f, "type") /\ types # {} => d.type \in types
    /\ MustMultiShould(f, "subType", d.type)
    /\ IsSet(f, "collection") => d.token = f.collection
    /\ MustMultiShould(f, "collections", d.token)
    /\ IsSet(f, "name") => d.name = f.name
    /\ MustMatch(f, "hasUris", d.nonEmptyURIs)
    /\ Given(f, "tags") => d.tags \cap f.tags # {}
    /\ MustMatch(f, "creator", d.creator)
    /\ Given(f, "identifiers") => d.identifier \in f.identifiers
    /\ MustMatch(f, "isWhitelistedStorage", d.whiteListedStorage)
    /\ ScamInfoEnabled /\ IsTrue(f, "isScam") => Exists(d.scamInfoType)
    /\ IsSet(f, "scamType") => d.scamInfoType = f.scamType
    /\ Given(f, "traits") => f.traits \subseteq d.traits
    /\ Given(f, "isNsfw") => (f.isNsfw <=> d.nsfw_mark >= NsfwThreshold)
    /\ DateRange(f, d.timestamp)
    /\ NonZero(f, "nonceBefore") => d.nonce <= f.nonceBefore
    /\ NonZero(f, "nonceAfter") => d.nonce >= f.nonceAfter
    /\ IsTrue(f, "excludeMetaESDT") => d.type \in nonFungibleEsdtTypes \cup semiFungibleEsdtTypes

\* functions = {""} asks for no function; a function is found in the operation of
\* a document that has no function.
applyFunctionFilter(f, d) ==
    NonEmpty(f, "functions") =>
        IF f.functions = {""} THEN ~Exists(d.function)
        ELSE d.function \in f.functions \/ (~Exists(d.function) /\ d.operation \in f.functions)

\* What the transaction and the transfer queries have in common.
OperationFilter(f, d) ==
    /\ applyFunctionFilter(f, d)
    /\ IF Given(f, "token") /\ f.token = "EGLD" THEN d.value # "0" ELSE Given(f, "token") => f.token \in d.tokens
    /\ Given(f, "tokens") /\ f.tokens # {} => d.tokens \cap f.tokens # {}
    /\ MustMatch(f, "senderShard", d.senderShard)
    /\ MustMatch(f, "receiverShard", d.receiverShard)
    /\ MustMatch(f, "miniBlockHash", d.miniBlockHash)
    /\ Given(f, "hashes") => d.hash \in f.hashes
    /\ MustMatch(f, "status", d.status)
    /\ DateRange(f, d.timestamp)
    /\ IsSet(f, "senderOrReceiver") => f.senderOrReceiver \in {d.sender, d.receiver}
    /\ NonZero(f, "round") => d.round = f.round
    /\ Given(f, "isScCall") => (f.isScCall <=> d.isScCall)
    /\ Given(f, "isRelayed") => (f.isRelayed <=> d.isRelayed \/ Exists(d.relayer))

\* A contract's own results count as its transfers; a user's do not.
AddressOfTransfer(f, d) ==
    LET a == f.address IN
    \/ /\ d.type = "unsigned"
       /\ a = d.receiver \/ a \in d.receivers \/ (a \in Contracts /\ a = d.sender)
       /\ IsTrue(f, "withRefunds") \/ ~d.canBeIgnored
    \/ /\ d.type = "normal"
       /\ \/ a \in {d.sender, d.receiver} \cup d.receivers
          \/ IsTrue(f, "withTxsRelayedByAddress") /\ a = d.relayer

\* filter.sender is not looked at.
buildTransferFilterQuery(f, d) ==
    /\ OperationFilter(f, d)
    /\ IsSet(f, "address") => AddressOfTransfer(f, d)
    /\ IsSet(f, "relayer") => d.relayerAddr = f.relayer
    /\ IsSet(f, "type") => d.type = IF f.type = "Transaction" THEN "normal" ELSE "unsigned"
    /\ MustMultiShould(f, "senders", d.sender)
    /\ Given(f, "receivers") => f.receivers \cap ({d.receiver} \cup d.receivers) # {}

\* Mutant: the address of the path is an alternative to the sender asked for.
buildTransactionFilterQuery_AddressShould(f, address, d) ==
    /\ OperationFilter(f, d)
    /\ d.type = "normal"
    /\ Exists(address) => address \in {d.sender, d.receiver} \cup d.receivers \/ (IsSet(f, "sender") /\ d.sender = f.sender)

\* Of the should conditions one has to hold when there is any: with condition
\* "should" it may be the type of a relayed result, the relayer, the sender or a receiver.
buildTransactionFilterQuery(f, address, d) ==
    LET normal == d.type = "normal"
        relayedResult == d.type = "unsigned" /\ Exists(d.relayerAddr) /\ d.isFirstResult
        toReceiver == f.receivers \cap ({d.receiver} \cup d.receivers) # {}
        either == Given(f, "condition") /\ f.condition = "should"
        shoulds ==
            (IF IsTrue(f, "withRelayedScresults") THEN {normal, relayedResult} ELSE {})
            \cup (IF IsSet(f, "relayer") THEN {d.relayer = f.relayer} ELSE {})
            \cup (IF either /\ IsSet(f, "sender") THEN {d.sender = f.sender} ELSE {})
            \cup (IF either /\ Given(f, "receivers") THEN {toReceiver} ELSE {})
    IN  /\ OperationFilter(f, d)
        /\ IsTrue(f, "withRelayedScresults") \/ normal
        /\ shoulds # {} => TRUE \in shoulds
        /\ ~either => MustMatch(f, "sender", d.sender) /\ (Given(f, "receivers") => toReceiver)
        /\ Exists(address) => address \in {d.sender, d.receiver} \cup d.receivers

buildTokensWithRolesForAddressQuery(address, f, d) ==
    LET meta == IsTrue(f, "includeMetaESDT")
        asked == {"ESDTRoleLocalMint", "ESDTRoleLocalBurn", "ESDTTransferRole"}
            \cup IF meta THEN {CollectionRoles[k] : k \in DOMAIN CollectionRoles} ELSE {}
    IN  /\ ~Exists(d.identifier)
        /\ d.currentOwner = address \/ \E r \in asked : address \in d.roles[r]
        /\ MustMatch(f, "identifier", d.token)
        /\ MustMatch(f, "owner", d.currentOwner)
        /\ d.type \in IF meta THEN {"FungibleESDT", "MetaESDT"} ELSE {"FungibleESDT"}
        /\ IsSet(f, "search") => f.search \in {d.token, d.name}
        /\ Given(f, "canMint") => (f.canMint <=> address \in d.roles.ESDTRoleLocalMint)
        /\ Given(f, "canBurn") => (f.canBurn <=> address \in d.roles.ESDTRoleLocalBurn)

buildElasticRoundsFilter(f, d) ==
    (IF Given(f, "shard") THEN {d.shardId = f.shard} ELSE {})
    \cup (IF Given(f, "epoch") THEN {d.epoch = f.epoch} ELSE {})
    \cup (IF \A k \in {"validator", "shard", "epoch"} : Given(f, k)
          THEN {getBlsIndex(f.validator, f.shard, f.epoch) \in d.signersIndexes} ELSE {})

buildSmartContractResultFilterQuery(address, d) ==
    d.type = "unsigned" /\ (Exists(address) => address \in {d.sender, d.receiver} \cup d.receivers)

\* A token with one dash is a token or a collection, with two an NFT.
buildAccountHistoryFilterQuery(address, token, f, d) ==
    /\ d.address = address
    /\ Exists(token) => token \in {d.token, d.identifier}
    /\ DateRange(f, d.timestamp)
    /\ Given(f, "identifiers") => d.identifier \in f.identifiers
    /\ IsSet(f, "token") => d.token = f.token

\* Tags return the query built so far: what comes after them is not asked for.
buildAccountFilterQuery(f, d) ==
    /\ IsSet(f, "ownerAddress") => d.currentOwner = f.ownerAddress
    /\ Given(f, "isSmartContract") => (f.isSmartContract <=> Exists(d.currentOwner))
    /\ IsSet(f, "name") => d.name = f.name
    /\ IF NonEmpty(f, "tags") THEN d.tags \cap f.tags # {}
       ELSE IF NonEmpty(f, "excludeTags") THEN d.tags \cap f.excludeTags = {}
       ELSE /\ Given(f, "hasAssets") => (f.hasAssets <=> d.assets)
            /\ MustMultiShould(f, "addresses", d.address)
            /\ IsSet(f, "search") => f.search \in {d.address, d.name}
            /\ Given(f, "withBalance") => (f.withBalance <=> d.balance > 0)

\* Original hashes, sender and receiver are alternatives of each other.
buildResultsFilterQuery(f, d) ==
    LET shoulds ==
            (IF Given(f, "originalTxHashes") THEN {d.originalTxHash \in f.originalTxHashes} ELSE {})
            \cup (IF IsSet(f, "sender") THEN {d.sender = f.sender} ELSE {})
            \cup (IF IsSet(f, "receiver") THEN {d.receiver = f.receiver} ELSE {})
    IN  /\ d.type = "unsigned"
        /\ IsSet(f, "miniBlockHash") => d.miniBlockHash = f.miniBlockHash
        /\ shoulds # {} => TRUE \in shoulds
        /\ applyFunctionFilter(f, d)

buildApplicationFilter(f, d) == DateRange(f, d.timestamp)

\* Mutant: the fields are alternatives of each other.
buildEventsFilter_Should(f, d) ==
    LET given == {k \in {"identifier", "txHash", "address", "logAddress"} : IsSet(f, k)} IN
    DateRange(f, d.timestamp) /\ (given # {} => \E k \in given : d[k] = f[k])

\* Shard 0 and order 0 are taken for absent.
buildEventsFilter(f, d) ==
    /\ DateRange(f, d.timestamp)
    /\ \A k \in {"identifier", "txHash", "address", "logAddress"} : IsSet(f, k) => d[k] = f[k]
    /\ NonZero(f, "shard") => d.shardID = f.shard
    /\ NonZero(f, "order") => d.order = f.order
    /\ Given(f, "topics") => f.topics \subseteq d.topics

\* A search looks for the name, which is not what was searched for: without a
\* name nothing is found.
buildTokenFilter(f, d) ==
    /\ IF IsTrue(f, "includeMetaESDT") THEN d.type \in {"FungibleESDT", "MetaESDT"} ELSE ~Exists(d.identifier)
    /\ IsSet(f, "type") => d.type = f.type
    /\ IsSet(f, "identifier") => d.token = f.identifier
    /\ Given(f, "identifiers") => d.token \in f.identifiers
    /\ IsSet(f, "name") => d.name = f.name
    /\ IsSet(f, "search") => IsSet(f, "name") /\ d.name = f.name

-----------------------------------------------------------------------------
(* The operations of ElasticIndexerService; a count is the number of the   *)
(* documents of the set.                                                   *)

getAccountsCount(f) == {d \in Accounts : buildAccountFilterQuery(f, d)}

\* Sorting by transfers without their source asks for contracts only.
getAccounts(f) ==
    {d \in getAccountsCount(f) :
        Given(f, "sort") /\ f.sort = "transfersLast24h" /\ ~TransfersLast24hUrl => Exists(d.currentOwner)}

getScResultsCount(f) == {d \in Operations : buildResultsFilterQuery(f, d)}
getScResults(f) == {d \in Operations : buildResultsFilterQuery(f, d)}
getAccountDeploysCount(a) == {d \in ScDeploys : d.deployer = a}
getAccountDeploys(a) == {d \in ScDeploys : d.deployer = a}
getAccountContractsCount(a) == {d \in ScDeploys : d.currentOwner = a}
getAccountContracts(a) == {d \in ScDeploys : d.currentOwner = a}
getBlocksCount(f) == {d \in Blocks : buildElasticBlocksFilter(f, d)}
getBlocks(f) == {d \in Blocks : buildElasticBlocksFilter(f, d)}
getNftCollectionCount(f) == {d \in Tokens : buildCollectionRolesFilter(f, "", d)}
getCollectionCountForAddress(a, f) == {d \in Tokens : buildCollectionRolesFilter(f, a, d)}
getNftCollections(f, a) == {d \in Tokens : buildCollectionRolesFilter(f, a, d)}
getNftCountForAddress(a, f) == {d \in AccountsEsdt : buildElasticNftFilter(f, a, d)}
getNftsForAddress(a, f) == {d \in AccountsEsdt : buildElasticNftFilter(f, a, d)}
getNftCount(f) == {d \in Tokens : buildElasticNftFilter(f, "", d)}
getNfts(f) == {d \in Tokens : buildElasticNftFilter(f, "", d)}
\* Mutant: transfers are counted as transactions are.
getTransfersCount_AsTransactions(f) == {d \in Operations : buildTransactionFilterQuery(f, "", d)}

getTransfersCount(f) == {d \in Operations : buildTransferFilterQuery(f, d)}
getTransfers(f) == {d \in Operations : buildTransferFilterQuery(f, d)}
getTransactionCount(f, a) == {d \in Operations : buildTransactionFilterQuery(f, a, d)}
getTransactions(f, a) == {d \in Operations : buildTransactionFilterQuery(f, a, d)}

\* The count of an account's own transactions leaves the further receivers out.
getTransactionCountForAddress(a) == {d \in Operations : d.type = "normal" /\ a \in {d.sender, d.receiver}}

getTokenCountForAddress(a, f) == {d \in AccountsEsdt : d.address = a /\ buildTokenFilter(f, d)}
getTokensForAddress(a, f) == {d \in AccountsEsdt : d.address = a /\ buildTokenFilter(f, d)}

\* The list leaves out the balances that are underway, the count does not.
getTokenAccountsCount(t) == {d \in AccountsEsdt : d.token = t}
getTokenAccounts(t) == {d \in AccountsEsdt : d.token = t /\ d.address # "pending"}

getNftOwnersCount(i) == {d \in AccountsEsdt : d.identifier = i /\ d.address # "pending"}

\* A match asks for the words of a name: those of a collection are in the names of its NFTs.
getAccountEsdtByIdentifiers(is) == {d \in AccountsEsdt : {d.identifier, d.token} \cap is # {} /\ d.address # "pending"}
getToken(i) == {d \in Tokens : ~Exists(d.identifier) /\ d.token = i}
getTokensWithRolesForAddressCount(a, f) == {d \in Tokens : buildTokensWithRolesForAddressQuery(a, f, d)}
getTokensWithRolesForAddress(a, f) == {d \in Tokens : buildTokensWithRolesForAddressQuery(a, f, d)}
getRoundCount(f) == {d \in Rounds : FALSE \notin buildElasticRoundsFilter(f, d)}

\* The list takes the conditions as alternatives when it is told to.
getRounds(f) ==
    {d \in Rounds : LET c == buildElasticRoundsFilter(f, d) IN
        IF Given(f, "condition") /\ f.condition = "should" THEN c # {} => TRUE \in c ELSE FALSE \notin c}

getAccountScResultsCount(a) == {d \in Operations : buildSmartContractResultFilterQuery(a, d)}
getAccountScResults(a) == {d \in Operations : buildSmartContractResultFilterQuery(a, d)}
getAccountHistoryCount(a, f) == {d \in History : buildAccountHistoryFilterQuery(a, "", f, d)}
getAccountHistory(a, f) == {d \in History : buildAccountHistoryFilterQuery(a, "", f, d)}
getAccountTokenHistoryCount(a, t, f) == {d \in History : buildAccountHistoryFilterQuery(a, t, f, d)}
getAccountTokenHistory(a, t, f) == {d \in History : buildAccountHistoryFilterQuery(a, t, f, d)}
getAccountEsdtHistoryCount(a, f) == {d \in History : buildAccountHistoryFilterQuery(a, "", f, d)}
getAccountEsdtHistory(a, f) == {d \in History : buildAccountHistoryFilterQuery(a, "", f, d)}
getApplications(f) == {d \in ScDeploys : buildApplicationFilter(f, d)}
getApplicationCount(f) == {d \in ScDeploys : buildApplicationFilter(f, d)}
getEvents(f) == {d \in Events : buildEventsFilter(f, d)}
getEventsCount(f) == {d \in Events : buildEventsFilter(f, d)}

\* An NFT that is not in "tokens" is looked for among the balances.
getNft(i) ==
    LET tokens == {d \in Tokens : buildElasticNftFilter(<<>>, "", d) /\ d.identifier = i}
    IN  IF tokens # {} THEN tokens ELSE {d \in AccountsEsdt : d.identifier = i}

getCollection(i) == {d \in Tokens : ~Exists(d.identifier) /\ d.token = i}
getScResult(h) == {d \in Operations : d.hash = h /\ d.type = "unsigned"}
getTransaction(h) == {d \in Operations : d.hash = h}
getBlock(h) == {d \in Blocks : d.hash = h}
getRound(s, r) == {d \in Rounds : d.shardId = s /\ d.round = r}
getEvent(h) == {d \in Events : d.txHash = h}
getApplication(a) == {d \in ScDeploys : d.address = a}

\* What may stand for a function is the operation.
processTransaction(d) == IF Exists(d.function) THEN d ELSE [d EXCEPT !.function = d.operation]

\* The collections of an account: those of which it holds a token.
getCollectionsForAddress(a, f) ==
    LET asked == IF NonEmpty(f, "type") THEN UNION {TypesOf(t) : t \in f.type}
                 ELSE nonFungibleEsdtTypes \cup semiFungibleEsdtTypes
                      \cup IF IsTrue(f, "excludeMetaESDT") THEN {} ELSE metaEsdtTypes
        held == {d \in AccountsEsdt :
            /\ Exists(d.identifier) /\ d.address = a
            /\ MustMatch(f, "collection", d.token)
            /\ MustMultiShould(f, "identifiers", d.token)
            /\ IsSet(f, "search") => f.search \in {d.token, d.name}
            /\ d.type \in asked
            /\ MustMultiShould(f, "subType", d.type)}
    IN  {d.token : d \in held}
=============================================================================
