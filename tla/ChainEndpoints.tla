--------------------------- MODULE ChainEndpoints ---------------------------
(***************************************************************************)
(* The handlers of the controllers of transactions, transfers, blocks,     *)
(* rounds, events, smart contract results, applications and the pool that  *)
(* list, count and look up, and of the gateways that push updates to the   *)
(* subscribers of a WebSocket, with the services they call.                *)
(***************************************************************************)
EXTENDS AccountEndpoints

CONSTANTS
    TxPool,          \* the pool of the gateway: a set of transactions for each type
    ShardOf,         \* AddressUtils.computeShard
    PoolEnabled,     \* isTransactionPoolEnabled
    Andromeda,       \* isChainAndromedaEnabled
    AndromedaEpoch,  \* getChainAndromedaActivationEpoch
    RoundsPerEpoch   \* of RoundUtils.roundToEpoch

ASSUME ChainEndpointsAssumption ==
    PoolEnabled \in BOOLEAN /\ Andromeda \in BOOLEAN /\ AndromedaEpoch \in Nat /\ RoundsPerEpoch \in Nat \ {0}

ChainParams ==
    LET transactions == OperationParams \cup {"sender", "relayer", "token", "function", "condition", "round", "isRelayed",
                                              "isScCall", "withRelayedScresults"}
        transfers == OperationParams \cup {"sender", "token", "function", "round", "relayer", "isRelayed", "isScCall",
                                           "withRefunds"}
        blocks == {"shard", "proposer", "validator", "epoch", "nonce"}
        events == {"address", "identifier", "txHash", "shard", "before", "after", "topics"}
    IN  [getTransactions |-> transactions,
         getTransactionCount |-> transactions,
         getTransfers |-> transfers,
         getTransfersCount |-> transfers,
         getBlocks |-> blocks \cup {"hashes"},
         getBlocksCount |-> blocks,
         getEvents |-> events \cup {"logAddress", "order"},
         getEventsCount |-> events,
         getRounds |-> {"validator", "condition", "shard", "epoch"},
         getScResults |-> {"miniBlockHash", "originalTxHashes", "sender", "receiver", "function"},
         getScResultsCount |-> {"sender", "receiver", "function"},
         getApplications |-> {"before", "after", "withTxCount"},
         subscribeTransactions |-> {"status", "isRelayed", "isScCall", "withRelayedScresults"},
         subscribeBlocks |-> {"shard"},
         subscribeEvents |-> {"shard"},
         subscribePool |-> {"type"},
         getTransactionPool |-> {"sender", "receiver", "senderShard", "receiverShard", "type", "function"},
         getTransactionPoolCount |-> {"sender", "receiver", "senderShard", "receiverShard", "type"},
         getTransactionPoolCountAlternative |-> {"sender", "receiver", "type"}]

-----------------------------------------------------------------------------
(* The services.                                                           *)

isAndromeda(epoch) == Andromeda /\ epoch >= AndromedaEpoch

KeyAt(keys, i) == IF i + 1 \in DOMAIN keys THEN keys[i + 1] ELSE ""
KeysAt(keys, is) == {KeyAt(keys, i) : i \in is}

\* BlockService.getBlocks: the positions become the keys they stand for; the key of the
\* proposer may be in the block.
computeProposerAndValidators(d) ==
    LET keys == getPublicKeys(d.shardId, d.epoch) IN
    [d EXCEPT !.proposer = IF Exists(d.proposerBlsKey) THEN d.proposerBlsKey ELSE KeyAt(keys, @),
              !.validators = KeysAt(keys, @)]
BlockService_getBlocks(f) == {computeProposerAndValidators(d) : d \in getBlocks(f)}

\* The details of a block: since Andromeda all the keys are its validators, and of round 0
\* the proposer stays a position.
BlockService_getBlock(h) ==
    {LET keys == getPublicKeys(d.shardId, d.epoch)
         shown == computeProposerAndValidators(d)
     IN  IF d.round > 0
         THEN [shown EXCEPT !.validators = IF isAndromeda(d.epoch) THEN {keys[i] : i \in DOMAIN keys} ELSE @]
         ELSE [d EXCEPT !.proposer = ToString(@), !.validators = {}] : d \in getBlock(h)}

\* The latest block of the lowest shard tells.
getCurrentEpoch ==
    IF Blocks = {} THEN -1
    ELSE LET latest == {d \in Blocks : \A o \in Blocks : o.timestamp <= d.timestamp}
         IN  (CHOOSE d \in latest : \A o \in latest : d.shardId <= o.shardId).epoch

\* RoundService.getRounds: who signed a round is not known once Andromeda is active,
\* which the epoch asked for decides, or the current one.  Epoch 0 is no epoch.
RoundService_getRounds(f) ==
    LET epoch == IF NonZero(f, "epoch") THEN f.epoch ELSE getCurrentEpoch
    IN  getRounds(IF isAndromeda(epoch) THEN Pick(f, DOMAIN f \ {"validator"}) ELSE f)

\* The details of a round take its epoch from its number, and fail without the positions of
\* its signers (a round that is not signed) unless Andromeda is active by then.
roundToEpoch(r) == r \div RoundsPerEpoch
RoundService_getRound(s, r) ==
    LET keys == getPublicKeys(s, roundToEpoch(r))
        andromeda == isAndromeda(roundToEpoch(r))
    IN  {With(d, [signers |-> IF andromeda THEN {keys[i] : i \in DOMAIN keys} ELSE KeysAt(keys, d.signersIndexes)]) :
            d \in {d \in getRound(s, r) : andromeda \/ d.signed}}

\* ApplicationService: the contracts, with the number of their transactions if it is asked for.
getApplicationTxCount(a) == Cardinality(getTransfersCount([address |-> a, type |-> "Transaction"]))
ToApplication(d) == [contract |-> d.address, deployer |-> d.deployer, owner |-> d.currentOwner, timestamp |-> d.timestamp]
getApplicationsRaw(f) ==
    {IF IsTrue(f, "withTxCount") THEN With([txCount |-> getApplicationTxCount(d.address)], ToApplication(d))
     ELSE ToApplication(d) : d \in getApplications(f)}
ApplicationService_getApplication(a) ==
    {With([txCount |-> getApplicationTxCount(a)], ToApplication(d)) : d \in getApplication(a)}

\* PoolService: the pool of each type, with the shards of the sender and of the receiver
\* (-1 stands for none) and the function the metadata has.
parseTransaction(t, type) ==
    LET shard(a) == IF Exists(a) THEN ShardOf[a] ELSE -1 IN
    [txHash |-> t.hash, sender |-> t.sender, receiver |-> t.receiver, type |-> type, function |-> t.function,
     senderShard |-> shard(t.sender), receiverShard |-> shard(t.receiver)]
getTxPoolRaw ==
    {parseTransaction(t, "Transaction") : t \in TxPool.regularTransactions}
    \cup {parseTransaction(t, "SmartContractResult") : t \in TxPool.smartContractResults}
    \cup {parseTransaction(t, "Reward") : t \in TxPool.rewards}

\* PoolService.applyFilters: what has no function is in no way excluded by one.
applyFilters(f) ==
    {d \in getTxPoolRaw :
        /\ \A k \in {"sender", "receiver", "type"} : IsSet(f, k) => d[k] = f[k]
        /\ \A k \in {"senderShard", "receiverShard"} : MustMatch(f, k, d[k])
        /\ Given(f, "functions") /\ Exists(d.function) => d.function \in f.functions}

\* A disabled pool is empty to the list; the count does not ask.
getPool(f) == IF PoolEnabled THEN applyFilters(f) ELSE {}
getPoolCount(f) == applyFilters(f)
getTransactionFromPool(h) == {d \in applyFilters(<<>>) : d.txHash = h}

\* What the index does not have the gateway may, unless it is a result.
TransactionService_getTransaction(h) ==
    IF getTransaction(h) # {} THEN getTransaction(h) ELSE {d \in Operations : d.hash = h /\ d.type = "normal"}

-----------------------------------------------------------------------------
(* The handlers.                                                           *)

TransactionController_getTransactions(q) ==
    TransactionService_getTransactions(TransactionFilter(Pick(q, ChainParams.getTransactions)), "")
TransactionController_getTransactionCount(q) ==
    TransactionService_getTransactionCount(TransactionFilter(Pick(q, ChainParams.getTransactionCount)), "")
TransactionController_getTransactionCountAlternative(q) ==
    TransactionService_getTransactionCount(TransactionFilter(Pick(q, ChainParams.getTransactionCount)), "")
TransactionController_getTransaction(h) == FoundOr404(TransactionService_getTransaction(h))

TransferController_getAccountTransfers(q) == TransferService_getTransfers(TransferFilter(Pick(q, ChainParams.getTransfers)))
TransferController_getAccountTransfersCount(q) ==
    getTransfersCount(TransferFilter(Pick(q, ChainParams.getTransfersCount)))
TransferController_getAccountTransfersCountAlternative(q) ==
    getTransfersCount(TransferFilter(Pick(q, ChainParams.getTransfersCount)))

BlockController_getBlocks(q) == BlockService_getBlocks(Pick(q, ChainParams.getBlocks))
BlockController_getBlocksCount(q) == getBlocksCount(Pick(q, ChainParams.getBlocksCount))
BlockController_getBlocksCountAlternative(q) == getBlocksCount(Pick(q, ChainParams.getBlocksCount))
BlockController_getBlock(h) == FoundOr404(BlockService_getBlock(h))

EventsController_getEvents(q) == getEvents(Pick(q, ChainParams.getEvents))
EventsController_getEventsCount(q) == getEventsCount(Pick(q, ChainParams.getEventsCount))
EventsController_getEvent(h) == FoundOr404(getEvent(h))

RoundController_getRounds(q) == RoundService_getRounds(Pick(q, ChainParams.getRounds))
RoundController_getRoundCount(q) == getRoundCount(Pick(q, ChainParams.getRounds))
RoundController_getRoundCountAlternative(q) == getRoundCount(Pick(q, ChainParams.getRounds))
RoundController_getRound(s, r) == FoundOr404(RoundService_getRound(s, r))

SmartContractResultController_getScResults(q) ==
    getScResults(As(Pick(q, ChainParams.getScResults), "function", "functions"))
SmartContractResultController_getScResultsCount(q) ==
    getScResultsCount(As(Pick(q, ChainParams.getScResultsCount), "function", "functions"))
SmartContractResultController_getScResult(h) == FoundOr404(getScResult(h))

ApplicationController_getApplications(q) == getApplicationsRaw(Pick(q, ChainParams.getApplications))
ApplicationController_getApplicationsCount(q) == getApplicationCount(Pick(q, ChainParams.getApplications))

\* The fields of what was not found are read, and nothing catches that.
ApplicationController_getApplication(a) == FoundOr500(ApplicationService_getApplication(a))

PoolController_getTransactionPool(q) ==
    getPool(As(Pick(q, ChainParams.getTransactionPool), "function", "functions"))
PoolController_getTransactionPoolCount(q) == getPoolCount(Pick(q, ChainParams.getTransactionPoolCount))
PoolController_getTransactionPoolCountAlternative(q) ==
    getPoolCount(Pick(q, ChainParams.getTransactionPoolCountAlternative))
PoolController_getTransactionFromPool(h) == FoundOr404(getTransactionFromPool(h))
-----------------------------------------------------------------------------
(* The gateways: the payload of a subscription is the name of a room, and  *)
(* every six seconds the room is sent what the services answer to it.      *)

TransactionsGateway_pushTransactionsForRoom(room) ==
    LET f == Pick(room, ChainParams.subscribeTransactions)
    IN  [transactions |-> TransactionService_getTransactions(f, ""), transactionsCount |-> TransactionService_getTransactionCount(f, "")]

BlocksGateway_pushBlocksForRoom(room) ==
    LET f == Pick(room, ChainParams.subscribeBlocks)
    IN  [blocks |-> BlockService_getBlocks(f), blocksCount |-> getBlocksCount(f)]

EventsGateway_pushEventsForRoom(room) ==
    LET f == Pick(room, ChainParams.subscribeEvents)
    IN  [events |-> getEvents(f), eventsCount |-> getEventsCount(f)]

PoolGateway_pushPoolForRoom(room) ==
    LET f == Pick(room, ChainParams.subscribePool)
    IN  [pool |-> getPool(f), poolCount |-> getPoolCount(f)]
=============================================================================
