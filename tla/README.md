# Verification of the MultiversX API service

TLA+ models of `mx-api-service`, the REST and WebSocket API of the MultiversX
network: modules for its stateful parts and for what its endpoints answer, TLC configurations that check them on
small instances, and theorems TLAPS proves for every value of the constants.
`PROJECT.json` maps every definition to the lines it models and lists the runs,
the mutants that show that each property can fail, the hazards and the theorems.

## The system

The service is a NestJS application that is deployed as several processes: API
servers, a cache warmer, a transaction processor, a batch transaction processor, a
queue worker and a WebSocket publisher. They share Redis (a cache, keys, counters
and pub/sub), MongoDB, Elasticsearch (written by the network's indexer and by the
updaters), RabbitMQ and the gateway of the network. Each process is single
threaded; everything that can go wrong between two steps goes wrong at an `await`.

| Component | State | Operations | What is hard |
|---|---|---|---|
| Transaction batches (`endpoints/transactions.batch`, `crons/transaction.processor/batch.*`) | `transactionbatch:<address>:<id>` and `pendingtransaction:<hash>` in Redis | POST a batch; handle a block; drop old transactions | whole-value overwrites of stale copies, handlers that are not awaited, restarts, lost gateway answers |
| Circuit breaker in front of Elasticsearch (`common/indexer/elastic/circuit-breaker`) | `failureCount`, `lastFailureTime`, `isCircuitOpen` | nine operations through `withCircuitBreaker` | concurrent calls, a timer racing a late answer |
| TPS (`crons/tps`) | counters per timestamp and frequency, a total and a nonce per shard in Redis | a run per second over all shards | `Promise.all` that rejects early, restarts, expiring counters, a young chain |
| Cache synchronisation (`crons/cache.warmer`, `common/pubsub`, `endpoints/caching`, `crons/transaction.processor/transaction.processor.service.ts`) | a value in Redis and one in the memory of every process | read through, warm, delete, set, broadcast, expire | values in flight at a deletion, lost broadcasts, overlapping cron runs |
| NFT worker (`queue.worker`, `crons/nft`, `common/rabbitmq`) | messages, pending keys in Redis, metadata and media in MongoDB, files on S3 | take, fetch, store, upload, generate, acknowledge, retry | retries, leaked pending keys, check-then-act, a lagging index |
| Nodes, providers, identities, stake (`endpoints/nodes`, `providers`, `identities`, `stake`, `common/keybase`) | lists the warmer publishes; the owner of a node per epoch, the owner of a provider, the stake of an address, the confirmed identity of a node in Redis | the warmer's jobs, the transactions that delete keys, epochs | lists computed from older lists, owners cached after their deletion, failures cached as zeros, an epoch that ends half way |
| A transaction on its way (`transaction.get.service.ts`, `transaction.completed.service.ts`, `common/websockets`) | the key `TransactionPendingResults`, the nonces of the processor; index and gateway outside | details, list by hashes, callbacks, events to subscribers, restarts | the index lags behind the gateway, an answer takes several queries, events and keys in order |
| Queries of the index (`common/indexer/elastic`) | none; Elasticsearch | filter, list, count, get | some seventy filters, each built for a list and for its count |
| Read endpoints (accounts, tokens, collections, NFTs, transactions, transfers, blocks, rounds, results, events, pool, applications, nodes, providers, identities, xExchange, marketplace, WebSocket pushes) | none of their own | list, count, `/c`, details | list, count and details take different ways to different sources |
| The list of all tokens (`tokens/token.service.ts`, `esdt`, `mex`, `collections`) | `AllEsdtTokens` in Redis, from which most endpoints of tokens start | the warmer's job every two minutes | six sources applied one after the other or at once, each of which may fail on its own |
| Transaction actions, gas prices (`transaction-action`, `transaction.service.ts`) | none | recognize, sort, bucket | nested and shifted arguments, boundaries |
| Settings, elastic updater, status checker, network and economics, proxies, assets | a flag; none | see `PROJECT.json` | not modelled |

What makes each component correct:

* a batch shows a transaction as successful only if it succeeded, sends its groups
  in order and at most once, and comes to an end;
* the breaker opens after the configured number of failures in a row and only
  then, sheds the load for the reset timeout, and recovers;
* the counters miss no block and count none twice, as far as the code promises it;
* after a deletion no copy of a key is older than the deletion, and every copy
  becomes current or disappears;
* a published list of nodes names no owner from before the epoch it was made in, the
  lists share the validators out, and they come to agree with the chain;
* a transaction that was shown does not disappear, one announced as completed is not
  shown as pending, and nothing it moved gets lost in trimming;
* the count is of what is listed, what is listed is found, a filter adds nothing, and
  what is listed under a path belongs there;
* a message of the NFT queue is acknowledged with its work done or is retried a
  bounded number of times, and a failed fetch is made up for later.

## Modules

| Module | Models | Extended by |
|---|---|---|
| `CircuitBreaker` | `EsCircuitBreakerProxy` | `MCCircuitBreaker`, `CircuitBreakerProofs` |
| `TransactionBatch` | the batch endpoint, the block handlers and the dropper, composed over Redis and the network | `MCTransactionBatch`, `TransactionBatchProofs` |
| `GroupedSubmission` | abstract: what a client of POST /batch is promised; `TransactionBatch` implements it | instantiated by `TransactionBatch` |
| `Tps` | `TpsWarmerService.handleBlockProcessor` | `MCTps`, `TpsProofs` |
| `CacheSync` | one cache key: `getOrSet`, the warmer, the transaction processor, the admin controllers, the pub/sub listener | `MCCacheSync`, `CacheSyncProofs` |
| `NftWorker` | the NFT queue: senders, workers, four sections under `executeOptimistic`, persistence, dead letters | `MCNftWorker`, `NftWorkerProofs` |
| `Staking` | the warmer's jobs for nodes, providers and identities, their caches, the keys the transaction processor deletes | `MCStaking`, `StakingProofs` |
| `TransactionView` | a request for a transaction, the index, the gateway, the processor of completed transactions | `MCTransactionView`, `TransactionViewProofs` |
| `TokenTransfers` | the operations a transaction shows, from its logs and results | `TransactionView` |
| `Actions` | the metadata and the action of a transaction: all recognizers, in order | `Api`, `TransactionView` |
| `Ppu` | the price per unit of gas of the pool | `Api` |
| `Index` | the documents a query of `ElasticIndexerService` selects, clause by clause | `TokenList` |
| `TokenList` | `TokenService.getAllTokensRaw` and the services it is made of: properties, pairs and prices of xExchange, assets, supplies, counts | `AccountEndpoints` |
| `AccountEndpoints` | the handlers under `/accounts` and the services they call | `AssetEndpoints`, `ChainEndpoints` |
| `AssetEndpoints` | tokens, collections, NFTs | `Api` |
| `ChainEndpoints` | transactions, transfers, blocks, rounds, events, results, applications, the pool, WebSocket pushes | `Api` |
| `StakingEndpoints`, `ExchangeEndpoints` | nodes, providers, identities, keys, waiting list; xExchange, marketplace | `Api` |
| `Api` | a client that opens a listing and narrows it: the composition of the endpoints | `MCApi`, `ApiProofs` |

In all of them a step is the code from one `await` to the next, so that the steps
of processes, handlers and cron runs interleave as the event loops and Redis let
them. History variables (named as such) record what the code forgets.

**CircuitBreaker.** The state is the three fields, with `lastFailureTime` as the age
`failureAge`, and per call what its operation and its timer are doing. `Call*` is
the code up to `Promise.race`; `OperationSucceeds`, `OperationFails` and
`TimerFires` are its continuation; `LateSettles` is an operation that settles after
its timer and is ignored. `streak` and `openAge` are history.

**TransactionBatch.** `store` and `pendingKey` are the two families of keys, `chain`
the network, `proc` the requests, handlers and droppers with the copy of the batch
each works on. `SendNext` and `SetPendingKey` are `startTransactionGroup`, shared
by requests and handlers. `ReceiveBlock` starts `handleTransactionBatches` for some
of the transactions the network has executed; the nonce is saved at once, so
`CrashProcessor` either loses the block or has it delivered again. Statuses
are the code's; `fail` is the one neither branch of `processTransaction` treats.
Time appears as a pending key that gets old (10 minutes), expires (15) and a
batch that expires (20). That all transactions have the same sender and that the
first group is not empty are preconditions of a request.

**Tps.** `loop[r][s]` is `processTpsForShard` of run `r`. `Throw` is the rejection of
`Promise.all`: it releases the lock and leaves the other loops at work. Blocks
more than the look-behind behind are recorded in `skipped`. The timestamp of a
block is its nonce. What a counter should hold is the cardinality of a set of
transactions (`Transactions`, `OfBucket`). Not modelled: the TPS history and maximum, the expiry of the
buckets, and a failing Redis or Elasticsearch.

**CacheSync.** A value is the version of the source it was computed from. The cache
library `@multiversx/sdk-nestjs-cache` is external: `ReadLocal` .. `SetLocal` are
`getOrSet` as the code uses it. A key is warmed by one job, and `warmer` is of which kind
it is: `"locked"` reads raw data under `@Lock`, calls `invalidateKey` and broadcasts;
`"remoteOnly"` (the latest block, the extra accounts of a token) sets Redis
under `@Lock` and tells nobody (`WarmSetRemote`); `"unlocked"` is
`handleVerifiedAccountsInvalidation`, which has no `@Lock`. `DropKey` and `DropEmit` are the
transaction processor, and the event handlers that delete a key behave the same. `raced`
records that an older value was in flight at a deletion or was set by an admin: the code
does not guard against that, and `NoSilentStaleness` does not promise it. `WarmsForward` is
about the locked jobs.

**NftWorker.** One NFT with attributes and one media file of an accepted type and
size. Metadata is `None`, `Empty` (`{}`, or an error that the cron jobs ask again about:
`not_found`, `timeout`), `Kept` (an error they leave alone: `unknown_error`, `ipfs_error`,
`invalid_content_type`, `json_parse_error`, `empty_metadata`) or the version
of the attributes it was fetched for. `MetadataFails` yields one of the two errors. A job
goes through the sections metadata,
media, asset and thumbnail; `Check`, `Mark`, `Act` and `Unmark` are
`executeOptimistic`, whose key stays when the action throws. `Heal` makes IPFS, S3
and the media hosts answer from then on. MongoDB and Redis answer always, and
`isAssetUploaded` answers truthfully (if it does not, the asset is uploaded again).

**GroupedSubmission** has no processes: `Submit` gives a transaction of a group to the
gateway whose earlier groups have all succeeded, `Settle` is the network, `Report`
stores a status, and "success" only if all is successful. `TransactionBatch` maps its
`chain`, the transactions it ever submitted and the stored statuses to it.

**Staking.** `chain` is what the contracts answer, `Network` what the validator statistics
and the queue say in each epoch. `handleNodeInvalidations` is `getAllNodesRaw`, await by
await: the heartbeats (`ReadNodes`), the queue (`getQueue`), the epoch that names the keys
(`ReadEpoch`), the cached owners (`ReadOwnerCache`), for each missing one its owner
(`getBlsOwner`), the keys of that owner (`getOwnerBlses`) and their storing one by one
(`SetOwner`), then providers, stakes (`getStakes`, `SetStakes`), the epoch again and the
auctions (`PublishNodes`). Merges, delegations, epochs, the transaction processor
(`ProcessTransaction`), the other jobs and the expiry of keys may come between any two of
them. Reads whose answers no one step of the others changes together are one step, which its
comment says. Who qualifies in the auction is decided for each request of the list. A query that fails
answers as the code has it (no owner, zero stake, no providers) or ends the job (`NodeJobFails`). Identities
and groups of the auction are functions of a list, which one await returns. The global stake has many awaits,
of a list or the epoch: `getTotalAndInactiveValidators` and `getGlobalStakeRaw` are functions of
what each of them returned, and `CountedOnce` gives them every split between an old and a
new list. `ownedIn` (the owners a node has had in each epoch) and `readIn` (the epochs the
published list was made from) are history. Amounts are in parts of the base stake, shares in
hundredths; APR, ratings and GitHub profiles are left out.

**TransactionView.** `gateway` and `doc` are where a transaction is for the gateway and
the index, `parts` the indices that have its results and logs already. `Ask` starts a
request, whose steps are the queries of `TransactionGetService` and
`processTransactions`; `onTransactionsPending`, `onTransactionsReceived` and the
steps after them are the callbacks, from one `await` to the next.

**Index and the endpoints.** A document is a record with the fields the filters look at,
an index a constant set of documents, a filter a function from parameter names to
values; a parameter that is not given is not in its domain, as it is undefined in
the code. `withCondition(must, ...)` is a conjunct, `should` a disjunct, and the
early returns and `if`s of the helper stay. A handler takes from the query what its
controller passes on (`Pick`), calls the service and answers with a set of documents;
the count answers with the set it counts, so that a wrong set of the right size
shows. `[status |-> 404]` and `500` are answers too. Order, pages, caches and
what only decorates a document are left out. In `Api` an action is one resource: list,
count, alternative count and the details of each listed document, for the same query.

**The list of all tokens.** `getAllTokensRaw(g, troubles)` is a composition of the
steps of the code, one operator each, on one token at a time; `g` says whether properties
come from the gateway or the index, and `troubles` is what goes wrong meanwhile: each
failure is caught where it happens and the computation goes on. The four steps that
`Promise.all` starts at once touch different fields but for the liquidity, which the
prices look at: `"pricesFirst"` is the other order. Prices and supplies are small naturals;
0 is undefined, since the code only asks whether a price is truthy.
The endpoints read the published list, the constant `AllTokens`; an assumption, which TLC
evaluates, says that it is what `getAllTokensRaw` computes.

## Runs

| Run | Checks | Shows |
|---|---|---|
| `CircuitBreaker` | `TypeOK`, `ThresholdOpens`, `OpensOnlyAfterStreak`, `ShedsWhileOpen`, `Recovers`, `CallersAnswered` | three calls in flight, threshold 2: a failure can arrive after the opening and after the reset |
| `TransactionBatch` | `SuccessIsReal`, `ImplementsGroupedSubmission`, `InvalidNeverSuccessful`, `SubmittedOnce`, `BatchSuccessIsReal` | groups `<a, b>`, `<c>`, two overlapping handlers, a dropper with a slow `a`, a restart; after the restart a block may come again, and `SubmittedOnce` is claimed without one only |
| `TransactionBatchLive` | `TypeOK`, `Completes`, `Notified` | two requests for one batch id, handlers that do not overlap, no block before its sender has saved |
| `TransactionBatchStale` | `InvalidStays` | **violated**, see below |
| `Tps` | `TypeOK`, `TotalNeverOver`, `BucketsExact`, `BucketsComplete`, `CatchesUp` | a shard of two blocks and one of one, two runs at work at once, a failure or a crash, look-behind 1 |
| `CacheSync` | `NoSilentStaleness`, `WarmsForward` | a reader, two runs of a job of each kind, the transaction processor, two troubles (requests of an admin, lost broadcasts) |
| `CacheSyncLive` | `Converges` | one run of a locked job, with or without broadcast, and one trouble: a lost broadcast or a request of an admin; in-flight values included |
| `NftWorker` | `TypeOK`, `AckedHasThumbnail` | two workers, two messages, failures, a crash |
| `NftWorkerLive` | `Settled`, `MetadataHeals` | requests, events, cron jobs, a crash; `RETRY_LIMIT` 2, so that a rejected message is tried again and rejected again |
| `Api` | `CountIsOfTheList`, `ListedIsFound`, `ListedIsInPath`, `FiltersNarrow`, `SameAction`, `PpuIsOfTheBucket`, `TokensAddUp` | some 55 resources, every parameter their handlers take, up to three at once; a few documents of each kind that differ in what the filters look at; the list of all tokens with every subset of twelve failures |
| `Staking` | `OwnersSinceTheEpoch`, `ListsHeal`, `IdentitiesAddUp`, `CountedOnce` | two nodes, a wallet merged into a delegation contract, an epoch before and one at the start of staking V4 (the queued node goes to auction, the eligible one to jail), and a failed query, a job that ends early or a delegation |
| `TransactionView` | `NeverForgotten`, `CompletedIsFinal`, `NoMovementLost` | a swap with three results and a payment with the same nonce, two failed queries or restarts |

**Bounds.** Every bound is a named constant. Two processes of a kind are enough for
each hazard, since the code knows no third party: a lost update needs two
writers, a race a reader and a deleter, an overlap two runs. Two groups show a
group that starts after another, two transactions one that is not last. Two
blocks give each shard one that follows another, and a look-behind of one makes
the walk start below the first block and skip one. A version of the
source besides the initial one tells old from new. `CacheSync` stops at states in which
`raced` holds (`CONSTRAINT Unraced`): it holds for ever and the invariant says
nothing there; `CacheSyncLive` has no such constraint. `MaxTroubles` bounds lost broadcasts and
admin requests together in `CacheSync`, and failures and delegations together in `Staking`:
one of them, at any await of any run of the job. `CacheSyncLive` leaves out the job without
lock: what distinguishes it needs two runs, and these are `CacheSync`'s. `CountedOnce`
quantifies over the epochs the job may read, up to the one after the start of staking V4, so that
all three phases are counted. `WarmsForward` is proved
without it. Deadlock checking is off where everything may be done: all batches
handled (`TransactionBatch*`), the NFT fully processed (`NftWorker*`), the last epoch
over (`Staking`), every parameter given (`Api`), both transactions settled
(`TransactionView`).

The properties of `Api` name the deviations they leave out
(`Uncounted`, `LeftOut`, `CountDiffers`, `AlternativeDiffers`, `Widening`,
`Alternatives`, and the troubles `TokensAddUp` excepts): they say that there are no others. Requests are read-only and do not
depend on each other, so that one set of documents with a pair for each clause (one
that satisfies it and one that does not) shows what the clause does.

**Symmetry** is used for runs, jobs and messages, in safety runs only.

**Fairness.** Weak fairness of a step that follows an `await` (the promise settles:
HTTP clients and Redis have timeouts), of cron jobs (they fire again), of timers and
TTLs, of the network (it executes what it accepted) and of the dead letter
exchange. Strong fairness only where a message competes for a worker
(RabbitMQ is first in, first out) and for the cron job that looks at the NFT again and again
while it is recent. In `Staking` the jobs run, keys expire, transactions are processed
and epochs pass. Not assumed: that requests are made, that a broadcast
arrives, that the gateway, IPFS or S3 ever answer. `MetadataHeals` is about an NFT
minted in the last 24 hours, the window of the hourly job.

## Findings

* `TransactionBatchStale`: a stored batch that is invalid becomes pending again,
  because two handlers that are not awaited overwrite each other's copies; the
  comment in `processTransaction` says that an invalid batch is only updated in its
  transactions. `InvalidNeverSuccessful` shows what still holds.

### Deviations met while modelling

These are named in the properties or noted in the models; none of them has a run of its own.

* `/collections/:c/transfers`, `/nfts/:n/transfers` and their counts take a `sender` and do
  not pass it on.
* Transactions asked for by hash come from the gateway too, without the filters and
  without the address of the path; a transaction that another one with its nonce
  replaced is listed this way and answers 404 by itself.
* `/c` of collections knows no `subType`, `/c` of the pool no shards; a disabled pool is
  listed as empty and counted as it is; the list of rounds treats its filters as
  alternatives, the count does not.
* `nodes?isAuctioned=false` and `isQualified=false` list nothing, since an undefined flag is
  not `false`; `isAuctionDangerZone=false` filters nothing; `/nodes/auctions` takes
  `slice(from, size)`.
* A listed provider that the delegation API does not know answers 404; an unknown
  application or auction answers 500, and so does the timestamp of an account that the
  index does not have.
* The details of a block of round 0 show the proposer as a position; since Andromeda
  they show all keys as validators, the list does not.
* One auction is listed of each NFT, and only if it has begun; all are counted. The count
  for an account is of the running ones.
* An NFT for which fetching failed with another error than `not_found` or `timeout` keeps that
  error: the cron jobs do not ask again.
* The job of the verified accounts has no lock: of two runs that overlap the one that read
  first may set its older value last.
* A list or an epoch from either side of the start of staking V4 makes the global stake count
  a node twice or not at all, until it is computed again: `CountedOnce` is about lists and epochs
  of one side, `ListsHeal` about what becomes of the others. An owner from before the epoch's
  merge may be cached for the whole epoch: `OwnersSinceTheEpoch` says that it is gone with it.
* A movement that happened twice with the same sender, receiver and amount may be shown once:
  the records do not tell it from one that is recorded twice.
* A stake query that fails is cached as zero for 15 minutes, and a failed
  `getAllContractAddresses` publishes an empty list of providers; `ListsHeal` shows that
  both pass.
* When action recognition throws, `processTransactions` does not look for pending
  results either. A `multiPairSwap` that is not recognized leaves its transfers behind
  for the next recognizer.
* The order in which gas prices are computed is not a total order (the comparator is not
  transitive), so that "fast" may be dearer than "faster".
* After a restart the processor of completed transactions does not await what it awaited;
  the key of such a transaction ends by its TTL only.
* A failure of the gateway's list publishes a list of all tokens without the fungible ones,
  until the next run. When the supply is not answered after a price source has replaced the
  price, the market cap of the exchange's price stays. When the prices of the exchange are
  there before its pairs, no token is marked as one of low liquidity.
* The assets are applied after the counts and the prices of the exchange: transactions and
  transfers of `extraTokens` are not counted, and the correction for `EGLDUSDC`
  (`token.service.ts:1101`) never applies. Accounts of tokens with extra tokens, and of
  MetaESDTs with assets, are counted by the warmer, each once; the others by balances.
* One identifier sends the NFTs of a contract (or those asked of the index) to the gateway,
  whose search looks at names and identifiers where the index's looks at names and
  collections: with one more filter an NFT may be listed that was not, and a search may
  list what the count of the index leaves out. `canCreate` replaces the `creator` of
  `/collections`, it does not go with it.
* The attributes of an NFT update event are put into an object of which only the
  identifier is sent to the queue; a lagging index makes the worker store the metadata
  of the old attributes.

## Proofs

`CircuitBreakerProofs` proves, for any number of calls and any thresholds,
`TypeOK`, `ThresholdOpens`, `OpensOnlyAfterStreak` and `ShedsWhileOpen`, from
`ConfigAssumption` (the thresholds are positive naturals). None of them is inductive:
`ThresholdOpens` needs `ClosedBelow` (a closed circuit has fewer failures than the
threshold); `OpensOnlyAfterStreak` needs `CountIsRun` (the count never exceeds the
run of failures); `ShedsWhileOpen` needs `OpenIsOlder` (failures from before the
opening that arrive after it only make `lastFailureTime` later) and `ClosedRested`.

`CacheSyncProofs` proves, for any number of processes, runs, versions, losses and
admin requests, `TypeOK`, `NoSilentStaleness` and `WarmsForward`, from
`CacheSyncAssumption`. The inductive invariant adds `DroppedIsPast`, `FlightFresh`
(without a race nothing in a reader, a warmer's run or a `refreshLocal` is older
than the last deletion: what is read later cannot bring the old value back),
`RunLocked` (a run of a locked job at work holds the lock, so there is at most one) and
`WarmOrdered` (its value lies between the last one set and the source; of a job without lock
only that it is not newer than the source). The lemmas
on `Range`, `Append` and `Tail` say that a broadcast in an inbox stays there until it
is handled.

`TransactionBatchProofs` proves, for any requests, batches, processes, blocks and
restarts, `TypeOK`, `SuccessIsReal`, `BatchSuccessIsReal` and
`ImplementsGroupedSubmission`, and of the state that the refinement shows to the client
`GroupOrder` (what was submitted has only successful groups before it) and `SuccessIsOfAll`.
The difficulty is that copies of a batch
are everywhere: in the cache, in requests, in handlers, in events. Three invariants
build on each other: `Sound` (every copy is one of a batch posted under its key, and what a
process holds fits the place where it is), `RealItems` (no copy, stored or not, claims
a success that the chain does not have) and `Reached` (a pending key, and whatever a handler
or dropper took from it, is of a group whose earlier groups have all succeeded).
`BatchSuccessIsReal`, the refinement and what follows from it are proved for clients that
respect `OneGroupEach`: a transaction is in one group of its batch, and different
batches posted under one key share none. The hypothesis is needed. The code looks a
transaction up by its hash in whatever batch is stored under the key, and without it a
transaction completes a group it was not sent for. Both instances TLC checks satisfy it.

It also proves `SubmittedOnce` and `InvalidNeverSuccessful`. `Once`
says that a block's transaction is in one hand only, that the success which completes a group
is consumed once, so that one process starts the next group, and that what it has yet to
send was never submitted.
`Doomed` says that a batch stored as invalid has a transaction that no
copy will show as successful. Both hold until the processor restarts, as the properties
say, because a block may be delivered again afterwards. Hypotheses on the client:
`DistinctTxs` (a signed transaction is at one place of one batch) and, for the second
theorem, `OneRequest` (a key is posted under once: two requests that both find it free
save one after the other, and the second may succeed where the first became invalid). The
instance of the run `TransactionBatch` satisfies both.

`NftWorkerProofs` proves `TypeOK` and `AckedHasThumbnail` for any jobs, messages,
versions and restarts. The acknowledgement comes steps after the result of the thumbnail
is known, and its settings are those of a message in the queue; the
invariant adds that a taken message is held by one job (`Holds`, `Alone`), what a
job's record says where it is (`JobOK`), and that a job that is done and had the
thumbnail to make has made it (`Paid`). The assumption on `Requests` (flags of the code's message) was added.

`TransactionViewProofs` proves `NeverForgotten` and `CompletedIsFinal` for any
transactions, results and failures. An answer is composed of several queries, so the
invariant `Ordered` relates what a request has read to what index, gateway and processor
have by now: the key is gone before the event is emitted and does not come back
(`Processed`), the index has only what is in a block and a request past its first read did
find the transaction (`Found`), and what it knew when it started is so (`Recalled`).

`TpsProofs` proves `TypeOK`, `BucketsComplete`, `TotalNeverOver` and `BucketsExact` for any
shards, blocks, frequencies, runs at once, failures and crashes, from `TpsAssumption`
(finitely many shards). The invariant says what the counters hold while loops are on
their way: `AtLeastCounted` (a bucket has all that is walked, and what a loop is past or has
added), which holds whatever overlaps; without overlap `Single`, `Ahead` (a loop adds
blocks after the saved nonce) and `TotalBelow`, and without a crash besides
`AtMostOnce`. Sums are cardinalities of disjoint sets of transactions, so that
a block added is a union (`AtMostOneMore`, `AtLeastOneMore`, `OneMoreBlock`) and no
induction over blocks is needed.

`StakingProofs` proves `OwnersSinceTheEpoch` (`OwnersAreSinceTheEpoch`) and `CountedOnce`
(`EachIsCountedOnce`) for any nodes, addresses, merges, statuses, queues and number of epochs, from
`StakingAssumption` and `ChainAssumption` (the contracts are addresses, a merge goes from a
wallet to a contract, and no queued node is in auction). The invariant has a part for each
place where something old may be: `ChainOK` (the present owner is one of the epoch),
`CacheOK` (what is cached under an epoch is an owner the node has had since that epoch began, also if
a slow reader has set it after a merge had deleted it, or an epoch later), `JobOK` (what each
await of `getAllNodesRaw` has left with the job: statuses of the epoch they were read in, the
queue of its own, owners since the epoch that names the keys) and `ListOK` (a published list
read in one epoch is `Fresh`: it has one node for each key, with the status, type and
auction of that epoch). The chain only adds owners to an epoch that has begun
(`ChainGrows`), so that what was right since an epoch stays so (`SinceGrows`). Every step of the job
makes its list of the one before node by node (`MadeOf`), which keeps one node for each key
(`OneEach`). `CountedOnce` follows from `ListOK`: two `Fresh` lists of an epoch have the
same keys, statuses and marks, so that their counts agree wherever an await falls; the
classes of the count are disjoint, and a bijection takes the nodes in auction to the places
their stakers' groups count (`PlacesOfNodes`), so that no sum is needed.

`ApiProofs` proves `ListedIsInPath` and `CountIsOfTheList`, the latter at every listing but
`accounts/nfts`, for any documents of the index, answers of the gateway and
published lists, and every query. The client's state is an answer to what it asked last, so the
inductive invariant `Answered` is one statement per listing: the path and the parameters are
its own, and list, count and alternative are what its handlers say to both. It comes in eight
parts, one per group of controllers (`AccountsAnswered`, `HistoryAnswered`, ...); `NextAnswered`
shows that each action establishes its statement. What is left is about the handlers. For
`ListedIsInPath` each filter that is built from the path is followed to the clause of the query
it ends in, and no other parameter may take its place (`WithIsOver`) or its effect. For
`CountIsOfTheList` the controllers pick the same parameters for the list and the count (`CountsOfAccounts`,
`CountsOfAssets`, `CountsOfTheChain`, each up to the parameters in `Uncounted`), and the
services select the same documents by them (`ListIsCount`, `CountsWhatIsListed`), which is most
work where they ask different indices (`TransfersOfDetails`: transactions and results of an
account are counted apart and listed together), transform what they list (`SameBlocks`,
`SameApplications`) or drop some of it (`SameButLeftOut`).
Two assumptions on the constants were added. `DocumentsAssumption`: the documents have the fields
the queries name (the fields of the index's mappings; a role nobody has is an empty set). `PathsAssumption`: what the parse
pipes let into a path; without it an empty address would switch the filter off, since the code
asks whether a value is truthy, and `EGLD` or an identifier of the wrong kind would be looked up
in a field of its own. TLC evaluates both on the documents of the run.
`accounts/nfts` is left out because its list comes from the gateway and its count from the index:
that both know the same NFTs is a fact about the two sources, and each is filtered by code
of its own. TLC compares them on the documents of the run, where the sources agree. The
alternative count is proved for it too (`AlternativeIsAlwaysTheCount`).

Each inductive invariant was checked by TLC on the instance of its run before it was
proved; no project module declares a recursive operator.

Only model-checked, since the prover has no rule for it: liveness under fairness
(`Recovers`, `CallersAnswered`, `Completes`, `Notified`, `CatchesUp`, `Converges`,
`Settled`, `MetadataHeals`, `ListsHeal`) and what folds and sums compute for
every input: `NoMovementLost` (a fold over the logs and results),
`IdentitiesAddUp` (sums over the nodes of an identity, cut to hundredths), `TokensAddUp`
and `PpuIsOfTheBucket` of `Api`. `ListedIsFound` needs that the sources agree (the index,
the gateway and the published lists are constants of their own), and `SameAction` and
`FiltersNarrow` go through all recognizers and all pairs of a parameter and a query: TLC
evaluates them for every request of the instance.

## Plan

1. `FiltersNarrow` for any documents, on top of `Answered`: a filter with one more parameter
   selects no more.
2. A register that `CacheSync` implements up to staleness.

## Not modelled

Configuration, metrics, GraphQL wiring, modules and entities (framework code
without behaviour of its own); pages, sorting and what only decorates an answer; APR
and economics, and the floating point of prices; the fallback of an account's tokens to the
index when the gateway's trie times out (`token.service.ts:314-330`), and a transaction of the
pool without gas limit (`pool.service.ts:98`), by which the price per unit divides;
the pagination of the NFT cron jobs, the
elastic updater, the status checker and the settings; proxies and plain calls of
external services (usernames, delegation, assets, GitHub, data API);
the libraries of the `@multiversx` scope, which are not in the repository: the
cache, the locker and the transaction processor are modelled from their use.
