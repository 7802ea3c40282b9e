-------------------------------- MODULE Tps --------------------------------
(***************************************************************************)
(* The block processor of TpsWarmerService.  Once a second a run walks,    *)
(* for all shards at once, over the blocks since the last processed nonce  *)
(* and adds their transaction counts to Redis counters: one per timestamp  *)
(* and frequency (buckets, shared by the shards) and a total per shard.    *)
(*                                                                         *)
(* @Lock keeps a second run out while the first has not returned.  The     *)
(* loops of a run are joined by Promise.all, which rejects as soon as one  *)
(* of them does: the lock is then released although the other loops still  *)
(* run, and the next run works beside them.                                *)
(*                                                                         *)
(* A step is the code from one await to the next.  The timestamp of a      *)
(* block is its nonce.  The expiry of the buckets is left out.             *)
(***************************************************************************)
EXTENDS Integers, Sequences, FiniteSets, FiniteSetsExt

CONSTANTS
    Shards,
    Runs,          \* handleBlockProcessor calls that may be alive at once
    NoRun,
    TxCount,       \* TxCount[s][n]: block.numTxs; bound: its length, the last block
    LookBehind,    \* config features.tps.maxLookBehindNonces
    Frequencies,   \* TpsUtils.Frequencies, in the unit of the timestamps
    MaxTroubles    \* bound: failed gateway requests and restarts of the cache warmer

ASSUME TpsAssumption ==
    /\ NoRun \notin Runs
    /\ IsFiniteSet(Shards)
    /\ \A s \in Shards : TxCount[s] \in Seq(Nat)
    /\ LookBehind \in Nat
    /\ Frequencies \subseteq Nat \ {0}
    /\ MaxTroubles \in Nat

VARIABLES
    height,     \* the network: the current nonce of a shard
    saved,      \* Redis tpsCurrentNonce:<shard>; 0 for none
    bucket,     \* Redis tpsTransactions:<timestamp>:<frequency>
    total,      \* Redis transactionCount:<shard>; 0 for none
    lock,       \* the run that holds 'Block Processor'
    loop,       \* loop[r][s]: processTpsForShard(s) of run r
    skipped,    \* history: blocks more than LookBehind behind when a walk began
    overlapped, \* history: two loops have been at work on one shard
    failures,
    crashes

vars == <<height, saved, bucket, total, lock, loop, skipped, overlapped, failures, crashes>>

\* TpsUtils.getTimestampByFrequency
TimestampByFrequency(timestamp, f) == (timestamp \div f) * f

LastNonce(s) == Len(TxCount[s])

Nonces == UNION {DOMAIN TxCount[s] : s \in Shards}

Buckets == {<<TimestampByFrequency(n, f), f>> : n \in Nonces, f \in Frequencies}

Off == [pc |-> "off", nonce |-> 0, end |-> 0, freqs |-> {}]

Init ==
    /\ height = [s \in Shards |-> 0]
    /\ saved = [s \in Shards |-> 0]
    /\ bucket = [b \in Buckets |-> 0]
    /\ total = [s \in Shards |-> 0]
    /\ lock = NoRun
    /\ loop = [r \in Runs |-> [s \in Shards |-> Off]]
    /\ skipped = [s \in Shards |-> {}]
    /\ overlapped = FALSE
    /\ failures = 0
    /\ crashes = 0

Active(r, s) == loop[r][s].pc \notin {"off", "done"}

----------------------------------------------------------------------------
\* The lock is free: a run starts one loop per shard.
StartRun(r) ==
    /\ lock = NoRun
    /\ \A s \in Shards : loop[r][s] = Off
    /\ lock' = r
    /\ loop' = [loop EXCEPT ![r] = [s \in Shards |-> [Off EXCEPT !.pc = "end"]]]
    /\ overlapped' = (overlapped \/ \E q \in Runs, s \in Shards : Active(q, s))
    /\ UNCHANGED <<height, saved, bucket, total, skipped, failures, crashes>>

\* getEndNonce
GetEndNonce(r, s) ==
    /\ loop[r][s].pc = "end"
    /\ loop' = [loop EXCEPT ![r][s].pc = "start", ![r][s].end = height[s]]
    /\ UNCHANGED <<height, saved, bucket, total, lock, skipped, overlapped, failures, crashes>>

\* Mutant: the walk leaves out the block after the saved nonce.
StartNonce_SkipsOne(s, end) ==
    IF saved[s] = 0 \/ saved[s] < end - LookBehind THEN end - LookBehind ELSE saved[s] + 1

\* Mutant: the walk repeats the saved nonce.
StartNonce_Repeats(s, end) ==
    IF saved[s] = 0 \/ saved[s] < end - LookBehind THEN end - LookBehind ELSE saved[s] - 1

\* Mutant: one block further behind than configured.
StartNonce_TooFar(s, end) ==
    IF saved[s] = 0 \/ saved[s] < end - LookBehind THEN end - LookBehind - 1 ELSE saved[s]

\* getStartNonce: the saved nonce, if there is one and it is recent enough.
StartNonce(s, end) ==
    IF saved[s] = 0 \/ saved[s] < end - LookBehind THEN end - LookBehind ELSE saved[s]

\* The loop of run r on shard s goes on with this nonce, if it is not past the end.
GoTo(r, s, nonce) ==
    [loop EXCEPT ![r][s].nonce = nonce,
                 ![r][s].pc = IF nonce <= loop[r][s].end THEN "block" ELSE "done",
                 ![r][s].freqs = {}]

GetStartNonce(r, s) ==
    /\ loop[r][s].pc = "start"
    /\ loop' = GoTo(r, s, StartNonce(s, loop[r][s].end) + 1)
    /\ skipped' = [skipped EXCEPT ![s] = @ \cup (saved[s] + 1)..(loop[r][s].end - LookBehind)]
    /\ UNCHANGED <<height, saved, bucket, total, lock, overlapped, failures, crashes>>

\* getBlockByShardAndNonce, for a block there is.
GetBlock(r, s) ==
    /\ loop[r][s].pc = "block"
    /\ loop[r][s].nonce > 0
    /\ loop' = [loop EXCEPT ![r][s].pc = "buckets", ![r][s].freqs = Frequencies]
    /\ UNCHANGED <<height, saved, bucket, total, lock, skipped, overlapped, failures, crashes>>

\* saveTps for the next frequency: INCRBY, atomic in Redis.
SaveTps(r, s) ==
    LET n == loop[r][s].nonce
        f == Min(loop[r][s].freqs)
    IN  /\ loop[r][s].pc = "buckets"
        /\ loop[r][s].freqs # {}
        /\ bucket' = [bucket EXCEPT ![<<TimestampByFrequency(n, f), f>>] = @ + TxCount[s][n]]
        /\ loop' = [loop EXCEPT ![r][s].freqs = @ \ {f}]
        /\ UNCHANGED <<height, saved, total, lock, skipped, overlapped, failures, crashes>>

\* Mutant: the nonce is saved before the buckets are.
SaveNonce_First(r, s) ==
    /\ loop[r][s].pc = "buckets"
    /\ saved' = [saved EXCEPT ![s] = loop[r][s].nonce]
    /\ loop' = [loop EXCEPT ![r][s].pc = IF loop[r][s].freqs = {} THEN "total" ELSE @]
    /\ UNCHANGED <<height, bucket, total, lock, skipped, overlapped, failures, crashes>>

\* The buckets are done: save the nonce.
SaveNonce(r, s) ==
    /\ loop[r][s].pc = "buckets"
    /\ loop[r][s].freqs = {}
    /\ saved' = [saved EXCEPT ![s] = loop[r][s].nonce]
    /\ loop' = [loop EXCEPT ![r][s].pc = "total"]
    /\ UNCHANGED <<height, bucket, total, lock, skipped, overlapped, failures, crashes>>

\* Mutant: any increment is taken for the first one.
IsFirstIncrement_Always(result, count) == TRUE

\* incrementResult === totalTransactions: the counter did not exist.
IsFirstIncrement(result, count) == result = count

\* incrementTotalTransactions, INCRBY of the block's count.
IncrementTotal(r, s) ==
    LET n      == loop[r][s].nonce
        result == total[s] + TxCount[s][n]
    IN  /\ loop[r][s].pc = "total"
        /\ total' = [total EXCEPT ![s] = result]
        /\ loop' = IF IsFirstIncrement(result, TxCount[s][n])
                   THEN [loop EXCEPT ![r][s].pc = "base"]
                   ELSE GoTo(r, s, n + 1)
        /\ UNCHANGED <<height, saved, bucket, lock, skipped, overlapped, failures, crashes>>

\* The transactions of the blocks of shard s with these nonces.
Transactions(s, nonces) == UNION {{<<s, n, i>> : i \in 1..TxCount[s][n]} : n \in nonces}

\* A new counter also gets what the index counts up to the block before.
AddBase(r, s) ==
    LET n == loop[r][s].nonce
    IN  /\ loop[r][s].pc = "base"
        /\ total' = [total EXCEPT ![s] = @ + Cardinality(Transactions(s, 1..(n - 1)))]
        /\ loop' = GoTo(r, s, n + 1)
        /\ UNCHANGED <<height, saved, bucket, lock, skipped, overlapped, failures, crashes>>

\* The index does not have that block: logged, and that is all.
NoBaseBlock(r, s) ==
    /\ loop[r][s].pc = "base"
    /\ loop' = GoTo(r, s, loop[r][s].nonce + 1)
    /\ UNCHANGED <<height, saved, bucket, total, lock, skipped, overlapped, failures, crashes>>

\* Every loop of the run has come to its end: the run returns.
EndRun(r) ==
    /\ \A s \in Shards : ~Active(r, s)
    /\ \E s \in Shards : loop[r][s] # Off
    /\ lock' = IF lock = r THEN NoRun ELSE lock
    /\ loop' = [loop EXCEPT ![r] = [s \in Shards |-> Off]]
    /\ UNCHANGED <<height, saved, bucket, total, skipped, overlapped, failures, crashes>>

\* A loop throws: the run rejects and gives the lock back; its other loops go on.
Throw(r, s) ==
    /\ loop' = [loop EXCEPT ![r][s] = Off]
    /\ lock' = IF lock = r THEN NoRun ELSE lock
    /\ UNCHANGED <<height, saved, bucket, total, skipped, overlapped, crashes>>

\* The gateway does not answer.
GatewayFails(r, s) ==
    /\ loop[r][s].pc \in {"end", "block"}
    /\ failures + crashes < MaxTroubles
    /\ failures' = failures + 1
    /\ Throw(r, s)

\* There is no such block: the chain is younger than LookBehind.
BlockNotFound(r, s) ==
    /\ loop[r][s].pc = "block"
    /\ loop[r][s].nonce <= 0
    /\ Throw(r, s)
    /\ UNCHANGED failures

----------------------------------------------------------------------------
\* Environment: the network produces a block.
NewBlock(s) ==
    /\ height[s] < LastNonce(s)
    /\ height' = [height EXCEPT ![s] = @ + 1]
    /\ UNCHANGED <<saved, bucket, total, lock, loop, skipped, overlapped, failures, crashes>>

\* The total expires, an hour after it was created.
ExpireTotal(s) ==
    /\ total[s] # 0
    /\ \A r \in Runs : loop[r][s].pc # "base"
    /\ total' = [total EXCEPT ![s] = 0]
    /\ UNCHANGED <<height, saved, bucket, lock, loop, skipped, overlapped, failures, crashes>>

Crash ==
    /\ failures + crashes < MaxTroubles
    /\ loop # [r \in Runs |-> [s \in Shards |-> Off]]
    /\ crashes' = crashes + 1
    /\ lock' = NoRun
    /\ loop' = [r \in Runs |-> [s \in Shards |-> Off]]
    /\ UNCHANGED <<height, saved, bucket, total, skipped, overlapped, failures>>

LoopStep(r, s) ==
    \/ GetEndNonce(r, s) \/ GetStartNonce(r, s) \/ GetBlock(r, s)
    \/ SaveTps(r, s) \/ SaveNonce(r, s) \/ IncrementTotal(r, s)
    \/ AddBase(r, s) \/ NoBaseBlock(r, s) \/ BlockNotFound(r, s)

Next ==
    \/ \E r \in Runs : StartRun(r) \/ EndRun(r)
    \/ \E r \in Runs, s \in Shards : LoopStep(r, s) \/ GatewayFails(r, s)
    \/ \E s \in Shards : NewBlock(s) \/ ExpireTotal(s)
    \/ Crash

Spec == Init /\ [][Next]_vars

(***************************************************************************)
(* Fairness: the cron job fires again and again, every await returns and   *)
(* the network goes on.                                                    *)
(***************************************************************************)
Fairness ==
    /\ \A r \in Runs : WF_vars(EndRun(r)) /\ \A s \in Shards : WF_vars(LoopStep(r, s))
    /\ WF_vars(\E r \in Runs : StartRun(r))
    /\ \A s \in Shards : WF_vars(NewBlock(s))

FairSpec == Spec /\ Fairness

----------------------------------------------------------------------------
LoopType ==
    [pc : {"off", "end", "start", "block", "buckets", "total", "base", "done"},
     nonce : Int, end : Nat, freqs : SUBSET Frequencies]

(***************************************************************************)
(* Types of the Redis counters and of the loops; in particular a walk of   *)
(* processTpsForShard starts at most LookBehind blocks before the first    *)
(* one and ends right after the last.                                      *)
(***************************************************************************)
TypeOK ==
    /\ height \in [Shards -> Nat]
    /\ saved \in [Shards -> Nat]
    /\ bucket \in [Buckets -> Nat]
    /\ total \in [Shards -> Nat]
    /\ lock \in Runs \cup {NoRun}
    /\ loop \in [Runs -> [Shards -> LoopType]]
    /\ skipped \in [Shards -> SUBSET Nat]
    /\ overlapped \in BOOLEAN
    /\ failures \in 0..MaxTroubles
    /\ crashes \in 0..MaxTroubles
    /\ \A s \in Shards :
          /\ height[s] <= LastNonce(s) /\ saved[s] <= LastNonce(s)
          /\ \A r \in Runs : /\ loop[r][s].end <= LastNonce(s)
                             /\ loop[r][s].nonce # 0 => loop[r][s].nonce \in (1 - LookBehind)..(LastNonce(s) + 1)

\* The transactions that bucket b is about, of the blocks of each shard with nonces[s].
OfBucket(b, nonces) ==
    UNION {Transactions(s, {n \in nonces[s] : TimestampByFrequency(n, b[2]) = b[1]}) : s \in Shards}

\* The blocks of shard s up to the saved nonce, but those LookBehind cut off.
Walked(s) == (1..saved[s]) \ skipped[s]

(***************************************************************************)
(* No walked block is missing from a bucket: whatever failures, crashes    *)
(* and overlapping runs there are, a bucket holds at least the             *)
(* transactions of the blocks up to the saved nonce.                       *)
(***************************************************************************)
BucketsComplete ==
    \A b \in Buckets : bucket[b] >= Cardinality(OfBucket(b, [s \in Shards |-> Walked(s)]))

(***************************************************************************)
(* Runs that do not overlap never count a block twice in the total of a    *)
(* shard, even if one crashes between saving the nonce and adding to the   *)
(* total, and however often the total expires and is built up again.       *)
(***************************************************************************)
TotalNeverOver ==
    ~overlapped => \A s \in Shards : total[s] <= Cardinality(Transactions(s, 1..saved[s]))

(***************************************************************************)
(* Without a crash and without overlapping runs, no bucket has counted a   *)
(* block twice once no loop is at work, also after a loop failed half way; *)
(* with BucketsComplete the buckets are then exact.                        *)
(***************************************************************************)
BucketsExact ==
    (crashes = 0 /\ ~overlapped /\ \A r \in Runs, s \in Shards : ~Active(r, s))
        => \A b \in Buckets : bucket[b] <= Cardinality(OfBucket(b, [s \in Shards |-> 1..saved[s]]))

(***************************************************************************)
(* The processor catches up with the network in every shard, also after    *)
(* failures, a crash and a time in which the chain was too young.          *)
(***************************************************************************)
CatchesUp == <>[](\A s \in Shards : saved[s] = LastNonce(s))
=============================================================================
