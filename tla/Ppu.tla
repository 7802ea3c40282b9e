--------------------------------- MODULE Ppu ---------------------------------
(***************************************************************************)
(* The price per unit of gas at which a transaction gets into the next     *)
(* blocks: the transactions of the pool, in the order the network takes    *)
(* them, fill buckets of gas (TransactionService.getPpuByShardIdRaw).      *)
(* Gas is counted in units small enough for the prices to be whole.  Every *)
(* transaction has a gas limit; one without it, for which the pool has 0,  *)
(* is divided by zero in the code and has no place in the order.           *)
(***************************************************************************)
EXTENDS Integers, Sequences, SequencesExt, FiniteSetsExt

CONSTANTS
    GAS_BUCKET_SIZE,
    minGasLimit, gasPerDataByte,
    gasPriceModifier   \* one over the modifier of the network

ASSUME PpuAssumption ==
    GAS_BUCKET_SIZE \in Nat \ {0} /\ minGasLimit \in Nat /\ gasPerDataByte \in Nat /\ gasPriceModifier \in Nat \ {0}

FAST_BUCKET_INDEX == 2
FASTER_BUCKET_INDEX == 0

calculatePpu(t) ==
    LET dataCost == minGasLimit + t.dataLength * gasPerDataByte
    IN  (dataCost * t.gasPrice * gasPriceModifier + (t.gasLimit - dataCost) * t.gasPrice) \div (t.gasLimit * gasPriceModifier)

\* The comparison the sort is given: may a come before b?
Precedes(a, b) ==
    IF a.sender = b.sender THEN a.nonce <= b.nonce
    ELSE IF calculatePpu(a) # calculatePpu(b) THEN calculatePpu(a) > calculatePpu(b)
    ELSE IF a.gasLimit # b.gasLimit THEN a.gasLimit > b.gasLimit
    ELSE a.rank <= b.rank

Orders(ts) == {s \in SetToSeqs(ts) : \A i, j \in DOMAIN s : i < j => Precedes(s[i], s[j])}

\* The comparison is no order when a sender's later transaction pays more: the sort may leave
\* any order then.
sortTransactionsByPriority(ts) == IF Orders(ts) # {} THEN Orders(ts) ELSE SetToSeqs(ts)

\* A bucket is closed by the transaction that fills it, the last one by the last transaction.
distributeTransactionsIntoGasBuckets_Strict(s) ==
    LET step(acc, t) ==
            LET gas == acc.gas + t.gasLimit
            IN  IF gas > GAS_BUCKET_SIZE THEN [ends |-> Append(acc.ends, calculatePpu(t)), gas |-> 0, open |-> FALSE]
                ELSE [acc EXCEPT !.gas = gas, !.open = TRUE]
        filled == FoldLeft(step, [ends |-> <<>>, gas |-> 0, open |-> FALSE], s)
    IN  IF filled.open THEN Append(filled.ends, calculatePpu(s[Len(s)])) ELSE filled.ends

distributeTransactionsIntoGasBuckets(s) ==
    LET step(acc, t) ==
            LET gas == acc.gas + t.gasLimit
            IN  IF gas >= GAS_BUCKET_SIZE THEN [ends |-> Append(acc.ends, calculatePpu(t)), gas |-> 0, open |-> FALSE]
                ELSE [acc EXCEPT !.gas = gas, !.open = TRUE]
        filled == FoldLeft(step, [ends |-> <<>>, gas |-> 0, open |-> FALSE], s)
    IN  IF filled.open THEN Append(filled.ends, calculatePpu(s[Len(s)])) ELSE filled.ends

\* The answers there may be for the transactions of a shard in the pool.
getPpuByShardIdRaw(ts) ==
    {LET ends == distributeTransactionsIntoGasBuckets(s)
         endOf(i) == IF Len(ends) > i THEN ends[i + 1] ELSE 0
     IN  [order |-> s, fast |-> endOf(FAST_BUCKET_INDEX), faster |-> endOf(FASTER_BUCKET_INDEX)]
     : s \in sortTransactionsByPriority(ts)}
=============================================================================
