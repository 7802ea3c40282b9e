--------------------------- MODULE TokenTransfers ---------------------------
(***************************************************************************)
(* The operations of a transaction, made of its smart contract results and *)
(* of the events of their logs (TokenTransferService), after the events    *)
(* recorded twice were dealt with (TransactionGetService) and before the   *)
(* operations recorded twice are dropped (TransactionUtils).  Topics are   *)
(* strings, already decoded; "" is an empty one.                           *)
(***************************************************************************)
EXTENDS Naturals, Sequences, SequencesExt

\* JSON.stringify(event.topics): a callback's event that repeats the event of the transfer
\* back has its first topic zeroed.
alterDuplicatedTransferValueOnlyEvents(events) ==
    LET of(d) == {i \in DOMAIN events : events[i].identifier = "transferValueOnly" /\ events[i].data = d}
        back == of("BackTransfer")
        callback == of("AsyncCallback")
        twice == \E i, j \in DOMAIN events :
                    back = {i} /\ callback = {j} /\ Len(events[j].topics) > 1 /\ events[i].topics = events[j].topics
    IN  [i \in DOMAIN events |-> IF twice /\ i \in callback THEN [events[i] EXCEPT !.topics[1] = "0"] ELSE events[i]]

\* Of ESDTTransfer events with the same content the first is kept.
removeDuplicatedESDTTransferEvents(events) ==
    LET repeats(i) == events[i].identifier = "ESDTTransfer" /\ \E j \in 1..(i - 1) : events[j] = events[i]
        kept == SelectSeq([i \in DOMAIN events |-> i], LAMBDA i : ~repeats(i))
    IN  [n \in DOMAIN kept |-> events[kept[n]]]

Operation(id, action, type, i, s, r, v) ==
    [id |-> id, action |-> action, type |-> type, identifier |-> i, sender |-> s, receiver |-> r, value |-> v]

getOperationsForTransactionScResults(results) ==
    LET moved == SelectSeq(results, LAMBDA r : r.nonce = 0 /\ r.value \notin {"", "0"})
    IN  [i \in DOMAIN moved |->
            Operation(moved[i].hash, "transfer", "egld", <<>>, moved[i].sender, moved[i].receiver, moved[i].value)]

getTransactionLogOperation(log, e, receiver) ==
    <<Operation(log.id, e.identifier, IF e.identifier = "writeLog" THEN "log" ELSE "error", <<>>, e.address, receiver, "")>>

\* Topics that are no transfer throw, and there is no operation.
getTransactionTransferValueOperation(log, e) ==
    CASE Len(e.topics) = 2 -> <<Operation(log.id, "transfer", "egld", <<>>, e.address, e.topics[2], e.topics[1])>>
      [] Len(e.topics) = 3 /\ e.topics[1] # "0" ->
            <<Operation(log.id, "transfer", "egld", <<>>, e.topics[1], e.topics[2], e.topics[3])>>
      [] OTHER -> <<>>

getOperationEsdtActionByEventIdentifier ==
    [ESDTNFTTransfer |-> "transfer", ESDTNFTBurn |-> "burn", ESDTNFTAddQuantity |-> "addQuantity",
     ESDTNFTCreate |-> "create", MultiESDTNFTTransfer |-> "transfer", ESDTTransfer |-> "transfer",
     ESDTBurn |-> "burn", ESDTLocalMint |-> "localMint", ESDTLocalBurn |-> "localBurn", ESDTWipe |-> "wipe",
     ESDTFreeze |-> "freeze"]

Topic(topics, i) == IF i <= Len(topics) THEN topics[i] ELSE ""

getTransactionNftOperation(log, address, topics, action) ==
    IF topics = <<>> THEN <<>>
    ELSE <<Operation(log.id, action, IF Topic(topics, 2) # "" THEN "nft" ELSE "esdt",
                     <<topics[1], Topic(topics, 2)>>, address,
                     IF Topic(topics, 4) # "" THEN topics[4] ELSE log.address, Topic(topics, 3))>>

\* Three topics a token, and the receiver as the last one.
getTransactionMultiESDTNFTOperations(log, address, topics, action) ==
    LET n == (Len(topics) + 1) \div 3
    IN  FlattenSeq([i \in 1..n |->
            getTransactionNftOperation(log, address,
                <<topics[3 * i - 2], Topic(topics, 3 * i - 1), Topic(topics, 3 * i), topics[Len(topics)]>>, action)])

OperationsOfEvent(log, e, sender) ==
    CASE e.identifier \in {"writeLog", "signalError"} -> getTransactionLogOperation(log, e, sender)
      [] e.identifier = "transferValueOnly" -> getTransactionTransferValueOperation(log, e)
      [] e.identifier = "MultiESDTNFTTransfer" ->
            getTransactionMultiESDTNFTOperations(log, e.address, e.topics, "transfer")
      [] e.identifier \in DOMAIN getOperationEsdtActionByEventIdentifier \ {"MultiESDTNFTTransfer"} ->
            getTransactionNftOperation(log, e.address, e.topics, getOperationEsdtActionByEventIdentifier[e.identifier])
      [] OTHER -> <<>>

getOperationsForTransactionLogs(logs, sender) ==
    FlattenSeq([l \in DOMAIN logs |->
        FlattenSeq([i \in DOMAIN logs[l].events |-> OperationsOfEvent(logs[l], logs[l].events[i], sender)])])

getOperationsForTransaction(results, logs, sender) ==
    getOperationsForTransactionScResults(results) \o getOperationsForTransactionLogs(logs, sender)

\* The same transfer, whichever of the results it was recorded for.
Moves(o) == [o EXCEPT !.id = ""]

\* A transfer that the result before it recorded too is dropped; the sender's own come first.
trimOperations_AnyIdentical(sender, operations, previousHashes) ==
    SelectSeq(operations, LAMBDA o : ~(o.action = "transfer" /\ \E x \in Range(operations) : Moves(x) = Moves(o) /\ x.id # o.id))

trimOperations(sender, operations, previousHashes) ==
    LET twice(o) ==
            /\ o.action = "transfer" /\ o.id \in DOMAIN previousHashes
            /\ \E x \in Range(operations) : Moves(x) = Moves(o) /\ x.id = previousHashes[o.id]
        kept == SelectSeq(operations, LAMBDA o : ~twice(o))
    IN  SelectSeq(kept, LAMBDA o : o.sender = sender) \o SelectSeq(kept, LAMBDA o : o.sender # sender)
=============================================================================
