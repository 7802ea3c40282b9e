--------------------------- MODULE TransactionView ---------------------------
(***************************************************************************)
(* What the API shows of a transaction while it goes through the network:  *)
(* a request reads the index, and the gateway for what the index does not  *)
(* have, one query at a time; the index follows the chain part by part;    *)
(* TransactionCompletedService follows it too, keeps a cache key for each  *)
(* transaction that waits for results of other shards, and tells the       *)
(* subscribers.                                                            *)
(***************************************************************************)
EXTENDS Actions, TokenTransfers, FiniteSets

CONSTANTS
    Hashes,       \* the transactions
    Tx,           \* Tx[t]: the transaction, as Actions has it, and its nonce
    Results,      \* Results[t]: its smart contract results
    Logs,         \* Logs[t]: the logs of it and of its results
    MaxTroubles   \* how often a query fails or the processor is restarted

ASSUME ViewAssumption ==
    /\ IsFiniteSet(Hashes) /\ MaxTroubles \in Nat
    /\ \A t \in Hashes : \A i \in DOMAIN Results[t] : Results[t][i].hash \notin Hashes

VARIABLES
    gateway,      \* what the gateway knows of a transaction
    doc,          \* the status its document in the index has
    parts,        \* the other indices that have its documents
    fresh,        \* its timestamp is of the last 20 minutes
    pendingKey,   \* is its key TransactionPendingResults there
    saved,        \* what TransactionCompletedService is done with, by the nonces it saved
    waiting,      \* the transactions whose results the library of the processor awaits
    tc,           \* the step of the processor
    told,         \* the events emitted, each with the room
    req,          \* the request that is served
    answer,       \* the answer to the last one
    seen,         \* the transactions some answer had
    troubles

chainVars == <<gateway, doc, parts, fresh>>
tcVars == <<pendingKey, saved, waiting, tc, told>>
reqVars == <<req, answer, seen>>
vars == <<gateway, doc, parts, fresh, pendingKey, saved, waiting, tc, told, req, answer, seen, troubles>>

\* A transaction with results in other shards is completed after them.
IsCrossShard(t) == Results[t] # <<>>
SameNonce(t) == {u \in Hashes \ {t} : Tx[u].sender = Tx[t].sender /\ Tx[u].nonce = Tx[t].nonce}
InABlock(t) == gateway[t] \in {"transit", "executed", "completed"}

NoRequest == [pc |-> "idle"]
NoAnswer == [code |-> "none"]

Init ==
    /\ gateway = [t \in Hashes |-> "absent"] /\ doc = [t \in Hashes |-> "absent"]
    /\ parts = [t \in Hashes |-> {}] /\ fresh = [t \in Hashes |-> TRUE]
    /\ pendingKey = [t \in Hashes |-> FALSE] /\ saved = [t \in Hashes |-> "none"] /\ waiting = {}
    /\ tc = [pc |-> "idle"] /\ told = {}
    /\ req = NoRequest /\ answer = NoAnswer /\ seen = {} /\ troubles = 0

\* A query fails, or a process is restarted.
Trouble == troubles < MaxTroubles /\ troubles' = troubles + 1

-----------------------------------------------------------------------------
(* The network and its indexer.                                            *)

createTransaction(t) ==
    /\ gateway[t] = "absent" /\ ~\E u \in SameNonce(t) : InABlock(u)
    /\ gateway' = [gateway EXCEPT ![t] = "pool"]
    /\ UNCHANGED <<doc, parts, fresh, tcVars, reqVars, troubles>>

\* One of the transactions with a nonce gets into a block; a result block follows.
Execute(t) ==
    /\ \/ gateway[t] = "pool" /\ (\A u \in SameNonce(t) : ~InABlock(u)) /\ gateway' = [gateway EXCEPT ![t] = "transit"]
       \/ gateway[t] = "transit" /\ gateway' = [gateway EXCEPT ![t] = "executed"]
       \/ gateway[t] = "executed" /\ gateway' = [gateway EXCEPT ![t] = "completed"]
    /\ UNCHANGED <<doc, parts, fresh, tcVars, reqVars, troubles>>

IndexTransaction(t) ==
    /\ InABlock(t)
    /\ doc' = [doc EXCEPT ![t] = IF gateway[t] = "transit" THEN "pending" ELSE "success"]
    /\ UNCHANGED <<gateway, parts, fresh, tcVars, reqVars, troubles>>

Documents(t) == (IF Results[t] = <<>> THEN {} ELSE {"results"}) \cup (IF Logs[t] = <<>> THEN {} ELSE {"logs"})

IndexPart(t) ==
    /\ gateway[t] \in {"executed", "completed"}
    /\ \E p \in Documents(t) \ parts[t] : parts' = [parts EXCEPT ![t] = @ \cup {p}]
    /\ UNCHANGED <<gateway, doc, fresh, tcVars, reqVars, troubles>>

\* Twenty minutes are over.  The age is that of the key, and only these have one.
Age(t) ==
    /\ IsCrossShard(t) /\ InABlock(t) /\ fresh[t] /\ fresh' = [fresh EXCEPT ![t] = FALSE]
    /\ UNCHANGED <<gateway, doc, parts, tcVars, reqVars, troubles>>

-----------------------------------------------------------------------------
(* TransactionCompletedService and the publisher of its events.            *)

\* The rooms an event about a transaction goes to.
emitTransactionEvent(t) ==
    LET m == getTransactionMetadata(Tx[t])
    IN  {Tx[t].sender} \cup
        (IF Tx[t].sender # Tx[t].receiver THEN {Tx[t].receiver}
         ELSE IF m \notin {NoMetadata, ThrownMetadata} THEN {m.receiver} ELSE {})

Emit(event, t) == told' = told \cup {<<event, t, room>> : room \in emitTransactionEvent(t)}

onTransactionsPending(t) ==
    /\ tc.pc = "idle" /\ IsCrossShard(t) /\ saved[t] = "none" /\ gateway[t] \in {"executed", "completed"}
    /\ pendingKey' = [pendingKey EXCEPT ![t] = TRUE]
    /\ tc' = [pc |-> "emitPending", tx |-> t]
    /\ UNCHANGED <<saved, waiting, told, chainVars, reqVars, troubles>>

EmitPendingResults ==
    /\ tc.pc = "emitPending"
    /\ Emit("transactionPendingResults", tc.tx)
    /\ tc' = [tc EXCEPT !.pc = "save"]
    /\ UNCHANGED <<pendingKey, saved, waiting, chainVars, reqVars, troubles>>

\* The keys that are in the cache are read before they are deleted.
onTransactionsReceived(t) ==
    /\ tc.pc = "idle" /\ gateway[t] = "completed" /\ saved[t] # "completed"
    /\ IsCrossShard(t) => t \in waiting
    /\ tc' = [pc |-> IF pendingKey[t] THEN "delete" ELSE "emit", tx |-> t]
    /\ UNCHANGED <<pendingKey, saved, waiting, told, chainVars, reqVars, troubles>>

batchDelCache ==
    /\ tc.pc = "delete"
    /\ pendingKey' = [pendingKey EXCEPT ![tc.tx] = FALSE]
    /\ tc' = [tc EXCEPT !.pc = "emit"]
    /\ UNCHANGED <<saved, waiting, told, chainVars, reqVars, troubles>>

\* The deletion is not awaited.
EmitCompleted_Early ==
    /\ tc.pc \in {"delete", "emit"}
    /\ Emit("transactionCompleted", tc.tx)
    /\ tc' = [tc EXCEPT !.pc = IF @ = "delete" THEN "delete" ELSE "saveCompleted"]
    /\ UNCHANGED <<pendingKey, saved, waiting, chainVars, reqVars, troubles>>

EmitCompleted ==
    /\ tc.pc = "emit"
    /\ Emit("transactionCompleted", tc.tx)
    /\ tc' = [tc EXCEPT !.pc = "saveCompleted"]
    /\ UNCHANGED <<pendingKey, saved, waiting, chainVars, reqVars, troubles>>

setLastProcessedNonce ==
    /\ tc.pc \in {"save", "saveCompleted"}
    /\ saved' = [saved EXCEPT ![tc.tx] = IF tc.pc = "save" THEN "pending" ELSE "completed"]
    /\ waiting' = IF tc.pc = "save" THEN waiting \cup {tc.tx} ELSE waiting \ {tc.tx}
    /\ tc' = [pc |-> "idle"]
    /\ UNCHANGED <<pendingKey, told, chainVars, reqVars, troubles>>

\* A restart: the nonces are in the cache, what the library awaits is in memory.
Restart ==
    /\ Trouble
    /\ tc' = [pc |-> "idle"] /\ waiting' = {}
    /\ UNCHANGED <<pendingKey, saved, told, chainVars, reqVars>>

\* The time to live of the key, which was set after the timestamp, is 20 minutes too.
Expire(t) ==
    /\ pendingKey[t] /\ ~fresh[t] /\ pendingKey' = [pendingKey EXCEPT ![t] = FALSE]
    /\ UNCHANGED <<saved, waiting, tc, told, chainVars, reqVars, troubles>>

-----------------------------------------------------------------------------
(* A request for the details of a transaction, or for a list of            *)
(* transactions by hash with their operations.                             *)

Continue == UNCHANGED <<answer, seen, chainVars, tcVars, troubles>>

\* `seen' and `done' of a request: the answer had the transaction before, its completion
\* was announced before.
Ask(kind, t) ==
    /\ req = NoRequest
    /\ req' = [pc |-> "elastic", kind |-> kind, tx |-> t, seen |-> t \in seen, failed |-> FALSE,
               done |-> \E room \in emitTransactionEvent(t) : <<"transactionCompleted", t, room>> \in told,
               status |-> "", results |-> <<>>, logs |-> <<>>]
    /\ answer' = NoAnswer
    /\ UNCHANGED <<seen, chainVars, tcVars, troubles>>

Goto(pc) == req' = [req EXCEPT !.pc = pc]
Fallback(pc) == req' = [req EXCEPT !.pc = pc, !.failed = TRUE, !.status = "", !.results = <<>>, !.logs = <<>>]

\* An answer without the transaction.
Without(code, failed) ==
    /\ answer' = [code |-> code, tx |-> req.tx, kind |-> req.kind, failed |-> req.failed \/ failed, seen |-> req.seen,
                  done |-> req.done]
    /\ req' = NoRequest /\ UNCHANGED <<seen, chainVars, tcVars>>

tryGetTransactionFromElastic ==
    /\ req.pc = "elastic"
    /\ \/ doc[req.tx] = "absent" /\ Goto("gateway") /\ Continue
       \/ doc[req.tx] # "absent" /\ req' = [req EXCEPT !.pc = "results", !.status = doc[req.tx]] /\ Continue
       \/ Trouble /\ Without("500", TRUE)

\* A query for the rest that fails: the details come from the gateway then, the list fails.
ExtrasFail ==
    /\ Trouble
    /\ \/ req.kind = "details" /\ Fallback("gateway") /\ UNCHANGED <<answer, seen, chainVars, tcVars>>
       \/ req.kind = "list" /\ Without("500", TRUE)

getTransactionScResultsFromElastic ==
    /\ req.pc = "results"
    /\ \/ /\ req' = [req EXCEPT !.pc = "logs", !.results = IF "results" \in parts[req.tx] THEN Results[req.tx] ELSE <<>>]
          /\ Continue
       \/ ExtrasFail

\* The logs of the transaction and of the results that were read.
LogsOf(t, results) ==
    SelectSeq(Logs[t], LAMBDA l : l.id = t \/ \E i \in DOMAIN results : results[i].hash = l.id)

getTransactionLogsFromElastic ==
    /\ req.pc = "logs"
    /\ \/ /\ req' = [req EXCEPT !.pc = "process", !.logs = IF "logs" \in parts[req.tx] THEN LogsOf(req.tx, req.results) ELSE <<>>]
          /\ Continue
       \/ ExtrasFail

GatewayStatus(t) == IF gateway[t] \in {"pool", "transit"} THEN "pending" ELSE "success"

\* Every error is swallowed here: the answer is that there is no such transaction.
tryGetTransactionFromGateway ==
    /\ req.pc = "gateway"
    /\ \/ gateway[req.tx] = "absent" /\ Without("404", FALSE) /\ UNCHANGED troubles
       \/ /\ gateway[req.tx] # "absent"
          /\ req' = [req EXCEPT !.status = GatewayStatus(req.tx),
                                !.pc = IF req.kind = "list" THEN "logs"
                                       ELSE IF GatewayStatus(req.tx) = "pending" THEN "nonce" ELSE "process"]
          /\ Continue
       \/ Trouble /\ Without("404", TRUE)

\* Of the indexed transactions with the sender and the nonce, one is not this one.
IsReplaced_ByItself(t) == \E u \in SameNonce(t) \cup {t} : doc[u] # "absent"

IsReplaced(t) == \E u \in SameNonce(t) : doc[u] # "absent"


tryGetTransactionFromElasticBySenderAndNonce ==
    /\ req.pc = "nonce"
    /\ \/ IsReplaced(req.tx) /\ Without("404", FALSE) /\ UNCHANGED troubles
       \/ ~IsReplaced(req.tx) /\ Goto("process") /\ Continue
       \/ Trouble /\ Without("404", TRUE)

getPendingResults(t) == fresh[t] /\ pendingKey[t]

\* The details have the events recorded twice dealt with, the list has not.
AnsweredLogs(r) ==
    IF r.kind = "list" THEN r.logs
    ELSE [l \in DOMAIN r.logs |->
            [r.logs[l] EXCEPT !.events = removeDuplicatedESDTTransferEvents(alterDuplicatedTransferValueOnlyEvents(@))]]

previousHashes(results) ==
    [h \in {r.hash : r \in Range(results)} |-> (CHOOSE r \in Range(results) : r.hash = h).prevTxHash]

AllOperations(r) == getOperationsForTransaction(r.results, AnsweredLogs(r), Tx[r.tx].sender)
RecordedOperations(r) == getOperationsForTransaction(r.results, r.logs, Tx[r.tx].sender)
ShownOperations(r) == trimOperations(Tx[r.tx].sender, AllOperations(r), previousHashes(r.results))

\* An event of a result says that the transaction is completed: the details have no
\* pendingResults then, and still the status.
HasCompletedTxEvent(r) ==
    \E l \in Range(r.logs) : l.id # r.tx /\ \E e \in Range(l.events) : e.identifier = "completedTxEvent"

\* An action that cannot be recognized leaves the pending results out too.
processTransactions ==
    /\ req.pc = "process"
    /\ LET action == getTransactionAction(Tx[req.tx])
           pending == action # Thrown /\ getPendingResults(req.tx)
       IN  answer' = [code |-> "200", tx |-> req.tx, kind |-> req.kind, failed |-> req.failed, seen |-> req.seen,
                      done |-> req.done, action |-> action,
                      status |-> IF pending THEN "pending" ELSE req.status,
                      pendingResults |-> pending /\ ~(req.kind = "details" /\ HasCompletedTxEvent(req)),
                      recorded |-> RecordedOperations(req), operations |-> ShownOperations(req)]
    /\ req' = NoRequest /\ seen' = seen \cup {req.tx}
    /\ UNCHANGED <<chainVars, tcVars, troubles>>

-----------------------------------------------------------------------------

Next ==
    \/ \E t \in Hashes : \/ createTransaction(t) \/ Execute(t) \/ IndexTransaction(t) \/ IndexPart(t) \/ Age(t)
                         \/ onTransactionsPending(t) \/ onTransactionsReceived(t) \/ Expire(t)
                         \/ Ask("details", t) \/ Ask("list", t)
    \/ EmitPendingResults \/ batchDelCache \/ EmitCompleted \/ setLastProcessedNonce \/ Restart
    \/ tryGetTransactionFromElastic \/ getTransactionScResultsFromElastic \/ getTransactionLogsFromElastic
    \/ tryGetTransactionFromGateway \/ tryGetTransactionFromElasticBySenderAndNonce \/ processTransactions

Spec == Init /\ [][Next]_vars

-----------------------------------------------------------------------------
(* The properties.                                                         *)

\* A transaction that was shown stays there: between the pool, the blocks and the index no
\* request falls through.  Only a transaction with the same nonce that got into a block takes
\* it away, or a query that fails.
NeverForgotten ==
    answer.code = "404" /\ answer.seen /\ ~answer.failed => \E u \in SameNonce(answer.tx) : InABlock(u)

\* Who was told that a transaction is completed and asks for it is not answered that it waits
\* for results: the key is deleted before the event is emitted, and no block that is read
\* again after a restart brings it back.
CompletedIsFinal ==
    answer.code = "200" /\ answer.done => ~answer.pendingResults

\* Nothing that was moved gets lost: three passes take out what is recorded more than once
\* (the callback of a transfer back, the same event twice in a log, the same transfer in the
\* result after), and of all that the results and logs record something is left to show,
\* whatever was read and whichever of the passes the request goes through.  Nor is anything
\* shown that is not recorded.  An amount of zero is nothing.
NoMovementLost ==
    LET moved(operations) == {Moves(o) : o \in {x \in Range(operations) : x.value # "0"}}
    IN  answer.code = "200" => moved(answer.recorded) = moved(answer.operations)
=============================================================================
