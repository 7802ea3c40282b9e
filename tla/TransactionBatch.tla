-------------------------- MODULE TransactionBatch --------------------------
(***************************************************************************)
(* Transaction batches.  A client posts groups of signed transactions; the *)
(* first group is sent at once, each further group when every transaction  *)
(* of the one before it has succeeded on chain.  Three kinds of process    *)
(* share two families of Redis keys, transactionbatch:<address>:<id> and   *)
(* pendingtransaction:<hash>:                                              *)
(*                                                                         *)
(*  - a request runs TransactionsBatchController.startTransactionBatch;    *)
(*  - a handler runs handleTransactionBatches for the transactions of one  *)
(*    block.  Its promise is not awaited, so handlers overlap;             *)
(*  - a dropper runs the cron job handleDroppedTransactions.               *)
(*                                                                         *)
(* Every process reads a batch, works on its own copy and writes the copy  *)
(* back.  A step is the code from one await to the next.                   *)
(*                                                                         *)
(* Time appears in two places only: a pending key becomes old (10 minutes, *)
(* when the dropper looks at it) and then expires (15), and a batch        *)
(* expires (20) after the keys written just before it.                     *)
(***************************************************************************)
EXTENDS Naturals, Sequences, Functions

CONSTANTS
    Requests,       \* POST /batch calls
    Handlers,       \* handleTransactionBatches calls that may overlap
    Droppers,       \* handleDroppedTransactions calls that may overlap
    Batches,        \* batch keys: one per address and batch id
    Txs,            \* signed transactions, by hash
    NoBatch, NoKey, \* an absent Redis value
    BatchOf,        \* BatchOf[r]: the key of the batch request r posts
    Groups,         \* Groups[r]: its groups, sequences of transactions
    IdOf,           \* IdOf[k]: the batch id within the key k
    SlowTxs,        \* transactions that may take longer than 10 minutes
    FastBlocks,     \* may a block be handled before its sender has saved?
    MaxCrashes      \* bound: restarts of the transaction processor

Procs == Requests \cup Handlers \cup Droppers

\* The transactions of a sequence of groups.
TxsOf(groups) == UNION {Range(groups[g]) : g \in DOMAIN groups}

ASSUME BatchAssumption ==
    /\ Requests \cap Handlers = {}
    /\ Requests \cap Droppers = {}
    /\ Handlers \cap Droppers = {}
    /\ BatchOf \in [Requests -> Batches]
    /\ DOMAIN IdOf = Batches
    /\ Groups \in [Requests -> Seq(Seq(Txs))]
    /\ \A r \in Requests :
          /\ Groups[r] # << >>
          /\ \A g \in DOMAIN Groups[r] : Groups[r][g] # << >>
    /\ NoKey \notin Txs /\ NoBatch \notin Batches
    /\ SlowTxs \subseteq Txs
    /\ FastBlocks \in BOOLEAN
    /\ MaxCrashes \in Nat

VARIABLES
    store,       \* Redis: the batches
    pendingKey,  \* Redis: the batch a sent transaction belongs to, and whether
                 \* its date is more than 10 minutes ago
    chain,       \* the network: what became of a transaction
    undelivered, \* executed transactions the processor has not been handed yet
    proc,        \* the state of each process
    response,    \* what each request was answered
    notified,    \* onBatchUpdated events, as pairs of a batch and a transaction
    submissions, \* history: how often a transaction was submitted, up to 2
    failed,      \* history: batches that have been stored as invalid
    crashes      \* restarts so far

vars == <<store, pendingKey, chain, undelivered, proc, response, notified,
          submissions, failed, crashes>>

ItemStatus  == {"pending", "invalid", "dropped", "success", "fail"}
BatchStatus == {"pending", "invalid", "dropped", "success"}
Outcome     == {"success", "fail", "invalid"}

Idle == [pc |-> "idle", key |-> NoBatch, batch |-> NoBatch, tx |-> NoKey,
         group |-> 0, next |-> 0, keys |-> {}, todo |-> {}, done |-> << >>]

Init ==
    /\ store = [k \in Batches |-> NoBatch]
    /\ pendingKey = [t \in Txs |-> NoKey]
    /\ chain = [t \in Txs |-> "unsent"]
    /\ undelivered = {}
    /\ proc = [p \in Procs |-> Idle]
    /\ response = [r \in Requests |-> "none"]
    /\ notified = {}
    /\ submissions = [t \in Txs |-> 0]
    /\ failed = {}
    /\ crashes = 0

----------------------------------------------------------------------------
(***************************************************************************)
(* Starting a group: startTransactionGroup and executeTransaction, run by  *)
(* requests and by handlers.                                               *)
(***************************************************************************)

\* The items of the group being started, of process p's copy.
StartedItems(p) == proc[p].batch.groups[proc[p].group]

\* Some item of the group is invalid: the group could not be started.
GroupInvalid(p) ==
    \E t \in Range(StartedItems(p)) : proc[p].batch.item[t] = "invalid"

\* Mutant: the sent transactions get no pending key.
AfterSends_NoKeys(p) == [p EXCEPT !.pc = "keys"]

\* Every item sent, or one refused: on to the pending keys.
AfterSends(p) ==
    [p EXCEPT !.pc = "keys",
              !.keys = {t \in Range(SubSeq(p.batch.groups[p.group], 1, p.next - 1)) :
                            p.batch.item[t] = "pending"}]

\* The next item has been given to createTransaction, with this status.
SendNext(p, status) ==
    LET t     == StartedItems(p)[proc[p].next]
        after == [proc[p] EXCEPT !.batch.item[t] = status, !.next = @ + 1]
    IN  /\ proc[p].pc = "send"
        /\ submissions' = [submissions EXCEPT ![t] = IF @ < 2 THEN @ + 1 ELSE @]
        /\ proc' = [proc EXCEPT ![p] =
                      IF status = "invalid" \/ after.next > Len(StartedItems(p))
                      THEN AfterSends(after) ELSE after]
        /\ UNCHANGED <<store, pendingKey, undelivered, response, notified,
                       failed, crashes>>

\* The network has the transaction; one it has seen before changes nothing.
Accepted(t) == chain' = [chain EXCEPT ![t] = IF @ = "unsent" THEN "sent" ELSE @]

\* The gateway takes the transaction and answers with its hash.
SendAccepted(p) ==
    /\ proc[p].pc = "send"
    /\ Accepted(StartedItems(p)[proc[p].next])
    /\ SendNext(p, proc[p].batch.item[StartedItems(p)[proc[p].next]])

\* The gateway refuses it: no hash, the item is invalid, the rest is not sent.
SendRefused(p) == SendNext(p, "invalid") /\ UNCHANGED chain

\* The gateway takes it but the answer is lost: invalid all the same.
SendUnanswered(p) ==
    /\ proc[p].pc = "send"
    /\ Accepted(StartedItems(p)[proc[p].next])
    /\ SendNext(p, "invalid")

\* One of the setRemote calls of Promise.all.
SetPendingKey(p) ==
    \E t \in proc[p].keys :
        /\ proc[p].pc = "keys"
        /\ pendingKey' = [pendingKey EXCEPT ![t] = [batch |-> proc[p].key, old |-> FALSE]]
        /\ proc' = [proc EXCEPT ![p].keys = @ \ {t}]
        /\ UNCHANGED <<store, chain, undelivered, response, notified,
                       submissions, failed, crashes>>

----------------------------------------------------------------------------
(***************************************************************************)
(* Requests.                                                               *)
(***************************************************************************)

\* convertFromTransactionBatch: what clients are shown of a batch.
Simplified(batch) ==
    [status |-> batch.status,
     item   |-> [t \in DOMAIN batch.item |->
                   IF batch.status = "invalid" /\ batch.item[t] = "pending"
                   THEN "invalid" ELSE batch.item[t]]]

\* convertToTransactionBatch, and the statuses startTransactionBatch resets.
NewBatch(groups) ==
    [groups |-> groups, status |-> "pending",
     item   |-> [t \in TxsOf(groups) |-> "pending"]]

\* Mutant: a duplicate is answered with the stored batch.
PostDuplicate_ReturnsStored(r) ==
    /\ proc[r] = Idle
    /\ store[BatchOf[r]] # NoBatch
    /\ proc' = [proc EXCEPT ![r].pc = "end"]
    /\ response' = [response EXCEPT ![r] = Simplified(store[BatchOf[r]]).status]
    /\ UNCHANGED <<store, pendingKey, chain, undelivered, notified,
                   submissions, failed, crashes>>

\* A batch of this id and address is stored: 400, nothing is sent.
PostDuplicate(r) ==
    /\ proc[r] = Idle
    /\ store[BatchOf[r]] # NoBatch
    /\ proc' = [proc EXCEPT ![r].pc = "end"]
    /\ response' = [response EXCEPT ![r] = "rejected"]
    /\ UNCHANGED <<store, pendingKey, chain, undelivered, notified,
                   submissions, failed, crashes>>

\* No such batch is stored at the time of the read: start the first group.
PostBatch(r) ==
    /\ proc[r] = Idle
    /\ store[BatchOf[r]] = NoBatch
    /\ proc' = [proc EXCEPT ![r] = [Idle EXCEPT !.pc = "send", !.key = BatchOf[r],
                                      !.batch = NewBatch(Groups[r]),
                                      !.group = 1, !.next = 1]]
    /\ UNCHANGED <<store, pendingKey, chain, undelivered, response, notified,
                   submissions, failed, crashes>>

\* The first group could not be started: the answer is invalid, nothing saved.
PostInvalid(r) ==
    /\ proc[r].pc = "keys"
    /\ proc[r].keys = {}
    /\ GroupInvalid(r)
    /\ response' = [response EXCEPT ![r] = "invalid"]
    /\ proc' = [proc EXCEPT ![r] = [Idle EXCEPT !.pc = "end"]]
    /\ UNCHANGED <<store, pendingKey, chain, undelivered, notified,
                   submissions, failed, crashes>>

\* The first group is started: save the batch, answer.
PostSaved(r) ==
    /\ proc[r].pc = "keys"
    /\ proc[r].keys = {}
    /\ ~GroupInvalid(r)
    /\ store' = [store EXCEPT ![proc[r].key] = proc[r].batch]
    /\ response' = [response EXCEPT ![r] = Simplified(proc[r].batch).status]
    /\ proc' = [proc EXCEPT ![r] = [Idle EXCEPT !.pc = "end"]]
    /\ UNCHANGED <<pendingKey, chain, undelivered, notified, submissions,
                   failed, crashes>>

----------------------------------------------------------------------------
(***************************************************************************)
(* Handlers.                                                               *)
(***************************************************************************)

\* Process p, at work, has a transaction t to send or sent and not saved.
Starting(p, t) ==
    /\ proc[p].pc \in {"send", "keys", "save"}
    /\ proc[p].group # 0
    /\ t \in Range(StartedItems(p))

\* onTransactionsReceived for a block with the transactions T: the handler
\* reads their pending keys and keeps those that have one.
ReceiveBlock(h) ==
    \E T \in SUBSET undelivered :
        /\ T # {}
        /\ proc[h].pc = "idle"
        /\ FastBlocks \/ \A p \in Procs, t \in T : ~Starting(p, t)
        /\ undelivered' = undelivered \ T
        /\ proc' = [proc EXCEPT ![h].pc = "next",
                                ![h].todo = {<<t, pendingKey[t].batch>> :
                                               t \in {u \in T : pendingKey[u] # NoKey}}]
        /\ UNCHANGED <<store, pendingKey, chain, response, notified,
                       submissions, failed, crashes>>

\* The group of the batch that holds t.
GroupOf(batch, t) ==
    CHOOSE g \in DOMAIN batch.groups : t \in Range(batch.groups[g])

\* Mutant: a failed transaction is recorded as successful.
WithStatus_FailIsSuccess(batch, t, status) ==
    [batch EXCEPT !.item[t] = IF status = "fail" THEN "success" ELSE status]

\* item.status = status
WithStatus(batch, t, status) == [batch EXCEPT !.item[t] = status]

\* Mutant: some item of the group has succeeded.
GroupSucceeded_SomeItem(batch, g) ==
    \E u \in Range(batch.groups[g]) : batch.item[u] = "success"

\* group.items.every(item => item.status === success)
GroupSucceeded(batch, g) ==
    \A u \in Range(batch.groups[g]) : batch.item[u] = "success"

\* Mutant: the group before the last one is taken for the last.
IsLastGroup_TooEarly(batch, g) == g + 1 >= Len(batch.groups)

\* index + 1 >= batch.groups.length, with indices from 0
IsLastGroup(batch, g) == g + 1 > Len(batch.groups)

\* Mutant: a failed transaction lets the batch go on.
Apply_FailContinues(local, batch, t, status) ==
    LET updated == WithStatus(batch, t, status)
        g       == GroupOf(batch, t)
    IN  IF status # "invalid" /\ ~IsLastGroup(batch, g)
        THEN [local EXCEPT !.pc = "send", !.batch = updated, !.group = g + 1, !.next = 1]
        ELSE [local EXCEPT !.pc = "save", !.batch = updated]

\* The transition of processTransaction: the handler's state once it has t's
\* status and the batch it read.  The next group is started, or the copy saved.
Apply(local, batch, t, status) ==
    LET updated   == WithStatus(batch, t, status)
        g         == GroupOf(batch, t)
        completed == status = "success" /\ GroupSucceeded(updated, g)
        newStatus == IF status = "invalid" THEN "invalid"
                     ELSE IF completed THEN "success" ELSE "pending"
    IN  IF batch.status = "pending" /\ completed /\ ~IsLastGroup(batch, g)
        THEN [local EXCEPT !.pc = "send", !.batch = updated, !.group = g + 1, !.next = 1]
        ELSE [local EXCEPT !.pc = "save",
                !.batch = [updated EXCEPT !.status = IF @ = "pending" THEN newStatus ELSE @]]

\* processTransaction reads the batch of the next transaction.
ReadBatch(h) ==
    \E w \in proc[h].todo :
        LET t     == w[1]
            batch == store[w[2]]
            local == [proc[h] EXCEPT !.tx = t, !.key = w[2], !.todo = @ \ {w}]
        IN  /\ proc[h].pc = "next"
            /\ proc' = [proc EXCEPT ![h] =
                          IF batch = NoBatch THEN [local EXCEPT !.pc = "delete"]
                          ELSE IF t \notin DOMAIN batch.item
                          THEN [local EXCEPT !.pc = "delete"]
                          ELSE Apply(local, batch, t, chain[t])]
            /\ UNCHANGED <<store, pendingKey, chain, undelivered, response,
                           notified, submissions, failed, crashes>>

\* The next group has been started, or not: then the batch is invalid, and
\* its address is told which transactions failed.
GroupStarted(h) ==
    /\ proc[h].pc = "keys"
    /\ proc[h].keys = {}
    /\ proc' = [proc EXCEPT ![h].pc = "save",
                            ![h].batch.status = IF GroupInvalid(h) THEN "invalid" ELSE @]
    /\ notified' = notified \cup
         {<<proc[h].key, t>> : t \in {u \in Range(StartedItems(h)) :
                                        proc[h].batch.item[u] = "invalid"}}
    /\ UNCHANGED <<store, pendingKey, chain, undelivered, response, submissions,
                   failed, crashes>>

\* setRemote of the batch, by a handler or a dropper.
SaveBatch(p) ==
    /\ proc[p].pc = "save"
    /\ store' = [store EXCEPT ![proc[p].key] = proc[p].batch]
    /\ failed' = IF proc[p].batch.status = "invalid" THEN failed \cup {proc[p].key} ELSE failed
    /\ proc' = [proc EXCEPT ![p].pc = "delete"]
    /\ UNCHANGED <<pendingKey, chain, undelivered, response, notified,
                   submissions, crashes>>

\* deleteInCache of the pending key; the transaction counts as processed.
DeletePendingKey(p) ==
    /\ proc[p].pc = "delete"
    /\ pendingKey' = [pendingKey EXCEPT ![proc[p].tx] = NoKey]
    /\ proc' = [proc EXCEPT ![p] = [Idle EXCEPT !.pc = "next", !.todo = proc[p].todo,
                                      !.done = Append(proc[p].done, <<proc[p].key, proc[p].tx>>)]]
    /\ UNCHANGED <<store, chain, undelivered, response, notified, submissions,
                   failed, crashes>>

\* Mutant: an event names its first transaction only.
BatchEvents_FirstOnly(done) == {done[i] : i \in DOMAIN done \cap {1}}

\* The events of processed transactions: one per batch id, sent to the address
\* of the first transaction with that id.
BatchEvents(done) ==
    UNION {{<<done[i][1], done[j][2]>> :
                i \in {i \in DOMAIN done :
                         /\ IdOf[done[i][1]] = IdOf[done[j][1]]
                         /\ \A l \in 1..(i - 1) : IdOf[done[l][1]] # IdOf[done[j][1]]}} :
           j \in DOMAIN done}

\* Nothing left to process: emit onBatchUpdated.
EmitUpdates(p) ==
    /\ proc[p].pc = "next"
    /\ proc[p].todo = {}
    /\ notified' = notified \cup BatchEvents(proc[p].done)
    /\ proc' = [proc EXCEPT ![p] = Idle]
    /\ UNCHANGED <<store, pendingKey, chain, undelivered, response, submissions,
                   failed, crashes>>

----------------------------------------------------------------------------
(***************************************************************************)
(* Droppers.                                                               *)
(***************************************************************************)

\* The pending keys whose date is more than 10 minutes ago.
FindOldKeys(d) ==
    LET old == {t \in Txs : pendingKey[t] # NoKey /\ pendingKey[t].old}
    IN  /\ proc[d].pc = "idle"
        /\ old # {}
        /\ proc' = [proc EXCEPT ![d].pc = "next",
                                ![d].todo = {<<t, pendingKey[t].batch>> : t \in old}]
        /\ UNCHANGED <<store, pendingKey, chain, undelivered, response,
                       notified, submissions, failed, crashes>>

\* getTransaction finds the transaction, or throws: leave it alone.
DropperSkips(d) ==
    \E w \in proc[d].todo :
        /\ proc[d].pc = "next"
        /\ proc' = [proc EXCEPT ![d].todo = @ \ {w}]
        /\ UNCHANGED <<store, pendingKey, chain, undelivered, response,
                       notified, submissions, failed, crashes>>

\* getTransaction finds nothing (also when the gateway fails, whatever the
\* transaction's fate): a pending item of a stored batch is dropped.
DropperDrops(d) ==
    \E w \in proc[d].todo :
        LET t     == w[1]
            batch == store[w[2]]
            local == [proc[d] EXCEPT !.todo = @ \ {w}]
            drops == batch # NoBatch /\ t \in DOMAIN batch.item /\ batch.item[t] = "pending"
        IN  /\ proc[d].pc = "next"
            /\ proc' = [proc EXCEPT ![d] =
                          IF drops
                          THEN [local EXCEPT !.pc = "save", !.tx = t, !.key = w[2],
                                  !.batch = [batch EXCEPT !.item[t] = "dropped",
                                                          !.status = "dropped"]]
                          ELSE local]
            /\ UNCHANGED <<store, pendingKey, chain, undelivered, response,
                           notified, submissions, failed, crashes>>

----------------------------------------------------------------------------
(***************************************************************************)
(* Environment: the network, the passing of time, crashes.                 *)
(***************************************************************************)

Execute(t) ==
    /\ chain[t] = "sent"
    /\ \E o \in Outcome : chain' = [chain EXCEPT ![t] = o]
    /\ undelivered' = undelivered \cup {t}
    /\ UNCHANGED <<store, pendingKey, proc, response, notified, submissions,
                   failed, crashes>>

AgeKey(t) ==
    /\ t \in SlowTxs
    /\ pendingKey[t] # NoKey
    /\ pendingKey' = [pendingKey EXCEPT ![t] = IF @.old THEN NoKey ELSE [@ EXCEPT !.old = TRUE]]
    /\ UNCHANGED <<store, chain, undelivered, proc, response, notified,
                   submissions, failed, crashes>>

\* 20 minutes after the batch was last saved: the keys saved with it are gone.
ExpireBatch(k) ==
    /\ store[k] # NoBatch
    /\ ~\E t \in Txs : pendingKey[t] # NoKey /\ pendingKey[t].batch = k
    /\ \A p \in Procs : proc[p].key # k
    /\ store' = [store EXCEPT ![k] = NoBatch]
    /\ failed' = failed \ {k}
    /\ UNCHANGED <<pendingKey, chain, undelivered, proc, response, notified,
                   submissions, crashes>>

\* The transactions handler h was handed and has not finished with.
InHand(h) ==
    {w[1] : w \in proc[h].todo} \cup {w[2] : w \in Range(proc[h].done)}
        \cup (IF proc[h].tx = NoKey THEN {} ELSE {proc[h].tx})

\* The processor restarts: what it had in memory is gone.  The last nonce may
\* or may not have been saved, so a block in hand may be delivered again.
CrashProcessor ==
    /\ crashes < MaxCrashes
    /\ \E p \in Handlers \cup Droppers : proc[p] # Idle
    /\ crashes' = crashes + 1
    /\ \E again \in SUBSET UNION {InHand(h) : h \in Handlers} :
          undelivered' = undelivered \cup again
    /\ proc' = [p \in Procs |-> IF p \in Requests THEN proc[p] ELSE Idle]
    /\ UNCHANGED <<store, pendingKey, chain, response, notified, submissions, failed>>

StartGroupStep(p) ==
    SendAccepted(p) \/ SendRefused(p) \/ SendUnanswered(p) \/ SetPendingKey(p)

RequestStep(r) ==
    PostDuplicate(r) \/ PostBatch(r) \/ StartGroupStep(r) \/ PostInvalid(r) \/ PostSaved(r)

HandlerStep(h) ==
    ReadBatch(h) \/ StartGroupStep(h) \/ GroupStarted(h) \/ SaveBatch(h)
        \/ DeletePendingKey(h) \/ EmitUpdates(h)

DropperStep(d) ==
    FindOldKeys(d) \/ DropperSkips(d) \/ DropperDrops(d) \/ SaveBatch(d)
        \/ DeletePendingKey(d) \/ EmitUpdates(d)

Next ==
    \/ \E r \in Requests : RequestStep(r)
    \/ \E h \in Handlers : ReceiveBlock(h) \/ HandlerStep(h)
    \/ \E d \in Droppers : DropperStep(d)
    \/ \E t \in Txs : Execute(t) \/ AgeKey(t)
    \/ \E k \in Batches : ExpireBatch(k)
    \/ CrashProcessor

Spec == Init /\ [][Next]_vars

(***************************************************************************)
(* Fairness: the network executes what it was sent, the processor is       *)
(* handed every block, and each process goes on after every await.         *)
(***************************************************************************)
Fairness ==
    /\ \A t \in Txs : WF_vars(Execute(t))
    /\ \A h \in Handlers : WF_vars(ReceiveBlock(h)) /\ WF_vars(HandlerStep(h))
    /\ \A r \in Requests : WF_vars(RequestStep(r))
    /\ \A d \in Droppers : WF_vars(DropperStep(d))

FairSpec == Spec /\ Fairness

----------------------------------------------------------------------------
BatchType ==
    [groups : {Groups[r] : r \in Requests},
     item : UNION {[TxsOf(Groups[r]) -> ItemStatus] : r \in Requests},
     status : BatchStatus]

\* An absent value is not a batch.
ASSUME AbsentAssumption == NoBatch \notin BatchType

ProcType ==
    [pc : {"idle", "send", "keys", "next", "save", "delete", "end"},
     key : Batches \cup {NoBatch}, batch : BatchType \cup {NoBatch},
     tx : Txs \cup {NoKey}, group : Nat, next : Nat, keys : SUBSET Txs,
     todo : SUBSET (Txs \X Batches), done : Seq(Batches \X Txs)]

(***************************************************************************)
(* Types of what is in Redis and of what the processes hold; in particular *)
(* a request is answered with a batch in one of the states the API names.  *)
(***************************************************************************)
TypeOK ==
    /\ store \in [Batches -> BatchType \cup {NoBatch}]
    /\ pendingKey \in [Txs -> [batch : Batches, old : BOOLEAN] \cup {NoKey}]
    /\ chain \in [Txs -> {"unsent", "sent"} \cup Outcome]
    /\ undelivered \subseteq Txs
    /\ proc \in [Procs -> ProcType]
    /\ response \in [Requests -> {"none", "rejected", "invalid", "pending"}]
    /\ notified \subseteq Batches \X Txs
    /\ submissions \in [Txs -> 0..2]
    /\ failed \subseteq Batches
    /\ crashes \in 0..MaxCrashes

\* Every batch in Redis and every copy a process works on.
Copies == ({store[k] : k \in Batches} \cup {proc[p].batch : p \in Procs}) \ {NoBatch}

(***************************************************************************)
(* A transaction is shown as successful only if it succeeded on chain,     *)
(* whatever stale copies handlers, droppers and requests write over each   *)
(* other.                                                                  *)
(***************************************************************************)
SuccessIsReal ==
    \A b \in Copies : \A t \in DOMAIN b.item :
        Simplified(b).item[t] = "success" => chain[t] = "success"

(***************************************************************************)
(* A batch is stored as successful only if all its transactions are.       *)
(***************************************************************************)
BatchSuccessIsReal ==
    \A k \in Batches : store[k] # NoBatch /\ store[k].status = "success"
        => \A t \in DOMAIN store[k].item : chain[t] = "success"

(***************************************************************************)
(* "This is to prevent an invalid batch to become successful": as long as  *)
(* the processor does not crash, a batch that was once stored as invalid   *)
(* is never stored as successful, although a stale copy can make it        *)
(* pending again.                                                          *)
(***************************************************************************)
InvalidNeverSuccessful ==
    crashes = 0 => \A k \in failed : store[k] = NoBatch \/ store[k].status # "success"

(***************************************************************************)
(* No group is started twice: without a crash and without a second request *)
(* for the batch, no transaction is submitted a second time.               *)
(***************************************************************************)
SubmittedOnce == crashes = 0 => \A t \in Txs : submissions[t] < 2

(***************************************************************************)
(* "If it's invalid, we only update the transaction status": a stored      *)
(* batch that is invalid stays so until it expires.                        *)
(***************************************************************************)
InvalidStays ==
    [][\A k \in Batches :
         store[k] # NoBatch /\ store[k].status = "invalid"
            => store'[k] = NoBatch \/ store'[k].status = "invalid"]_vars

(***************************************************************************)
(* Where blocks are handled one at a time and never before their sender    *)
(* has saved, every stored batch comes to an end, unless one of its        *)
(* transactions failed: a status the processor knows no answer to.         *)
(***************************************************************************)
Completes ==
    \A k \in Batches :
        (store[k] # NoBatch /\ store[k].status = "pending")
            ~> \/ store[k] = NoBatch
               \/ store[k].status # "pending"
               \/ \E t \in DOMAIN store[k].item : chain[t] = "fail"

(***************************************************************************)
(* Every transaction whose final status is stored is reported to the       *)
(* address of its batch.                                                   *)
(***************************************************************************)
Notified ==
    \A k \in Batches, t \in Txs :
        (store[k] # NoBatch /\ t \in DOMAIN store[k].item /\ store[k].item[t] # "pending")
            ~> <<k, t>> \in notified

(***************************************************************************)
(* What the processes do is an implementation of GroupedSubmission: groups *)
(* go out in order and once their predecessors have succeeded, and no      *)
(* success is reported that is not one, also after a crash, a redelivered  *)
(* block or a wrongly dropped transaction.                                 *)
(***************************************************************************)
Promise == INSTANCE GroupedSubmission WITH
    outcome   <- chain,
    submitted <- {t \in Txs : submissions[t] > 0},
    verdict   <- [k \in Batches |-> IF store[k] = NoBatch THEN "none" ELSE store[k].status]

ImplementsGroupedSubmission == Promise!Spec
=============================================================================
