----------------------- MODULE TransactionBatchProofs -----------------------
(***************************************************************************)
(* Transaction batches, for any requests, batches, processes, blocks and   *)
(* number of restarts.                                                     *)
(*                                                                         *)
(* The same batch is in many places at once: in the cache, in the hands of *)
(* the request that posted it, of every handler that read it and in the    *)
(* events on their way.  Sound says that all of these are copies of what   *)
(* was posted; RealItems that no copy claims a success the chain does not  *)
(* have; Reached that a pending key, whoever holds it, is of a group whose *)
(* earlier groups have all succeeded.  Each is an induction of its own on  *)
(* top of the one before, and none of the properties is inductive alone.   *)
(* The refinement of GroupedSubmission follows step by step from Reached.  *)
(***************************************************************************)
EXTENDS TransactionBatch, TLAPS

\* b is a copy of a batch that some request posts under the key k.
IsCopy(b, k) ==
    /\ b \in BatchType
    /\ b.item \in [TxsOf(b.groups) -> ItemStatus]
    /\ \E r \in Requests : BatchOf[r] = k /\ b.groups = Groups[r]

\* The state l of a process that is starting a group: next to be sent is an item of the
\* group, and only items of the group get pending keys.
StartOK(l) ==
    /\ l.group \in DOMAIN l.batch.groups
    /\ l.next >= 1
    /\ l.pc = "send" => l.next <= Len(l.batch.groups[l.group])
    /\ l.keys \subseteq Range(l.batch.groups[l.group])

\* What the state l of process p holds, by the place where it is.
ProcOK(p, l) ==
    /\ l.pc \in {"send", "keys", "save", "delete"} => l.key \in Batches
    /\ l.pc \in {"send", "keys", "save"} => IsCopy(l.batch, l.key)
    /\ l.pc \in {"send", "keys"} => StartOK(l)
    /\ l.pc \in {"idle", "next"} => l.keys = {}
    /\ p \in Requests => /\ l.pc \in {"idle", "send", "keys", "end"}
                         /\ l.pc \in {"send", "keys"} => l.batch.status = "pending"
    /\ p \notin Requests /\ l.pc \in {"send", "keys", "save", "delete"} => l.tx \in Txs

\* What is handed to a handler has been executed, before and after a restart.
HandedIsExecuted ==
    /\ \A t \in undelivered : chain[t] \in Outcome
    /\ \A h \in Handlers : \A t \in InHand(h) : chain[t] \in Outcome

(***************************************************************************)
(* The inductive strengthening of TypeOK.                                  *)
(***************************************************************************)
Sound ==
    /\ TypeOK
    /\ \A k \in Batches : store[k] # NoBatch => IsCopy(store[k], k)
    /\ \A p \in Procs : ProcOK(p, proc[p])
    /\ HandedIsExecuted

-----------------------------------------------------------------------------
(***************************************************************************)
(* Facts about copies and about one process moving.                        *)
(***************************************************************************)

\* The groups of a copy are nonempty sequences of transactions, and its items are the
\* transactions of its groups.
LEMMA CopyFacts ==
    ASSUME NEW b, NEW k, IsCopy(b, k)
    PROVE  /\ b.groups \in Seq(Seq(Txs))
           /\ b.groups # << >>
           /\ \A g \in DOMAIN b.groups : /\ b.groups[g] \in Seq(Txs)
                                         /\ b.groups[g] # << >>
                                         /\ Range(b.groups[g]) \subseteq TxsOf(b.groups)
           /\ TxsOf(b.groups) \subseteq Txs
           /\ DOMAIN b.item = TxsOf(b.groups)
<1>1. PICK r \in Requests : BatchOf[r] = k /\ b.groups = Groups[r]
    BY DEF IsCopy
<1>2. b.groups \in Seq(Seq(Txs)) /\ b.groups # << >>
    BY <1>1, BatchAssumption
<1>3. \A g \in DOMAIN b.groups : b.groups[g] \in Seq(Txs) /\ b.groups[g] # << >>
    BY <1>1, <1>2, BatchAssumption
<1>4. \A g \in DOMAIN b.groups : Range(b.groups[g]) \subseteq TxsOf(b.groups)
    BY DEF TxsOf
<1>5. TxsOf(b.groups) \subseteq Txs
    BY <1>3 DEF TxsOf, Range
<1> QED
    BY <1>2, <1>3, <1>4, <1>5 DEF IsCopy

\* A copy of which one item or the status changes is a copy.
LEMMA CopyUpdated ==
    ASSUME NEW b, NEW k, IsCopy(b, k), NEW t \in TxsOf(b.groups),
           NEW s \in ItemStatus, NEW v \in BatchStatus
    PROVE  /\ IsCopy([b EXCEPT !.item[t] = s], k)
           /\ IsCopy([b EXCEPT !.status = v], k)
           /\ IsCopy([b EXCEPT !.item[t] = s, !.status = v], k)
<1>1. b.item \in [TxsOf(b.groups) -> ItemStatus]
    BY DEF IsCopy
<1>2. [b.item EXCEPT ![t] = s] \in [TxsOf(b.groups) -> ItemStatus]
    BY <1>1
<1>3. PICK r \in Requests : BatchOf[r] = k /\ b.groups = Groups[r]
    BY DEF IsCopy
<1> QED
    BY <1>1, <1>2, <1>3 DEF IsCopy, BatchType

\* An idle process is typed.
LEMMA IdleTyped == Idle \in ProcType
<1>1. << >> \in Seq(Batches \X Txs)
    OBVIOUS
<1> QED
    BY <1>1 DEF Idle, ProcType

\* A process's state at another place of its code.
LEMMA GoesOn ==
    ASSUME NEW l \in ProcType,
           NEW pc \in {"idle", "send", "keys", "next", "save", "delete", "end"}
    PROVE  LET m == [l EXCEPT !.pc = pc]
           IN  /\ m \in ProcType
               /\ m.pc = pc /\ m.key = l.key /\ m.batch = l.batch /\ m.tx = l.tx
               /\ m.group = l.group /\ m.next = l.next /\ m.keys = l.keys
               /\ m.todo = l.todo /\ m.done = l.done
    BY DEF ProcType

\* One process moves to a sound state, the others stay.
LEMMA ProcMoves ==
    ASSUME Sound, NEW p \in Procs, NEW l \in ProcType, ProcOK(p, l),
           proc' = [proc EXCEPT ![p] = l]
    PROVE  /\ proc' \in [Procs -> ProcType]
           /\ \A q \in Procs : ProcOK(q, proc'[q])
           /\ proc'[p] = l
           /\ \A q \in Procs \ {p} : proc'[q] = proc[q]
    BY DEF Sound, TypeOK

\* One step of SendNext keeps the sender's state sound: the item sent is one of the group,
\* and after the last or a refused one the process goes on to the pending keys.
LEMMA SendSound ==
    ASSUME Sound, NEW p \in Procs, NEW status \in ItemStatus, SendNext(p, status)
    PROVE  /\ proc' \in [Procs -> ProcType]
           /\ \A q \in Procs : ProcOK(q, proc'[q])
           /\ \A q \in Procs \ {p} : proc'[q] = proc[q]
           /\ proc'[p].tx = proc[p].tx
           /\ proc'[p].todo = proc[p].todo
           /\ proc'[p].done = proc[p].done
           /\ submissions' \in [Txs -> 0..2]
           /\ proc'[p].batch = [proc[p].batch EXCEPT !.item[StartedItems(p)[proc[p].next]] = status]
           /\ proc'[p].key = proc[p].key /\ proc'[p].group = proc[p].group
           /\ proc'[p].next = proc[p].next + 1
           /\ \/ /\ proc'[p].pc = "send" /\ status # "invalid" /\ proc'[p].keys = proc[p].keys
              \/ /\ proc'[p].pc = "keys"
                 /\ proc'[p].keys = {u \in Range(SubSeq(StartedItems(p), 1, proc[p].next)) :
                                       proc'[p].batch.item[u] = "pending"}
<1> DEFINE b     == proc[p].batch
           k     == proc[p].key
           items == StartedItems(p)
           n     == proc[p].next
           t     == items[n]
           after == [proc[p] EXCEPT !.batch.item[t] = status, !.next = @ + 1]
           l     == IF status = "invalid" \/ after.next > Len(items)
                    THEN AfterSends(after) ELSE after
<1>1. proc[p] \in ProcType /\ ProcOK(p, proc[p]) /\ proc[p].pc = "send"
    BY DEF Sound, TypeOK, SendNext
<1>2. k \in Batches /\ IsCopy(b, k) /\ StartOK(proc[p])
    BY <1>1 DEF ProcOK
<1>3. /\ items \in Seq(Txs)
      /\ n \in DOMAIN items
      /\ n \in Nat
      /\ t \in Range(items)
      /\ t \in TxsOf(b.groups)
      /\ t \in Txs
  <2>1. items \in Seq(Txs) /\ Range(items) \subseteq TxsOf(b.groups) /\ TxsOf(b.groups) \subseteq Txs
      BY <1>2, CopyFacts DEF StartOK, StartedItems
  <2>2. n \in Nat /\ n >= 1 /\ n <= Len(items)
      BY <1>1, <1>2 DEF StartOK, StartedItems, ProcType
  <2>3. n \in DOMAIN items
      BY <2>1, <2>2
  <2> QED
      BY <2>1, <2>2, <2>3 DEF Range
<1>4. IsCopy([b EXCEPT !.item[t] = status], k)
    BY <1>2, <1>3, CopyUpdated DEF BatchStatus
<1>5. /\ after \in ProcType
      /\ after.batch = [b EXCEPT !.item[t] = status]
      /\ after.batch.groups = b.groups
      /\ after.batch.status = b.status
      /\ after.next = n + 1
      /\ after.group = proc[p].group
      /\ after.key = k
      /\ after.tx = proc[p].tx /\ after.todo = proc[p].todo /\ after.done = proc[p].done
      /\ after.keys = proc[p].keys
      /\ after.pc = "send"
  <2>1. [b EXCEPT !.item[t] = status] \in BatchType
      BY <1>4 DEF IsCopy
  <2>2. /\ [b EXCEPT !.item[t] = status].groups = b.groups
        /\ [b EXCEPT !.item[t] = status].status = b.status
      BY <1>2 DEF IsCopy, BatchType
  <2> DEFINE c == [b EXCEPT !.item[t] = status]
  <2>3. after = [proc[p] EXCEPT !.batch = c, !.next = n + 1]
      BY <1>1 DEF ProcType
  <2>4. n + 1 \in Nat
      BY <1>3
  <2>5. c \in BatchType /\ c.groups = b.groups /\ c.status = b.status
      BY <2>1, <2>2
  <2> HIDE DEF after, c, n
  <2>6. /\ after \in ProcType
        /\ after.batch = c /\ after.next = n + 1
        /\ after.pc = proc[p].pc /\ after.key = k /\ after.tx = proc[p].tx
        /\ after.group = proc[p].group /\ after.keys = proc[p].keys
        /\ after.todo = proc[p].todo /\ after.done = proc[p].done
    <3> DEFINE o == proc[p]
               m == n + 1
    <3>1. o \in ProcType /\ m \in Nat /\ c \in BatchType
        BY <1>1, <2>4, <2>5
    <3>2. after = [o EXCEPT !.batch = c, !.next = m]
        BY <2>3
    <3> HIDE DEF o, m
    <3>3. /\ after \in ProcType
          /\ after.batch = c /\ after.next = m
          /\ after.pc = o.pc /\ after.key = o.key /\ after.tx = o.tx
          /\ after.group = o.group /\ after.keys = o.keys
          /\ after.todo = o.todo /\ after.done = o.done
        BY <3>1, <3>2 DEF ProcType
    <3> QED
        BY <3>3, Zenon DEF o, m
  <2>7. after.batch.groups = b.groups /\ after.batch.status = b.status /\ after.pc = "send"
      BY <1>1, <2>5, <2>6
  <2>8. after.batch = [b EXCEPT !.item[t] = status]
    <3>1. c = [b EXCEPT !.item[t] = status]
        BY DEF c
    <3> QED
        BY <2>6, <3>1, Zenon
  <2> QED
      BY <2>6, <2>7, <2>8, Zenon
<1>6. Range(SubSeq(items, 1, n)) \subseteq Range(items)
    BY <1>3 DEF Range
<1>12. /\ after.batch.groups[proc[p].group] = items
      /\ proc[p].group \in DOMAIN after.batch.groups
      /\ Len(items) \in Nat /\ n + 1 >= 1
  <2>1. b.groups[proc[p].group] = items /\ proc[p].group \in DOMAIN b.groups
      BY <1>2 DEF StartOK, StartedItems
  <2>2. Len(items) \in Nat /\ n + 1 >= 1
      BY <1>3
  <2> HIDE DEF after, items, n, b
  <2> QED
      BY <1>5, <2>1, <2>2
<1>7. /\ l \in ProcType /\ ProcOK(p, l)
      /\ l.batch = after.batch /\ l.key = k /\ l.group = proc[p].group /\ l.next = n + 1
      /\ \/ /\ l.pc = "send" /\ status # "invalid" /\ l.keys = proc[p].keys
         \/ /\ l.pc = "keys"
            /\ l.keys = {u \in Range(SubSeq(items, 1, n)) : after.batch.item[u] = "pending"}
  <2>1. CASE status = "invalid" \/ after.next > Len(items)
    <3> DEFINE K == {u \in Range(SubSeq(items, 1, n)) : after.batch.item[u] = "pending"}
    <3>1. l = [after EXCEPT !.pc = "keys", !.keys = K]
      <4>1. after.batch.groups[after.group] = items
          BY <1>5 DEF StartedItems
      <4>2. after.next - 1 = n
          BY <1>3, <1>5
      <4> QED
          BY <2>1, <4>1, <4>2 DEF AfterSends
    <3>2. K \subseteq Range(items) /\ K \subseteq Txs
      <4>1. Range(items) \subseteq Txs
        <5>1. items \in Seq(Txs)
            BY <1>3
        <5> HIDE DEF items
        <5> QED
            BY <5>1 DEF Range
      <4> HIDE DEF after, items, n
      <4>2. K \subseteq Range(items)
          BY <1>6, Zenon DEF K
      <4> QED
          BY <4>1, <4>2, Zenon
    <3> HIDE DEF K, after, l
    <3>3. l \in ProcType
        BY <3>1, <3>2, <1>5 DEF ProcType
    <3>4. /\ l.pc = "keys" /\ l.keys = K /\ l.batch = after.batch /\ l.key = k
          /\ l.group = proc[p].group /\ l.next = n + 1 /\ l.tx = proc[p].tx
        BY <3>1, <1>5 DEF ProcType
    <3>5. StartOK(l)
      <4> HIDE DEF items, n, b
      <4>1. l.batch.groups[l.group] = items /\ l.group \in DOMAIN l.batch.groups /\ l.next >= 1
          BY <1>12, <3>4
      <4>2. l.keys \subseteq Range(items) /\ l.pc # "send"
          BY <3>2, <3>4
      <4> QED
          BY <4>1, <4>2 DEF StartOK
    <3>6. ProcOK(p, l)
        BY <3>3, <3>4, <3>5, <1>1, <1>2, <1>4, <1>5 DEF ProcOK
    <3> QED
        BY <3>3, <3>4, <3>6 DEF K
  <2>2. CASE ~(status = "invalid" \/ after.next > Len(items))
    <3>1. l = after
        BY <2>2
    <3>2. n + 1 <= Len(items)
        BY <2>2, <1>3, <1>5
    <3> HIDE DEF after, l
    <3>3. StartOK(l)
      <4>0. proc[p].keys \subseteq Range(items)
          BY <1>2 DEF StartOK, StartedItems
      <4> HIDE DEF items, n, b
      <4>1. l.batch.groups[l.group] = items /\ l.group \in DOMAIN l.batch.groups /\ l.next >= 1
          BY <1>12, <1>5, <3>1
      <4>2. l.keys \subseteq Range(items) /\ l.next <= Len(items)
          BY <1>5, <3>1, <3>2, <4>0
      <4> QED
          BY <4>1, <4>2 DEF StartOK
    <3>4. ProcOK(p, l)
        BY <3>1, <3>3, <1>1, <1>2, <1>4, <1>5 DEF ProcOK
    <3> QED
        BY <3>1, <3>4, <2>2, <1>5
  <2> QED
      BY <2>1, <2>2
<1>8. proc' = [proc EXCEPT ![p] = l]
    BY DEF SendNext
<1>9. l.tx = proc[p].tx /\ l.todo = proc[p].todo /\ l.done = proc[p].done
  <2> HIDE DEF after
  <2> QED
      BY <1>5 DEF AfterSends, ProcType
<1>10. submissions' \in [Txs -> 0..2]
    BY <1>3 DEF SendNext, Sound, TypeOK
<1> HIDE DEF l, after
<1>11. /\ proc' \in [Procs -> ProcType]
       /\ \A q \in Procs : ProcOK(q, proc'[q])
       /\ proc'[p] = l
       /\ \A q \in Procs \ {p} : proc'[q] = proc[q]
    BY <1>7, <1>8, ProcMoves
<1> QED
    BY <1>5, <1>7, <1>9, <1>10, <1>11

-----------------------------------------------------------------------------
(***************************************************************************)
(* Sound is inductive: one lemma per action.                               *)
(***************************************************************************)

\* No new transaction comes to a handler's hands, and the chain stays: what handlers hold
\* is still executed.
LEMMA NothingHanded ==
    ASSUME Sound, UNCHANGED <<chain, undelivered>>,
           \A h \in Handlers : /\ proc'[h].todo \subseteq proc[h].todo
                               /\ proc'[h].tx \in {proc[h].tx, NoKey}
                               /\ proc'[h].done = proc[h].done
    PROVE  HandedIsExecuted'
<1>1. \A h \in Handlers : InHand(h)' \subseteq InHand(h)
    BY DEF InHand
<1> QED
    BY <1>1 DEF HandedIsExecuted, Sound

\* createTransaction for the next item of a group, whatever the gateway answers.
LEMMA SendKeepsSound ==
    ASSUME Sound, NEW p \in Procs, SendAccepted(p) \/ SendRefused(p) \/ SendUnanswered(p)
    PROVE  Sound'
<1> DEFINE t == StartedItems(p)[proc[p].next]
<1>1. proc[p].pc = "send" /\ IsCopy(proc[p].batch, proc[p].key) /\ StartOK(proc[p])
    BY DEF SendAccepted, SendRefused, SendUnanswered, SendNext, Sound, ProcOK
<1>2. t \in TxsOf(proc[p].batch.groups) /\ t \in Txs
  <2>1. /\ StartedItems(p) \in Seq(Txs)
        /\ Range(StartedItems(p)) \subseteq TxsOf(proc[p].batch.groups)
        /\ TxsOf(proc[p].batch.groups) \subseteq Txs
      BY <1>1, CopyFacts DEF StartOK, StartedItems
  <2>2. proc[p].next \in 1..Len(StartedItems(p))
      BY <1>1, <2>1 DEF StartOK, StartedItems, Sound, TypeOK, ProcType
  <2> QED
      BY <2>1, <2>2 DEF Range
<1>3. PICK status \in ItemStatus : SendNext(p, status)
  <2>1. proc[p].batch.item[t] \in ItemStatus /\ "invalid" \in ItemStatus
      BY <1>1, <1>2 DEF IsCopy, ItemStatus
  <2> QED
      BY <2>1 DEF SendAccepted, SendRefused, SendUnanswered
<1>4. /\ chain' \in [Txs -> {"unsent", "sent"} \cup Outcome]
      /\ \A u \in Txs : chain[u] \in Outcome => chain'[u] \in Outcome
    BY <1>2 DEF SendAccepted, SendRefused, SendUnanswered, Accepted, Sound, TypeOK, Outcome
<1>5. /\ proc' \in [Procs -> ProcType]
      /\ \A q \in Procs : ProcOK(q, proc'[q])
      /\ \A q \in Procs : /\ proc'[q].tx = proc[q].tx
                          /\ proc'[q].todo = proc[q].todo
                          /\ proc'[q].done = proc[q].done
      /\ submissions' \in [Txs -> 0..2]
    BY <1>3, SendSound
<1>6. HandedIsExecuted'
  <2>1. \A h \in Handlers : InHand(h)' = InHand(h) /\ InHand(h) \subseteq Txs
    <3> SUFFICES ASSUME NEW h \in Handlers
                 PROVE  InHand(h)' = InHand(h) /\ InHand(h) \subseteq Txs
        OBVIOUS
    <3>1. h \in Procs /\ proc[h] \in ProcType
        BY DEF Procs, Sound, TypeOK
    <3>2. InHand(h)' = InHand(h)
        BY <1>5, <3>1 DEF InHand
    <3>3. InHand(h) \subseteq Txs
        BY <3>1 DEF InHand, ProcType, Range
    <3> QED
        BY <3>2, <3>3
  <2>2. undelivered' = undelivered /\ undelivered \subseteq Txs
      BY <1>3 DEF SendNext, Sound, TypeOK
  <2> QED
      BY <1>4, <2>1, <2>2 DEF HandedIsExecuted, Sound
<1> QED
    BY <1>3, <1>4, <1>5, <1>6 DEF SendNext, Sound, TypeOK

\* A pending key is written for a transaction of the group.
LEMMA SetPendingKeyKeepsSound ==
    ASSUME Sound, NEW p \in Procs, SetPendingKey(p)
    PROVE  Sound'
<1>1. PICK t \in proc[p].keys :
        /\ proc[p].pc = "keys"
        /\ pendingKey' = [pendingKey EXCEPT ![t] = [batch |-> proc[p].key, old |-> FALSE]]
        /\ proc' = [proc EXCEPT ![p].keys = @ \ {t}]
        /\ UNCHANGED <<store, chain, undelivered, response, notified, submissions, failed, crashes>>
    BY DEF SetPendingKey
<1> DEFINE l == [proc[p] EXCEPT !.keys = @ \ {t}]
<1>2. proc[p] \in ProcType /\ ProcOK(p, proc[p])
    BY DEF Sound, TypeOK
<1>3. /\ l \in ProcType
      /\ l.pc = "keys" /\ l.key = proc[p].key /\ l.batch = proc[p].batch /\ l.group = proc[p].group
      /\ l.next = proc[p].next /\ l.tx = proc[p].tx /\ l.todo = proc[p].todo /\ l.done = proc[p].done
      /\ l.keys = proc[p].keys \ {t}
    BY <1>1, <1>2 DEF ProcType
<1>4. proc' = [proc EXCEPT ![p] = l]
    BY <1>1
<1> HIDE DEF l
<1>5. ProcOK(p, l)
    BY <1>1, <1>2, <1>3 DEF ProcOK, StartOK
<1>6. HandedIsExecuted'
    BY <1>1, <1>3, <1>4, <1>5, ProcMoves, NothingHanded DEF Procs
<1>7. proc[p].key \in Batches /\ t \in Txs
    BY <1>1, <1>2 DEF ProcOK, ProcType
<1> QED
    BY <1>1, <1>3, <1>4, <1>5, <1>6, <1>7, ProcMoves DEF Sound, TypeOK

\* startTransactionBatch finds the id in use, or starts the first group of a new copy.
LEMMA PostKeepsSound ==
    ASSUME Sound, NEW r \in Requests, PostDuplicate(r) \/ PostBatch(r)
    PROVE  Sound'
<1> r \in Procs /\ r \notin Handlers /\ Handlers \subseteq Procs
    BY BatchAssumption DEF Procs
<1>1. CASE PostDuplicate(r)
  <2> DEFINE l == [proc[r] EXCEPT !.pc = "end"]
  <2>1. l \in ProcType /\ l.pc = "end"
      BY GoesOn DEF Sound, TypeOK
  <2>2. proc' = [proc EXCEPT ![r] = l]
      BY <1>1 DEF PostDuplicate
  <2> HIDE DEF l
  <2>3. ProcOK(r, l)
      BY <2>1 DEF ProcOK
  <2>4. HandedIsExecuted'
      BY <1>1, <2>1, <2>2, <2>3, ProcMoves, NothingHanded DEF PostDuplicate
  <2> QED
      BY <1>1, <2>1, <2>2, <2>3, <2>4, ProcMoves DEF PostDuplicate, Sound, TypeOK
<1>2. CASE PostBatch(r)
  <2> DEFINE b == NewBatch(Groups[r])
             l == [Idle EXCEPT !.pc = "send", !.key = BatchOf[r], !.batch = b,
                               !.group = 1, !.next = 1]
  <2>1. /\ IsCopy(b, BatchOf[r])
        /\ b.groups = Groups[r]
        /\ b.status = "pending"
        /\ BatchOf[r] \in Batches
        /\ b \in BatchType
    <3>1. [t \in TxsOf(Groups[r]) |-> "pending"] \in [TxsOf(Groups[r]) -> ItemStatus]
        BY DEF ItemStatus
    <3> QED
        BY <3>1, BatchAssumption DEF NewBatch, IsCopy, BatchType, BatchStatus
  <2>2. 1 \in DOMAIN Groups[r] /\ 1 <= Len(Groups[r][1])
    <3>1. Groups[r] \in Seq(Seq(Txs)) /\ Groups[r] # << >>
        BY BatchAssumption
    <3>2. 1 \in DOMAIN Groups[r]
        BY <3>1
    <3>3. Groups[r][1] \in Seq(Txs) /\ Groups[r][1] # << >>
        BY <3>1, <3>2, BatchAssumption
    <3> QED
        BY <3>2, <3>3
  <2> HIDE DEF b
  <2>3. /\ l \in ProcType /\ l.pc = "send" /\ l.key = BatchOf[r] /\ l.batch = b
        /\ l.group = 1 /\ l.next = 1 /\ l.keys = {}
    <3>1. l \in ProcType
        BY <2>1, IdleTyped DEF ProcType
    <3> QED
        BY <3>1 DEF Idle
  <2>4. proc' = [proc EXCEPT ![r] = l]
      BY <1>2 DEF PostBatch, b
  <2> HIDE DEF l
  <2>5. StartOK(l)
      BY <2>1, <2>2, <2>3 DEF StartOK
  <2>6. ProcOK(r, l)
      BY <2>1, <2>3, <2>5 DEF ProcOK
  <2>7. HandedIsExecuted'
      BY <1>2, <2>3, <2>4, <2>6, ProcMoves, NothingHanded DEF PostBatch
  <2> QED
      BY <1>2, <2>3, <2>4, <2>6, <2>7, ProcMoves DEF PostBatch, Sound, TypeOK
<1> QED
    BY <1>1, <1>2

\* The first group has been started or not: the copy of a request, still pending, is saved
\* and answered, or only the answer is given.
LEMMA AnswerKeepsSound ==
    ASSUME Sound, NEW r \in Requests, PostInvalid(r) \/ PostSaved(r)
    PROVE  Sound'
<1> r \in Procs /\ r \notin Handlers /\ Handlers \subseteq Procs
    BY BatchAssumption DEF Procs
<1> DEFINE l == [Idle EXCEPT !.pc = "end"]
<1>1. l \in ProcType /\ l.pc = "end"
    BY IdleTyped, GoesOn
<1>2. proc' = [proc EXCEPT ![r] = l]
    BY DEF PostInvalid, PostSaved
<1> HIDE DEF l
<1>3. ProcOK(r, l)
    BY <1>1 DEF ProcOK
<1>4. HandedIsExecuted'
    BY <1>1, <1>2, <1>3, ProcMoves, NothingHanded DEF PostInvalid, PostSaved
<1>5. CASE PostInvalid(r)
    BY <1>1, <1>2, <1>3, <1>4, <1>5, ProcMoves DEF PostInvalid, Sound, TypeOK
<1>6. CASE PostSaved(r)
  <2>1. /\ IsCopy(proc[r].batch, proc[r].key)
        /\ proc[r].key \in Batches
        /\ proc[r].batch \in BatchType
        /\ proc[r].batch.status = "pending"
      BY <1>6 DEF PostSaved, Sound, ProcOK, IsCopy
  <2>2. response' \in [Requests -> {"none", "rejected", "invalid", "pending"}]
      BY <1>6, <2>1 DEF PostSaved, Simplified, Sound, TypeOK
  <2>3. /\ store' \in [Batches -> BatchType \cup {NoBatch}]
        /\ \A k \in Batches : store'[k] # NoBatch => IsCopy(store'[k], k)
      BY <1>6, <2>1 DEF PostSaved, Sound, TypeOK
  <2> QED
      BY <1>1, <1>2, <1>3, <1>4, <1>6, <2>2, <2>3, ProcMoves DEF PostSaved, Sound, TypeOK
<1> QED
    BY <1>5, <1>6

\* The group of a copy that holds t.
LEMMA GroupOfFacts ==
    ASSUME NEW b, NEW k, IsCopy(b, k), NEW t \in DOMAIN b.item
    PROVE  GroupOf(b, t) \in DOMAIN b.groups /\ t \in Range(b.groups[GroupOf(b, t)])
<1>1. \E g \in DOMAIN b.groups : t \in Range(b.groups[g])
    BY CopyFacts DEF TxsOf
<1> QED
    BY <1>1 DEF GroupOf

\* processTransaction on a copy it has read: the copy it goes on with is one of the same
\* batch, and the group it starts, if any, is the next one.
LEMMA ApplySound ==
    ASSUME NEW p \in Procs, p \notin Requests, NEW l \in ProcType, l.keys = {},
           l.key \in Batches, l.tx \in Txs,
           NEW b, IsCopy(b, l.key), NEW t \in DOMAIN b.item, NEW s \in Outcome
    PROVE  LET m == Apply(l, b, t, s)
           IN  /\ m \in ProcType
               /\ ProcOK(p, m)
               /\ m.tx = l.tx /\ m.todo = l.todo /\ m.done = l.done
<1> DEFINE u == WithStatus(b, t, s)
           g == GroupOf(b, t)
           m == Apply(l, b, t, s)
           completed == s = "success" /\ GroupSucceeded(u, g)
           newStatus == IF s = "invalid" THEN "invalid"
                        ELSE IF completed THEN "success" ELSE "pending"
           starts == b.status = "pending" /\ completed /\ ~IsLastGroup(b, g)
           v == IF u.status = "pending" THEN newStatus ELSE u.status
<1>1. s \in ItemStatus /\ t \in TxsOf(b.groups) /\ "pending" \in BatchStatus
    BY CopyFacts DEF Outcome, ItemStatus, BatchStatus
<1>2. IsCopy(u, l.key)
    BY <1>1, CopyUpdated DEF WithStatus
<1>3. u \in BatchType /\ u.groups = b.groups
    BY <1>2 DEF WithStatus, IsCopy, BatchType
<1>4. CASE starts
  <2> DEFINE f == g + 1
  <2>1. m = [l EXCEPT !.pc = "send", !.batch = u, !.group = f, !.next = 1]
      BY <1>4 DEF Apply
  <2>2. g \in DOMAIN b.groups /\ b.groups \in Seq(Seq(Txs))
      BY GroupOfFacts, CopyFacts
  <2>3. f \in DOMAIN b.groups /\ f \in Nat
      BY <1>4, <2>2 DEF IsLastGroup
  <2>4. 1 <= Len(b.groups[f])
    <3>1. b.groups[f] \in Seq(Txs) /\ b.groups[f] # << >>
        BY <2>3, CopyFacts
    <3> QED
        BY <3>1
  <2> HIDE DEF m, u, f, starts
  <2>5. /\ m \in ProcType
        /\ m.pc = "send" /\ m.key = l.key /\ m.batch = u /\ m.tx = l.tx
        /\ m.group = f /\ m.next = 1 /\ m.keys = l.keys
        /\ m.todo = l.todo /\ m.done = l.done
      BY <2>1, <2>3, <1>3 DEF ProcType
  <2>6. StartOK(m)
      BY <1>3, <2>3, <2>4, <2>5 DEF StartOK
  <2> QED
      BY <1>2, <2>5, <2>6 DEF ProcOK, m
<1>5. CASE ~starts
  <2> DEFINE c == [u EXCEPT !.status = v]
  <2>1. m = [l EXCEPT !.pc = "save", !.batch = c]
      BY <1>5 DEF Apply
  <2>2. v \in BatchStatus
      BY <1>3 DEF BatchStatus, BatchType
  <2> HIDE DEF u, v, starts
  <2>3. IsCopy(c, l.key)
      BY <1>1, <1>2, <1>3, <2>2, CopyUpdated
  <2>4. c \in BatchType
      BY <2>3 DEF IsCopy
  <2> HIDE DEF m, c
  <2>5. /\ m \in ProcType
        /\ m.pc = "save" /\ m.key = l.key /\ m.batch = c /\ m.tx = l.tx
        /\ m.todo = l.todo /\ m.done = l.done
      BY <2>1, <2>4 DEF ProcType
  <2> QED
      BY <2>3, <2>5 DEF ProcOK, m
<1> QED
    BY <1>4, <1>5

\* A handler takes executed transactions of a block.
LEMMA ReceiveBlockKeepsSound ==
    ASSUME Sound, NEW h \in Handlers, ReceiveBlock(h)
    PROVE  Sound'
<1>1. PICK T \in SUBSET undelivered :
        /\ proc[h].pc = "idle"
        /\ undelivered' = undelivered \ T
        /\ proc' = [proc EXCEPT ![h].pc = "next",
                                ![h].todo = {<<t, pendingKey[t].batch>> :
                                               t \in {u \in T : pendingKey[u] # NoKey}}]
        /\ UNCHANGED <<store, pendingKey, chain, response, notified, submissions, failed, crashes>>
    BY DEF ReceiveBlock
<1> DEFINE W == {<<t, pendingKey[t].batch>> : t \in {u \in T : pendingKey[u] # NoKey}}
           l == [proc[h] EXCEPT !.pc = "next", !.todo = W]
<1>2. h \in Procs /\ h \notin Requests /\ proc[h] \in ProcType /\ ProcOK(h, proc[h])
    BY BatchAssumption DEF Procs, Sound, TypeOK
<1>3. T \subseteq Txs /\ W \in SUBSET (Txs \X Batches)
    BY DEF Sound, TypeOK
<1>4. proc' = [proc EXCEPT ![h] = l]
    BY <1>1
<1>5. \A w \in W : w[1] \in T
    OBVIOUS
<1> HIDE DEF W
<1>6. /\ l \in ProcType
      /\ l.pc = "next" /\ l.keys = {} /\ l.todo = W
      /\ l.tx = proc[h].tx /\ l.done = proc[h].done
    BY <1>1, <1>2, <1>3 DEF ProcType, ProcOK
<1> HIDE DEF l
<1>7. ProcOK(h, l)
    BY <1>2, <1>6 DEF ProcOK
<1>8. /\ proc' \in [Procs -> ProcType]
      /\ \A q \in Procs : ProcOK(q, proc'[q])
      /\ proc'[h] = l
      /\ \A q \in Procs \ {h} : proc'[q] = proc[q]
    BY <1>2, <1>4, <1>6, <1>7, ProcMoves
<1>9. HandedIsExecuted'
  <2>1. InHand(h)' \subseteq InHand(h) \cup undelivered
      BY <1>5, <1>6, <1>8 DEF InHand
  <2>2. \A q \in Handlers \ {h} : InHand(q)' = InHand(q)
      BY <1>8 DEF InHand, Procs
  <2> QED
      BY <1>1, <2>1, <2>2 DEF HandedIsExecuted, Sound
<1> QED
    BY <1>1, <1>8, <1>9 DEF Sound, TypeOK

\* A handler reads the batch of its next transaction and applies the transaction's status.
LEMMA ReadBatchKeepsSound ==
    ASSUME Sound, NEW h \in Handlers, ReadBatch(h)
    PROVE  Sound'
<1> DEFINE L(w) == [proc[h] EXCEPT !.tx = w[1], !.key = w[2], !.todo = @ \ {w}]
           M(w) == IF store[w[2]] = NoBatch THEN [L(w) EXCEPT !.pc = "delete"]
                   ELSE IF w[1] \notin DOMAIN store[w[2]].item
                   THEN [L(w) EXCEPT !.pc = "delete"]
                   ELSE Apply(L(w), store[w[2]], w[1], chain[w[1]])
<1>1. PICK w \in proc[h].todo :
        /\ proc[h].pc = "next"
        /\ proc' = [proc EXCEPT ![h] = M(w)]
        /\ UNCHANGED <<store, pendingKey, chain, undelivered, response, notified,
                       submissions, failed, crashes>>
    BY DEF ReadBatch
<1> DEFINE t == w[1]
           k == w[2]
           l == L(w)
           m == M(w)
<1>2. h \in Procs /\ h \notin Requests /\ proc[h] \in ProcType /\ proc[h].keys = {}
    BY <1>1, BatchAssumption DEF Procs, Sound, TypeOK, ProcOK
<1>3. t \in Txs /\ k \in Batches /\ w \in Txs \X Batches
    BY <1>2 DEF ProcType
<1>4. chain[t] \in Outcome
    BY DEF Sound, HandedIsExecuted, InHand
<1>5. /\ l \in ProcType
      /\ l.tx = t /\ l.key = k /\ l.keys = {}
      /\ l.todo = proc[h].todo \ {w} /\ l.done = proc[h].done
    BY <1>2, <1>3 DEF ProcType
<1> HIDE DEF L
<1>6. /\ m \in ProcType
      /\ ProcOK(h, m)
      /\ m.tx = t /\ m.todo = l.todo /\ m.done = l.done
  <2>1. CASE store[k] = NoBatch \/ t \notin DOMAIN store[k].item
    <3>1. m = [l EXCEPT !.pc = "delete"]
        BY <2>1
    <3> HIDE DEF l, m
    <3>2. m \in ProcType /\ m.pc = "delete" /\ m.tx = l.tx /\ m.key = l.key
          /\ m.todo = l.todo /\ m.done = l.done
        BY <1>5, <3>1 DEF ProcType
    <3> QED
        BY <1>2, <1>3, <1>5, <3>2 DEF ProcOK
  <2>2. CASE ~(store[k] = NoBatch \/ t \notin DOMAIN store[k].item)
    <3>1. m = Apply(l, store[k], t, chain[t])
        BY <2>2
    <3>2. IsCopy(store[k], k) /\ t \in DOMAIN store[k].item
        BY <1>3, <2>2 DEF Sound
    <3> HIDE DEF l, m, t, k
    <3> QED
        BY <1>2, <1>3, <1>4, <1>5, <3>1, <3>2, ApplySound
  <2> QED
      BY <2>1, <2>2
<1>7. proc' = [proc EXCEPT ![h] = m]
    BY <1>1
<1> HIDE DEF M, m, l
<1>8. /\ proc' \in [Procs -> ProcType]
      /\ \A q \in Procs : ProcOK(q, proc'[q])
      /\ proc'[h] = m
      /\ \A q \in Procs \ {h} : proc'[q] = proc[q]
    BY <1>2, <1>6, <1>7, ProcMoves
<1>9. HandedIsExecuted'
  <2>1. InHand(h)' \subseteq InHand(h)
      BY <1>5, <1>6, <1>8 DEF InHand
  <2>2. \A q \in Handlers \ {h} : InHand(q)' = InHand(q)
      BY <1>8 DEF InHand, Procs
  <2> QED
      BY <1>1, <2>1, <2>2 DEF HandedIsExecuted, Sound
<1> QED
    BY <1>1, <1>8, <1>9 DEF Sound, TypeOK

\* The next group has been started; a refused item makes the handler's copy invalid.
LEMMA GroupStartedKeepsSound ==
    ASSUME Sound, NEW h \in Handlers, GroupStarted(h)
    PROVE  Sound'
<1> DEFINE b == proc[h].batch
           v == IF GroupInvalid(h) THEN "invalid" ELSE b.status
           c == [b EXCEPT !.status = v]
           l == [proc[h] EXCEPT !.pc = "save", !.batch = c]
<1>1. h \in Procs /\ h \notin Requests /\ proc[h] \in ProcType /\ ProcOK(h, proc[h]) /\ proc[h].pc = "keys"
    BY BatchAssumption DEF Procs, Sound, TypeOK, GroupStarted
<1>2. IsCopy(b, proc[h].key) /\ proc[h].key \in Batches /\ StartOK(proc[h]) /\ proc[h].tx \in Txs
    BY <1>1 DEF ProcOK
<1>3. Range(StartedItems(h)) \subseteq Txs
    BY <1>2, CopyFacts DEF StartOK, StartedItems
<1>4. IsCopy(c, proc[h].key) /\ c \in BatchType
  <2>1. v \in BatchStatus /\ \E t : t \in TxsOf(b.groups)
    <3>1. b \in BatchType
        BY <1>2 DEF IsCopy
    <3>2. b.groups[proc[h].group] \in Seq(Txs) /\ b.groups[proc[h].group] # << >>
        BY <1>2, CopyFacts DEF StartOK
    <3>3. b.groups[proc[h].group][1] \in Range(b.groups[proc[h].group])
        BY <3>2 DEF Range
    <3> QED
        BY <1>2, <3>1, <3>3, CopyFacts DEF BatchType, BatchStatus, StartOK
  <2>2. "pending" \in ItemStatus
      BY DEF ItemStatus
  <2> HIDE DEF v
  <2>3. IsCopy(c, proc[h].key)
      BY <1>2, <2>1, <2>2, CopyUpdated
  <2> QED
      BY <2>3 DEF IsCopy
<1>5. proc' = [proc EXCEPT ![h] = l]
    BY <1>1, <1>2 DEF GroupStarted
<1> HIDE DEF c
<1>6. /\ l \in ProcType /\ l.pc = "save" /\ l.batch = c /\ l.key = proc[h].key
      /\ l.tx = proc[h].tx /\ l.todo = proc[h].todo /\ l.done = proc[h].done
    BY <1>1, <1>4 DEF ProcType
<1> HIDE DEF l
<1>7. ProcOK(h, l)
    BY <1>1, <1>2, <1>4, <1>6 DEF ProcOK
<1>8. HandedIsExecuted'
    BY <1>1, <1>5, <1>6, <1>7, ProcMoves, NothingHanded DEF GroupStarted, Procs
<1>9. notified' \subseteq Batches \X Txs
    BY <1>2, <1>3 DEF GroupStarted, Sound, TypeOK
<1> QED
    BY <1>1, <1>5, <1>6, <1>7, <1>8, <1>9, ProcMoves DEF GroupStarted, Sound, TypeOK

\* A handler or a dropper writes its copy back.
LEMMA SaveBatchKeepsSound ==
    ASSUME Sound, NEW p \in Handlers \cup Droppers, SaveBatch(p)
    PROVE  Sound'
<1> DEFINE l == [proc[p] EXCEPT !.pc = "delete"]
<1>1. p \in Procs /\ p \notin Requests /\ proc[p] \in ProcType /\ ProcOK(p, proc[p]) /\ proc[p].pc = "save"
    BY BatchAssumption DEF Procs, Sound, TypeOK, SaveBatch
<1>2. /\ IsCopy(proc[p].batch, proc[p].key) /\ proc[p].batch \in BatchType
      /\ proc[p].key \in Batches /\ proc[p].tx \in Txs
    BY <1>1 DEF ProcOK, IsCopy
<1>3. proc' = [proc EXCEPT ![p] = l]
    BY DEF SaveBatch
<1>4. /\ l \in ProcType /\ l.pc = "delete" /\ l.key = proc[p].key
      /\ l.tx = proc[p].tx /\ l.todo = proc[p].todo /\ l.done = proc[p].done
    BY <1>1 DEF ProcType
<1> HIDE DEF l
<1>5. ProcOK(p, l)
    BY <1>1, <1>2, <1>4 DEF ProcOK
<1>6. HandedIsExecuted'
    BY <1>1, <1>3, <1>4, <1>5, ProcMoves, NothingHanded DEF SaveBatch, Procs
<1>7. /\ store' \in [Batches -> BatchType \cup {NoBatch}]
      /\ \A k \in Batches : store'[k] # NoBatch => IsCopy(store'[k], k)
      /\ failed' \subseteq Batches
    BY <1>2 DEF SaveBatch, Sound, TypeOK
<1> QED
    BY <1>1, <1>3, <1>4, <1>5, <1>6, <1>7, ProcMoves DEF SaveBatch, Sound, TypeOK

\* The pending key is deleted, and the transaction joins the processed ones.
LEMMA DeletePendingKeyKeepsSound ==
    ASSUME Sound, NEW p \in Handlers \cup Droppers, DeletePendingKey(p)
    PROVE  Sound'
<1> DEFINE d == Append(proc[p].done, <<proc[p].key, proc[p].tx>>)
           l == [Idle EXCEPT !.pc = "next", !.todo = proc[p].todo, !.done = d]
<1>1. /\ p \in Procs /\ p \notin Requests /\ proc[p] \in ProcType
      /\ ProcOK(p, proc[p]) /\ proc[p].pc = "delete"
    BY BatchAssumption DEF Procs, Sound, TypeOK, DeletePendingKey
<1>2. proc[p].key \in Batches /\ proc[p].tx \in Txs
    BY <1>1 DEF ProcOK
<1>3. d \in Seq(Batches \X Txs) /\ Range(d) \subseteq Range(proc[p].done) \cup {<<proc[p].key, proc[p].tx>>}
  <2>1. proc[p].done \in Seq(Batches \X Txs) /\ <<proc[p].key, proc[p].tx>> \in Batches \X Txs
      BY <1>1, <1>2 DEF ProcType
  <2>2. \A s \in Seq(Batches \X Txs), e \in Batches \X Txs :
           Append(s, e) \in Seq(Batches \X Txs) /\ Range(Append(s, e)) \subseteq Range(s) \cup {e}
      BY DEF Range
  <2> QED
      BY <2>1, <2>2
<1>4. proc' = [proc EXCEPT ![p] = l]
    BY DEF DeletePendingKey
<1> HIDE DEF d
<1>5. /\ l \in ProcType /\ l.pc = "next" /\ l.keys = {}
      /\ l.tx = NoKey /\ l.todo = proc[p].todo /\ l.done = d
  <2>1. l \in ProcType
      BY <1>1, <1>3, IdleTyped DEF ProcType
  <2> QED
      BY <2>1 DEF Idle
<1> HIDE DEF l
<1>6. ProcOK(p, l)
    BY <1>1, <1>5 DEF ProcOK
<1>7. /\ proc' \in [Procs -> ProcType]
      /\ \A q \in Procs : ProcOK(q, proc'[q])
      /\ proc'[p] = l
      /\ \A q \in Procs \ {p} : proc'[q] = proc[q]
    BY <1>1, <1>4, <1>5, <1>6, ProcMoves
<1>8. HandedIsExecuted'
  <2>1. ASSUME p \in Handlers
        PROVE  \A t \in InHand(p)' : chain[t] \in Outcome
    <3>1. \A t \in InHand(p) : chain[t] \in Outcome
        BY <2>1 DEF Sound, HandedIsExecuted
    <3>2. chain[proc[p].tx] \in Outcome
        BY <1>2, <3>1, BatchAssumption DEF InHand
    <3>3. InHand(p)' \subseteq {w[1] : w \in proc[p].todo} \cup {w[2] : w \in Range(proc[p].done)}
                                   \cup {proc[p].tx}
        BY <1>3, <1>5, <1>7 DEF InHand
    <3> QED
        BY <3>1, <3>2, <3>3 DEF InHand
  <2>2. \A q \in Handlers \ {p} : InHand(q)' = InHand(q)
      BY <1>7 DEF InHand, Procs
  <2> QED
      BY <2>1, <2>2 DEF HandedIsExecuted, Sound, DeletePendingKey
<1> QED
    BY <1>2, <1>7, <1>8 DEF DeletePendingKey, Sound, TypeOK

\* The events name batches and transactions that were processed.
LEMMA BatchEventsTyped ==
    ASSUME NEW done \in Seq(Batches \X Txs)
    PROVE  BatchEvents(done) \subseteq Batches \X Txs
<1>1. \A i \in DOMAIN done : done[i] \in Batches \X Txs
    OBVIOUS
<1>2. \A i, j \in DOMAIN done : <<done[i][1], done[j][2]>> \in Batches \X Txs
    BY <1>1
<1> QED
    BY <1>2 DEF BatchEvents

\* The updates are emitted and the process is done.
LEMMA EmitUpdatesKeepsSound ==
    ASSUME Sound, NEW p \in Handlers \cup Droppers, EmitUpdates(p)
    PROVE  Sound'
<1>1. p \in Procs /\ p \notin Requests /\ proc[p] \in ProcType
    BY BatchAssumption DEF Procs, Sound, TypeOK
<1>2. proc' = [proc EXCEPT ![p] = Idle]
    BY DEF EmitUpdates
<1>3. ProcOK(p, Idle)
    BY <1>1 DEF ProcOK, Idle
<1>4. /\ proc' \in [Procs -> ProcType]
      /\ \A q \in Procs : ProcOK(q, proc'[q])
      /\ proc'[p] = Idle
      /\ \A q \in Procs \ {p} : proc'[q] = proc[q]
    BY <1>1, <1>2, <1>3, IdleTyped, ProcMoves
<1>5. HandedIsExecuted'
  <2>1. InHand(p)' = {}
      BY <1>4 DEF InHand, Idle, Range
  <2>2. \A q \in Handlers \ {p} : InHand(q)' = InHand(q)
      BY <1>4 DEF InHand, Procs
  <2> QED
      BY <2>1, <2>2 DEF HandedIsExecuted, Sound, EmitUpdates
<1>6. notified' \subseteq Batches \X Txs
    BY <1>1, BatchEventsTyped DEF EmitUpdates, Sound, TypeOK, ProcType
<1> QED
    BY <1>4, <1>5, <1>6 DEF EmitUpdates, Sound, TypeOK

\* The dropper looks for old keys, and leaves alone what it finds on chain.
LEMMA FindOldKeysKeepsSound ==
    ASSUME Sound, NEW d \in Droppers, FindOldKeys(d)
    PROVE  Sound'
<1> DEFINE W == {<<t, pendingKey[t].batch>> : t \in {u \in Txs : pendingKey[u] # NoKey /\ pendingKey[u].old}}
           l == [proc[d] EXCEPT !.pc = "next", !.todo = W]
<1>1. /\ d \in Procs /\ d \notin Requests /\ d \notin Handlers /\ Handlers \subseteq Procs
      /\ proc[d] \in ProcType /\ ProcOK(d, proc[d]) /\ proc[d].pc = "idle"
    BY BatchAssumption DEF Procs, Sound, TypeOK, FindOldKeys
<1>2. W \in SUBSET (Txs \X Batches)
    BY DEF Sound, TypeOK
<1>3. proc' = [proc EXCEPT ![d] = l]
    BY DEF FindOldKeys
<1> HIDE DEF W
<1>4. l \in ProcType /\ l.pc = "next" /\ l.keys = {}
    BY <1>1, <1>2 DEF ProcType, ProcOK
<1> HIDE DEF l
<1>5. ProcOK(d, l)
    BY <1>1, <1>4 DEF ProcOK
<1>6. HandedIsExecuted'
    BY <1>1, <1>3, <1>4, <1>5, ProcMoves, NothingHanded DEF FindOldKeys
<1> QED
    BY <1>1, <1>3, <1>4, <1>5, <1>6, ProcMoves DEF FindOldKeys, Sound, TypeOK

\* The dropper leaves a transaction alone, or marks a pending item of a stored batch as dropped.
LEMMA DropperKeepsSound ==
    ASSUME Sound, NEW d \in Droppers, DropperSkips(d) \/ DropperDrops(d)
    PROVE  Sound'
<1>1. /\ d \in Procs /\ d \notin Requests /\ d \notin Handlers /\ Handlers \subseteq Procs
      /\ proc[d] \in ProcType /\ ProcOK(d, proc[d]) /\ proc[d].pc = "next"
    BY BatchAssumption DEF Procs, Sound, TypeOK, DropperSkips, DropperDrops
<1> DEFINE L(w) == [proc[d] EXCEPT !.todo = @ \ {w}]
           D(w) == [store[w[2]] EXCEPT !.item[w[1]] = "dropped", !.status = "dropped"]
           M(w) == [L(w) EXCEPT !.pc = "save", !.tx = w[1], !.key = w[2], !.batch = D(w)]
<1>2. PICK w \in proc[d].todo :
        /\ \/ proc' = [proc EXCEPT ![d] = L(w)]
           \/ /\ store[w[2]] # NoBatch /\ w[1] \in DOMAIN store[w[2]].item
              /\ proc' = [proc EXCEPT ![d] = M(w)]
        /\ UNCHANGED <<store, pendingKey, chain, undelivered, response, notified,
                       submissions, failed, crashes>>
  <2>1. CASE DropperSkips(d)
      BY <2>1 DEF DropperSkips
  <2>2. CASE DropperDrops(d)
      BY <2>2 DEF DropperDrops
  <2> QED
      BY <2>1, <2>2
<1>3. w[1] \in Txs /\ w[2] \in Batches
    BY <1>1 DEF ProcType
<1>4. L(w) \in ProcType /\ L(w).pc = "next" /\ L(w).keys = {}
    BY <1>1 DEF ProcType, ProcOK
<1> HIDE DEF L
<1>5. \E l \in ProcType : ProcOK(d, l) /\ proc' = [proc EXCEPT ![d] = l]
  <2>1. CASE proc' = [proc EXCEPT ![d] = L(w)]
    <3>1. ProcOK(d, L(w))
        BY <1>1, <1>4 DEF ProcOK
    <3> QED
        BY <1>4, <2>1, <3>1
  <2>2. CASE /\ store[w[2]] # NoBatch /\ w[1] \in DOMAIN store[w[2]].item
             /\ proc' = [proc EXCEPT ![d] = M(w)]
    <3>1. IsCopy(store[w[2]], w[2])
        BY <1>3, <2>2 DEF Sound
    <3>2. /\ w[1] \in TxsOf(store[w[2]].groups)
          /\ "dropped" \in ItemStatus /\ "dropped" \in BatchStatus
        BY <2>2, <3>1, CopyFacts DEF ItemStatus, BatchStatus
    <3>3. IsCopy(D(w), w[2])
        BY <3>1, <3>2, CopyUpdated
    <3>4. D(w) \in BatchType
        BY <3>3 DEF IsCopy
    <3> HIDE DEF D
    <3>5. /\ M(w) \in ProcType /\ M(w).pc = "save" /\ M(w).tx = w[1]
          /\ M(w).key = w[2] /\ M(w).batch = D(w)
        BY <1>3, <1>4, <3>4 DEF ProcType
    <3> HIDE DEF M
    <3>6. ProcOK(d, M(w))
        BY <1>1, <1>3, <3>3, <3>5 DEF ProcOK
    <3> QED
        BY <2>2, <3>5, <3>6
  <2> QED
      BY <1>2, <2>1, <2>2
<1>6. PICK l \in ProcType : ProcOK(d, l) /\ proc' = [proc EXCEPT ![d] = l]
    BY <1>5
<1>7. HandedIsExecuted'
    BY <1>1, <1>2, <1>6, ProcMoves, NothingHanded
<1> QED
    BY <1>1, <1>2, <1>6, <1>7, ProcMoves DEF Sound, TypeOK

\* The network executes a transaction, a key grows old or expires, a batch expires.
LEMMA EnvironmentKeepsSound ==
    ASSUME Sound, \/ \E t \in Txs : Execute(t) \/ AgeKey(t)
                  \/ \E k \in Batches : ExpireBatch(k)
    PROVE  Sound'
<1>1. CASE \E t \in Txs : Execute(t)
  <2> PICK t \in Txs : Execute(t)
      BY <1>1
  <2>1. /\ chain' \in [Txs -> {"unsent", "sent"} \cup Outcome]
        /\ \A u \in Txs : chain[u] \in Outcome => chain'[u] \in Outcome
        /\ chain'[t] \in Outcome
      BY DEF Execute, Sound, TypeOK
  <2>2. HandedIsExecuted'
    <3>1. \A h \in Handlers : InHand(h)' = InHand(h) /\ InHand(h) \subseteq Txs
        BY DEF Execute, InHand, Procs, Sound, TypeOK, ProcType, Range
    <3> QED
        BY <2>1, <3>1 DEF Execute, HandedIsExecuted, Sound, TypeOK
  <2> QED
      BY <2>1, <2>2 DEF Execute, Sound, TypeOK
<1>2. CASE \E t \in Txs : AgeKey(t)
  <2> PICK t \in Txs : AgeKey(t)
      BY <1>2
  <2>1. pendingKey' \in [Txs -> [batch : Batches, old : BOOLEAN] \cup {NoKey}]
    <3>1. pendingKey[t] \in [batch : Batches, old : BOOLEAN]
        BY DEF AgeKey, Sound, TypeOK
    <3>2. [pendingKey[t] EXCEPT !.old = TRUE] \in [batch : Batches, old : BOOLEAN]
        BY <3>1
    <3> QED
        BY <3>2 DEF AgeKey, Sound, TypeOK
  <2>2. HandedIsExecuted'
      BY NothingHanded DEF AgeKey
  <2> QED
      BY <2>1, <2>2 DEF AgeKey, Sound, TypeOK
<1>3. CASE \E k \in Batches : ExpireBatch(k)
  <2> PICK k \in Batches : ExpireBatch(k)
      BY <1>3
  <2>1. HandedIsExecuted'
      BY NothingHanded DEF ExpireBatch
  <2> QED
      BY <2>1 DEF ExpireBatch, Sound, TypeOK
<1> QED
    BY <1>1, <1>2, <1>3

\* A restart: handlers and droppers lose what they hold, blocks in hand may come again.
LEMMA CrashKeepsSound ==
    ASSUME Sound, CrashProcessor
    PROVE  Sound'
<1>1. \A p \in Procs : proc'[p] = proc[p] \/ (p \notin Requests /\ proc'[p] = Idle)
    BY DEF CrashProcessor
<1>2. proc' \in [Procs -> ProcType]
    BY <1>1, IdleTyped DEF CrashProcessor, Sound, TypeOK
<1>3. \A p \in Procs : ProcOK(p, proc'[p])
  <2>1. \A p \in Procs : p \notin Requests => ProcOK(p, Idle)
      BY DEF ProcOK, Idle
  <2> QED
      BY <1>1, <2>1 DEF Sound
<1>4. \A h \in Handlers : InHand(h) \subseteq Txs
    BY DEF InHand, Procs, Sound, TypeOK, ProcType, Range
<1>5. undelivered' \subseteq Txs /\ \A t \in undelivered' : chain[t] \in Outcome
    BY <1>4 DEF CrashProcessor, Sound, TypeOK, HandedIsExecuted
<1>6. HandedIsExecuted'
  <2>1. \A h \in Handlers : InHand(h)' = {}
    <3> SUFFICES ASSUME NEW h \in Handlers PROVE InHand(h)' = {}
        OBVIOUS
    <3>1. proc'[h] = Idle
        BY BatchAssumption DEF CrashProcessor, Procs
    <3> QED
        BY <3>1 DEF InHand, Idle, Range
  <2> QED
      BY <1>5, <2>1 DEF HandedIsExecuted, CrashProcessor
<1>7. crashes' \in 0..MaxCrashes
    BY BatchAssumption DEF CrashProcessor, Sound, TypeOK
<1> QED
    BY <1>2, <1>3, <1>5, <1>6, <1>7 DEF CrashProcessor, Sound, TypeOK

\* Every step keeps Sound.
LEMMA NextKeepsSound ==
    ASSUME Sound, [Next]_vars
    PROVE  Sound'
<1> Requests \subseteq Procs /\ Handlers \subseteq Procs /\ Droppers \subseteq Procs
    BY DEF Procs
<1>1. ASSUME NEW r \in Requests, RequestStep(r)
      PROVE  Sound'
    BY <1>1, PostKeepsSound, SendKeepsSound, SetPendingKeyKeepsSound, AnswerKeepsSound
       DEF RequestStep, StartGroupStep
<1>2. ASSUME NEW h \in Handlers, ReceiveBlock(h) \/ HandlerStep(h)
      PROVE  Sound'
    BY <1>2, ReceiveBlockKeepsSound, ReadBatchKeepsSound, SendKeepsSound, SetPendingKeyKeepsSound,
       GroupStartedKeepsSound, SaveBatchKeepsSound, DeletePendingKeyKeepsSound, EmitUpdatesKeepsSound
       DEF HandlerStep, StartGroupStep
<1>3. ASSUME NEW d \in Droppers, DropperStep(d)
      PROVE  Sound'
    BY <1>3, FindOldKeysKeepsSound, DropperKeepsSound, SaveBatchKeepsSound,
       DeletePendingKeyKeepsSound, EmitUpdatesKeepsSound
       DEF DropperStep
<1>4. CASE UNCHANGED vars
  <2>1. HandedIsExecuted'
      BY <1>4, NothingHanded DEF vars
  <2> QED
      BY <1>4, <2>1 DEF vars, Sound, TypeOK
<1> QED
    BY <1>1, <1>2, <1>3, <1>4, EnvironmentKeepsSound, CrashKeepsSound DEF Next

\* The initial state is sound.
LEMMA InitSound == Init => Sound
<1> SUFFICES ASSUME Init PROVE Sound
    OBVIOUS
<1>1. TypeOK
    BY IdleTyped, BatchAssumption DEF Init, TypeOK
<1>2. \A p \in Procs : ProcOK(p, Idle)
    BY DEF ProcOK, Idle
<1>3. \A h \in Handlers : InHand(h) = {}
    BY DEF Init, InHand, Idle, Procs, Range
<1> QED
    BY <1>1, <1>2, <1>3 DEF Init, Sound, HandedIsExecuted

\* Sound is an invariant.
LEMMA AlwaysSound == Spec => []Sound
    BY InitSound, NextKeepsSound, PTL DEF Spec

\* Whatever the requests, the handlers and the droppers do to each other's keys and copies, and
\* after any restart, Redis holds batches in the states the API names, every copy in a process is
\* one of a posted batch, and a request is answered with rejected, invalid or pending.
THEOREM TypeCorrect == Spec => []TypeOK
<1>1. Sound => TypeOK
    BY DEF Sound
<1> QED
    BY <1>1, AlwaysSound, PTL

-----------------------------------------------------------------------------
(***************************************************************************)
(* What the steps that touch a copy do, field by field.                    *)
(***************************************************************************)

\* Process p has given the next item of its group to the gateway; its copy has it as s.
Sent(p, s) ==
    LET b     == proc[p].batch
        items == StartedItems(p)
        n     == proc[p].next
        t     == items[n]
    IN  /\ proc[p].pc = "send"
        /\ n \in 1..Len(items) /\ t \in Txs /\ t \in TxsOf(b.groups)
        /\ s \in {b.item[t], "invalid"}
        /\ \/ UNCHANGED chain
           \/ chain' = [chain EXCEPT ![t] = IF @ = "unsent" THEN "sent" ELSE @]
        /\ submissions' = [submissions EXCEPT ![t] = IF @ < 2 THEN @ + 1 ELSE @]
        /\ \A q \in Procs \ {p} : proc'[q] = proc[q]
        /\ proc'[p].batch.groups = b.groups
        /\ proc'[p].batch.status = b.status
        /\ proc'[p].batch.item = [b.item EXCEPT ![t] = s]
        /\ proc'[p].key = proc[p].key /\ proc'[p].group = proc[p].group
        /\ proc'[p].todo = proc[p].todo /\ proc'[p].next = n + 1
        /\ \/ /\ proc'[p].pc = "send" /\ s # "invalid" /\ proc'[p].keys = proc[p].keys
           \/ /\ proc'[p].pc = "keys"
              /\ proc'[p].keys = {u \in Range(SubSeq(items, 1, n)) :
                                    proc'[p].batch.item[u] = "pending"}
        /\ UNCHANGED <<store, pendingKey, undelivered, response, notified, failed, crashes>>

\* Whatever the gateway answers, an item is Sent.
LEMMA SendEffect ==
    ASSUME Sound, NEW p \in Procs, SendAccepted(p) \/ SendRefused(p) \/ SendUnanswered(p)
    PROVE  \E s \in ItemStatus : Sent(p, s)
<1> DEFINE b     == proc[p].batch
           items == StartedItems(p)
           n     == proc[p].next
           t     == items[n]
<1>1. proc[p].pc = "send" /\ IsCopy(b, proc[p].key) /\ StartOK(proc[p])
    BY DEF SendAccepted, SendRefused, SendUnanswered, SendNext, Sound, ProcOK
<1>2. t \in TxsOf(b.groups) /\ t \in Txs /\ n \in 1..Len(items)
  <2>1. /\ items \in Seq(Txs)
        /\ Range(items) \subseteq TxsOf(b.groups)
        /\ TxsOf(b.groups) \subseteq Txs
      BY <1>1, CopyFacts DEF StartOK, StartedItems
  <2>2. n \in 1..Len(items)
      BY <1>1, <2>1 DEF StartOK, StartedItems, Sound, TypeOK, ProcType
  <2> QED
      BY <2>1, <2>2 DEF Range
<1>3. PICK s \in ItemStatus : SendNext(p, s) /\ s \in {b.item[t], "invalid"}
  <2>1. b.item[t] \in ItemStatus /\ "invalid" \in ItemStatus
      BY <1>1, <1>2 DEF IsCopy, ItemStatus
  <2> QED
      BY <2>1 DEF SendAccepted, SendRefused, SendUnanswered
<1>4. \/ UNCHANGED chain
      \/ chain' = [chain EXCEPT ![t] = IF @ = "unsent" THEN "sent" ELSE @]
    BY DEF SendAccepted, SendRefused, SendUnanswered, Accepted
<1>5. /\ proc'[p].batch.groups = b.groups
      /\ proc'[p].batch.status = b.status
      /\ proc'[p].batch.item = [b.item EXCEPT ![t] = s]
  <2>1. proc'[p].batch = [b EXCEPT !.item[t] = s]
      BY <1>3, SendSound
  <2>2. /\ [b EXCEPT !.item[t] = s].groups = b.groups
        /\ [b EXCEPT !.item[t] = s].status = b.status
        /\ [b EXCEPT !.item[t] = s].item = [b.item EXCEPT ![t] = s]
      BY <1>1 DEF IsCopy, BatchType
  <2> QED
      BY <2>1, <2>2
<1>6. /\ submissions' = [submissions EXCEPT ![t] = IF @ < 2 THEN @ + 1 ELSE @]
      /\ UNCHANGED <<store, pendingKey, undelivered, response, notified, failed, crashes>>
    BY <1>3 DEF SendNext
<1> QED
    BY <1>1, <1>2, <1>3, <1>4, <1>5, <1>6, SendSound DEF Sent

\* Handler h has read the batch of w = <<transaction, key>>: there is nothing to do, or its
\* copy has the transaction's status and it goes on to start the next group, or to save.
Read(h, w) ==
    LET t == w[1]
        b == store[w[2]]
        g == GroupOf(b, t)
        done == \A u \in Range(b.groups[g]) : u = t \/ b.item[u] = "success"
    IN  /\ proc[h].pc = "next"
        /\ t \in Txs /\ w[2] \in Batches /\ w \in Txs \X Batches
        /\ chain[t] \in Outcome
        /\ \A q \in Procs \ {h} : proc'[q] = proc[q]
        /\ proc'[h].key = w[2] /\ proc'[h].todo = proc[h].todo \ {w} /\ proc'[h].keys = {}
        /\ \/ proc'[h].pc = "delete" /\ proc'[h].batch = proc[h].batch
           \/ /\ b # NoBatch /\ t \in DOMAIN b.item
              /\ g \in DOMAIN b.groups /\ t \in Range(b.groups[g])
              /\ proc'[h].batch.groups = b.groups
              /\ proc'[h].batch.item = [b.item EXCEPT ![t] = chain[t]]
              /\ \/ /\ proc'[h].pc = "send"
                    /\ b.status = "pending" /\ proc'[h].batch.status = "pending"
                    /\ chain[t] = "success" /\ done
                    /\ g + 1 \in DOMAIN b.groups
                    /\ proc'[h].group = g + 1 /\ proc'[h].next = 1
                 \/ /\ proc'[h].pc = "save"
                    /\ \/ proc'[h].batch.status = b.status
                       \/ /\ b.status = "pending" /\ proc'[h].batch.status = "invalid"
                          /\ chain[t] = "invalid"
                       \/ /\ b.status = "pending" /\ proc'[h].batch.status = "success"
                          /\ chain[t] = "success" /\ done
                          /\ \A f \in DOMAIN b.groups : f <= g
        /\ UNCHANGED <<store, pendingKey, chain, undelivered, response, notified,
                       submissions, failed, crashes>>

\* What ReadBatch does is a Read.
LEMMA ReadEffect ==
    ASSUME Sound, NEW h \in Handlers, ReadBatch(h)
    PROVE  \E w \in proc[h].todo : Read(h, w)
<1> DEFINE L(w) == [proc[h] EXCEPT !.tx = w[1], !.key = w[2], !.todo = @ \ {w}]
           M(w) == IF store[w[2]] = NoBatch THEN [L(w) EXCEPT !.pc = "delete"]
                   ELSE IF w[1] \notin DOMAIN store[w[2]].item
                   THEN [L(w) EXCEPT !.pc = "delete"]
                   ELSE Apply(L(w), store[w[2]], w[1], chain[w[1]])
<1>1. PICK w \in proc[h].todo :
        /\ proc[h].pc = "next"
        /\ proc' = [proc EXCEPT ![h] = M(w)]
        /\ UNCHANGED <<store, pendingKey, chain, undelivered, response, notified,
                       submissions, failed, crashes>>
    BY DEF ReadBatch
<1> DEFINE t == w[1]
           k == w[2]
           l == L(w)
           m == M(w)
           b == store[k]
           u == WithStatus(b, t, chain[t])
           g == GroupOf(b, t)
           done == \A v \in Range(b.groups[g]) : v = t \/ b.item[v] = "success"
<1>2. h \in Procs /\ h \notin Requests /\ proc[h] \in ProcType /\ proc[h].keys = {}
    BY <1>1, BatchAssumption DEF Procs, Sound, TypeOK, ProcOK
<1>3. t \in Txs /\ k \in Batches /\ w \in Txs \X Batches
    BY <1>2 DEF ProcType
<1>4. chain[t] \in Outcome
    BY DEF Sound, HandedIsExecuted, InHand
<1>5. /\ l \in ProcType
      /\ l.key = k /\ l.keys = {} /\ l.todo = proc[h].todo \ {w} /\ l.batch = proc[h].batch
    BY <1>2, <1>3 DEF ProcType
<1>6. proc'[h] = m /\ \A q \in Procs \ {h} : proc'[q] = proc[q]
    BY <1>1, <1>2 DEF Sound, TypeOK
<1> HIDE DEF L
<1>7. CASE b = NoBatch \/ t \notin DOMAIN b.item
  <2>1. m = [l EXCEPT !.pc = "delete"]
      BY <1>7
  <2> HIDE DEF l, m
  <2>2. /\ m.pc = "delete" /\ m.key = l.key /\ m.todo = l.todo /\ m.keys = l.keys
        /\ m.batch = l.batch
      BY <1>5, <2>1 DEF ProcType
  <2> QED
      BY <1>1, <1>3, <1>4, <1>5, <1>6, <2>2 DEF Read
<1>8. CASE ~(b = NoBatch \/ t \notin DOMAIN b.item)
  <2>1. m = Apply(l, b, t, chain[t])
      BY <1>8
  <2>2. IsCopy(b, k) /\ t \in DOMAIN b.item /\ b # NoBatch /\ b \in BatchType
      BY <1>3, <1>8 DEF Sound, IsCopy
  <2>3. u.groups = b.groups /\ u.status = b.status /\ u.item = [b.item EXCEPT ![t] = chain[t]]
        /\ u = [groups |-> u.groups, item |-> u.item, status |-> u.status]
      BY <2>2 DEF WithStatus, BatchType
  <2>4. /\ g \in DOMAIN b.groups /\ t \in Range(b.groups[g])
        /\ b.groups \in Seq(Seq(Txs)) /\ DOMAIN b.item = TxsOf(b.groups)
        /\ Range(b.groups[g]) \subseteq DOMAIN b.item
      BY <2>2, GroupOfFacts, CopyFacts
  <2>5. chain[t] = "success" => (GroupSucceeded(u, g) <=> done)
      BY <2>3, <2>4, <2>2 DEF GroupSucceeded, IsCopy
  <2> DEFINE completed == chain[t] = "success" /\ GroupSucceeded(u, g)
             newStatus == IF chain[t] = "invalid" THEN "invalid"
                          ELSE IF completed THEN "success" ELSE "pending"
             starts == b.status = "pending" /\ completed /\ ~IsLastGroup(b, g)
             v == IF u.status = "pending" THEN newStatus ELSE u.status
             c == [u EXCEPT !.status = v]
             f == g + 1
  <2>6. CASE starts
    <3>1. m = [l EXCEPT !.pc = "send", !.batch = u, !.group = f, !.next = 1]
        BY <2>1, <2>6 DEF Apply
    <3>2. f \in DOMAIN b.groups
        BY <2>4, <2>6 DEF IsLastGroup
    <3>3. chain[t] = "success" /\ done /\ b.status = "pending"
        BY <2>5, <2>6
    <3> HIDE DEF l, m, u, f, done
    <3>4. /\ m.pc = "send" /\ m.key = l.key /\ m.todo = l.todo /\ m.keys = l.keys
          /\ m.batch = u /\ m.group = f /\ m.next = 1
        BY <1>5, <3>1 DEF ProcType
    <3>5. f = g + 1
        BY DEF f
    <3>6. /\ proc'[h].key = k /\ proc'[h].todo = proc[h].todo \ {w} /\ proc'[h].keys = {}
          /\ proc'[h].pc = "send" /\ proc'[h].batch.status = "pending"
          /\ proc'[h].batch.groups = b.groups
          /\ proc'[h].batch.item = [b.item EXCEPT ![t] = chain[t]]
          /\ proc'[h].group = g + 1 /\ proc'[h].next = 1 /\ g + 1 \in DOMAIN b.groups
      <4> HIDE DEF g, b, t, k
      <4> QED
          BY <1>5, <1>6, <2>3, <3>2, <3>3, <3>4, <3>5
    <3> QED
        BY <1>1, <1>3, <1>4, <1>6, <2>2, <2>4, <3>3, <3>6 DEF Read, done
  <2>7. CASE ~starts
    <3>1. m = [l EXCEPT !.pc = "save", !.batch = c]
        BY <2>1, <2>7 DEF Apply
    <3>2. c.groups = b.groups /\ c.item = [b.item EXCEPT ![t] = chain[t]] /\ c.status = v
      <4> HIDE DEF u, v
      <4> QED
          BY <2>3
    <3>3. \/ v = b.status
          \/ b.status = "pending" /\ v = "invalid" /\ chain[t] = "invalid"
          \/ /\ b.status = "pending" /\ v = "success" /\ chain[t] = "success" /\ done
             /\ \A e \in DOMAIN b.groups : e <= g
      <4>1. IsLastGroup(b, g) => \A e \in DOMAIN b.groups : e <= g
          BY <2>4 DEF IsLastGroup
      <4> HIDE DEF u, g, done
      <4> QED
          BY <4>1, <2>3, <2>5, <2>7
    <3> HIDE DEF l, m, c, v, done
    <3>4. m.pc = "save" /\ m.key = l.key /\ m.todo = l.todo /\ m.keys = l.keys /\ m.batch = c
        BY <1>5, <3>1 DEF ProcType
    <3>5. /\ proc'[h].key = k /\ proc'[h].todo = proc[h].todo \ {w} /\ proc'[h].keys = {}
          /\ proc'[h].pc = "save" /\ proc'[h].batch.status = v
          /\ proc'[h].batch.groups = b.groups
          /\ proc'[h].batch.item = [b.item EXCEPT ![t] = chain[t]]
      <4> HIDE DEF g, b, t, k
      <4> QED
          BY <1>5, <1>6, <3>2, <3>4
    <3> QED
        BY <1>1, <1>3, <1>4, <1>6, <2>2, <2>4, <3>3, <3>5 DEF Read, done
  <2> QED
      BY <2>6, <2>7
<1> QED
    BY <1>7, <1>8

\* Process p moves to a place where it starts no group and saves no copy.
Quiet(p) ==
    /\ \A q \in Procs \ {p} : proc'[q] = proc[q]
    /\ proc'[p].pc \in {"idle", "next", "delete", "end"}
    /\ proc'[p].batch \in {proc[p].batch, NoBatch}
    /\ proc'[p].todo \subseteq proc[p].todo
    /\ UNCHANGED <<chain, undelivered, submissions, crashes>>

\* Process p, in its quiet place, has something new to do for the transactions T.
Handed(p, T) ==
    /\ proc[p].pc = "idle" /\ T \subseteq Txs
    /\ \A q \in Procs \ {p} : proc'[q] = proc[q]
    /\ proc'[p].pc = "next"
    /\ proc'[p].batch = proc[p].batch
    /\ proc'[p].todo = {<<t, pendingKey[t].batch>> : t \in {u \in T : pendingKey[u] # NoKey}}
    /\ UNCHANGED <<store, pendingKey, chain, response, notified, submissions, failed, crashes>>

\* Process p has written the pending key of t.
KeySet(p, t) ==
    /\ proc[p].pc = "keys" /\ t \in Txs
    /\ pendingKey' = [pendingKey EXCEPT ![t] = [batch |-> proc[p].key, old |-> FALSE]]
    /\ \A q \in Procs \ {p} : proc'[q] = proc[q]
    /\ proc'[p].pc = "keys" /\ proc'[p].batch = proc[p].batch /\ proc'[p].key = proc[p].key
    /\ proc'[p].group = proc[p].group /\ proc'[p].next = proc[p].next
    /\ proc'[p].todo = proc[p].todo /\ proc'[p].keys = proc[p].keys \ {t}
    /\ UNCHANGED <<store, chain, undelivered, response, notified, submissions, failed, crashes>>

\* What SetPendingKey does is a KeySet.
LEMMA SetPendingKeyEffect ==
    ASSUME Sound, NEW p \in Procs, SetPendingKey(p)
    PROVE  \E t \in proc[p].keys : KeySet(p, t)
<1>1. PICK t \in proc[p].keys :
        /\ proc[p].pc = "keys"
        /\ pendingKey' = [pendingKey EXCEPT ![t] = [batch |-> proc[p].key, old |-> FALSE]]
        /\ proc' = [proc EXCEPT ![p].keys = @ \ {t}]
        /\ UNCHANGED <<store, chain, undelivered, response, notified, submissions, failed, crashes>>
    BY DEF SetPendingKey
<1>2. proc[p] \in ProcType /\ t \in Txs
    BY DEF Sound, TypeOK, ProcType
<1>3. proc'[p] = [proc[p] EXCEPT !.keys = @ \ {t}] /\ \A q \in Procs \ {p} : proc'[q] = proc[q]
    BY <1>1 DEF Sound, TypeOK
<1>4. /\ proc'[p].pc = proc[p].pc /\ proc'[p].batch = proc[p].batch /\ proc'[p].key = proc[p].key
      /\ proc'[p].group = proc[p].group /\ proc'[p].next = proc[p].next
      /\ proc'[p].todo = proc[p].todo /\ proc'[p].keys = proc[p].keys \ {t}
    BY <1>2, <1>3 DEF ProcType
<1> QED
    BY <1>1, <1>2, <1>3, <1>4 DEF KeySet

\* Request r has read that its key is free and holds a new copy.
Posted(r) ==
    /\ \A q \in Procs \ {r} : proc'[q] = proc[q]
    /\ proc[r] = Idle
    /\ proc'[r].pc = "send" /\ proc'[r].key = BatchOf[r] /\ proc'[r].group = 1
    /\ proc'[r].next = 1 /\ proc'[r].todo = {} /\ proc'[r].keys = {}
    /\ proc'[r].batch.groups = Groups[r]
    /\ proc'[r].batch.status = "pending"
    /\ proc'[r].batch.item = [t \in TxsOf(Groups[r]) |-> "pending"]
    /\ UNCHANGED <<store, pendingKey, chain, undelivered, response, notified,
                   submissions, failed, crashes>>

\* What PostBatch does is to be Posted.
LEMMA PostBatchEffect ==
    ASSUME Sound, NEW r \in Requests, PostBatch(r)
    PROVE  Posted(r)
<1>1. r \in Procs
    BY DEF Procs
<1>2. proc'[r] = [Idle EXCEPT !.pc = "send", !.key = BatchOf[r], !.batch = NewBatch(Groups[r]),
                              !.group = 1, !.next = 1]
      /\ \A q \in Procs \ {r} : proc'[q] = proc[q]
    BY <1>1 DEF PostBatch, Sound, TypeOK
<1> DEFINE b == NewBatch(Groups[r])
<1>3. /\ b.groups = Groups[r] /\ b.status = "pending"
      /\ b.item = [t \in TxsOf(Groups[r]) |-> "pending"]
    BY DEF NewBatch
<1> HIDE DEF b
<1>4. /\ proc'[r].pc = "send" /\ proc'[r].key = BatchOf[r] /\ proc'[r].group = 1
      /\ proc'[r].next = 1 /\ proc'[r].todo = {} /\ proc'[r].keys = {} /\ proc'[r].batch = b
    BY <1>2 DEF Idle, b
<1> QED
    BY <1>2, <1>3, <1>4 DEF PostBatch, Posted, b

\* Handler h has started its next group, or its copy has become invalid.
Begun(h) ==
    /\ \A q \in Procs \ {h} : proc'[q] = proc[q]
    /\ proc[h].pc = "keys" /\ proc'[h].pc = "save"
    /\ proc'[h].key = proc[h].key /\ proc'[h].todo = proc[h].todo
    /\ proc'[h].batch.groups = proc[h].batch.groups
    /\ proc'[h].batch.item = proc[h].batch.item
    /\ proc'[h].batch.status = IF GroupInvalid(h) THEN "invalid" ELSE proc[h].batch.status
    /\ UNCHANGED <<store, pendingKey, chain, undelivered, response, submissions,
                   failed, crashes>>

\* What GroupStarted does is to have Begun.
LEMMA GroupStartedEffect ==
    ASSUME Sound, NEW h \in Handlers, GroupStarted(h)
    PROVE  Begun(h)
<1> DEFINE b == proc[h].batch
           v == IF GroupInvalid(h) THEN "invalid" ELSE b.status
           c == [b EXCEPT !.status = v]
<1>1. h \in Procs /\ proc[h] \in ProcType /\ ProcOK(h, proc[h]) /\ proc[h].pc = "keys"
    BY DEF Procs, Sound, TypeOK, GroupStarted
<1>2. b \in BatchType
    BY <1>1 DEF ProcOK, IsCopy
<1>3. c.groups = b.groups /\ c.item = b.item /\ c.status = v
    BY <1>2 DEF BatchType
<1>4. proc'[h] = [proc[h] EXCEPT !.pc = "save", !.batch = c] /\ \A q \in Procs \ {h} : proc'[q] = proc[q]
    BY <1>1 DEF GroupStarted, Sound, TypeOK
<1> HIDE DEF c, v
<1>5. proc'[h].pc = "save" /\ proc'[h].key = proc[h].key /\ proc'[h].todo = proc[h].todo /\ proc'[h].batch = c
    BY <1>1, <1>4 DEF ProcType
<1> QED
    BY <1>1, <1>3, <1>4, <1>5 DEF GroupStarted, Begun, v

\* Dropper d marks a pending item of a stored batch as dropped.
Dropped(d, w) ==
    /\ store[w[2]] # NoBatch /\ w[1] \in DOMAIN store[w[2]].item
    /\ store[w[2]].item[w[1]] = "pending"
    /\ \A q \in Procs \ {d} : proc'[q] = proc[q]
    /\ w[2] \in Batches
    /\ proc'[d].pc = "save" /\ proc'[d].key = w[2] /\ proc'[d].todo = proc[d].todo \ {w}
    /\ proc'[d].batch.groups = store[w[2]].groups
    /\ proc'[d].batch.item = [store[w[2]].item EXCEPT ![w[1]] = "dropped"]
    /\ proc'[d].batch.status = "dropped"
    /\ UNCHANGED <<store, pendingKey, chain, undelivered, response, notified,
                   submissions, failed, crashes>>

\* The dropper leaves a transaction alone, or its copy has it as dropped.
LEMMA DropperEffect ==
    ASSUME Sound, NEW d \in Droppers, DropperSkips(d) \/ DropperDrops(d)
    PROVE  \/ Quiet(d) /\ UNCHANGED <<store, pendingKey, failed>>
           \/ \E w \in proc[d].todo : Dropped(d, w)
<1>1. d \in Procs /\ proc[d] \in ProcType /\ proc[d].pc = "next"
    BY DEF Procs, Sound, TypeOK, DropperSkips, DropperDrops
<1> DEFINE L(w) == [proc[d] EXCEPT !.todo = @ \ {w}]
           D(w) == [store[w[2]] EXCEPT !.item[w[1]] = "dropped", !.status = "dropped"]
           M(w) == [L(w) EXCEPT !.pc = "save", !.tx = w[1], !.key = w[2], !.batch = D(w)]
<1>2. PICK w \in proc[d].todo :
        /\ \/ proc' = [proc EXCEPT ![d] = L(w)]
           \/ /\ store[w[2]] # NoBatch /\ w[1] \in DOMAIN store[w[2]].item
              /\ store[w[2]].item[w[1]] = "pending"
              /\ proc' = [proc EXCEPT ![d] = M(w)]
        /\ UNCHANGED <<store, pendingKey, chain, undelivered, response, notified,
                       submissions, failed, crashes>>
  <2>1. CASE DropperSkips(d)
      BY <2>1 DEF DropperSkips
  <2>2. CASE DropperDrops(d)
      BY <2>2 DEF DropperDrops
  <2> QED
      BY <2>1, <2>2
<1>3. w[1] \in Txs /\ w[2] \in Batches
    BY <1>1 DEF ProcType
<1>4. L(w) \in ProcType /\ L(w).pc = "next" /\ L(w).todo = proc[d].todo \ {w} /\ L(w).batch = proc[d].batch
    BY <1>1 DEF ProcType
<1> HIDE DEF L
<1>5. CASE proc' = [proc EXCEPT ![d] = L(w)]
  <2>1. proc'[d] = L(w) /\ \A q \in Procs \ {d} : proc'[q] = proc[q]
      BY <1>1, <1>5 DEF Sound, TypeOK
  <2> QED
      BY <1>2, <1>4, <2>1 DEF Quiet
<1>6. CASE /\ store[w[2]] # NoBatch /\ w[1] \in DOMAIN store[w[2]].item
           /\ store[w[2]].item[w[1]] = "pending"
           /\ proc' = [proc EXCEPT ![d] = M(w)]
  <2>1. proc'[d] = M(w) /\ \A q \in Procs \ {d} : proc'[q] = proc[q]
      BY <1>1, <1>6 DEF Sound, TypeOK
  <2>2. store[w[2]] \in BatchType
      BY <1>3, <1>6 DEF Sound, IsCopy
  <2>3. /\ D(w).groups = store[w[2]].groups
        /\ D(w).item = [store[w[2]].item EXCEPT ![w[1]] = "dropped"]
        /\ D(w).status = "dropped"
      BY <2>2 DEF BatchType
  <2> HIDE DEF D
  <2>4. M(w).pc = "save" /\ M(w).key = w[2] /\ M(w).todo = proc[d].todo \ {w} /\ M(w).batch = D(w)
      BY <1>4 DEF ProcType
  <2> HIDE DEF M
  <2>5. /\ proc'[d].pc = "save" /\ proc'[d].key = w[2] /\ proc'[d].todo = proc[d].todo \ {w}
        /\ proc'[d].batch = D(w)
      BY <2>1, <2>4
  <2>6. /\ proc'[d].batch.groups = store[w[2]].groups
        /\ proc'[d].batch.item = [store[w[2]].item EXCEPT ![w[1]] = "dropped"]
        /\ proc'[d].batch.status = "dropped"
      BY <2>3, <2>5, Zenon
  <2>7. Dropped(d, w)
      BY <1>2, <1>3, <1>6, <2>1, <2>5, <2>6, Zenon DEF Dropped
  <2> QED
      BY <2>7
<1> QED
    BY <1>2, <1>5, <1>6

\* No pending key appears or changes its batch.
KeysFade ==
    \A t \in Txs : pendingKey'[t] # NoKey
                     => pendingKey[t] # NoKey /\ pendingKey'[t].batch = pendingKey[t].batch

\* A quiet move that leaves the batches alone.
Moved(p) == Quiet(p) /\ KeysFade /\ UNCHANGED <<store, failed>>

\* Process p has saved its copy.
Saved(p) ==
    /\ Quiet(p)
    /\ proc[p].pc \in {"keys", "save"}
    /\ store' = [store EXCEPT ![proc[p].key] = proc[p].batch]
    /\ failed' = IF proc[p].batch.status = "invalid" THEN failed \cup {proc[p].key} ELSE failed
    /\ UNCHANGED pendingKey

\* Requests: a duplicate, a refused first group, the batch saved and answered.
LEMMA AnswerEffect ==
    ASSUME Sound, NEW r \in Requests
    PROVE  /\ PostDuplicate(r) \/ PostInvalid(r) => Moved(r)
           /\ PostSaved(r) => Saved(r)
<1>1. r \in Procs /\ proc[r] \in ProcType
    BY DEF Procs, Sound, TypeOK
<1> DEFINE l == [Idle EXCEPT !.pc = "end"]
<1>2. l.pc = "end" /\ l.batch = NoBatch /\ l.todo = {}
    BY DEF Idle
<1> HIDE DEF l
<1>3. ASSUME PostDuplicate(r)
      PROVE  Moved(r)
  <2>1. proc'[r] = [proc[r] EXCEPT !.pc = "end"] /\ \A q \in Procs \ {r} : proc'[q] = proc[q]
      BY <1>1, <1>3 DEF PostDuplicate, Sound, TypeOK
  <2>2. proc'[r].pc = "end" /\ proc'[r].batch = proc[r].batch /\ proc'[r].todo = proc[r].todo
      BY <1>1, <2>1 DEF ProcType
  <2> QED
      BY <1>3, <2>1, <2>2 DEF PostDuplicate, Moved, Quiet, KeysFade
<1>4. ASSUME PostInvalid(r)
      PROVE  Moved(r)
  <2>1. proc'[r] = l /\ \A q \in Procs \ {r} : proc'[q] = proc[q]
      BY <1>1, <1>4 DEF PostInvalid, Sound, TypeOK, l
  <2> QED
      BY <1>2, <1>4, <2>1 DEF PostInvalid, Moved, Quiet, KeysFade
<1>5. ASSUME PostSaved(r)
      PROVE  Saved(r)
  <2>1. proc'[r] = l /\ \A q \in Procs \ {r} : proc'[q] = proc[q]
      BY <1>1, <1>5 DEF PostSaved, Sound, TypeOK, l
  <2>2. proc[r].batch.status = "pending"
      BY <1>1, <1>5 DEF PostSaved, Sound, ProcOK
  <2> QED
      BY <1>2, <1>5, <2>1, <2>2 DEF PostSaved, Saved, Quiet
<1> QED
    BY <1>3, <1>4, <1>5

\* Handlers and droppers: the copy saved, the pending key deleted, the updates emitted.
LEMMA FinishEffect ==
    ASSUME Sound, NEW p \in Handlers \cup Droppers
    PROVE  /\ SaveBatch(p) => Saved(p)
           /\ DeletePendingKey(p) \/ EmitUpdates(p) => Moved(p)
<1>1. p \in Procs /\ proc[p] \in ProcType /\ ProcOK(p, proc[p])
    BY DEF Procs, Sound, TypeOK
<1>2. ASSUME SaveBatch(p)
      PROVE  Saved(p)
  <2>1. proc'[p] = [proc[p] EXCEPT !.pc = "delete"] /\ \A q \in Procs \ {p} : proc'[q] = proc[q]
      BY <1>1, <1>2 DEF SaveBatch, Sound, TypeOK
  <2>2. proc'[p].pc = "delete" /\ proc'[p].batch = proc[p].batch /\ proc'[p].todo = proc[p].todo
      BY <1>1, <2>1 DEF ProcType
  <2> QED
      BY <1>2, <2>1, <2>2 DEF SaveBatch, Saved, Quiet
<1>3. ASSUME DeletePendingKey(p)
      PROVE  Moved(p)
  <2> DEFINE d == Append(proc[p].done, <<proc[p].key, proc[p].tx>>)
             l == [Idle EXCEPT !.pc = "next", !.todo = proc[p].todo, !.done = d]
  <2>1. proc'[p] = l /\ \A q \in Procs \ {p} : proc'[q] = proc[q]
      BY <1>1, <1>3 DEF DeletePendingKey, Sound, TypeOK
  <2> HIDE DEF d
  <2>2. l.pc = "next" /\ l.batch = NoBatch /\ l.todo = proc[p].todo
      BY DEF Idle
  <2> HIDE DEF l
  <2>3. KeysFade
      BY <1>3 DEF DeletePendingKey, KeysFade, Sound, TypeOK
  <2> QED
      BY <1>3, <2>1, <2>2, <2>3 DEF DeletePendingKey, Moved, Quiet
<1>4. ASSUME EmitUpdates(p)
      PROVE  Moved(p)
  <2>1. proc'[p] = Idle /\ \A q \in Procs \ {p} : proc'[q] = proc[q]
      BY <1>1, <1>4 DEF EmitUpdates, Sound, TypeOK
  <2>2. Idle.pc = "idle" /\ Idle.batch = NoBatch /\ Idle.todo = {}
      BY DEF Idle
  <2> QED
      BY <1>4, <2>1, <2>2 DEF EmitUpdates, Moved, Quiet, KeysFade
<1> QED
    BY <1>2, <1>3, <1>4

\* A handler is handed a block, a dropper finds old keys.
LEMMA HandedEffect ==
    ASSUME Sound
    PROVE  /\ \A h \in Handlers : ReceiveBlock(h)
                => \E T \in SUBSET undelivered : Handed(h, T) /\ undelivered' = undelivered \ T
           /\ \A d \in Droppers : FindOldKeys(d)
                => \E T \in SUBSET Txs : Handed(d, T) /\ UNCHANGED undelivered
<1>1. ASSUME NEW h \in Handlers, ReceiveBlock(h)
      PROVE  \E T \in SUBSET undelivered : Handed(h, T) /\ undelivered' = undelivered \ T
  <2> DEFINE W(T) == {<<t, pendingKey[t].batch>> : t \in {u \in T : pendingKey[u] # NoKey}}
  <2>1. PICK T \in SUBSET undelivered :
          /\ proc[h].pc = "idle"
          /\ undelivered' = undelivered \ T
          /\ proc' = [proc EXCEPT ![h].pc = "next", ![h].todo = W(T)]
          /\ UNCHANGED <<store, pendingKey, chain, response, notified, submissions, failed, crashes>>
      BY <1>1 DEF ReceiveBlock
  <2>2. h \in Procs /\ proc[h] \in ProcType /\ T \subseteq Txs
      BY DEF Procs, Sound, TypeOK
  <2>3. proc'[h] = [proc[h] EXCEPT !.pc = "next", !.todo = W(T)] /\ \A q \in Procs \ {h} : proc'[q] = proc[q]
      BY <2>1, <2>2 DEF Sound, TypeOK
  <2> HIDE DEF W
  <2>4. proc'[h].pc = "next" /\ proc'[h].batch = proc[h].batch /\ proc'[h].todo = W(T)
      BY <2>2, <2>3 DEF ProcType
  <2> QED
      BY <2>1, <2>2, <2>3, <2>4 DEF Handed, W
<1>2. ASSUME NEW d \in Droppers, FindOldKeys(d)
      PROVE  \E T \in SUBSET Txs : Handed(d, T) /\ UNCHANGED undelivered
  <2> DEFINE T == {u \in Txs : pendingKey[u] # NoKey /\ pendingKey[u].old}
             W == {<<t, pendingKey[t].batch>> : t \in T}
             V == {<<t, pendingKey[t].batch>> : t \in {u \in T : pendingKey[u] # NoKey}}
  <2>1. d \in Procs /\ proc[d] \in ProcType
      BY DEF Procs, Sound, TypeOK
  <2>2. proc'[d] = [proc[d] EXCEPT !.pc = "next", !.todo = W] /\ \A q \in Procs \ {d} : proc'[q] = proc[q]
      BY <1>2, <2>1 DEF FindOldKeys, Sound, TypeOK
  <2>3. W = V
      OBVIOUS
  <2> HIDE DEF W, V
  <2>4. proc'[d].pc = "next" /\ proc'[d].batch = proc[d].batch /\ proc'[d].todo = W
      BY <2>1, <2>2 DEF ProcType
  <2>5. Handed(d, T)
      BY <1>2, <2>2, <2>3, <2>4 DEF FindOldKeys, Handed, V
  <2> QED
      BY <1>2, <2>5 DEF FindOldKeys
<1> QED
    BY <1>1, <1>2

\* The transactions' fates, the keys' age and the batches' expiry, as Promise and the copies see them.
Environment ==
    \/ \E t \in Txs : Execute(t)
    \/ KeysFade /\ UNCHANGED <<store, chain, undelivered, proc, submissions, failed, crashes>>
    \/ \E k \in Batches : /\ store' = [store EXCEPT ![k] = NoBatch]
                          /\ failed' = failed \ {k}
                          /\ UNCHANGED <<pendingKey, chain, undelivered, proc, submissions, crashes>>

\* Every step is one of those described above.
LEMMA Steps ==
    ASSUME Sound, Next
    PROVE  \/ \E p \in Procs : \E s \in ItemStatus : Sent(p, s)
           \/ \E p \in Procs : \E t \in proc[p].keys : KeySet(p, t)
           \/ \E r \in Requests : Posted(r)
           \/ \E h \in Handlers : \E w \in proc[h].todo : Read(h, w)
           \/ \E h \in Handlers : Begun(h)
           \/ \E d \in Droppers : \E w \in proc[d].todo : Dropped(d, w)
           \/ \E p \in Procs : Saved(p)
           \/ \E p \in Procs : Moved(p)
           \/ \E h \in Handlers : \E T \in SUBSET undelivered :
                 Handed(h, T) /\ undelivered' = undelivered \ T
           \/ \E d \in Droppers : \E T \in SUBSET Txs : Handed(d, T) /\ UNCHANGED undelivered
           \/ Environment
           \/ CrashProcessor
<1> Requests \subseteq Procs /\ Handlers \subseteq Procs /\ Droppers \subseteq Procs
    BY DEF Procs
<1>1. CASE \E r \in Requests : RequestStep(r)
    BY <1>1, SendEffect, SetPendingKeyEffect, PostBatchEffect, AnswerEffect
       DEF RequestStep, StartGroupStep
<1>2. CASE \E h \in Handlers : ReceiveBlock(h) \/ HandlerStep(h)
    BY <1>2, HandedEffect, SendEffect, SetPendingKeyEffect, ReadEffect, GroupStartedEffect, FinishEffect
       DEF HandlerStep, StartGroupStep
<1>3. CASE \E d \in Droppers : DropperStep(d)
  <2>1. PICK d \in Droppers : DropperStep(d)
      BY <1>3
  <2>2. CASE DropperSkips(d) \/ DropperDrops(d)
    <3>1. CASE Quiet(d) /\ UNCHANGED <<store, pendingKey, failed>>
        BY <3>1 DEF Moved, KeysFade
    <3> QED
        BY <2>2, <3>1, DropperEffect
  <2> QED
      BY <2>1, <2>2, HandedEffect, FinishEffect DEF DropperStep
<1>4. CASE \E t \in Txs : Execute(t)
    BY <1>4 DEF Environment
<1>5. CASE \E t \in Txs : AgeKey(t)
  <2> PICK t \in Txs : AgeKey(t)
      BY <1>5
  <2>1. pendingKey[t] \in [batch : Batches, old : BOOLEAN]
      BY DEF AgeKey, Sound, TypeOK
  <2>2. [pendingKey[t] EXCEPT !.old = TRUE].batch = pendingKey[t].batch
      BY <2>1
  <2>3. KeysFade
      BY <2>2 DEF AgeKey, KeysFade, Sound, TypeOK
  <2> QED
      BY <2>3 DEF AgeKey, Environment
<1>6. CASE \E k \in Batches : ExpireBatch(k)
    BY <1>6 DEF ExpireBatch, Environment
<1> QED
    BY <1>1, <1>2, <1>3, <1>4, <1>5, <1>6 DEF Next

\* Who may change what: the chain, the submissions, the pending keys, the batches, the restarts.
LEMMA Frames ==
    ASSUME Sound, Next
    PROVE  /\ \/ UNCHANGED chain
              \/ \E t \in Txs : Execute(t)
              \/ \E p \in Procs : \E s \in ItemStatus : Sent(p, s)
           /\ UNCHANGED submissions \/ \E p \in Procs : \E s \in ItemStatus : Sent(p, s)
           /\ \/ UNCHANGED pendingKey \/ KeysFade
              \/ \E p \in Procs : \E t \in proc[p].keys : KeySet(p, t)
           /\ UNCHANGED <<store, failed>> \/ Environment \/ \E p \in Procs : Saved(p)
           /\ UNCHANGED crashes \/ CrashProcessor
<1>1. CASE \E p \in Procs : \E s \in ItemStatus : Sent(p, s)
  <2>1. UNCHANGED <<store, pendingKey, failed, crashes>>
      BY <1>1 DEF Sent
  <2> QED
      BY <1>1, <2>1
<1>2. CASE \E p \in Procs : \E t \in proc[p].keys : KeySet(p, t)
  <2>1. UNCHANGED <<store, chain, submissions, failed, crashes>>
      BY <1>2 DEF KeySet
  <2> QED
      BY <1>2, <2>1
<1>3. CASE UNCHANGED <<store, pendingKey, chain, submissions, failed, crashes>>
    BY <1>3
<1>4. CASE \E r \in Requests : Posted(r)
  <2>1. UNCHANGED <<store, pendingKey, chain, submissions, failed, crashes>>
      BY <1>4 DEF Posted
  <2> QED BY <1>3, <2>1
<1>5. CASE \E h \in Handlers : \E w \in proc[h].todo : Read(h, w)
  <2>1. UNCHANGED <<store, pendingKey, chain, submissions, failed, crashes>>
      BY <1>5 DEF Read
  <2> QED BY <1>3, <2>1
<1>6. CASE \E h \in Handlers : Begun(h)
  <2>1. UNCHANGED <<store, pendingKey, chain, submissions, failed, crashes>>
      BY <1>6 DEF Begun
  <2> QED BY <1>3, <2>1
<1>7. CASE \E d \in Droppers : \E w \in proc[d].todo : Dropped(d, w)
  <2>1. UNCHANGED <<store, pendingKey, chain, submissions, failed, crashes>>
      BY <1>7 DEF Dropped
  <2> QED BY <1>3, <2>1
<1>8. CASE \E p \in Procs : Saved(p)
  <2>1. UNCHANGED <<pendingKey, chain, submissions, crashes>>
      BY <1>8 DEF Saved, Quiet
  <2> QED
      BY <1>8, <2>1
<1>9. CASE \E p \in Procs : Moved(p)
  <2>1. KeysFade /\ UNCHANGED <<store, chain, submissions, failed, crashes>>
      BY <1>9 DEF Moved, Quiet
  <2> QED
      BY <2>1
<1>10. CASE \E p \in Procs : \E T \in SUBSET Txs : Handed(p, T)
  <2>1. UNCHANGED <<store, pendingKey, chain, submissions, failed, crashes>>
      BY <1>10 DEF Handed
  <2> QED BY <1>3, <2>1
<1>11. CASE Environment
  <2>1. /\ UNCHANGED chain \/ \E t \in Txs : Execute(t)
        /\ UNCHANGED pendingKey \/ KeysFade
        /\ UNCHANGED <<submissions, crashes>>
      BY <1>11 DEF Environment, Execute
  <2> QED
      BY <1>11, <2>1
<1>12. CASE CrashProcessor
  <2>1. UNCHANGED <<store, pendingKey, chain, submissions, failed>>
      BY <1>12 DEF CrashProcessor
  <2> QED
      BY <1>12, <2>1
<1>13. Handlers \subseteq Procs /\ Droppers \subseteq Procs /\ undelivered \subseteq Txs
    BY DEF Procs, Sound, TypeOK
<1>14. CASE \/ \E h \in Handlers : \E T \in SUBSET undelivered :
                 Handed(h, T) /\ undelivered' = undelivered \ T
            \/ \E d \in Droppers : \E T \in SUBSET Txs : Handed(d, T) /\ UNCHANGED undelivered
    BY <1>10, <1>13, <1>14
<1> QED
    BY <1>1, <1>2, <1>4, <1>5, <1>6, <1>7, <1>8, <1>9, <1>11, <1>12, <1>14, Steps

-----------------------------------------------------------------------------
(***************************************************************************)
(* Success is real.                                                        *)
(***************************************************************************)

\* Success on chain is final.
LEMMA ChainFinal ==
    ASSUME Sound, [Next]_vars
    PROVE  \A t \in Txs : /\ chain[t] = "success" => chain'[t] = "success"
                          /\ chain[t] = "invalid" => chain'[t] = "invalid"
                          /\ chain[t] \in Outcome => chain'[t] \in Outcome
<1>1. CASE UNCHANGED chain
    BY <1>1
<1>2. CASE \E t \in Txs : chain' = [chain EXCEPT ![t] = IF @ = "unsent" THEN "sent" ELSE @]
    BY <1>2 DEF Sound, TypeOK, Outcome
<1>3. CASE \E t \in Txs : Execute(t)
    BY <1>3 DEF Execute, Sound, TypeOK, Outcome
<1>4. CASE UNCHANGED vars
    BY <1>4 DEF vars
<1>5. CASE Next
  <2>1. CASE \E p \in Procs : \E s \in ItemStatus : Sent(p, s)
      BY <2>1, <1>1, <1>2 DEF Sent
  <2>2. ASSUME ~ \E p \in Procs : \E s \in ItemStatus : Sent(p, s)
        PROVE  UNCHANGED chain \/ \E t \in Txs : Execute(t)
      BY <1>5, <2>2, Frames
  <2> QED
      BY <1>1, <1>3, <2>1, <2>2
<1> QED
    BY <1>4, <1>5

\* A copy's items are typed.
LEMMA CopyTyped ==
    ASSUME Sound, NEW b \in Copies
    PROVE  b \in BatchType /\ DOMAIN b.item \subseteq Txs
<1>1. b \in BatchType
    BY DEF Copies, Sound, TypeOK, ProcType
<1>2. PICK r \in Requests : b.item \in [TxsOf(Groups[r]) -> ItemStatus]
    BY <1>1 DEF BatchType
<1>3. TxsOf(Groups[r]) \subseteq Txs
    BY BatchAssumption DEF TxsOf, Range
<1> QED
    BY <1>1, <1>2, <1>3

\* Which copies are new: the one of the process that moved, if it did not just move quietly.
LEMMA NewCopies ==
    ASSUME Sound, Next, NEW b \in Copies', b \notin Copies
    PROVE  \E p \in Procs :
              /\ b = proc'[p].batch
              /\ \/ \E s \in ItemStatus : Sent(p, s)
                 \/ p \in Requests /\ Posted(p)
                 \/ p \in Handlers /\ \E w \in proc[p].todo : Read(p, w) /\ proc'[p].pc # "delete"
                 \/ p \in Handlers /\ Begun(p)
                 \/ p \in Droppers /\ \E w \in proc[p].todo : Dropped(p, w)
<1>1. /\ b # NoBatch
      /\ \A k \in Batches : b # store[k]
      /\ \A p \in Procs : b # proc[p].batch
      /\ (\E k \in Batches : b = store'[k]) \/ (\E p \in Procs : b = proc'[p].batch)
    BY DEF Copies
<1> Requests \subseteq Procs /\ Handlers \subseteq Procs /\ Droppers \subseteq Procs
    BY DEF Procs
<1>2. CASE \E p \in Procs : \E s \in ItemStatus : Sent(p, s)
  <2> PICK p \in Procs : \E s \in ItemStatus : Sent(p, s)
      BY <1>2
  <2>1. UNCHANGED store /\ \A q \in Procs \ {p} : proc'[q] = proc[q]
      BY DEF Sent
  <2> QED
      BY <1>1, <2>1
<1>3. CASE \E p \in Procs : \E t \in proc[p].keys : KeySet(p, t)
    BY <1>1, <1>3 DEF KeySet
<1>4. CASE \E r \in Requests : Posted(r)
  <2> PICK r \in Requests : Posted(r)
      BY <1>4
  <2>1. UNCHANGED store /\ \A q \in Procs \ {r} : proc'[q] = proc[q]
      BY DEF Posted
  <2>2. b = proc'[r].batch
      BY <1>1, <2>1
  <2> QED
      BY <2>2
<1>5. CASE \E h \in Handlers : \E w \in proc[h].todo : Read(h, w)
  <2> PICK h \in Handlers : \E w \in proc[h].todo : Read(h, w)
      BY <1>5
  <2> PICK w \in proc[h].todo : Read(h, w)
      OBVIOUS
  <2>1. b = proc'[h].batch
    <3>1. UNCHANGED store /\ \A q \in Procs \ {h} : proc'[q] = proc[q]
        BY DEF Read
    <3> QED
        BY <1>1, <3>1
  <2>2. proc'[h].pc # "delete"
    <3>1. proc'[h].batch # proc[h].batch
        BY <1>1, <2>1
    <3>2. ASSUME proc'[h].pc = "delete" PROVE proc'[h].batch = proc[h].batch
      <4> DEFINE p == proc'[h].pc
      <4>1. p # "send" /\ p # "save"
          BY <3>2
      <4> HIDE DEF p
      <4> QED
          BY <4>1, Zenon DEF Read, p
    <3> QED
        BY <3>1, <3>2
  <2> QED
      BY <2>1, <2>2
<1>6. CASE \E h \in Handlers : Begun(h)
    BY <1>1, <1>6 DEF Begun
<1>7. CASE \E d \in Droppers : \E w \in proc[d].todo : Dropped(d, w)
  <2> PICK d \in Droppers : \E w \in proc[d].todo : Dropped(d, w)
      BY <1>7
  <2>1. UNCHANGED store /\ \A q \in Procs \ {d} : proc'[q] = proc[q]
      BY DEF Dropped
  <2> QED
      BY <1>1, <2>1
<1>8. CASE \E p \in Procs : Saved(p)
  <2> PICK p \in Procs : Saved(p)
      BY <1>8
  <2>1. \A k \in Batches : store'[k] \in {store[k], proc[p].batch}
      BY DEF Saved, Sound, TypeOK
  <2> QED
      BY <1>1, <2>1 DEF Saved, Quiet
<1>9. CASE \E p \in Procs : Moved(p)
    BY <1>1, <1>9 DEF Moved, Quiet
<1>10. CASE \E p \in Procs : \E T \in SUBSET Txs : Handed(p, T)
    BY <1>1, <1>10 DEF Handed
<1>11. CASE Environment
    BY <1>1, <1>11 DEF Environment, Execute, Sound, TypeOK
<1>12. CASE CrashProcessor
    BY <1>1, <1>12 DEF CrashProcessor, Idle
<1> QED
  <2>1. undelivered \subseteq Txs
      BY DEF Sound, TypeOK
  <2> QED
      BY <1>2, <1>3, <1>4, <1>5, <1>6, <1>7, <1>8, <1>9, <1>10, <1>11, <1>12, <2>1, Steps

\* The stored batches and the copies of processes at work are among Copies.
LEMMA InCopies ==
    ASSUME Sound
    PROVE  /\ \A k \in Batches : store[k] # NoBatch => store[k] \in Copies
           /\ \A p \in Procs : proc[p].pc \in {"send", "keys", "save"} => proc[p].batch \in Copies
    BY AbsentAssumption DEF Copies, Sound, ProcOK, IsCopy

\* The inductive form of SuccessIsReal: what a copy has as successful is successful on chain.
RealItems == \A b \in Copies : \A t \in DOMAIN b.item : b.item[t] = "success" => chain[t] = "success"

\* Only a status read from the chain makes an item successful, and stale copies only repeat it.
LEMMA NextKeepsRealItems ==
    ASSUME Sound, RealItems, [Next]_vars
    PROVE  RealItems'
<1> SUFFICES ASSUME NEW b \in Copies', NEW t \in DOMAIN b.item, b.item[t] = "success"
             PROVE  chain'[t] = "success"
    BY DEF RealItems
<1>1. CASE UNCHANGED vars
    BY <1>1 DEF vars, RealItems, Copies
<1>2. CASE Next /\ b \in Copies
    BY <1>2, CopyTyped, ChainFinal DEF RealItems
<1>3. CASE Next /\ b \notin Copies
  <2> PICK p \in Procs :
              /\ b = proc'[p].batch
              /\ \/ \E s \in ItemStatus : Sent(p, s)
                 \/ p \in Requests /\ Posted(p)
                 \/ p \in Handlers /\ \E w \in proc[p].todo : Read(p, w) /\ proc'[p].pc # "delete"
                 \/ p \in Handlers /\ Begun(p)
                 \/ p \in Droppers /\ \E w \in proc[p].todo : Dropped(p, w)
      BY <1>3, NewCopies
  <2>1. ASSUME NEW c \in Copies, DOMAIN b.item = DOMAIN c.item,
               b.item[t] = c.item[t] \/ chain[t] = "success"
        PROVE  chain'[t] = "success"
    <3>1. t \in DOMAIN c.item /\ t \in Txs
        BY <2>1, CopyTyped
    <3>2. chain[t] = "success"
        BY <2>1, <3>1 DEF RealItems
    <3> QED
        BY <3>1, <3>2, ChainFinal
  <2>2. CASE \E s \in ItemStatus : Sent(p, s)
    <3> PICK s \in ItemStatus : Sent(p, s)
        BY <2>2
    <3> DEFINE u == StartedItems(p)[proc[p].next]
    <3>1. proc[p].batch \in Copies
        BY InCopies DEF Sent
    <3>2. /\ b.item = [proc[p].batch.item EXCEPT ![u] = s]
          /\ s \in {proc[p].batch.item[u], "invalid"}
        BY DEF Sent
    <3> HIDE DEF u
    <3>3. DOMAIN b.item = DOMAIN proc[p].batch.item /\ b.item[t] = proc[p].batch.item[t]
        BY <3>2
    <3> QED
        BY <2>1, <3>1, <3>3
  <2>3. CASE p \in Requests /\ Posted(p)
      BY <2>3 DEF Posted
  <2>4. CASE p \in Handlers /\ \E w \in proc[p].todo : Read(p, w) /\ proc'[p].pc # "delete"
    <3> PICK w \in proc[p].todo : Read(p, w) /\ proc'[p].pc # "delete"
        BY <2>4
    <3>1. store[w[2]] \in Copies /\ b.item = [store[w[2]].item EXCEPT ![w[1]] = chain[w[1]]]
        BY InCopies DEF Read
    <3>2. DOMAIN b.item = DOMAIN store[w[2]].item
          /\ (b.item[t] = store[w[2]].item[t] \/ chain[t] = "success")
        BY <3>1
    <3> QED
        BY <2>1, <3>1, <3>2
  <2>5. CASE p \in Handlers /\ Begun(p)
    <3>1. proc[p].batch \in Copies /\ b.item = proc[p].batch.item
        BY <2>5, InCopies DEF Begun
    <3> QED
        BY <3>1, CopyTyped, ChainFinal DEF RealItems
  <2>6. CASE p \in Droppers /\ \E w \in proc[p].todo : Dropped(p, w)
    <3> PICK w \in proc[p].todo : Dropped(p, w)
        BY <2>6
    <3>1. store[w[2]] \in Copies /\ b.item = [store[w[2]].item EXCEPT ![w[1]] = "dropped"]
        BY InCopies DEF Dropped
    <3>2. DOMAIN b.item = DOMAIN store[w[2]].item /\ b.item[t] = store[w[2]].item[t]
        BY <3>1
    <3> QED
        BY <2>1, <3>1, <3>2
  <2> QED
      BY <2>2, <2>3, <2>4, <2>5, <2>6
<1> QED
    BY <1>1, <1>2, <1>3

\* RealItems is an invariant.
LEMMA AlwaysRealItems == Spec => []RealItems
<1>1. Init => RealItems
    BY DEF Init, RealItems, Copies, Idle
<1> QED
    BY <1>1, NextKeepsRealItems, AlwaysSound, PTL DEF Spec

\* No stored batch and no copy in a process shows a transaction as successful that is not
\* successful on chain, whatever stale copies requests, handlers and droppers write over each
\* other, and after any restart.
THEOREM SuccessIsAlwaysReal == Spec => []SuccessIsReal
<1>1. RealItems => SuccessIsReal
    BY DEF RealItems, SuccessIsReal, Simplified
<1> QED
    BY <1>1, AlwaysRealItems, PTL

-----------------------------------------------------------------------------
(***************************************************************************)
(* Groups go out in order.                                                 *)
(***************************************************************************)

(***************************************************************************)
(* What a client has to respect: batches posted under one key are the same *)
(* batch posted again or have no transaction in common, and a transaction  *)
(* is in one group of its batch.  The code looks a transaction up by its   *)
(* hash in whatever batch is stored under the key; one that is in another  *)
(* group there would complete that group.                                  *)
(***************************************************************************)
OneGroupEach ==
    \A r, q \in Requests : BatchOf[r] = BatchOf[q] =>
        \A g \in DOMAIN Groups[r], f \in DOMAIN Groups[q], t \in Txs :
            t \in Range(Groups[r][g]) /\ t \in Range(Groups[q][f])
                => Groups[r] = Groups[q] /\ g = f

\* Every transaction of the groups before g has succeeded.
Earlier(groups, g) ==
    \A f \in DOMAIN groups : f < g => \A u \in Range(groups[f]) : chain[u] = "success"

\* The batch of the key k has come to the group of t.
CameTo(k, t) ==
    \A r \in Requests : BatchOf[r] = k =>
        \A g \in DOMAIN Groups[r] : t \in Range(Groups[r][g]) => Earlier(Groups[r], g)

(***************************************************************************)
(* Pending keys, and what handlers and droppers took from them, are of     *)
(* groups that were reached; so are the groups being started; and a copy   *)
(* is successful only if its transactions are.                             *)
(***************************************************************************)
Reached ==
    /\ \A t \in Txs : pendingKey[t] # NoKey => CameTo(pendingKey[t].batch, t)
    /\ \A p \in Procs : \A w \in proc[p].todo : CameTo(w[2], w[1])
    /\ \A p \in Procs : proc[p].pc \in {"send", "keys"} => Earlier(proc[p].batch.groups, proc[p].group)
    /\ \A b \in Copies : b.status = "success" => \A t \in DOMAIN b.item : chain[t] = "success"

\* The groups of a request are of Txs.
LEMMA GroupTxs ==
    ASSUME NEW r \in Requests
    PROVE  /\ Groups[r] \in Seq(Seq(Txs))
           /\ \A g \in DOMAIN Groups[r] : Range(Groups[r][g]) \subseteq Txs /\ g \in Nat
<1>1. Groups[r] \in Seq(Seq(Txs))
    BY BatchAssumption
<1>2. \A g \in DOMAIN Groups[r] : Groups[r][g] \in Seq(Txs) /\ g \in Nat
    BY <1>1
<1> QED
    BY <1>1, <1>2 DEF Range

\* A group that was reached stays so, and so does the key's batch.
LEMMA EarlierStays ==
    ASSUME Sound, [Next]_vars, NEW r \in Requests
    PROVE  \A g : Earlier(Groups[r], g) => Earlier(Groups[r], g)'
    BY GroupTxs, ChainFinal DEF Earlier

\* As EarlierStays, for the batch of a key.
LEMMA CameToStays ==
    ASSUME Sound, [Next]_vars, NEW k, NEW t
    PROVE  CameTo(k, t) => CameTo(k, t)'
    BY EarlierStays DEF CameTo

\* When the group of t, reached, has succeeded with t, the next group is reached.
LEMMA GroupCompleted ==
    ASSUME Sound, RealItems, NEW k \in Batches, NEW b, IsCopy(b, k), b \in Copies,
           NEW t \in Txs, CameTo(k, t), chain[t] = "success",
           NEW g \in DOMAIN b.groups, t \in Range(b.groups[g]),
           \A u \in Range(b.groups[g]) : u = t \/ b.item[u] = "success"
    PROVE  \A f \in DOMAIN b.groups : f <= g => \A u \in Range(b.groups[f]) : chain[u] = "success"
<1>1. PICK r \in Requests : BatchOf[r] = k /\ b.groups = Groups[r]
    BY DEF IsCopy
<1>2. Earlier(b.groups, g)
    BY <1>1 DEF CameTo
<1>3. \A u \in Range(b.groups[g]) : u \in DOMAIN b.item
    BY CopyFacts
<1>4. \A u \in Range(b.groups[g]) : chain[u] = "success"
    BY <1>3 DEF RealItems
<1>5. \A f \in DOMAIN b.groups : f \in Nat /\ g \in Nat
    BY <1>1, GroupTxs
<1>6. \A f \in DOMAIN b.groups : f <= g => f < g \/ f = g
    BY <1>5
<1> QED
    BY <1>2, <1>4, <1>6 DEF Earlier

\* Only keys of the group a process is starting are written.
LEMMA KeyOfStarted ==
    ASSUME Sound, OneGroupEach, NEW p \in Procs, proc[p].pc = "keys", NEW t \in proc[p].keys,
           Earlier(proc[p].batch.groups, proc[p].group)
    PROVE  CameTo(proc[p].key, t)
<1>1. IsCopy(proc[p].batch, proc[p].key) /\ StartOK(proc[p])
    BY DEF Sound, ProcOK
<1>2. PICK r \in Requests : BatchOf[r] = proc[p].key /\ proc[p].batch.groups = Groups[r]
    BY <1>1 DEF IsCopy
<1>3. proc[p].group \in DOMAIN Groups[r] /\ t \in Range(Groups[r][proc[p].group])
    BY <1>1, <1>2 DEF StartOK
<1>4. t \in Txs
    BY <1>3, GroupTxs
<1>5. ASSUME NEW q \in Requests, BatchOf[q] = proc[p].key, NEW g \in DOMAIN Groups[q],
             t \in Range(Groups[q][g])
      PROVE  Earlier(Groups[q], g)
  <2>1. Groups[r] = Groups[q] /\ proc[p].group = g
      BY <1>2, <1>3, <1>4, <1>5 DEF OneGroupEach
  <2> QED
      BY <1>2, <2>1
<1> QED
    BY <1>5 DEF CameTo

\* Every step keeps Reached.
LEMMA NextKeepsReached ==
    ASSUME OneGroupEach, Sound, Sound', RealItems, Reached, [Next]_vars
    PROVE  Reached'
<1>1. CASE UNCHANGED vars
    BY <1>1 DEF vars, Reached, CameTo, Earlier, Copies
<1> SUFFICES ASSUME Next PROVE Reached'
    BY <1>1
<1> Requests \subseteq Procs /\ Handlers \subseteq Procs /\ Droppers \subseteq Procs
    BY DEF Procs
<1> undelivered \subseteq Txs
    BY DEF Sound, TypeOK
<1>2. ASSUME NEW t \in Txs, pendingKey'[t] # NoKey
      PROVE  CameTo(pendingKey[t].batch, t)'
  <2> PICK k : k = pendingKey'[t].batch
      OBVIOUS
  <2> SUFFICES CameTo(k, t)'
      BY DEF CameTo, Earlier
  <2>1. CASE pendingKey[t] # NoKey /\ k = pendingKey[t].batch
    <3>1. CameTo(k, t)
        BY <2>1 DEF Reached
    <3> QED
        BY <3>1, CameToStays
  <2>2. CASE \E p \in Procs : \E u \in proc[p].keys : KeySet(p, u)
    <3> PICK p \in Procs : \E u \in proc[p].keys : KeySet(p, u)
        BY <2>2
    <3> PICK u \in proc[p].keys : KeySet(p, u)
        OBVIOUS
    <3>1. CASE t # u
        BY <1>2, <2>1, <3>1 DEF KeySet, Sound, TypeOK
    <3>2. CASE t = u
      <4>1. k = proc[p].key
          BY <3>2 DEF KeySet, Sound, TypeOK
      <4>2. CameTo(k, t)
          BY <3>2, <4>1, KeyOfStarted DEF KeySet, Reached
      <4> QED
          BY <4>2, CameToStays
    <3> QED
        BY <3>1, <3>2
  <2>3. CASE UNCHANGED pendingKey \/ KeysFade
      BY <1>2, <2>1, <2>3 DEF KeysFade
  <2>4. ASSUME ~ \E p \in Procs : \E u \in proc[p].keys : KeySet(p, u)
        PROVE  UNCHANGED pendingKey \/ KeysFade
      BY <2>4, Frames
  <2> QED
      BY <2>2, <2>3, <2>4
<1>3. ASSUME NEW p \in Procs, NEW w \in proc'[p].todo
      PROVE  CameTo(w[2], w[1])'
  <2>1. CASE w \in proc[p].todo
      BY <2>1, CameToStays DEF Reached
  <2>2. ASSUME NEW q \in Procs, NEW T \in SUBSET Txs, Handed(q, T), w \notin proc[p].todo
        PROVE  CameTo(w[2], w[1])
    <3>1. p = q
        BY <1>3, <2>2 DEF Handed
    <3>2. PICK t \in T : pendingKey[t] # NoKey /\ w = <<t, pendingKey[t].batch>>
        BY <1>3, <2>2, <3>1 DEF Handed
    <3>3. w[1] = t /\ w[2] = pendingKey[t].batch
        BY <3>2
    <3> QED
        BY <3>2, <3>3 DEF Reached
  <2>3. ASSUME ~ \E q \in Procs : \E T \in SUBSET Txs : Handed(q, T)
        PROVE  w \in proc[p].todo
    <3>1. CASE \E q \in Procs : \E s \in ItemStatus : Sent(q, s)
        BY <1>3, <3>1 DEF Sent
    <3>2. CASE \E q \in Procs : \E u \in proc[q].keys : KeySet(q, u)
        BY <1>3, <3>2 DEF KeySet
    <3>3. CASE \E r \in Requests : Posted(r)
        BY <1>3, <3>3 DEF Posted
    <3>4. CASE \E h \in Handlers : \E v \in proc[h].todo : Read(h, v)
      <4>1. PICK h \in Handlers : \E v \in proc[h].todo : Read(h, v)
          BY <3>4
      <4>2. /\ \A q \in Procs \ {h} : proc'[q] = proc[q]
            /\ proc'[h].todo \subseteq proc[h].todo
          BY <4>1 DEF Read
      <4> QED
          BY <1>3, <4>2
    <3>5. CASE \E h \in Handlers : Begun(h)
        BY <1>3, <3>5 DEF Begun
    <3>6. CASE \E d \in Droppers : \E v \in proc[d].todo : Dropped(d, v)
        BY <1>3, <3>6 DEF Dropped
    <3>7. CASE \E q \in Procs : Saved(q) \/ Moved(q)
        BY <1>3, <3>7 DEF Saved, Moved, Quiet
    <3>8. CASE Environment
        BY <1>3, <3>8 DEF Environment, Execute
    <3>9. CASE CrashProcessor
        BY <1>3, <3>9 DEF CrashProcessor, Idle
    <3> QED
        BY <2>3, <3>1, <3>2, <3>3, <3>4, <3>5, <3>6, <3>7, <3>8, <3>9, Steps
  <2> QED
      BY <2>1, <2>2, <2>3, CameToStays

<1>4. ASSUME NEW p \in Procs, proc'[p].pc \in {"send", "keys"}
      PROVE  Earlier(proc[p].batch.groups, proc[p].group)'
  <2>1. PICK r \in Requests : proc'[p].batch.groups = Groups[r]
      BY <1>4 DEF Sound, ProcOK, IsCopy
  <2> PICK n : n = proc'[p].group
      OBVIOUS
  <2> SUFFICES Earlier(Groups[r], n)'
      BY <2>1 DEF Earlier
  <2>2. CASE /\ proc[p].pc \in {"send", "keys"}
             /\ proc'[p].batch.groups = proc[p].batch.groups
             /\ proc'[p].group = proc[p].group
    <3>1. Earlier(Groups[r], n)
        BY <2>1, <2>2 DEF Reached
    <3> QED
        BY <3>1, EarlierStays
  <2>3. CASE p \in Requests /\ Posted(p)
    <3>1. proc'[p].group = 1
        BY <2>3 DEF Posted
    <3>2. \A f \in DOMAIN Groups[r] : f \in Nat /\ f >= 1
      <4>1. Groups[r] \in Seq(Seq(Txs))
          BY GroupTxs
      <4> QED
          BY <4>1
    <3> QED
        BY <3>1, <3>2 DEF Earlier
  <2>4. CASE p \in Handlers /\ \E w \in proc[p].todo : Read(p, w)
    <3> PICK w \in proc[p].todo : Read(p, w)
        BY <2>4
    <3> DEFINE b == store[w[2]]
               t == w[1]
               g == GroupOf(b, t)
    <3>1. /\ b # NoBatch /\ w[2] \in Batches /\ t \in Txs /\ t \in DOMAIN b.item
          /\ g \in DOMAIN b.groups /\ t \in Range(b.groups[g])
          /\ chain[t] = "success"
          /\ \A u \in Range(b.groups[g]) : u = t \/ b.item[u] = "success"
          /\ proc'[p].batch.groups = b.groups /\ proc'[p].group = g + 1
        BY <1>4 DEF Read
    <3>2. IsCopy(b, w[2]) /\ b \in Copies /\ CameTo(w[2], t)
        BY <3>1, InCopies DEF Sound, Reached
    <3> HIDE DEF b, t, g
    <3>3. \A f \in DOMAIN b.groups : f <= g => \A u \in Range(b.groups[f]) : chain[u] = "success"
        BY <3>1, <3>2, GroupCompleted
    <3>4. \A f \in DOMAIN b.groups : f \in Nat /\ g \in Nat /\ (f < g + 1 => f <= g)
      <4>1. \A f \in DOMAIN b.groups : f \in Nat
          BY <2>1, <3>1, GroupTxs
      <4> QED
          BY <3>1, <4>1
    <3>5. Earlier(Groups[r], n)
        BY <2>1, <3>1, <3>3, <3>4 DEF Earlier
    <3> QED
        BY <3>5, EarlierStays
  <2>5. ASSUME ~ (p \in Requests /\ Posted(p)),
               ~ (p \in Handlers /\ \E w \in proc[p].todo : Read(p, w))
        PROVE  /\ proc[p].pc \in {"send", "keys"}
               /\ proc'[p].batch.groups = proc[p].batch.groups
               /\ proc'[p].group = proc[p].group
    <3>1. CASE proc'[p] = proc[p]
        BY <1>4, <3>1
    <3>2. CASE \E q \in Procs : \E s \in ItemStatus : Sent(q, s)
        BY <3>1, <3>2 DEF Sent
    <3>3. CASE \E q \in Procs : \E u \in proc[q].keys : KeySet(q, u)
        BY <3>1, <3>3 DEF KeySet
    <3>4. CASE \E q \in Requests : Posted(q)
        BY <2>5, <3>1, <3>4 DEF Posted
    <3>5. CASE \E h \in Handlers : \E v \in proc[h].todo : Read(h, v)
      <4> PICK h \in Handlers : \E v \in proc[h].todo : Read(h, v)
          BY <3>5
      <4>1. p # h
          BY <2>5
      <4>2. \A q \in Procs \ {h} : proc'[q] = proc[q]
          BY DEF Read
      <4> QED
          BY <3>1, <4>1, <4>2
    <3>6. CASE \E h \in Handlers : Begun(h)
        BY <1>4, <3>1, <3>6 DEF Begun
    <3>7. CASE \E d \in Droppers : \E v \in proc[d].todo : Dropped(d, v)
        BY <1>4, <3>1, <3>7 DEF Dropped
    <3>8. CASE \E q \in Procs : Saved(q) \/ Moved(q)
        BY <1>4, <3>1, <3>8 DEF Saved, Moved, Quiet
    <3>9. CASE \E q \in Procs : \E T \in SUBSET Txs : Handed(q, T)
        BY <1>4, <3>1, <3>9 DEF Handed
    <3>10. CASE Environment
        BY <3>1, <3>10 DEF Environment, Execute
    <3>11. CASE CrashProcessor
        BY <1>4, <3>1, <3>11 DEF CrashProcessor, Idle
    <3> QED
        BY <3>2, <3>3, <3>4, <3>5, <3>6, <3>7, <3>8, <3>9, <3>10, <3>11, Steps
  <2> QED
      BY <2>2, <2>3, <2>4, <2>5
<1>5. ASSUME NEW b \in Copies', b.status = "success", NEW t \in DOMAIN b.item
      PROVE  chain'[t] = "success"
  <2>1. ASSUME NEW c \in Copies, c.status = "success", DOMAIN b.item = DOMAIN c.item
        PROVE  chain'[t] = "success"
      BY <2>1, CopyTyped, ChainFinal DEF Reached
  <2>2. CASE b \in Copies
      BY <1>5, <2>1, <2>2
  <2>3. CASE b \notin Copies
    <3> PICK p \in Procs :
              /\ b = proc'[p].batch
              /\ \/ \E s \in ItemStatus : Sent(p, s)
                 \/ p \in Requests /\ Posted(p)
                 \/ p \in Handlers /\ \E w \in proc[p].todo : Read(p, w) /\ proc'[p].pc # "delete"
                 \/ p \in Handlers /\ Begun(p)
                 \/ p \in Droppers /\ \E w \in proc[p].todo : Dropped(p, w)
        BY <2>3, NewCopies
    <3>1. CASE \E s \in ItemStatus : Sent(p, s)
      <4> PICK s \in ItemStatus : Sent(p, s)
          BY <3>1
      <4>1. proc[p].batch \in Copies
          BY InCopies DEF Sent
      <4>2. proc[p].batch.status = "success"
          BY <1>5 DEF Sent
      <4>3. DOMAIN b.item = DOMAIN proc[p].batch.item
          BY DEF Sent
      <4> QED
          BY <2>1, <4>1, <4>2, <4>3
    <3>2. CASE p \in Requests /\ Posted(p)
        BY <1>5, <3>2 DEF Posted
    <3>3. CASE p \in Handlers /\ \E w \in proc[p].todo : Read(p, w) /\ proc'[p].pc # "delete"
      <4> PICK w \in proc[p].todo : Read(p, w) /\ proc'[p].pc # "delete"
          BY <3>3
      <4> DEFINE c == store[w[2]]
                 u == w[1]
                 g == GroupOf(c, u)
      <4>1. c \in Copies /\ DOMAIN b.item = DOMAIN c.item /\ b.groups = c.groups /\ IsCopy(c, w[2])
          BY InCopies DEF Read, Sound
      <4>2. CASE c.status = "success"
          BY <2>1, <4>1, <4>2
      <4>3. CASE c.status # "success"
        <5>1. /\ w[2] \in Batches /\ u \in Txs /\ u \in DOMAIN c.item
              /\ g \in DOMAIN c.groups /\ u \in Range(c.groups[g])
              /\ chain[u] = "success"
              /\ \A v \in Range(c.groups[g]) : v = u \/ c.item[v] = "success"
              /\ \A f \in DOMAIN c.groups : f <= g
            BY <1>5, <4>3 DEF Read
        <5>2. CameTo(w[2], u)
            BY DEF Reached
        <5> HIDE DEF c, u, g
        <5>3. \A f \in DOMAIN c.groups : \A v \in Range(c.groups[f]) : chain[v] = "success"
            BY <4>1, <5>1, <5>2, GroupCompleted
        <5>4. t \in TxsOf(c.groups) /\ t \in Txs
            BY <4>1, CopyFacts
        <5>5. chain[t] = "success"
            BY <5>3, <5>4 DEF TxsOf
        <5> QED
            BY <5>4, <5>5, ChainFinal
      <4> QED
          BY <4>2, <4>3
    <3>4. CASE p \in Handlers /\ Begun(p)
      <4>1. proc[p].batch \in Copies /\ DOMAIN b.item = DOMAIN proc[p].batch.item
          BY <3>4, InCopies DEF Begun
      <4>2. proc[p].batch.status = "success"
          BY <1>5, <3>4 DEF Begun
      <4> QED
          BY <2>1, <4>1, <4>2
    <3>5. CASE p \in Droppers /\ \E w \in proc[p].todo : Dropped(p, w)
        BY <1>5, <3>5 DEF Dropped
    <3> QED
        BY <3>1, <3>2, <3>3, <3>4, <3>5
  <2> QED
      BY <2>2, <2>3
<1> QED
    BY <1>2, <1>3, <1>4, <1>5 DEF Reached

\* Reached is an invariant, for clients that respect OneGroupEach.
LEMMA AlwaysReached ==
    ASSUME OneGroupEach
    PROVE  Spec => []Reached
<1>1. Init => Reached
    BY DEF Init, Reached, Copies, Idle
<1>2. Sound /\ RealItems /\ Reached /\ [Next]_vars /\ Sound' => Reached'
    BY NextKeepsReached
<1> QED
    BY <1>1, <1>2, AlwaysSound, AlwaysRealItems, PTL DEF Spec

\* A batch is stored as successful only when every transaction of every one of its groups has
\* succeeded on chain, although its last handler looks at the last group alone.
THEOREM BatchSuccessIsAlwaysReal ==
    ASSUME OneGroupEach
    PROVE  Spec => []BatchSuccessIsReal
<1>1. Sound /\ Reached => BatchSuccessIsReal
    BY InCopies DEF Reached, BatchSuccessIsReal
<1> QED
    BY <1>1, AlwaysSound, AlwaysReached, PTL

-----------------------------------------------------------------------------
(***************************************************************************)
(* The refinement.                                                         *)
(***************************************************************************)

\* The mapped variables: the verdict on a batch, and what has been submitted.
Verdict == [k \in Batches |-> IF store[k] = NoBatch THEN "none" ELSE store[k].status]
Given   == {t \in Txs : submissions[t] > 0}

\* An item that is sent is of a group that its batch has come to.
LEMMA SentMayGoOut ==
    ASSUME Sound, Reached, NEW p \in Procs, NEW s, Sent(p, s)
    PROVE  Promise!MayGoOut(StartedItems(p)[proc[p].next])
<1> DEFINE g == proc[p].group
           items == StartedItems(p)
           t == items[proc[p].next]
<1>1. proc[p].pc = "send" /\ proc[p].next \in 1..Len(items)
    BY DEF Sent
<1>2. IsCopy(proc[p].batch, proc[p].key) /\ StartOK(proc[p]) /\ Earlier(proc[p].batch.groups, g)
    BY <1>1 DEF Sound, ProcOK, Reached
<1>3. PICK r \in Requests : proc[p].batch.groups = Groups[r]
    BY <1>2 DEF IsCopy
<1>4. g \in DOMAIN Groups[r] /\ items = Groups[r][g] /\ items \in Seq(Txs)
    BY <1>2, <1>3, CopyFacts DEF StartOK, StartedItems
<1>5. t \in Range(Groups[r][g])
    BY <1>1, <1>4 DEF Range
<1>6. Promise!EarlierSucceeded(r, g)
    BY <1>2, <1>3 DEF Promise!EarlierSucceeded, Promise!Range, Range, Earlier
<1> HIDE DEF t
<1>7. Promise!MayGoOut(t)
    BY <1>4, <1>5, <1>6 DEF Promise!MayGoOut, Promise!Range, Range
<1> QED
    BY <1>7 DEF t

\* A process that sends submits: a Submit of the promise.
LEMMA SentSubmits ==
    ASSUME Sound, Reached, NEW p \in Procs, NEW s, Sent(p, s)
    PROVE  Promise!Next
<1> PICK t : t = StartedItems(p)[proc[p].next]
    OBVIOUS
<1>1. Promise!MayGoOut(t) /\ t \in Txs
    BY SentMayGoOut DEF Sent
<1>2. Given' = Given \cup {t}
  <2>1. submissions' = [submissions EXCEPT ![t] = IF @ < 2 THEN @ + 1 ELSE @]
      BY DEF Sent
  <2>2. submissions \in [Txs -> 0..2]
      BY DEF Sound, TypeOK
  <2>3. \A u \in Txs \ {t} : submissions'[u] = submissions[u]
      BY <2>1, <2>2
  <2>4. submissions'[t] > 0
      BY <1>1, <2>1, <2>2
  <2> QED
      BY <1>1, <2>3, <2>4 DEF Given
<1>3. chain' \in {chain, [chain EXCEPT ![t] = IF @ = "unsent" THEN "sent" ELSE @]}
    BY DEF Sent
<1>4. Verdict' = Verdict
    BY DEF Sent, Verdict
<1>5. Promise!Submit(t)
    BY <1>1, <1>2, <1>3, <1>4 DEF Promise!Submit, Given, Verdict
<1> QED
    BY <1>1, <1>5 DEF Promise!Next

\* A saved copy is a Report: successful only if all that was posted has succeeded.
LEMMA SavedReports ==
    ASSUME Sound, Reached, NEW p \in Procs, Saved(p)
    PROVE  Promise!Next
<1> PICK k, b : k = proc[p].key /\ b = proc[p].batch
    OBVIOUS
<1>1. k \in Batches /\ IsCopy(b, k) /\ b \in Copies /\ b \in BatchType /\ b # NoBatch
    BY InCopies, AbsentAssumption DEF Saved, Sound, ProcOK, IsCopy
<1>2. Verdict' = [Verdict EXCEPT ![k] = b.status]
    BY <1>1 DEF Saved, Verdict, Sound, TypeOK
<1>3. chain' = chain /\ Given' = Given
    BY DEF Saved, Quiet, Given
<1>4. b.status \in {"none", "pending", "invalid", "dropped", "success"}
    BY <1>1 DEF BatchType, BatchStatus
<1>5. b.status = "success" => Promise!AllSucceeded(k)
  <2> SUFFICES ASSUME b.status = "success" PROVE Promise!AllSucceeded(k)
      OBVIOUS
  <2>1. PICK r \in Requests : BatchOf[r] = k /\ b.groups = Groups[r]
      BY <1>1 DEF IsCopy
  <2>2. \A g \in DOMAIN Groups[r] : Range(Groups[r][g]) \subseteq DOMAIN b.item
      BY <1>1, <2>1, CopyFacts
  <2>3. \A t \in DOMAIN b.item : chain[t] = "success"
      BY <1>1 DEF Reached
  <2> QED
      BY <2>1, <2>2, <2>3 DEF Promise!AllSucceeded, Promise!Range, Range
<1>6. Promise!Report(k)
    BY <1>2, <1>3, <1>4, <1>5 DEF Promise!Report, Verdict, Given
<1> QED
    BY <1>1, <1>6 DEF Promise!Next

\* The network's steps are Settles, an expiry is a Report of none, the age of keys is not seen.
LEMMA EnvironmentPromised ==
    ASSUME Sound, Environment
    PROVE  [Promise!Next]_Promise!vars
<1>1. CASE \E t \in Txs : Execute(t)
  <2> PICK t \in Txs : Execute(t)
      BY <1>1
  <2>1. Promise!Settle(t)
      BY DEF Execute, Outcome, Promise!Settle
  <2> QED
      BY <2>1 DEF Promise!Next
<1>2. CASE UNCHANGED <<store, chain, submissions>>
    BY <1>2 DEF Promise!vars
<1>3. CASE \E k \in Batches : /\ store' = [store EXCEPT ![k] = NoBatch]
                              /\ UNCHANGED <<chain, submissions>>
  <2> PICK k \in Batches : /\ store' = [store EXCEPT ![k] = NoBatch]
                           /\ UNCHANGED <<chain, submissions>>
      BY <1>3
  <2>1. Verdict' = [Verdict EXCEPT ![k] = "none"]
      BY DEF Verdict, Sound, TypeOK
  <2>2. Promise!Report(k)
      BY <2>1 DEF Promise!Report, Verdict
  <2> QED
      BY <2>2 DEF Promise!Next
<1> QED
    BY <1>1, <1>2, <1>3 DEF Environment

\* Every step of the processes is a step of the promise or is not seen by it.
LEMMA NextPromised ==
    ASSUME Sound, Reached, [Next]_vars
    PROVE  [Promise!Next]_Promise!vars
<1>1. CASE UNCHANGED <<store, chain, submissions>>
    BY <1>1 DEF Promise!vars
<1>2. CASE UNCHANGED vars
    BY <1>1, <1>2 DEF vars
<1>3. CASE Next
  <2>1. CASE \E p \in Procs : \E s \in ItemStatus : Sent(p, s)
      BY <2>1, SentSubmits
  <2>2. CASE \E p \in Procs : Saved(p)
      BY <2>2, SavedReports
  <2>3. CASE Environment
      BY <2>3, EnvironmentPromised
  <2>4. ASSUME ~ \E p \in Procs : \E s \in ItemStatus : Sent(p, s),
               ~ \E p \in Procs : Saved(p),
               ~ Environment
        PROVE  UNCHANGED <<store, chain, submissions>>
      BY <1>3, <2>4, Frames DEF Environment
  <2> QED
      BY <1>1, <2>1, <2>2, <2>3, <2>4
<1> QED
    BY <1>2, <1>3

\* The requests, handlers and droppers, with their Redis keys and stale copies, implement the
\* promise of POST /batch: a group goes out only when every earlier one has succeeded on chain,
\* and a batch is stored as successful only when all its transactions have, also after restarts,
\* redelivered blocks and wrongly dropped transactions.
THEOREM Implements ==
    ASSUME OneGroupEach
    PROVE  Spec => ImplementsGroupedSubmission
<1>1. Init => Promise!Init
    BY DEF Init, Promise!Init
<1>2. Sound /\ Reached /\ [Next]_vars => [Promise!Next]_Promise!vars
    BY NextPromised
<1> QED
    BY <1>1, <1>2, AlwaysSound, AlwaysReached, PTL DEF Spec, ImplementsGroupedSubmission, Promise!Spec


-----------------------------------------------------------------------------
(***************************************************************************)
(* What the promise says of the chain, kept by the processes.              *)
(***************************************************************************)

\* A group that its batch once has come to stays one that may go out: success on chain is final.
LEMMA MayGoOutStays ==
    ASSUME Sound, [Next]_vars, NEW t \in Txs, Promise!MayGoOut(t)
    PROVE  Promise!MayGoOut(t)'
<1>1. PICK r \in Requests : \E g \in DOMAIN Groups[r] :
          t \in Range(Groups[r][g]) /\ Promise!EarlierSucceeded(r, g)
    BY DEF Promise!MayGoOut, Promise!Range, Range
<1>2. PICK g \in DOMAIN Groups[r] : t \in Range(Groups[r][g]) /\ Promise!EarlierSucceeded(r, g)
    BY <1>1
<1>3. \A f \in DOMAIN Groups[r] : Range(Groups[r][f]) \subseteq Txs
    BY GroupTxs
<1>4. Promise!EarlierSucceeded(r, g)'
    BY <1>2, <1>3, ChainFinal DEF Promise!EarlierSucceeded, Promise!Range, Range
<1> QED
    BY <1>2, <1>4 DEF Promise!MayGoOut, Promise!Range, Range

\* Groups of POST /batch go out in order: a transaction that some process has submitted always
\* has a batch whose earlier groups have all succeeded on chain, after restarts too.
THEOREM GroupsInOrder ==
    ASSUME OneGroupEach
    PROVE  Spec => []Promise!GroupOrder
<1>1. Init => Promise!GroupOrder
    BY DEF Init, Promise!GroupOrder
<1>2. ASSUME Sound, Reached, Promise!GroupOrder, [Next]_vars
      PROVE  Promise!GroupOrder'
  <2> SUFFICES ASSUME NEW t \in Given' PROVE Promise!MayGoOut(t)'
      BY DEF Promise!GroupOrder, Given
  <2>1. t \in Txs
      BY DEF Given
  <2>2. CASE t \in Given
      BY <1>2, <2>1, <2>2, MayGoOutStays DEF Promise!GroupOrder, Given
  <2>3. CASE t \notin Given
    <3>1. Next /\ submissions' # submissions
        BY <1>2, <2>3 DEF Given, vars
    <3>2. PICK p \in Procs : \E s \in ItemStatus : Sent(p, s)
        BY <1>2, <3>1, Frames
    <3>3. t = StartedItems(p)[proc[p].next]
        BY <1>2, <2>1, <2>3, <3>2 DEF Sent, Given, Sound, TypeOK
    <3> QED
        BY <1>2, <2>1, <3>2, <3>3, SentMayGoOut, MayGoOutStays
  <2> QED
      BY <2>2, <2>3
<1> QED
    BY <1>1, <1>2, AlwaysSound, AlwaysReached, PTL DEF Spec

\* A batch is reported as successful only when every transaction of a batch that was posted
\* under its key has succeeded, whichever process stored it last.
THEOREM SuccessReportedIsReal ==
    ASSUME OneGroupEach
    PROVE  Spec => []Promise!SuccessIsOfAll
<1>1. ASSUME Sound, Reached, NEW k \in Batches, Verdict[k] = "success"
      PROVE  Promise!AllSucceeded(k)
  <2> PICK b : b = store[k]
      OBVIOUS
  <2>1. b # NoBatch /\ b.status = "success" /\ IsCopy(b, k) /\ b \in Copies
      BY <1>1 DEF Verdict, Sound, Copies
  <2>2. PICK r \in Requests : BatchOf[r] = k /\ b.groups = Groups[r]
      BY <2>1 DEF IsCopy
  <2>3. \A g \in DOMAIN Groups[r] : Range(Groups[r][g]) \subseteq DOMAIN b.item
      BY <1>1, <2>1, <2>2, CopyFacts
  <2>4. \A t \in DOMAIN b.item : chain[t] = "success"
      BY <1>1, <2>1 DEF Reached
  <2> QED
      BY <2>2, <2>3, <2>4 DEF Promise!AllSucceeded, Promise!Range, Range
<1>2. Sound /\ Reached => Promise!SuccessIsOfAll
    BY <1>1 DEF Promise!SuccessIsOfAll, Verdict
<1> QED
    BY <1>2, AlwaysSound, AlwaysReached, PTL

-----------------------------------------------------------------------------
(***************************************************************************)
(* What holds of the batches between two restarts of the processor: no     *)
(* transaction is submitted twice, and a batch that was stored as invalid  *)
(* is never stored as successful.  Both rest on one fact: a block is       *)
(* handed out once, so the transaction whose success completes a group is  *)
(* processed once, and only that makes the next group start.               *)
(***************************************************************************)

(***************************************************************************)
(* What the client has to respect here: a signed transaction is at one     *)
(* place of one batch.                                                     *)
(***************************************************************************)
DistinctTxs ==
    \A r, q \in Requests :
        \A g \in DOMAIN Groups[r], f \in DOMAIN Groups[q] :
            \A i \in DOMAIN Groups[r][g], j \in DOMAIN Groups[q][f] :
                Groups[r][g][i] = Groups[q][f][j] => r = q /\ g = f /\ i = j

\* The processor has been handed t and has read the batch of t, or found it has none.
Consumed(t) ==
    /\ chain[t] \in Outcome
    /\ t \notin undelivered
    /\ \A h \in Handlers : \A w \in proc[h].todo : w[1] # t

\* A transaction is in the hands of one handler, once, and no longer to be delivered.
InOneHand ==
    /\ \A h \in Handlers : \A w \in proc[h].todo : w[1] \notin undelivered
    /\ \A h, i \in Handlers : \A w \in proc[h].todo, v \in proc[i].todo :
          w[1] = v[1] => h = i /\ w = v

\* What is on chain was submitted; what a copy has as successful is consumed.
SuccessIsConsumed ==
    /\ \A t \in Txs : chain[t] # "unsent" => submissions[t] > 0
    /\ \A b \in Copies : \A t \in DOMAIN b.item : b.item[t] = "success" => Consumed(t)

\* The groups before one that is started, or of which something was submitted, are consumed.
EarlierConsumed ==
    /\ \A p \in Procs : proc[p].pc = "send" =>
          \A f \in DOMAIN proc[p].batch.groups : f < proc[p].group =>
              \A u \in Range(proc[p].batch.groups[f]) : Consumed(u)
    /\ \A r \in Requests : \A g \in DOMAIN Groups[r] : \A t \in Range(Groups[r][g]) :
          submissions[t] > 0 =>
              \A f \in DOMAIN Groups[r] : f < g => \A u \in Range(Groups[r][f]) : Consumed(u)

\* One process starts a group; the first group is started by its request.
OneStarter ==
    /\ \A p, q \in Procs :
          proc[p].pc = "send" /\ proc[q].pc = "send" =>
              (proc[p].batch.groups = proc[q].batch.groups /\ proc[p].group = proc[q].group => p = q)
    /\ \A p \in Procs, r \in Requests :
          proc[p].pc = "send" /\ proc[p].batch.groups = Groups[r] /\ proc[p].group = 1 => p = r

\* What is still to be sent has not been submitted, and nothing was twice.
NotYetSubmitted ==
    /\ \A p \in Procs : proc[p].pc = "send" =>
          \A i \in DOMAIN StartedItems(p) : i >= proc[p].next => submissions[StartedItems(p)[i]] = 0
    /\ \A r \in Requests : proc[r].pc = "idle" => \A t \in Range(Groups[r][1]) : submissions[t] = 0
    /\ \A t \in Txs : submissions[t] < 2

(***************************************************************************)
(* The inductive invariant behind SubmittedOnce.                           *)
(***************************************************************************)
Once == InOneHand /\ SuccessIsConsumed /\ EarlierConsumed /\ OneStarter /\ NotYetSubmitted

-----------------------------------------------------------------------------
(***************************************************************************)
(* Places of transactions, and processes that start a group.               *)
(***************************************************************************)

\* A transaction is in one group of one request.
LEMMA OnePlace ==
    ASSUME DistinctTxs, NEW r \in Requests, NEW g \in DOMAIN Groups[r], NEW t \in Range(Groups[r][g])
    PROVE  \A q \in Requests : \A f \in DOMAIN Groups[q] :
              t \in Range(Groups[q][f]) => r = q /\ g = f
<1> SUFFICES ASSUME NEW q \in Requests, NEW f \in DOMAIN Groups[q], t \in Range(Groups[q][f])
             PROVE  r = q /\ g = f
    OBVIOUS
<1>1. PICK i \in DOMAIN Groups[r][g] : t = Groups[r][g][i]
    BY DEF Range
<1>2. PICK j \in DOMAIN Groups[q][f] : t = Groups[q][f][j]
    BY DEF Range
<1>3. Groups[r][g][i] = Groups[q][f][j]
    BY <1>1, <1>2
<1>4. \A m \in DOMAIN Groups[r][g], n \in DOMAIN Groups[q][f] :
        Groups[r][g][m] = Groups[q][f][n] => r = q /\ g = f /\ m = n
    BY DEF DistinctTxs
<1> QED
    BY <1>3, <1>4

\* Different requests post different groups.
LEMMA OneOwner ==
    ASSUME DistinctTxs, NEW r \in Requests, NEW q \in Requests, Groups[r] = Groups[q]
    PROVE  r = q
<1>1. Groups[r] \in Seq(Seq(Txs)) /\ Groups[r] # << >>
    BY BatchAssumption
<1>2. 1 \in DOMAIN Groups[r]
    BY <1>1
<1>3. Groups[r][1] \in Seq(Txs) /\ Groups[r][1] # << >>
    BY <1>1, <1>2, BatchAssumption
<1>4. 1 \in DOMAIN Groups[r][1]
    BY <1>3
<1> QED
    BY <1>2, <1>4 DEF DistinctTxs

\* A client that respects DistinctTxs respects OneGroupEach.
LEMMA DistinctInOneGroup == DistinctTxs => OneGroupEach
    BY OnePlace DEF OneGroupEach

\* What a process that starts a group is at.
LEMMA StarterFacts ==
    ASSUME Sound, NEW p \in Procs, proc[p].pc \in {"send", "keys"}
    PROVE  \E r \in Requests :
              /\ BatchOf[r] = proc[p].key
              /\ proc[p].batch.groups = Groups[r]
              /\ proc[p].group \in DOMAIN Groups[r]
              /\ StartedItems(p) = Groups[r][proc[p].group]
              /\ StartedItems(p) \in Seq(Txs)
              /\ Range(StartedItems(p)) \subseteq Txs
              /\ proc[p].next \in Nat
<1>1. IsCopy(proc[p].batch, proc[p].key) /\ StartOK(proc[p])
    BY DEF Sound, ProcOK
<1>2. PICK r \in Requests : BatchOf[r] = proc[p].key /\ proc[p].batch.groups = Groups[r]
    BY <1>1 DEF IsCopy
<1>3. proc[p].group \in DOMAIN Groups[r] /\ StartedItems(p) = Groups[r][proc[p].group]
    BY <1>1, <1>2 DEF StartOK, StartedItems
<1>4. StartedItems(p) \in Seq(Txs)
    BY <1>1, CopyFacts DEF StartOK, StartedItems
<1>5. Range(StartedItems(p)) \subseteq Txs
    BY <1>3, GroupTxs
<1>6. proc[p].next \in Nat
    BY DEF Sound, TypeOK, ProcType
<1> QED
    BY <1>2, <1>3, <1>4, <1>5, <1>6

\* The item that is being sent, and where it is.
LEMMA SentFacts ==
    ASSUME Sound, NEW p \in Procs, NEW s, Sent(p, s)
    PROVE  \E r \in Requests, t \in Txs :
              /\ t = StartedItems(p)[proc[p].next]
              /\ proc[p].next \in DOMAIN StartedItems(p)
              /\ BatchOf[r] = proc[p].key
              /\ proc[p].batch.groups = Groups[r]
              /\ proc[p].group \in DOMAIN Groups[r]
              /\ StartedItems(p) = Groups[r][proc[p].group]
              /\ t \in Range(Groups[r][proc[p].group])
              /\ submissions'[t] > 0
              /\ submissions[t] = 0 => submissions'[t] = 1
              /\ \A u \in Txs \ {t} : submissions'[u] = submissions[u]
              /\ \A u \in Txs \ {t} : chain'[u] = chain[u]
              /\ chain[t] # "unsent" => chain'[t] = chain[t]
<1>1. proc[p].pc = "send"
    BY DEF Sent
<1>2. PICK r \in Requests :
              /\ BatchOf[r] = proc[p].key
              /\ proc[p].batch.groups = Groups[r]
              /\ proc[p].group \in DOMAIN Groups[r]
              /\ StartedItems(p) = Groups[r][proc[p].group]
              /\ StartedItems(p) \in Seq(Txs)
    BY <1>1, StarterFacts
<1>3. PICK t : t = StartedItems(p)[proc[p].next]
    OBVIOUS
<1>4. t \in Txs /\ proc[p].next \in 1..Len(StartedItems(p))
    BY <1>3 DEF Sent
<1>5. proc[p].next \in DOMAIN StartedItems(p) /\ t \in Range(Groups[r][proc[p].group])
    BY <1>2, <1>3, <1>4 DEF Range
<1>6. submissions' = [submissions EXCEPT ![t] = IF @ < 2 THEN @ + 1 ELSE @]
    BY <1>3 DEF Sent
<1>7. submissions \in [Txs -> 0..2]
    BY DEF Sound, TypeOK
<1>8. \/ UNCHANGED chain
      \/ chain' = [chain EXCEPT ![t] = IF @ = "unsent" THEN "sent" ELSE @]
    BY <1>3 DEF Sent
<1>9. /\ submissions'[t] > 0
      /\ submissions[t] = 0 => submissions'[t] = 1
      /\ \A u \in Txs \ {t} : submissions'[u] = submissions[u]
    BY <1>4, <1>6, <1>7
<1>10. /\ \A u \in Txs \ {t} : chain'[u] = chain[u]
       /\ chain[t] # "unsent" => chain'[t] = chain[t]
    BY <1>4, <1>8 DEF Sound, TypeOK
<1> QED
    BY <1>2, <1>3, <1>4, <1>5, <1>9, <1>10

-----------------------------------------------------------------------------
(***************************************************************************)
(* A transaction is processed once.                                        *)
(***************************************************************************)

\* Without a restart, transactions come to handlers from blocks only.
LEMMA HandlersTodo ==
    ASSUME Sound, Next, crashes' = 0
    PROVE  \/ /\ \A h \in Handlers : proc'[h].todo \subseteq proc[h].todo
              /\ UNCHANGED undelivered \/ \E t \in Txs : Execute(t)
           \/ \E h \in Handlers : \E T \in SUBSET undelivered :
                 Handed(h, T) /\ undelivered' = undelivered \ T
<1> Requests \subseteq Procs /\ Handlers \subseteq Procs /\ Droppers \subseteq Procs
    BY DEF Procs
<1>1. CASE \E q \in Procs : \E s \in ItemStatus : Sent(q, s)
  <2> PICK q \in Procs : \E s \in ItemStatus : Sent(q, s)
      BY <1>1
  <2>1. /\ \A o \in Procs \ {q} : proc'[o] = proc[o]
        /\ proc'[q].todo = proc[q].todo /\ UNCHANGED undelivered
      BY DEF Sent
  <2> QED
      BY <2>1
<1>2. CASE \E q \in Procs : \E u \in proc[q].keys : KeySet(q, u)
    BY <1>2 DEF KeySet
<1>3. CASE \E r \in Requests : Posted(r)
    BY <1>3 DEF Posted
<1>4. CASE \E h \in Handlers : \E v \in proc[h].todo : Read(h, v)
  <2> PICK h \in Handlers : \E v \in proc[h].todo : Read(h, v)
      BY <1>4
  <2>1. /\ \A q \in Procs \ {h} : proc'[q] = proc[q]
        /\ proc'[h].todo \subseteq proc[h].todo /\ UNCHANGED undelivered
      BY DEF Read
  <2> QED
      BY <2>1
<1>5. CASE \E h \in Handlers : Begun(h)
    BY <1>5 DEF Begun
<1>6. CASE \E d \in Droppers : \E v \in proc[d].todo : Dropped(d, v)
  <2> PICK d \in Droppers : \E v \in proc[d].todo : Dropped(d, v)
      BY <1>6
  <2>1. /\ \A q \in Procs \ {d} : proc'[q] = proc[q]
        /\ d \notin Handlers /\ UNCHANGED undelivered
      BY BatchAssumption DEF Dropped
  <2> QED
      BY <2>1
<1>7. CASE \E q \in Procs : Saved(q) \/ Moved(q)
    BY <1>7 DEF Saved, Moved, Quiet
<1>8. CASE \E d \in Droppers : \E T \in SUBSET Txs : Handed(d, T) /\ UNCHANGED undelivered
  <2> PICK d \in Droppers : \E T \in SUBSET Txs : Handed(d, T) /\ UNCHANGED undelivered
      BY <1>8
  <2>1. /\ \A q \in Procs \ {d} : proc'[q] = proc[q]
        /\ d \notin Handlers /\ UNCHANGED undelivered
      BY BatchAssumption DEF Handed
  <2> QED
      BY <2>1
<1>9. CASE Environment
    BY <1>9 DEF Environment, Execute
<1>10. CASE CrashProcessor
    BY <1>10 DEF CrashProcessor, Sound, TypeOK
<1> QED
    BY <1>1, <1>2, <1>3, <1>4, <1>5, <1>6, <1>7, <1>8, <1>9, <1>10, Steps

\* What handlers are handed is of the block.
LEMMA HandedPairs ==
    ASSUME NEW p, NEW T, Handed(p, T), NEW w \in proc'[p].todo
    PROVE  w[1] \in T /\ w = <<w[1], pendingKey[w[1]].batch>> /\ pendingKey[w[1]] # NoKey
<1>1. PICK t \in {u \in T : pendingKey[u] # NoKey} : w = <<t, pendingKey[t].batch>>
    BY DEF Handed
<1> QED
    BY <1>1

\* Consumed once, consumed for ever.
LEMMA ConsumedStays ==
    ASSUME Sound, Next, crashes' = 0, NEW t \in Txs, Consumed(t)
    PROVE  Consumed(t)'
<1>1. chain'[t] \in Outcome
    BY ChainFinal DEF Consumed
<1>2. CASE /\ \A h \in Handlers : proc'[h].todo \subseteq proc[h].todo
           /\ UNCHANGED undelivered \/ \E u \in Txs : Execute(u)
  <2>1. t \notin undelivered'
      BY <1>2 DEF Consumed, Execute, Outcome
  <2> QED
      BY <1>1, <1>2, <2>1 DEF Consumed
<1>3. CASE \E h \in Handlers : \E T \in SUBSET undelivered :
              Handed(h, T) /\ undelivered' = undelivered \ T
  <2> PICK h \in Handlers : \E T \in SUBSET undelivered :
              Handed(h, T) /\ undelivered' = undelivered \ T
      BY <1>3
  <2> PICK T \in SUBSET undelivered : Handed(h, T) /\ undelivered' = undelivered \ T
      OBVIOUS
  <2>1. \A w \in proc'[h].todo : w[1] # t
      BY HandedPairs DEF Consumed
  <2>2. \A i \in Handlers \ {h} : proc'[i] = proc[i]
      BY DEF Handed, Procs
  <2> QED
      BY <1>1, <2>1, <2>2 DEF Consumed
<1> QED
    BY <1>2, <1>3, HandlersTodo

\* Blocks are handed out once.
LEMMA NextKeepsInOneHand ==
    ASSUME Sound, Next, crashes' = 0, InOneHand
    PROVE  InOneHand'
<1>1. CASE /\ \A h \in Handlers : proc'[h].todo \subseteq proc[h].todo
           /\ UNCHANGED undelivered \/ \E u \in Txs : Execute(u)
  <2>1. \A h \in Handlers : \A w \in proc[h].todo : chain[w[1]] \in Outcome
      BY DEF Sound, HandedIsExecuted, InHand
  <2>2. \A h \in Handlers : \A w \in proc[h].todo : w[1] \notin undelivered'
      BY <1>1, <2>1 DEF InOneHand, Execute, Outcome
  <2> QED
      BY <1>1, <2>2 DEF InOneHand
<1>2. CASE \E h \in Handlers : \E T \in SUBSET undelivered :
              Handed(h, T) /\ undelivered' = undelivered \ T
  <2> PICK h \in Handlers : \E T \in SUBSET undelivered :
              Handed(h, T) /\ undelivered' = undelivered \ T
      BY <1>2
  <2> PICK T \in SUBSET undelivered : Handed(h, T) /\ undelivered' = undelivered \ T
      OBVIOUS
  <2>1. \A w \in proc'[h].todo : w[1] \in T /\ w = <<w[1], pendingKey[w[1]].batch>>
      BY HandedPairs
  <2>2. \A i \in Handlers \ {h} : proc'[i].todo = proc[i].todo
      BY DEF Handed, Procs
  <2>3. \A i \in Handlers : \A w \in proc'[i].todo : w[1] \notin undelivered'
      BY <2>1, <2>2 DEF InOneHand
  <2>4. ASSUME NEW i \in Handlers, NEW j \in Handlers, NEW w \in proc'[i].todo,
               NEW v \in proc'[j].todo, w[1] = v[1]
        PROVE  i = j /\ w = v
    <3>1. CASE i = h /\ j = h
        BY <2>1, <2>4, <3>1
    <3>2. CASE i # h /\ j # h
        BY <2>2, <2>4, <3>2 DEF InOneHand
    <3>3. CASE i = h /\ j # h
        BY <2>1, <2>2, <2>4, <3>3 DEF InOneHand
    <3>4. CASE i # h /\ j = h
        BY <2>1, <2>2, <2>4, <3>4 DEF InOneHand
    <3> QED
        BY <3>1, <3>2, <3>3, <3>4
  <2> QED
      BY <2>3, <2>4 DEF InOneHand
<1> QED
    BY <1>1, <1>2, HandlersTodo

\* The transaction a handler reads the batch of is consumed from then on, and was not before.
LEMMA ReadConsumes ==
    ASSUME Sound, InOneHand, Next, crashes' = 0, NEW h \in Handlers, NEW w \in proc[h].todo, Read(h, w)
    PROVE  Consumed(w[1])' /\ ~Consumed(w[1])
<1>1. chain'[w[1]] \in Outcome
    BY DEF Read
<1>2. w[1] \notin undelivered'
    BY DEF Read, InOneHand
<1>3. \A i \in Handlers \ {h} : proc'[i].todo = proc[i].todo
    BY DEF Read, Procs
<1>4. proc'[h].todo = proc[h].todo \ {w}
    BY DEF Read
<1>5. \A i \in Handlers : \A v \in proc'[i].todo : v[1] # w[1]
    BY <1>3, <1>4 DEF InOneHand
<1> QED
    BY <1>1, <1>2, <1>5 DEF Consumed


-----------------------------------------------------------------------------
(***************************************************************************)
(* Which steps submit, and which start a group.                            *)
(***************************************************************************)

\* Only sending an item submits.
LEMMA OnlySentSubmits ==
    ASSUME Sound, Next, ~ \E p \in Procs : \E s \in ItemStatus : Sent(p, s)
    PROVE  UNCHANGED submissions
    BY Frames

\* What was submitted stays submitted.
LEMMA SubmittedStays ==
    ASSUME Sound, Next, NEW t \in Txs, submissions[t] > 0
    PROVE  submissions'[t] > 0
<1>1. CASE \E p \in Procs : \E s \in ItemStatus : Sent(p, s)
  <2> PICK p \in Procs : \E s \in ItemStatus : Sent(p, s)
      BY <1>1
  <2> PICK s \in ItemStatus : Sent(p, s)
      OBVIOUS
  <2> PICK u \in Txs : submissions'[u] > 0 /\ \A v \in Txs \ {u} : submissions'[v] = submissions[v]
      BY SentFacts
  <2> QED
      OBVIOUS
<1> QED
    BY <1>1, OnlySentSubmits

\* A process that starts a group did so before, or has just been posted or read its batch.
LEMMA Starters ==
    ASSUME Sound, Next, NEW p \in Procs, proc'[p].pc = "send"
    PROVE  \/ proc'[p] = proc[p]
           \/ \E s \in ItemStatus : Sent(p, s) /\ s # "invalid"
           \/ p \in Requests /\ Posted(p)
           \/ p \in Handlers /\ \E w \in proc[p].todo : Read(p, w)
<1> Requests \subseteq Procs /\ Handlers \subseteq Procs /\ Droppers \subseteq Procs
    BY DEF Procs
<1>1. CASE proc'[p] = proc[p]
    BY <1>1
<1>2. CASE \E q \in Procs : \E s \in ItemStatus : Sent(q, s)
  <2> PICK q \in Procs : \E s \in ItemStatus : Sent(q, s)
      BY <1>2
  <2> PICK s \in ItemStatus : Sent(q, s)
      OBVIOUS
  <2>1. p # q => proc'[p] = proc[p]
      BY DEF Sent
  <2>2. p = q => s # "invalid"
      BY DEF Sent
  <2> QED
      BY <2>1, <2>2
<1>3. CASE \E q \in Procs : \E u \in proc[q].keys : KeySet(q, u)
    BY <1>1, <1>3 DEF KeySet
<1>4. CASE \E q \in Requests : Posted(q)
    BY <1>1, <1>4 DEF Posted
<1>5. CASE \E h \in Handlers : \E v \in proc[h].todo : Read(h, v)
  <2> PICK h \in Handlers : \E v \in proc[h].todo : Read(h, v)
      BY <1>5
  <2>1. \A q \in Procs \ {h} : proc'[q] = proc[q]
      BY DEF Read
  <2> QED
      BY <2>1
<1>6. CASE \E h \in Handlers : Begun(h)
    BY <1>1, <1>6 DEF Begun
<1>7. CASE \E d \in Droppers : \E v \in proc[d].todo : Dropped(d, v)
    BY <1>1, <1>7 DEF Dropped
<1>8. CASE \E q \in Procs : Saved(q) \/ Moved(q)
    BY <1>1, <1>8 DEF Saved, Moved, Quiet
<1>9. CASE \E q \in Procs : \E T \in SUBSET Txs : Handed(q, T)
    BY <1>1, <1>9 DEF Handed
<1>10. CASE Environment
    BY <1>1, <1>10 DEF Environment, Execute
<1>11. CASE CrashProcessor
    BY <1>1, <1>11 DEF CrashProcessor, Idle
<1> QED
  <2>1. undelivered \subseteq Txs
      BY DEF Sound, TypeOK
  <2> QED
      BY <1>2, <1>3, <1>4, <1>5, <1>6, <1>7, <1>8, <1>9, <1>10, <1>11, <2>1, Steps

\* A request is idle only before it is handled.
LEMMA IdleBefore ==
    ASSUME Sound, Next, NEW r \in Requests, proc'[r].pc = "idle"
    PROVE  proc[r].pc = "idle" /\ proc'[r] = proc[r]
<1> r \in Procs /\ r \notin Handlers /\ r \notin Droppers
    BY BatchAssumption DEF Procs
<1>1. proc \in [Procs -> ProcType]
    BY DEF Sound, TypeOK
<1>2. CASE RequestStep(r)
  <2>1. CASE StartGroupStep(r)
    <3>1. CASE \E s \in ItemStatus : Sent(r, s)
        BY <3>1 DEF Sent
    <3>2. CASE \E t \in proc[r].keys : KeySet(r, t)
        BY <3>2 DEF KeySet
    <3> QED
        BY <2>1, <3>1, <3>2, SendEffect, SetPendingKeyEffect DEF StartGroupStep
  <2>2. CASE PostBatch(r)
      BY <2>2, PostBatchEffect DEF Posted
  <2>3. CASE PostDuplicate(r)
    <3>1. proc'[r] = [proc[r] EXCEPT !.pc = "end"] /\ proc[r] \in ProcType
        BY <1>1, <2>3 DEF PostDuplicate
    <3> QED
        BY <3>1 DEF ProcType
  <2>4. CASE PostInvalid(r) \/ PostSaved(r)
    <3>1. proc'[r] = [Idle EXCEPT !.pc = "end"]
        BY <1>1, <2>4 DEF PostInvalid, PostSaved
    <3> QED
        BY <3>1 DEF Idle
  <2> QED
      BY <1>2, <2>1, <2>2, <2>3, <2>4 DEF RequestStep
<1>3. CASE proc'[r] = proc[r]
    BY <1>3
<1>4. ASSUME ~RequestStep(r) PROVE proc'[r] = proc[r]
  <2>1. CASE \E q \in Requests : RequestStep(q)
    <3> PICK q \in Requests : RequestStep(q)
        BY <2>1
    <3> q \in Procs /\ q # r
        BY <1>4 DEF Procs
    <3>1. CASE \E s \in ItemStatus : Sent(q, s)
        BY <3>1 DEF Sent
    <3>2. CASE \E t \in proc[q].keys : KeySet(q, t)
        BY <3>2 DEF KeySet
    <3>3. CASE PostBatch(q) \/ PostDuplicate(q) \/ PostInvalid(q) \/ PostSaved(q)
        BY <1>1, <3>3 DEF PostBatch, PostDuplicate, PostInvalid, PostSaved
    <3> QED
        BY <3>1, <3>2, <3>3, SendEffect, SetPendingKeyEffect DEF RequestStep, StartGroupStep
  <2>2. CASE \E h \in Handlers : ReceiveBlock(h) \/ HandlerStep(h)
    <3> PICK h \in Handlers : ReceiveBlock(h) \/ HandlerStep(h)
        BY <2>2
    <3> h \in Procs /\ h # r
        BY DEF Procs
    <3>1. CASE \E s \in ItemStatus : Sent(h, s)
        BY <3>1 DEF Sent
    <3>2. CASE \E t \in proc[h].keys : KeySet(h, t)
        BY <3>2 DEF KeySet
    <3>3. CASE ReceiveBlock(h) \/ ReadBatch(h) \/ GroupStarted(h) \/ SaveBatch(h)
                  \/ DeletePendingKey(h) \/ EmitUpdates(h)
        BY <1>1, <3>3 DEF ReceiveBlock, ReadBatch, GroupStarted, SaveBatch, DeletePendingKey, EmitUpdates
    <3> QED
        BY <3>1, <3>2, <3>3, SendEffect, SetPendingKeyEffect DEF HandlerStep, StartGroupStep
  <2>3. CASE \E d \in Droppers : DropperStep(d)
    <3> PICK d \in Droppers : DropperStep(d)
        BY <2>3
    <3> d \in Procs /\ d # r
        BY DEF Procs
    <3> QED
        BY <1>1 DEF DropperStep, FindOldKeys, DropperSkips, DropperDrops, SaveBatch,
                    DeletePendingKey, EmitUpdates
  <2>4. CASE \E t \in Txs : Execute(t) \/ AgeKey(t)
      BY <2>4 DEF Execute, AgeKey
  <2>5. CASE \E k \in Batches : ExpireBatch(k)
      BY <2>5 DEF ExpireBatch
  <2>6. CASE CrashProcessor
      BY <2>6 DEF CrashProcessor
  <2> QED
      BY <2>1, <2>2, <2>3, <2>4, <2>5, <2>6 DEF Next
<1> QED
    BY <1>2, <1>3, <1>4

-----------------------------------------------------------------------------
(***************************************************************************)
(* Once is inductive while the processor does not restart.                 *)
(***************************************************************************)

\* An item becomes successful in a copy when the handler that was handed it reads the batch.
LEMMA NextKeepsSuccessIsConsumed ==
    ASSUME Sound, InOneHand, SuccessIsConsumed, Next, crashes' = 0
    PROVE  SuccessIsConsumed'
<1>1. ASSUME NEW t \in Txs, chain'[t] # "unsent"
      PROVE  submissions'[t] > 0
  <2>1. CASE \E p \in Procs : \E s \in ItemStatus : Sent(p, s)
    <3> PICK p \in Procs : \E s \in ItemStatus : Sent(p, s)
        BY <2>1
    <3> PICK s \in ItemStatus : Sent(p, s)
        OBVIOUS
    <3> PICK u \in Txs : /\ submissions'[u] > 0
                         /\ \A v \in Txs \ {u} : submissions'[v] = submissions[v]
                         /\ \A v \in Txs \ {u} : chain'[v] = chain[v]
        BY SentFacts
    <3> QED
        BY <1>1 DEF SuccessIsConsumed
  <2>2. CASE \E u \in Txs : Execute(u)
      BY <1>1, <2>2 DEF Execute, SuccessIsConsumed, Sound, TypeOK
  <2>3. ASSUME ~ \E p \in Procs : \E s \in ItemStatus : Sent(p, s), ~ \E u \in Txs : Execute(u)
        PROVE  UNCHANGED <<chain, submissions>>
      BY <2>3, Frames
  <2> QED
      BY <1>1, <2>1, <2>2, <2>3 DEF SuccessIsConsumed
<1>2. ASSUME NEW b \in Copies', NEW t \in DOMAIN b.item, b.item[t] = "success"
      PROVE  Consumed(t)'
  <2>1. ASSUME NEW c \in Copies, DOMAIN b.item = DOMAIN c.item, b.item[t] = c.item[t]
        PROVE  Consumed(t)'
    <3>1. t \in DOMAIN c.item /\ t \in Txs
        BY <1>2, <2>1, CopyTyped
    <3>2. Consumed(t)
        BY <1>2, <2>1, <3>1 DEF SuccessIsConsumed
    <3> QED
        BY <3>1, <3>2, ConsumedStays
  <2>2. CASE b \in Copies
      BY <2>1, <2>2
  <2>3. CASE b \notin Copies
    <3> PICK p \in Procs :
              /\ b = proc'[p].batch
              /\ \/ \E s \in ItemStatus : Sent(p, s)
                 \/ p \in Requests /\ Posted(p)
                 \/ p \in Handlers /\ \E w \in proc[p].todo : Read(p, w) /\ proc'[p].pc # "delete"
                 \/ p \in Handlers /\ Begun(p)
                 \/ p \in Droppers /\ \E w \in proc[p].todo : Dropped(p, w)
        BY <2>3, NewCopies
    <3>2. CASE \E s \in ItemStatus : Sent(p, s)
      <4> PICK s \in ItemStatus : Sent(p, s)
          BY <3>2
      <4> DEFINE u == StartedItems(p)[proc[p].next]
      <4>1. proc[p].batch \in Copies
          BY InCopies DEF Sent
      <4>2. /\ b.item = [proc[p].batch.item EXCEPT ![u] = s]
            /\ s \in {proc[p].batch.item[u], "invalid"}
          BY DEF Sent
      <4> HIDE DEF u
      <4>3. DOMAIN b.item = DOMAIN proc[p].batch.item /\ b.item[t] = proc[p].batch.item[t]
          BY <1>2, <4>2
      <4> QED
          BY <2>1, <4>1, <4>3
    <3>3. CASE p \in Requests /\ Posted(p)
        BY <1>2, <3>3 DEF Posted
    <3>4. CASE p \in Handlers /\ \E w \in proc[p].todo : Read(p, w) /\ proc'[p].pc # "delete"
      <4> PICK w \in proc[p].todo : Read(p, w) /\ proc'[p].pc # "delete"
          BY <3>4
      <4>1. store[w[2]] \in Copies /\ b.item = [store[w[2]].item EXCEPT ![w[1]] = chain[w[1]]]
          BY InCopies DEF Read
      <4>2. CASE t = w[1]
          BY <3>4, <4>2, ReadConsumes
      <4>3. CASE t # w[1]
          BY <2>1, <4>1, <4>3
      <4> QED
          BY <4>2, <4>3
    <3>5. CASE p \in Handlers /\ Begun(p)
      <4>1. proc[p].batch \in Copies /\ b.item = proc[p].batch.item
          BY <3>5, InCopies DEF Begun
      <4> QED
          BY <2>1, <4>1
    <3>6. CASE p \in Droppers /\ \E w \in proc[p].todo : Dropped(p, w)
      <4> PICK w \in proc[p].todo : Dropped(p, w)
          BY <3>6
      <4>1. store[w[2]] \in Copies /\ b.item = [store[w[2]].item EXCEPT ![w[1]] = "dropped"]
          BY InCopies DEF Dropped
      <4>2. DOMAIN b.item = DOMAIN store[w[2]].item /\ b.item[t] = store[w[2]].item[t]
          BY <1>2, <4>1
      <4> QED
          BY <2>1, <4>1, <4>2
    <3> QED
        BY <3>2, <3>3, <3>4, <3>5, <3>6
  <2> QED
      BY <2>2, <2>3
<1> QED
    BY <1>1, <1>2 DEF SuccessIsConsumed


\* A handler starts the group after the one that the transaction in its hand completes.
LEMMA ReadStarts ==
    ASSUME Sound, InOneHand, SuccessIsConsumed, EarlierConsumed, Next, crashes' = 0,
           NEW h \in Handlers, NEW w \in proc[h].todo, Read(h, w), proc'[h].pc = "send"
    PROVE  \E r \in Requests : \E g \in DOMAIN Groups[r] :
              /\ proc'[h].batch.groups = Groups[r]
              /\ BatchOf[r] = w[2]
              /\ proc'[h].group = g + 1 /\ g + 1 \in DOMAIN Groups[r] /\ proc'[h].next = 1
              /\ w[1] \in Range(Groups[r][g]) /\ ~Consumed(w[1])
              /\ \A f \in DOMAIN Groups[r] : f < g + 1 => \A u \in Range(Groups[r][f]) : Consumed(u)'
<1> DEFINE b == store[w[2]]
           t == w[1]
           g == GroupOf(b, t)
<1>1. /\ b # NoBatch /\ w[2] \in Batches /\ t \in Txs /\ t \in DOMAIN b.item
      /\ g \in DOMAIN b.groups /\ t \in Range(b.groups[g])
      /\ chain[t] = "success"
      /\ \A u \in Range(b.groups[g]) : u = t \/ b.item[u] = "success"
      /\ proc'[h].batch.groups = b.groups /\ proc'[h].group = g + 1 /\ proc'[h].next = 1
      /\ g + 1 \in DOMAIN b.groups
    BY DEF Read
<1>2. IsCopy(b, w[2]) /\ b \in Copies
    BY <1>1, InCopies DEF Sound
<1>3. Consumed(t)' /\ ~Consumed(t)
    BY ReadConsumes
<1> HIDE DEF b, t, g
<1>4. PICK r \in Requests : BatchOf[r] = w[2] /\ b.groups = Groups[r]
    BY <1>2 DEF IsCopy
<1>5. ASSUME NEW u \in Range(b.groups[g]) PROVE Consumed(u)'
  <2>1. u \in DOMAIN b.item /\ u \in Txs
      BY <1>1, <1>2, CopyFacts
  <2>2. u = t \/ Consumed(u)
      BY <1>1, <1>2, <2>1 DEF SuccessIsConsumed
  <2>3. CASE u = t
      BY <1>3, <2>3
  <2>4. CASE Consumed(u)
      BY <2>1, <2>4, ConsumedStays
  <2> QED
      BY <2>2, <2>3, <2>4
<1>6. submissions[t] > 0
    BY <1>1 DEF SuccessIsConsumed
<1>7. ASSUME NEW f \in DOMAIN Groups[r], f < g, NEW u \in Range(Groups[r][f]) PROVE Consumed(u)'
  <2>1. Consumed(u)
      BY <1>1, <1>4, <1>6, <1>7 DEF EarlierConsumed
  <2>2. u \in Txs
      BY GroupTxs
  <2> QED
      BY <2>1, <2>2, ConsumedStays
<1>8. \A f \in DOMAIN Groups[r] : f < g + 1 => f < g \/ f = g
    BY <1>1, <1>4, GroupTxs
<1>9. /\ g \in DOMAIN Groups[r]
      /\ t \in Range(Groups[r][g])
      /\ \A f \in DOMAIN Groups[r] : f < g + 1 => \A u \in Range(Groups[r][f]) : Consumed(u)'
    BY <1>1, <1>4, <1>5, <1>7, <1>8
<1> QED
    BY <1>1, <1>3, <1>4, <1>9 DEF t

\* The groups before a started one stay consumed.
LEMMA NextKeepsEarlierConsumed ==
    ASSUME DistinctTxs, Sound, InOneHand, SuccessIsConsumed, EarlierConsumed, Next, crashes' = 0
    PROVE  EarlierConsumed'
<1>1. ASSUME NEW p \in Procs, proc'[p].pc = "send",
             NEW f \in DOMAIN proc'[p].batch.groups, f < proc'[p].group,
             NEW u \in Range(proc'[p].batch.groups[f])
      PROVE  Consumed(u)'
  <2>1. CASE /\ proc[p].pc = "send" /\ proc'[p].batch.groups = proc[p].batch.groups
             /\ proc'[p].group = proc[p].group
    <3>1. Consumed(u)
        BY <1>1, <2>1 DEF EarlierConsumed
    <3>2. PICK r \in Requests : proc[p].batch.groups = Groups[r]
        BY <2>1, StarterFacts
    <3>3. u \in Txs
        BY <1>1, <2>1, <3>2, GroupTxs
    <3> QED
        BY <3>1, <3>3, ConsumedStays
  <2>2. CASE \E s \in ItemStatus : Sent(p, s)
    <3>1. /\ proc[p].pc = "send" /\ proc'[p].batch.groups = proc[p].batch.groups
          /\ proc'[p].group = proc[p].group
        BY <2>2 DEF Sent
    <3> QED
        BY <2>1, <3>1
  <2>3. CASE p \in Requests /\ Posted(p)
    <3>1. proc'[p].group = 1 /\ proc'[p].batch.groups = Groups[p]
        BY <2>3 DEF Posted
    <3>2. Groups[p] \in Seq(Seq(Txs))
        BY <2>3, GroupTxs
    <3>3. f \in 1..Len(Groups[p])
        BY <1>1, <3>1, <3>2
    <3> QED
        BY <1>1, <3>1, <3>3
  <2>4. CASE p \in Handlers /\ \E w \in proc[p].todo : Read(p, w)
    <3> PICK w \in proc[p].todo : Read(p, w)
        BY <2>4
    <3>1. PICK r \in Requests : \E g \in DOMAIN Groups[r] :
              /\ proc'[p].batch.groups = Groups[r]
              /\ proc'[p].group = g + 1
              /\ \A e \in DOMAIN Groups[r] : e < g + 1 => \A v \in Range(Groups[r][e]) : Consumed(v)'
        BY <1>1, <2>4, ReadStarts
    <3> QED
        BY <1>1, <3>1
  <2> QED
      BY <1>1, <2>1, <2>2, <2>3, <2>4, Starters
<1>2. ASSUME NEW r \in Requests, NEW g \in DOMAIN Groups[r], NEW t \in Range(Groups[r][g]),
             submissions'[t] > 0, NEW f \in DOMAIN Groups[r], f < g, NEW u \in Range(Groups[r][f])
      PROVE  Consumed(u)'
  <2>1. t \in Txs /\ u \in Txs
      BY GroupTxs
  <2>2. CASE submissions[t] > 0
    <3>1. Consumed(u)
        BY <1>2, <2>2 DEF EarlierConsumed
    <3> QED
        BY <2>1, <3>1, ConsumedStays
  <2>3. CASE \E p \in Procs : \E s \in ItemStatus : Sent(p, s)
    <3> PICK p \in Procs : \E s \in ItemStatus : Sent(p, s)
        BY <2>3
    <3> PICK s \in ItemStatus : Sent(p, s)
        OBVIOUS
    <3>1. PICK q \in Requests, v \in Txs :
              /\ proc[p].batch.groups = Groups[q]
              /\ proc[p].group \in DOMAIN Groups[q]
              /\ v \in Range(Groups[q][proc[p].group])
              /\ \A o \in Txs \ {v} : submissions'[o] = submissions[o]
        BY SentFacts
    <3>2. CASE t # v
        BY <1>2, <2>1, <2>2, <3>1, <3>2
    <3>3. CASE t = v
      <4>1. r = q /\ g = proc[p].group
        <5> PICK e : e = proc[p].group
            OBVIOUS
        <5>1. e \in DOMAIN Groups[q] /\ t \in Range(Groups[q][e])
            BY <3>1, <3>3
        <5>2. \A o \in Requests : \A d \in DOMAIN Groups[o] :
                t \in Range(Groups[o][d]) => r = o /\ g = d
            BY OnePlace
        <5> QED
            BY <5>1, <5>2
      <4>2. proc[p].pc = "send"
          BY DEF Sent
      <4>3. Consumed(u)
          BY <1>2, <3>1, <4>1, <4>2 DEF EarlierConsumed
      <4> QED
          BY <2>1, <4>3, ConsumedStays
    <3> QED
        BY <3>2, <3>3
  <2> QED
      BY <1>2, <2>2, <2>3, OnlySentSubmits
<1> QED
    BY <1>1, <1>2 DEF EarlierConsumed

\* The second process to start a group would have completed the group before a second time.
LEMMA NextKeepsOneStarter ==
    ASSUME DistinctTxs, Sound, InOneHand, SuccessIsConsumed, EarlierConsumed, OneStarter,
           Next, crashes' = 0
    PROVE  OneStarter'
<1> Requests \subseteq Procs /\ Handlers \subseteq Procs
    BY DEF Procs
<1> DEFINE Old(p) == /\ proc[p].pc = "send" /\ proc'[p].batch.groups = proc[p].batch.groups
                     /\ proc'[p].group = proc[p].group
           New(p) == \/ p \in Requests /\ Posted(p)
                     \/ p \in Handlers /\ \E w \in proc[p].todo : Read(p, w)
<1>1. ASSUME NEW p \in Procs, proc'[p].pc = "send" PROVE Old(p) \/ New(p)
  <2>1. CASE \E s \in ItemStatus : Sent(p, s)
      BY <2>1 DEF Sent
  <2> QED
      BY <1>1, <2>1, Starters
<1>2. ASSUME NEW p \in Procs, proc'[p].pc = "send", NEW q \in Procs, p # q, proc[q].pc = "send",
             proc'[p].batch.groups = proc[q].batch.groups, proc'[p].group = proc[q].group
      PROVE  ~New(p)
  <2>1. CASE p \in Requests /\ Posted(p)
    <3>1. proc[q].batch.groups = Groups[p] /\ proc[q].group = 1
        BY <1>2, <2>1 DEF Posted
    <3> QED
        BY <1>2, <2>1, <3>1 DEF OneStarter
  <2>2. CASE p \in Handlers /\ \E w \in proc[p].todo : Read(p, w)
    <3> PICK w \in proc[p].todo : Read(p, w)
        BY <2>2
    <3>1. PICK r \in Requests : \E g \in DOMAIN Groups[r] :
              /\ proc'[p].batch.groups = Groups[r]
              /\ proc'[p].group = g + 1
              /\ w[1] \in Range(Groups[r][g]) /\ ~Consumed(w[1])
        BY <1>2, <2>2, ReadStarts
    <3>2. PICK g \in DOMAIN Groups[r] :
              /\ proc'[p].group = g + 1
              /\ w[1] \in Range(Groups[r][g]) /\ ~Consumed(w[1])
        BY <3>1
    <3>3. g < g + 1
        BY GroupTxs
    <3>4. Consumed(w[1])
        BY <1>2, <3>1, <3>2, <3>3 DEF EarlierConsumed
    <3> QED
        BY <3>2, <3>4
  <2> QED
      BY <2>1, <2>2
<1>3. ASSUME NEW p \in Procs, NEW q \in Procs, p # q, New(p) PROVE proc'[q] = proc[q]
  <2>1. CASE p \in Requests /\ Posted(p)
      BY <1>3, <2>1 DEF Posted
  <2>2. CASE \E w \in proc[p].todo : Read(p, w)
      BY <1>3, <2>2 DEF Read
  <2> QED
      BY <1>3, <2>1, <2>2
<1> HIDE DEF New
<1>4. ASSUME NEW p \in Procs, NEW q \in Procs, proc'[p].pc = "send", proc'[q].pc = "send",
             proc'[p].batch.groups = proc'[q].batch.groups, proc'[p].group = proc'[q].group,
             p # q
      PROVE  FALSE
  <2>1. CASE New(p)
      BY <1>2, <1>3, <1>4, <2>1
  <2>2. CASE New(q)
      BY <1>2, <1>3, <1>4, <2>2
  <2>3. CASE Old(p) /\ Old(q)
      BY <1>4, <2>3 DEF OneStarter
  <2> QED
      BY <1>1, <1>4, <2>1, <2>2, <2>3
<1>5. ASSUME NEW p \in Procs, NEW r \in Requests, proc'[p].pc = "send",
             proc'[p].batch.groups = Groups[r], proc'[p].group = 1
      PROVE  p = r
  <2>1. CASE Old(p)
      BY <1>5, <2>1 DEF OneStarter
  <2>2. CASE p \in Requests /\ Posted(p)
    <3>1. Groups[p] = Groups[r]
        BY <1>5, <2>2 DEF Posted
    <3> QED
        BY <2>2, <3>1, OneOwner
  <2>3. CASE p \in Handlers /\ \E w \in proc[p].todo : Read(p, w)
    <3> PICK w \in proc[p].todo : Read(p, w)
        BY <2>3
    <3>1. PICK q \in Requests : \E g \in DOMAIN Groups[q] : proc'[p].group = g + 1
        BY <1>5, <2>3, ReadStarts
    <3>2. PICK g \in DOMAIN Groups[q] : proc'[p].group = g + 1
        BY <3>1
    <3>3. Groups[q] \in Seq(Seq(Txs))
        BY GroupTxs
    <3>4. g \in 1..Len(Groups[q])
        BY <3>3
    <3> QED
        BY <1>5, <3>2, <3>4
  <2> QED
      BY <1>1, <1>5, <2>1, <2>2, <2>3 DEF New
<1> QED
    BY <1>4, <1>5 DEF OneStarter


\* What is still to be sent was never submitted: the group before it would have been
\* consumed, or another process would be sending it.
LEMMA NextKeepsNotYetSubmitted ==
    ASSUME DistinctTxs, Sound, InOneHand, SuccessIsConsumed, EarlierConsumed, OneStarter,
           NotYetSubmitted, Next, crashes' = 0
    PROVE  NotYetSubmitted'
<1> Requests \subseteq Procs /\ Handlers \subseteq Procs
    BY DEF Procs
<1>0. submissions \in [Txs -> 0..2]
    BY DEF Sound, TypeOK
\* A process that is not the sender does not have the sent item among its own.
<1>1. ASSUME NEW p \in Procs, proc[p].pc = "send", NEW i \in DOMAIN StartedItems(p),
             NEW q \in Procs, NEW s \in ItemStatus, Sent(q, s), p # q
      PROVE  submissions'[StartedItems(p)[i]] = submissions[StartedItems(p)[i]]
  <2>1. PICK r \in Requests : /\ proc[p].batch.groups = Groups[r]
                              /\ proc[p].group \in DOMAIN Groups[r]
                              /\ StartedItems(p) = Groups[r][proc[p].group]
                              /\ Range(StartedItems(p)) \subseteq Txs
      BY <1>1, StarterFacts
  <2>2. PICK o \in Requests, t \in Txs :
              /\ proc[q].batch.groups = Groups[o]
              /\ proc[q].group \in DOMAIN Groups[o]
              /\ t \in Range(Groups[o][proc[q].group])
              /\ \A u \in Txs \ {t} : submissions'[u] = submissions[u]
      BY <1>1, SentFacts
  <2> PICK v : v = StartedItems(p)[i]
      OBVIOUS
  <2> PICK e : e = proc[p].group
      OBVIOUS
  <2> PICK f : f = proc[q].group
      OBVIOUS
  <2>3. v \in Txs /\ v \in Range(Groups[r][e]) /\ e \in DOMAIN Groups[r]
      BY <1>1, <2>1 DEF Range
  <2>4. f \in DOMAIN Groups[o] /\ t \in Range(Groups[o][f])
      BY <2>2
  <2>5. v = t => r = o /\ e = f
      BY <2>3, <2>4, OnePlace
  <2>6. proc[q].pc = "send"
      BY <1>1 DEF Sent
  <2>7. v # t
      BY <1>1, <2>1, <2>2, <2>5, <2>6 DEF OneStarter
  <2> QED
      BY <2>2, <2>3, <2>7
<1>2. ASSUME NEW p \in Procs, proc'[p].pc = "send", NEW i \in DOMAIN StartedItems(p)', i >= proc'[p].next
      PROVE  submissions'[StartedItems(p)'[i]] = 0
  <2>1. CASE proc'[p] = proc[p]
    <3>1. /\ proc[p].pc = "send" /\ i \in DOMAIN StartedItems(p) /\ i >= proc[p].next
          /\ StartedItems(p)' = StartedItems(p)
        BY <1>2, <2>1 DEF StartedItems
    <3>2. submissions[StartedItems(p)[i]] = 0
        BY <3>1 DEF NotYetSubmitted
    <3>3. CASE \E q \in Procs : \E s \in ItemStatus : Sent(q, s)
      <4> PICK q \in Procs : \E s \in ItemStatus : Sent(q, s)
          BY <3>3
      <4> PICK s \in ItemStatus : Sent(q, s)
          OBVIOUS
      <4>1. proc'[q].next = proc[q].next + 1 /\ proc[q].next \in Nat
          BY DEF Sent, Sound, TypeOK, ProcType
      <4>2. p # q
          BY <2>1, <4>1
      <4> QED
          BY <1>1, <3>1, <3>2, <4>2
    <3> QED
        BY <3>1, <3>2, <3>3, OnlySentSubmits
  <2>2. CASE \E s \in ItemStatus : Sent(p, s)
    <3> PICK s \in ItemStatus : Sent(p, s)
        BY <2>2
    <3>1. PICK r \in Requests, t \in Txs :
              /\ t = StartedItems(p)[proc[p].next]
              /\ proc[p].next \in DOMAIN StartedItems(p)
              /\ proc[p].group \in DOMAIN Groups[r]
              /\ StartedItems(p) = Groups[r][proc[p].group]
              /\ \A u \in Txs \ {t} : submissions'[u] = submissions[u]
        BY SentFacts
    <3>2. /\ proc[p].pc = "send" /\ proc'[p].batch.groups = proc[p].batch.groups
          /\ proc'[p].group = proc[p].group /\ proc'[p].next = proc[p].next + 1
        BY DEF Sent
    <3>3. StartedItems(p)' = StartedItems(p)
        BY <3>2 DEF StartedItems
    <3>4. StartedItems(p) \in Seq(Txs) /\ proc[p].next \in Nat
        BY <3>2, StarterFacts
    <3>5. i \in DOMAIN StartedItems(p) /\ i > proc[p].next
        BY <1>2, <3>2, <3>3, <3>4
    <3>6. submissions[StartedItems(p)[i]] = 0
        BY <3>2, <3>4, <3>5 DEF NotYetSubmitted
    <3> PICK e : e = proc[p].group
        OBVIOUS
    <3> PICK n : n = proc[p].next
        OBVIOUS
    <3>7. /\ e \in DOMAIN Groups[r] /\ i \in DOMAIN Groups[r][e] /\ n \in DOMAIN Groups[r][e]
          /\ i # n /\ t = Groups[r][e][n] /\ StartedItems(p)[i] = Groups[r][e][i]
        BY <3>1, <3>4, <3>5
    <3>8. \A j, m \in DOMAIN Groups[r][e] : Groups[r][e][j] = Groups[r][e][m] => j = m
        BY <3>7 DEF DistinctTxs
    <3>9. StartedItems(p)[i] # t /\ StartedItems(p)[i] \in Txs
        BY <3>4, <3>5, <3>7, <3>8
    <3> QED
        BY <3>1, <3>3, <3>6, <3>9
  <2>3. CASE p \in Requests /\ Posted(p)
    <3>1. /\ proc[p].pc = "idle" /\ StartedItems(p)' = Groups[p][1] /\ UNCHANGED submissions
        BY <2>3 DEF Posted, Idle, StartedItems
    <3>2. StartedItems(p)'[i] \in Range(Groups[p][1])
        BY <1>2, <3>1 DEF Range
    <3> QED
        BY <2>3, <3>1, <3>2 DEF NotYetSubmitted
  <2>4. CASE p \in Handlers /\ \E w \in proc[p].todo : Read(p, w)
    <3> PICK w \in proc[p].todo : Read(p, w)
        BY <2>4
    <3>1. PICK r \in Requests : \E g \in DOMAIN Groups[r] :
              /\ proc'[p].batch.groups = Groups[r]
              /\ proc'[p].group = g + 1 /\ g + 1 \in DOMAIN Groups[r]
              /\ w[1] \in Range(Groups[r][g]) /\ ~Consumed(w[1])
        BY <1>2, <2>4, ReadStarts
    <3>2. PICK g \in DOMAIN Groups[r] :
              /\ proc'[p].group = g + 1 /\ g + 1 \in DOMAIN Groups[r]
              /\ w[1] \in Range(Groups[r][g]) /\ ~Consumed(w[1])
        BY <3>1
    <3> PICK v : v = StartedItems(p)'[i]
        OBVIOUS
    <3>3. StartedItems(p)' = Groups[r][g + 1]
        BY <3>1, <3>2 DEF StartedItems
    <3>4. v \in Range(Groups[r][g + 1])
        BY <1>2, <3>3 DEF Range
    <3>5. v \in Txs /\ g < g + 1
        BY <3>2, <3>4, GroupTxs
    <3>6. ~(submissions[v] > 0)
        BY <3>2, <3>4, <3>5 DEF EarlierConsumed
    <3>7. UNCHANGED submissions
        BY DEF Read
    <3> QED
        BY <1>0, <3>5, <3>6, <3>7
  <2> QED
      BY <1>2, <2>1, <2>2, <2>3, <2>4, Starters
<1>3. ASSUME NEW r \in Requests, proc'[r].pc = "idle", NEW t \in Range(Groups[r][1])
      PROVE  submissions'[t] = 0
  <2>1. proc[r].pc = "idle" /\ proc'[r] = proc[r]
      BY <1>3, IdleBefore
  <2>2. submissions[t] = 0
      BY <2>1 DEF NotYetSubmitted
  <2>3. CASE \E p \in Procs : \E s \in ItemStatus : Sent(p, s)
    <3> PICK p \in Procs : \E s \in ItemStatus : Sent(p, s)
        BY <2>3
    <3> PICK s \in ItemStatus : Sent(p, s)
        OBVIOUS
    <3>1. PICK q \in Requests, v \in Txs :
              /\ proc[p].batch.groups = Groups[q]
              /\ proc[p].group \in DOMAIN Groups[q]
              /\ v \in Range(Groups[q][proc[p].group])
              /\ \A o \in Txs \ {v} : submissions'[o] = submissions[o]
        BY SentFacts
    <3>2. 1 \in DOMAIN Groups[r]
        BY BatchAssumption
    <3> PICK e : e = proc[p].group
        OBVIOUS
    <3>3. e \in DOMAIN Groups[q] /\ v \in Range(Groups[q][e])
        BY <3>1
    <3>4. t = v => r = q /\ 1 = e
      <4>1. \A o \in Requests : \A d \in DOMAIN Groups[o] :
              t \in Range(Groups[o][d]) => r = o /\ 1 = d
          BY <3>2, OnePlace
      <4> QED
          BY <3>3, <4>1
    <3>5. proc[p].pc = "send"
        BY DEF Sent
    <3>6. t # v
        BY <2>1, <3>1, <3>4, <3>5 DEF OneStarter
    <3>7. t \in Txs
        BY <3>2, GroupTxs
    <3> QED
        BY <2>2, <3>1, <3>6, <3>7
  <2> QED
      BY <2>2, <2>3, OnlySentSubmits
<1>4. ASSUME NEW t \in Txs PROVE submissions'[t] < 2
  <2>1. submissions[t] < 2
      BY DEF NotYetSubmitted
  <2>2. CASE \E p \in Procs : \E s \in ItemStatus : Sent(p, s)
    <3> PICK p \in Procs : \E s \in ItemStatus : Sent(p, s)
        BY <2>2
    <3> PICK s \in ItemStatus : Sent(p, s)
        OBVIOUS
    <3>1. PICK v \in Txs :
              /\ v = StartedItems(p)[proc[p].next]
              /\ proc[p].next \in DOMAIN StartedItems(p)
              /\ submissions[v] = 0 => submissions'[v] = 1
              /\ \A o \in Txs \ {v} : submissions'[o] = submissions[o]
        BY SentFacts
    <3>2. proc[p].pc = "send" /\ proc[p].next \in Nat
        BY DEF Sent, Sound, TypeOK, ProcType
    <3>3. submissions[v] = 0
        BY <3>1, <3>2 DEF NotYetSubmitted
    <3> QED
        BY <2>1, <3>1, <3>3
  <2> QED
      BY <2>1, <2>2, OnlySentSubmits
<1> QED
    BY <1>2, <1>3, <1>4 DEF NotYetSubmitted

\* Until a restart, Once is an invariant.
LEMMA AlwaysOnce ==
    ASSUME DistinctTxs
    PROVE  Spec => [](crashes = 0 => Once)
<1>1. ASSUME Init PROVE Once
  <2>1. /\ \A p \in Procs : proc[p].pc = "idle" /\ proc[p].todo = {} /\ proc[p].batch = NoBatch
        /\ undelivered = {}
        /\ \A t \in Txs : chain[t] = "unsent" /\ submissions[t] = 0
        /\ Copies = {}
      BY <1>1 DEF Init, Idle, Copies
  <2>2. InOneHand /\ SuccessIsConsumed /\ OneStarter
      BY <2>1 DEF InOneHand, SuccessIsConsumed, OneStarter, Procs
  <2>3. EarlierConsumed /\ NotYetSubmitted
    <3>1. \A r \in Requests : \A g \in DOMAIN Groups[r] : \A t \in Range(Groups[r][g]) :
            submissions[t] = 0
        BY <2>1, GroupTxs
    <3>2. \A r \in Requests : 1 \in DOMAIN Groups[r]
        BY BatchAssumption
    <3> QED
        BY <2>1, <3>1, <3>2 DEF EarlierConsumed, NotYetSubmitted
  <2> QED
      BY <2>2, <2>3 DEF Once
<1>2. ASSUME Sound, crashes = 0 => Once, [Next]_vars, crashes' = 0
      PROVE  Once'
  <2>1. CASE UNCHANGED vars
    <3>1. UNCHANGED <<store, chain, undelivered, proc, submissions, crashes>>
        BY <2>1 DEF vars
    <3>2. Copies' = Copies /\ \A p \in Procs : StartedItems(p)' = StartedItems(p)
        BY <3>1 DEF Copies, StartedItems
    <3>3. Once
        BY <1>2, <3>1
    <3>4. \A t : Consumed(t)' <=> Consumed(t)
        BY <3>1 DEF Consumed
    <3>5. InOneHand' /\ OneStarter'
        BY <3>1, <3>3 DEF Once, InOneHand, OneStarter
    <3>6. SuccessIsConsumed'
        BY <3>1, <3>2, <3>3, <3>4 DEF Once, SuccessIsConsumed
    <3>7. EarlierConsumed'
        BY <3>1, <3>3, <3>4 DEF Once, EarlierConsumed
    <3>8. NotYetSubmitted'
        BY <3>1, <3>2, <3>3 DEF Once, NotYetSubmitted
    <3> QED
        BY <3>5, <3>6, <3>7, <3>8 DEF Once
  <2>2. CASE Next
    <3>1. crashes = 0
      <4>1. CASE CrashProcessor
          BY <1>2, <4>1 DEF CrashProcessor, Sound, TypeOK
      <4> QED
          BY <1>2, <2>2, <4>1, Frames
    <3>2. InOneHand /\ SuccessIsConsumed /\ EarlierConsumed /\ OneStarter /\ NotYetSubmitted
        BY <1>2, <3>1 DEF Once
    <3>3. InOneHand'
        BY <1>2, <2>2, <3>2, NextKeepsInOneHand
    <3>4. SuccessIsConsumed'
        BY <1>2, <2>2, <3>2, NextKeepsSuccessIsConsumed
    <3>5. EarlierConsumed'
        BY <1>2, <2>2, <3>2, NextKeepsEarlierConsumed
    <3>6. OneStarter'
        BY <1>2, <2>2, <3>2, NextKeepsOneStarter
    <3>7. NotYetSubmitted'
        BY <1>2, <2>2, <3>2, NextKeepsNotYetSubmitted
    <3> QED
        BY <3>3, <3>4, <3>5, <3>6, <3>7 DEF Once
  <2> QED
      BY <1>2, <2>1, <2>2
<1>3. Init => (crashes = 0 => Once)
    BY <1>1
<1>4. Sound /\ (crashes = 0 => Once) /\ [Next]_vars => (crashes = 0 => Once)'
    BY <1>2
<1> QED
    BY <1>3, <1>4, AlwaysSound, PTL DEF Spec

\* Until the processor restarts, no transaction is given to the gateway a second time: not by
\* two handlers that complete a group at the same time, and not by one that works on a stale copy.
THEOREM SubmittedAtMostOnce ==
    ASSUME DistinctTxs
    PROVE  Spec => []SubmittedOnce
<1>1. (crashes = 0 => Once) => SubmittedOnce
    BY DEF Once, NotYetSubmitted, SubmittedOnce
<1> QED
    BY <1>1, AlwaysOnce, PTL


-----------------------------------------------------------------------------
(***************************************************************************)
(* An invalid batch.                                                       *)
(***************************************************************************)

(***************************************************************************)
(* What the client has to respect here: a batch key stands for one         *)
(* request.  Two requests that both find their key free save one after the *)
(* other, and the second may succeed where the first has become invalid.   *)
(***************************************************************************)
OneRequest == \A r, q \in Requests : BatchOf[r] = BatchOf[q] => r = q

\* t was refused, or its answer lost, and will never be successful in a copy.
Hopeless(t) ==
    /\ submissions[t] > 0
    /\ pendingKey[t] = NoKey
    /\ \A p \in Procs : /\ \A w \in proc[p].todo : w[1] # t
                        /\ proc[p].pc = "keys" => t \notin proc[p].keys
                        /\ proc[p].pc = "send" => t \notin Range(StartedItems(p))
    /\ \A b \in Copies : t \in DOMAIN b.item => b.item[t] # "success"

\* Group g of request r will not succeed, and no later group has been or is being started.
BlockedAt(r, g) ==
    /\ \E t \in Range(Groups[r][g]) : chain[t] = "invalid" \/ Hopeless(t)
    /\ \A f \in DOMAIN Groups[r] : f > g => \A u \in Range(Groups[r][f]) : submissions[u] = 0
    /\ \A p \in Procs : proc[p].pc = "send" /\ proc[p].batch.groups = Groups[r] => proc[p].group <= g

\* The batch of the key k cannot succeed any more.
Blocked(k) == \E r \in Requests : BatchOf[r] = k /\ \E g \in DOMAIN Groups[r] : BlockedAt(r, g)

\* A transaction that was not submitted has no pending key and is pending in every copy.
Untouched(t) ==
    /\ pendingKey[t] = NoKey
    /\ \A p \in Procs : /\ \A w \in proc[p].todo : w[1] # t
                        /\ proc[p].pc = "keys" => t \notin proc[p].keys
    /\ \A b \in Copies : t \in DOMAIN b.item => b.item[t] = "pending"

\* What was not submitted is untouched.
UnsentUntouched == \A t \in Txs : submissions[t] = 0 => Untouched(t)

\* A group being started is pending in the starter's copy, up to an item that is refused.
StartedPending ==
    \A p \in Procs :
        /\ proc[p].pc \in {"send", "keys"} => proc[p].batch.status = "pending"
        /\ proc[p].pc = "send" =>
             /\ \A u \in Range(StartedItems(p)) : proc[p].batch.item[u] = "pending"
             /\ \A i \in DOMAIN StartedItems(p) :
                   i < proc[p].next => submissions[StartedItems(p)[i]] > 0

\* What is invalid is blocked.
InvalidIsBlocked ==
    /\ \A k \in failed : Blocked(k)
    /\ \A k \in Batches : store[k] # NoBatch /\ store[k].status = "invalid" => Blocked(k)
    /\ \A p \in Procs : /\ proc[p].pc = "save" /\ proc[p].batch.status = "invalid" => Blocked(proc[p].key)
                        /\ proc[p].pc = "keys" /\ GroupInvalid(p) => Blocked(proc[p].key)

\* A successful copy has the transactions of its last group as successful.
LastSucceeded ==
    \A b \in Copies : b.status = "success" =>
        \A u \in Range(b.groups[Len(b.groups)]) : b.item[u] = "success"

(***************************************************************************)
(* The inductive invariant behind InvalidNeverSuccessful.                  *)
(***************************************************************************)
Doomed == UnsentUntouched /\ StartedPending /\ InvalidIsBlocked /\ LastSucceeded

\* A process that has just begun to send a group sends items that were never submitted.
LEMMA FreshItems ==
    ASSUME Sound, Sound', Once', Next, NEW p \in Procs, proc'[p].pc = "send",
           \/ p \in Requests /\ Posted(p)
           \/ p \in Handlers /\ \E w \in proc[p].todo : Read(p, w)
    PROVE  \A u \in Range(StartedItems(p)') : u \in Txs /\ submissions[u] = 0 /\ submissions'[u] = 0
<1>1. proc'[p].next = 1 /\ UNCHANGED submissions
  <2>1. CASE p \in Requests /\ Posted(p)
      BY <2>1 DEF Posted
  <2>2. CASE \E w \in proc[p].todo : Read(p, w)
      BY <2>2 DEF Read
  <2> QED
      BY <2>1, <2>2
<1>2. StartedItems(p)' \in Seq(Txs)
  <2>1. IsCopy(proc'[p].batch, proc'[p].key) /\ StartOK(proc'[p])
      BY DEF Sound, ProcOK
  <2> QED
      BY <2>1, CopyFacts DEF StartOK, StartedItems
<1> SUFFICES ASSUME NEW u \in Range(StartedItems(p)')
             PROVE  u \in Txs /\ submissions[u] = 0 /\ submissions'[u] = 0
    OBVIOUS
<1>3. PICK i \in DOMAIN StartedItems(p)' : u = StartedItems(p)'[i]
    BY DEF Range
<1>4. u \in Txs /\ i >= 1
    BY <1>2, <1>3
<1>5. submissions'[u] = 0
    BY <1>1, <1>3, <1>4 DEF Once, NotYetSubmitted
<1> QED
    BY <1>1, <1>4, <1>5

\* Keys and todo lists only get transactions that were sent or have a key.
LEMMA NewKey ==
    ASSUME Sound, Next, NEW t \in Txs, pendingKey[t] = NoKey, pendingKey'[t] # NoKey
    PROVE  \E p \in Procs : proc[p].pc = "keys" /\ t \in proc[p].keys
<1>1. CASE \E p \in Procs : \E u \in proc[p].keys : KeySet(p, u)
    BY <1>1 DEF KeySet, Sound, TypeOK
<1>2. ASSUME ~ \E p \in Procs : \E u \in proc[p].keys : KeySet(p, u)
      PROVE  UNCHANGED pendingKey \/ KeysFade
    BY <1>2, Frames
<1> QED
    BY <1>1, <1>2 DEF KeysFade

\* What processes come to have to do has a pending key.
LEMMA NewTodo ==
    ASSUME Sound, Next, NEW p \in Procs, NEW w \in proc'[p].todo, w \notin proc[p].todo
    PROVE  pendingKey[w[1]] # NoKey
<1> Requests \subseteq Procs /\ Handlers \subseteq Procs /\ Droppers \subseteq Procs
    BY DEF Procs
<1>1. CASE \E q \in Procs : \E T \in SUBSET Txs : Handed(q, T)
  <2> PICK q \in Procs : \E T \in SUBSET Txs : Handed(q, T)
      BY <1>1
  <2> PICK T \in SUBSET Txs : Handed(q, T)
      OBVIOUS
  <2>1. p = q
      BY DEF Handed
  <2> QED
      BY <2>1, HandedPairs
<1>2. CASE \E q \in Procs : \E s \in ItemStatus : Sent(q, s)
    BY <1>2 DEF Sent
<1>3. CASE \E q \in Procs : \E u \in proc[q].keys : KeySet(q, u)
    BY <1>3 DEF KeySet
<1>4. CASE \E r \in Requests : Posted(r)
    BY <1>4 DEF Posted
<1>5. CASE \E h \in Handlers : \E v \in proc[h].todo : Read(h, v)
    BY <1>5 DEF Read
<1>6. CASE \E h \in Handlers : Begun(h)
    BY <1>6 DEF Begun
<1>7. CASE \E d \in Droppers : \E v \in proc[d].todo : Dropped(d, v)
    BY <1>7 DEF Dropped
<1>8. CASE \E q \in Procs : Saved(q) \/ Moved(q)
    BY <1>8 DEF Saved, Moved, Quiet
<1>9. CASE Environment
    BY <1>9 DEF Environment, Execute
<1>10. CASE CrashProcessor
    BY <1>10 DEF CrashProcessor, Idle
<1> QED
  <2>1. undelivered \subseteq Txs
      BY DEF Sound, TypeOK
  <2> QED
      BY <1>1, <1>2, <1>3, <1>4, <1>5, <1>6, <1>7, <1>8, <1>9, <1>10, <2>1, Steps

\* A process writes keys when it has sent its group, and goes on writing them.
LEMMA KeyWriters ==
    ASSUME Sound, Next, NEW p \in Procs, proc'[p].pc = "keys"
    PROVE  \/ /\ proc[p].pc = "keys" /\ proc'[p].batch = proc[p].batch
              /\ proc'[p].group = proc[p].group /\ proc'[p].key = proc[p].key
              /\ proc'[p].keys \subseteq proc[p].keys
           \/ \E s \in ItemStatus : Sent(p, s)
<1> Requests \subseteq Procs /\ Handlers \subseteq Procs /\ Droppers \subseteq Procs
    BY DEF Procs
<1>1. CASE proc'[p] = proc[p]
    BY <1>1
<1>2. CASE \E q \in Procs : \E s \in ItemStatus : Sent(q, s)
  <2> PICK q \in Procs : \E s \in ItemStatus : Sent(q, s)
      BY <1>2
  <2>1. \A o \in Procs \ {q} : proc'[o] = proc[o]
      BY DEF Sent
  <2> QED
      BY <1>1, <2>1
<1>3. CASE \E q \in Procs : \E u \in proc[q].keys : KeySet(q, u)
    BY <1>1, <1>3 DEF KeySet
<1>4. CASE \E r \in Requests : Posted(r)
    BY <1>1, <1>4 DEF Posted
<1>5. CASE \E h \in Handlers : \E v \in proc[h].todo : Read(h, v)
    BY <1>1, <1>5 DEF Read
<1>6. CASE \E h \in Handlers : Begun(h)
    BY <1>1, <1>6 DEF Begun
<1>7. CASE \E d \in Droppers : \E v \in proc[d].todo : Dropped(d, v)
    BY <1>1, <1>7 DEF Dropped
<1>8. CASE \E q \in Procs : Saved(q) \/ Moved(q)
    BY <1>1, <1>8 DEF Saved, Moved, Quiet
<1>9. CASE \E q \in Procs : \E T \in SUBSET Txs : Handed(q, T)
    BY <1>1, <1>9 DEF Handed
<1>10. CASE Environment
    BY <1>1, <1>10 DEF Environment, Execute
<1>11. CASE CrashProcessor
    BY <1>1, <1>11 DEF CrashProcessor, Idle
<1> QED
  <2>1. undelivered \subseteq Txs
      BY DEF Sound, TypeOK
  <2> QED
      BY <1>2, <1>3, <1>4, <1>5, <1>6, <1>7, <1>8, <1>9, <1>10, <1>11, <2>1, Steps

\* An item is set in a copy by its sender, by a process that has it to do, or in a new batch.
LEMMA ItemSetters ==
    ASSUME Sound, Next, NEW b \in Copies', NEW t \in DOMAIN b.item
    PROVE  \/ b.item[t] = "pending"
           \/ \E c \in Copies : t \in DOMAIN c.item /\ b.item[t] = c.item[t]
           \/ \E p \in Procs : \E w \in proc[p].todo : w[1] = t
           \/ \E p \in Procs : /\ proc[p].pc = "send" /\ b.item[t] = "invalid"
                               /\ b = proc'[p].batch /\ Sent(p, "invalid")
                               /\ t = StartedItems(p)[proc[p].next]
<1>1. CASE b \in Copies
    BY <1>1
<1>2. CASE b \notin Copies
  <2> PICK p \in Procs :
            /\ b = proc'[p].batch
            /\ \/ \E s \in ItemStatus : Sent(p, s)
               \/ p \in Requests /\ Posted(p)
               \/ p \in Handlers /\ \E w \in proc[p].todo : Read(p, w) /\ proc'[p].pc # "delete"
               \/ p \in Handlers /\ Begun(p)
               \/ p \in Droppers /\ \E w \in proc[p].todo : Dropped(p, w)
      BY <1>2, NewCopies
  <2>1. CASE \E s \in ItemStatus : Sent(p, s)
    <3> PICK s \in ItemStatus : Sent(p, s)
        BY <2>1
    <3> PICK u : u = StartedItems(p)[proc[p].next]
        OBVIOUS
    <3>1. proc[p].pc = "send" /\ proc[p].batch \in Copies
        BY InCopies DEF Sent
    <3>2. /\ b.item = [proc[p].batch.item EXCEPT ![u] = s]
          /\ s \in {proc[p].batch.item[u], "invalid"}
        BY DEF Sent
    <3>3. CASE s # "invalid" \/ t # u
        BY <3>1, <3>2, <3>3
    <3>4. CASE s = "invalid" /\ t = u
        BY <3>1, <3>2, <3>4
    <3> QED
        BY <3>3, <3>4
  <2>2. CASE p \in Requests /\ Posted(p)
      BY <2>2 DEF Posted
  <2>3. CASE p \in Handlers /\ \E w \in proc[p].todo : Read(p, w) /\ proc'[p].pc # "delete"
    <3> PICK w \in proc[p].todo : Read(p, w) /\ proc'[p].pc # "delete"
        BY <2>3
    <3>1. store[w[2]] \in Copies /\ b.item = [store[w[2]].item EXCEPT ![w[1]] = chain[w[1]]]
        BY InCopies DEF Read
    <3> QED
        BY <3>1
  <2>4. CASE p \in Handlers /\ Begun(p)
    <3>1. proc[p].batch \in Copies /\ b.item = proc[p].batch.item
        BY <2>4, InCopies DEF Begun
    <3> QED
        BY <3>1
  <2>5. CASE p \in Droppers /\ \E w \in proc[p].todo : Dropped(p, w)
    <3> PICK w \in proc[p].todo : Dropped(p, w)
        BY <2>5
    <3>1. store[w[2]] \in Copies /\ b.item = [store[w[2]].item EXCEPT ![w[1]] = "dropped"]
        BY InCopies DEF Dropped
    <3> QED
        BY <3>1
  <2> QED
      BY <2>1, <2>2, <2>3, <2>4, <2>5
<1> QED
    BY <1>1, <1>2


-----------------------------------------------------------------------------
(***************************************************************************)
(* What is blocked stays blocked.                                          *)
(***************************************************************************)

\* A hopeless transaction stays so: nobody has it to do or to send.
LEMMA HopelessStays ==
    ASSUME Sound, Sound', Once', Next, NEW t \in Txs, Hopeless(t)
    PROVE  Hopeless(t)'
<1>1. submissions'[t] > 0
    BY SubmittedStays DEF Hopeless
<1>2. pendingKey'[t] = NoKey
    BY NewKey DEF Hopeless
<1>3. ASSUME NEW p \in Procs, NEW w \in proc'[p].todo PROVE w[1] # t
    BY <1>3, NewTodo DEF Hopeless
<1>4. ASSUME NEW p \in Procs, proc'[p].pc = "keys" PROVE t \notin proc'[p].keys
  <2>1. CASE \E s \in ItemStatus : Sent(p, s)
    <3> PICK s \in ItemStatus : Sent(p, s)
        BY <2>1
    <3>1. proc[p].pc = "send" /\ proc'[p].batch.groups = proc[p].batch.groups
          /\ proc'[p].group = proc[p].group
        BY DEF Sent
    <3>2. proc'[p].keys \subseteq Range(proc'[p].batch.groups[proc'[p].group])
        BY <1>4 DEF Sound, ProcOK, StartOK
    <3> QED
        BY <3>1, <3>2 DEF Hopeless, StartedItems
  <2> QED
      BY <1>4, <2>1, KeyWriters DEF Hopeless
<1>5. ASSUME NEW p \in Procs, proc'[p].pc = "send" PROVE t \notin Range(StartedItems(p)')
  <2>1. CASE /\ proc[p].pc = "send" /\ proc'[p].batch.groups = proc[p].batch.groups
             /\ proc'[p].group = proc[p].group
      BY <2>1 DEF Hopeless, StartedItems
  <2>2. CASE \E s \in ItemStatus : Sent(p, s)
    <3>1. /\ proc[p].pc = "send" /\ proc'[p].batch.groups = proc[p].batch.groups
          /\ proc'[p].group = proc[p].group
        BY <2>2 DEF Sent
    <3> QED
        BY <2>1, <3>1
  <2>3. CASE \/ p \in Requests /\ Posted(p)
             \/ p \in Handlers /\ \E w \in proc[p].todo : Read(p, w)
    <3>1. \A u \in Range(StartedItems(p)') : submissions[u] = 0
        BY <1>5, <2>3, FreshItems
    <3> QED
        BY <3>1 DEF Hopeless
  <2> QED
      BY <1>5, <2>1, <2>2, <2>3, Starters
<1>6. ASSUME NEW b \in Copies', t \in DOMAIN b.item PROVE b.item[t] # "success"
    BY <1>6, ItemSetters DEF Hopeless
<1> QED
    BY <1>1, <1>2, <1>3, <1>4, <1>5, <1>6 DEF Hopeless

\* A blocked group stays so: it is not completed, and no later group is started or sent.
LEMMA BlockedAtStays ==
    ASSUME DistinctTxs, Sound, Sound', RealItems, Once, Once', Next, crashes' = 0,
           NEW r \in Requests, NEW g \in DOMAIN Groups[r], BlockedAt(r, g)
    PROVE  BlockedAt(r, g)'
<1> Requests \subseteq Procs /\ Handlers \subseteq Procs
    BY DEF Procs
<1>0. \A f \in DOMAIN Groups[r] : f \in Nat /\ Range(Groups[r][f]) \subseteq Txs
    BY GroupTxs
<1>1. PICK t \in Range(Groups[r][g]) : chain[t] = "invalid" \/ Hopeless(t)
    BY DEF BlockedAt
<1>2. t \in Txs
    BY <1>0
<1>3. chain'[t] = "invalid" \/ Hopeless(t)'
  <2>1. CASE chain[t] = "invalid"
      BY <1>2, <2>1, ChainFinal
  <2>2. CASE Hopeless(t)
      BY <1>2, <2>2, HopelessStays
  <2> QED
      BY <1>1, <2>1, <2>2
<1>4. ASSUME NEW f \in DOMAIN Groups[r], f > g, NEW u \in Range(Groups[r][f])
      PROVE  submissions'[u] = 0
  <2>1. u \in Txs /\ submissions[u] = 0
      BY <1>0, <1>4 DEF BlockedAt
  <2>2. CASE \E p \in Procs : \E s \in ItemStatus : Sent(p, s)
    <3> PICK p \in Procs : \E s \in ItemStatus : Sent(p, s)
        BY <2>2
    <3> PICK s \in ItemStatus : Sent(p, s)
        OBVIOUS
    <3>1. PICK q \in Requests, v \in Txs :
              /\ proc[p].batch.groups = Groups[q]
              /\ proc[p].group \in DOMAIN Groups[q]
              /\ v \in Range(Groups[q][proc[p].group])
              /\ \A o \in Txs \ {v} : submissions'[o] = submissions[o]
        BY SentFacts
    <3> PICK e : e = proc[p].group
        OBVIOUS
    <3>2. e \in DOMAIN Groups[q] /\ v \in Range(Groups[q][e]) /\ proc[p].pc = "send"
        BY <3>1 DEF Sent
    <3>3. \A o \in Requests : \A d \in DOMAIN Groups[o] :
            u \in Range(Groups[o][d]) => r = o /\ f = d
        BY OnePlace
    <3>4. u = v => r = q /\ f = e
        BY <3>2, <3>3
    <3>5. r = q => e <= g
        BY <3>1, <3>2 DEF BlockedAt
    <3>6. u # v
        BY <1>0, <1>4, <3>2, <3>4, <3>5
    <3> QED
        BY <2>1, <3>1, <3>6
  <2> QED
      BY <2>1, <2>2, OnlySentSubmits
<1>5. ASSUME NEW p \in Procs, proc'[p].pc = "send", proc'[p].batch.groups = Groups[r]
      PROVE  proc'[p].group <= g
  <2>1. CASE /\ proc[p].pc = "send" /\ proc'[p].batch.groups = proc[p].batch.groups
             /\ proc'[p].group = proc[p].group
      BY <1>5, <2>1 DEF BlockedAt
  <2>2. CASE \E s \in ItemStatus : Sent(p, s)
    <3>1. /\ proc[p].pc = "send" /\ proc'[p].batch.groups = proc[p].batch.groups
          /\ proc'[p].group = proc[p].group
        BY <2>2 DEF Sent
    <3> QED
        BY <2>1, <3>1
  <2>3. CASE p \in Requests /\ Posted(p)
    <3>1. proc'[p].group = 1
        BY <2>3 DEF Posted
    <3>2. Groups[r] \in Seq(Seq(Txs))
        BY GroupTxs
    <3>3. g >= 1
        BY <3>2
    <3> QED
        BY <3>1, <3>3
  <2>4. CASE p \in Handlers /\ \E w \in proc[p].todo : Read(p, w)
    <3> PICK w \in proc[p].todo : Read(p, w)
        BY <2>4
    <3> DEFINE b == store[w[2]]
               v == w[1]
               e == GroupOf(b, v)
    <3>1. /\ b # NoBatch /\ w[2] \in Batches /\ v \in Txs
          /\ e \in DOMAIN b.groups /\ v \in Range(b.groups[e])
          /\ chain[v] = "success"
          /\ \A u \in Range(b.groups[e]) : u = v \/ b.item[u] = "success"
          /\ proc'[p].batch.groups = b.groups /\ proc'[p].group = e + 1
        BY <1>5 DEF Read
    <3>2. IsCopy(b, w[2]) /\ b \in Copies /\ w[1] = v
        BY <3>1, InCopies DEF Sound
    <3> HIDE DEF b, v, e
    <3>3. b.groups = Groups[r] /\ e \in Nat /\ g \in Nat
        BY <1>0, <1>5, <3>1
    <3>4. ~(e > g)
      <4>1. submissions[v] > 0
          BY <3>1 DEF Once, SuccessIsConsumed
      <4> QED
          BY <3>1, <3>3, <4>1 DEF BlockedAt
    <3>5. e # g
      <4> SUFFICES ASSUME e = g PROVE FALSE
          OBVIOUS
      <4>1. t \in Range(b.groups[e]) /\ t \in DOMAIN b.item
          BY <3>1, <3>2, <3>3, CopyFacts
      <4>2. t = v \/ b.item[t] = "success"
          BY <3>1, <4>1
      <4>3. CASE chain[t] = "invalid"
          BY <3>1, <3>2, <4>1, <4>2, <4>3 DEF RealItems
      <4>4. CASE Hopeless(t)
          BY <2>4, <3>2, <4>1, <4>2, <4>4 DEF Hopeless
      <4> QED
          BY <1>1, <4>3, <4>4
    <3> QED
        BY <3>1, <3>3, <3>4, <3>5
  <2> QED
      BY <1>5, <2>1, <2>2, <2>3, <2>4, Starters
<1> QED
    BY <1>3, <1>4, <1>5 DEF BlockedAt

\* A batch that cannot succeed any more never can.
LEMMA BlockedStays ==
    ASSUME DistinctTxs, Sound, Sound', RealItems, Once, Once', Next, crashes' = 0, NEW k, Blocked(k)
    PROVE  Blocked(k)'
    BY BlockedAtStays DEF Blocked


-----------------------------------------------------------------------------
(***************************************************************************)
(* Doomed is inductive while the processor does not restart.               *)
(***************************************************************************)

\* Keys are written for what was sent, and statuses set for what has a key.
LEMMA NextKeepsUnsentUntouched ==
    ASSUME Sound, UnsentUntouched, StartedPending, Next
    PROVE  UnsentUntouched'
<1> SUFFICES ASSUME NEW t \in Txs, submissions'[t] = 0 PROVE Untouched(t)'
    BY DEF UnsentUntouched
<1>1. submissions[t] = 0
    BY SubmittedStays DEF Sound, TypeOK
<1>2. Untouched(t)
    BY <1>1 DEF UnsentUntouched
<1>3. pendingKey'[t] = NoKey
    BY <1>2, NewKey DEF Untouched
<1>4. ASSUME NEW p \in Procs, NEW w \in proc'[p].todo PROVE w[1] # t
    BY <1>2, <1>4, NewTodo DEF Untouched
<1>5. ASSUME NEW p \in Procs, proc'[p].pc = "keys" PROVE t \notin proc'[p].keys
  <2>1. CASE \E s \in ItemStatus : Sent(p, s)
    <3> PICK s \in ItemStatus : Sent(p, s)
        BY <2>1
    <3> PICK n : n = proc[p].next
        OBVIOUS
    <3>1. /\ proc[p].pc = "send"
          /\ proc'[p].keys \subseteq Range(SubSeq(StartedItems(p), 1, n))
        BY <1>5 DEF Sent
    <3>2. StartedItems(p) \in Seq(Txs) /\ n \in Nat
        BY <3>1, StarterFacts
    <3>3. PICK v \in Txs : v = StartedItems(p)[n] /\ submissions'[v] > 0 /\ n \in DOMAIN StartedItems(p)
        BY SentFacts
    <3>4. ASSUME NEW u \in Range(SubSeq(StartedItems(p), 1, n)) PROVE u # t
      <4>1. PICK i \in 1..n : u = StartedItems(p)[i]
          BY <3>2, <3>3 DEF Range
      <4>2. i \in DOMAIN StartedItems(p)
          BY <3>2, <3>3
      <4>3. CASE i = n
          BY <3>3, <4>1, <4>3
      <4>4. CASE i < n
          BY <1>1, <3>1, <4>1, <4>2, <4>4 DEF StartedPending
      <4> QED
          BY <3>2, <4>3, <4>4
    <3> QED
        BY <3>1, <3>4
  <2> QED
      BY <1>2, <1>5, <2>1, KeyWriters DEF Untouched
<1>6. ASSUME NEW b \in Copies', t \in DOMAIN b.item PROVE b.item[t] = "pending"
  <2>1. ASSUME NEW p \in Procs, Sent(p, "invalid") PROVE t # StartedItems(p)[proc[p].next]
    <3>1. PICK v \in Txs : v = StartedItems(p)[proc[p].next] /\ submissions'[v] > 0
        BY <2>1, SentFacts
    <3> QED
        BY <3>1
  <2>2. CASE b.item[t] = "pending"
      BY <2>2
  <2>3. CASE \E c \in Copies : t \in DOMAIN c.item /\ b.item[t] = c.item[t]
      BY <1>2, <2>3 DEF Untouched
  <2>4. CASE \E p \in Procs : \E w \in proc[p].todo : w[1] = t
      BY <1>2, <2>4 DEF Untouched
  <2> QED
      BY <1>6, <2>1, <2>2, <2>3, <2>4, ItemSetters
<1> QED
    BY <1>3, <1>4, <1>5, <1>6 DEF Untouched

\* Groups are started in pending batches, of items that are pending.
LEMMA NextKeepsStartedPending ==
    ASSUME Sound, Sound', Once', UnsentUntouched', StartedPending, Next
    PROVE  StartedPending'
<1>0. submissions \in [Txs -> 0..2]
    BY DEF Sound, TypeOK
<1>1. ASSUME NEW p \in Procs, proc'[p].pc \in {"send", "keys"} PROVE proc'[p].batch.status = "pending"
  <2>1. CASE proc[p].pc \in {"send", "keys"} /\ proc'[p].batch.status = proc[p].batch.status
      BY <2>1 DEF StartedPending
  <2>2. CASE \E s \in ItemStatus : Sent(p, s)
      BY <2>1, <2>2 DEF Sent
  <2>3. CASE p \in Requests /\ Posted(p)
      BY <2>3 DEF Posted
  <2>4. CASE p \in Handlers /\ \E w \in proc[p].todo : Read(p, w)
      BY <1>1, <2>4 DEF Read
  <2> QED
      BY <1>1, <2>1, <2>2, <2>3, <2>4, Starters, KeyWriters
<1>2. ASSUME NEW p \in Procs, proc'[p].pc = "send", NEW u \in Range(StartedItems(p)')
      PROVE  proc'[p].batch.item[u] = "pending"
  <2>1. CASE proc'[p] = proc[p]
      BY <1>2, <2>1 DEF StartedPending, StartedItems
  <2>2. CASE \E s \in ItemStatus : Sent(p, s) /\ s # "invalid"
    <3> PICK s \in ItemStatus : Sent(p, s) /\ s # "invalid"
        BY <2>2
    <3> PICK t : t = StartedItems(p)[proc[p].next]
        OBVIOUS
    <3>1. /\ proc[p].pc = "send" /\ proc'[p].batch.groups = proc[p].batch.groups
          /\ proc'[p].group = proc[p].group
          /\ proc'[p].batch.item = [proc[p].batch.item EXCEPT ![t] = s]
          /\ s = proc[p].batch.item[t]
        BY DEF Sent
    <3>2. u \in Range(StartedItems(p))
        BY <1>2, <3>1 DEF StartedItems
    <3>3. proc[p].batch.item[u] = "pending"
        BY <3>1, <3>2 DEF StartedPending
    <3>4. IsCopy(proc[p].batch, proc[p].key) /\ StartOK(proc[p])
        BY <3>1 DEF Sound, ProcOK
    <3>5. u \in DOMAIN proc[p].batch.item
        BY <3>2, <3>4, CopyFacts DEF StartOK, StartedItems
    <3> QED
        BY <3>1, <3>3, <3>5
  <2>3. CASE \/ p \in Requests /\ Posted(p)
             \/ p \in Handlers /\ \E w \in proc[p].todo : Read(p, w)
    <3>1. u \in Txs /\ submissions'[u] = 0
        BY <1>2, <2>3, FreshItems
    <3>2. Untouched(u)'
        BY <3>1 DEF UnsentUntouched
    <3>3. IsCopy(proc'[p].batch, proc'[p].key) /\ StartOK(proc'[p])
        BY <1>2 DEF Sound, ProcOK
    <3>4. u \in DOMAIN proc'[p].batch.item
        BY <1>2, <3>3, CopyFacts DEF StartOK, StartedItems
    <3>5. proc'[p].batch \in Copies'
        BY <3>3, AbsentAssumption DEF Copies, IsCopy
    <3> QED
        BY <3>2, <3>4, <3>5 DEF Untouched
  <2> QED
      BY <1>2, <2>1, <2>2, <2>3, Starters
<1>3. ASSUME NEW p \in Procs, proc'[p].pc = "send", NEW i \in DOMAIN StartedItems(p)', i < proc'[p].next
      PROVE  submissions'[StartedItems(p)'[i]] > 0
  <2>1. CASE proc'[p] = proc[p]
    <3>1. /\ proc[p].pc = "send" /\ StartedItems(p)' = StartedItems(p) /\ i < proc[p].next
        BY <1>3, <2>1 DEF StartedItems
    <3>2. submissions[StartedItems(p)[i]] > 0
        BY <1>3, <3>1 DEF StartedPending
    <3>3. StartedItems(p)[i] \in Txs
        BY <1>3, <3>1, StarterFacts DEF Range
    <3> QED
        BY <3>1, <3>2, <3>3, SubmittedStays
  <2>2. CASE \E s \in ItemStatus : Sent(p, s)
    <3> PICK s \in ItemStatus : Sent(p, s)
        BY <2>2
    <3>1. /\ proc[p].pc = "send" /\ proc'[p].batch.groups = proc[p].batch.groups
          /\ proc'[p].group = proc[p].group /\ proc'[p].next = proc[p].next + 1
        BY DEF Sent
    <3>2. StartedItems(p)' = StartedItems(p)
        BY <3>1 DEF StartedItems
    <3>3. StartedItems(p) \in Seq(Txs) /\ proc[p].next \in Nat
        BY <3>1, StarterFacts
    <3>4. PICK v \in Txs : v = StartedItems(p)[proc[p].next] /\ submissions'[v] > 0
        BY SentFacts
    <3>5. CASE i = proc[p].next
        BY <3>2, <3>4, <3>5
    <3>6. CASE i < proc[p].next
      <4>1. submissions[StartedItems(p)[i]] > 0 /\ StartedItems(p)[i] \in Txs
          BY <1>3, <3>1, <3>2, <3>3, <3>6 DEF StartedPending
      <4> QED
          BY <3>2, <4>1, SubmittedStays
    <3>7. i \in Nat
        BY <1>3, <3>2, <3>3
    <3> QED
        BY <1>3, <3>1, <3>3, <3>5, <3>6, <3>7
  <2>3. CASE \/ p \in Requests /\ Posted(p)
             \/ p \in Handlers /\ \E w \in proc[p].todo : Read(p, w)
    <3>1. proc'[p].next = 1
        BY <1>3, <2>3 DEF Posted, Read
    <3>2. StartedItems(p)' \in Seq(Txs)
      <4>1. IsCopy(proc'[p].batch, proc'[p].key) /\ StartOK(proc'[p])
          BY <1>3 DEF Sound, ProcOK
      <4> QED
          BY <4>1, CopyFacts DEF StartOK, StartedItems
    <3> QED
        BY <1>3, <3>1, <3>2
  <2> QED
      BY <1>3, <2>1, <2>2, <2>3, Starters
<1> QED
    BY <1>1, <1>2, <1>3 DEF StartedPending


\* An item that is refused, or whose answer is lost, blocks its batch.
LEMMA RefusedBlocks ==
    ASSUME DistinctTxs, Sound, Sound', Once, UnsentUntouched, Next, NEW p \in Procs, Sent(p, "invalid")
    PROVE  Blocked(proc[p].key)'
<1>0. proc[p].pc = "send" /\ "invalid" \in ItemStatus
    BY DEF Sent, ItemStatus
<1>1. PICK r \in Requests, t \in Txs :
          /\ t = StartedItems(p)[proc[p].next]
          /\ proc[p].next \in DOMAIN StartedItems(p)
          /\ BatchOf[r] = proc[p].key
          /\ proc[p].batch.groups = Groups[r]
          /\ proc[p].group \in DOMAIN Groups[r]
          /\ StartedItems(p) = Groups[r][proc[p].group]
          /\ t \in Range(Groups[r][proc[p].group])
          /\ submissions'[t] > 0
          /\ \A u \in Txs \ {t} : submissions'[u] = submissions[u]
    BY <1>0, SentFacts
<1> PICK g : g = proc[p].group
    OBVIOUS
<1>2. g \in DOMAIN Groups[r] /\ t \in Range(Groups[r][g]) /\ g \in Nat
    BY <1>1, GroupTxs
<1>3. submissions[t] = 0
  <2>1. proc[p].next \in Nat
      BY DEF Sound, TypeOK, ProcType
  <2>2. \A i \in DOMAIN StartedItems(p) : i >= proc[p].next => submissions[StartedItems(p)[i]] = 0
      BY <1>0 DEF Once, NotYetSubmitted
  <2>3. proc[p].next >= proc[p].next
      BY <2>1
  <2> QED
      BY <1>1, <2>2, <2>3
<1>4. Untouched(t)
    BY <1>3 DEF UnsentUntouched
<1>5. ~Consumed(t)
    BY <1>3 DEF Once, SuccessIsConsumed, Consumed, Outcome
<1>6. /\ \A q \in Procs \ {p} : proc'[q] = proc[q]
      /\ proc'[p].pc = "keys" /\ proc'[p].todo = proc[p].todo
      /\ proc'[p].batch.groups = proc[p].batch.groups
      /\ proc'[p].key = proc[p].key
      /\ proc'[p].batch.item = [proc[p].batch.item EXCEPT ![t] = "invalid"]
      /\ \A u \in proc'[p].keys : proc'[p].batch.item[u] = "pending"
      /\ UNCHANGED <<pendingKey, store>>
    BY <1>1 DEF Sent
<1>7. t \in DOMAIN proc[p].batch.item
  <2>1. IsCopy(proc[p].batch, proc[p].key) /\ StartOK(proc[p])
      BY <1>0 DEF Sound, ProcOK
  <2> QED
      BY <1>1, <2>1, CopyFacts DEF StartOK, StartedItems
<1>8. Hopeless(t)'
  <2>1. ASSUME NEW q \in Procs
        PROVE  /\ \A w \in proc'[q].todo : w[1] # t
               /\ proc'[q].pc = "keys" => t \notin proc'[q].keys
    <3>1. \A w \in proc'[q].todo : w[1] # t
        BY <1>4, <1>6 DEF Untouched
    <3>2. CASE q = p
        BY <1>6, <1>7, <3>1, <3>2
    <3>3. CASE q # p
        BY <1>4, <1>6, <3>1, <3>3 DEF Untouched
    <3> QED
        BY <3>2, <3>3
  <2>2. ASSUME NEW q \in Procs, proc'[q].pc = "send" PROVE t \notin Range(StartedItems(q)')
    <3>1. q # p /\ proc'[q] = proc[q]
        BY <1>6, <2>2
    <3>2. PICK o \in Requests :
              /\ proc[q].batch.groups = Groups[o]
              /\ proc[q].group \in DOMAIN Groups[o]
              /\ StartedItems(q) = Groups[o][proc[q].group]
        BY <2>2, <3>1, StarterFacts
    <3> PICK e : e = proc[q].group
        OBVIOUS
    <3>3. \A d \in Requests : \A f \in DOMAIN Groups[d] : t \in Range(Groups[d][f]) => r = d /\ g = f
        BY <1>2, OnePlace
    <3>4. t \in Range(StartedItems(q)) => r = o /\ g = e
        BY <3>2, <3>3
    <3>5. ~(r = o /\ g = e)
      <4>1. proc[p].batch.groups = proc[q].batch.groups /\ proc[p].group = proc[q].group => p = q
          BY <1>0, <2>2, <3>1 DEF Once, OneStarter
      <4> QED
          BY <1>1, <3>1, <3>2, <4>1
    <3> QED
        BY <3>1, <3>4, <3>5 DEF StartedItems
  <2>3. ASSUME NEW b \in Copies', t \in DOMAIN b.item PROVE b.item[t] # "success"
    <3>1. b \in Copies \/ b = proc'[p].batch
        BY <1>6 DEF Copies
    <3>2. CASE b \in Copies
        BY <1>4, <2>3, <3>2 DEF Untouched
    <3>3. CASE b = proc'[p].batch
        BY <1>6, <1>7, <3>3
    <3> QED
        BY <3>1, <3>2, <3>3
  <2>4. pendingKey'[t] = NoKey
      BY <1>4, <1>6 DEF Untouched
  <2> QED
      BY <1>1, <2>1, <2>2, <2>3, <2>4 DEF Hopeless
<1>9. ASSUME NEW f \in DOMAIN Groups[r], f > g, NEW u \in Range(Groups[r][f])
      PROVE  submissions'[u] = 0
  <2>1. u \in Txs /\ f \in Nat
      BY GroupTxs
  <2>2. ~(submissions[u] > 0)
      BY <1>2, <1>5, <1>9, <2>1 DEF Once, EarlierConsumed
  <2>3. submissions[u] = 0
      BY <2>1, <2>2 DEF Sound, TypeOK
  <2>4. \A d \in Requests : \A e \in DOMAIN Groups[d] : u \in Range(Groups[d][e]) => r = d /\ f = e
      BY OnePlace
  <2>5. u # t
      BY <1>2, <1>9, <2>1, <2>4
  <2> QED
      BY <1>1, <2>1, <2>3, <2>5
<1>10. ASSUME NEW q \in Procs, proc'[q].pc = "send", proc'[q].batch.groups = Groups[r]
       PROVE  proc'[q].group <= g
  <2>1. q # p /\ proc'[q] = proc[q]
      BY <1>6, <1>10
  <2>2. proc[q].group \in Nat
      BY DEF Sound, TypeOK, ProcType
  <2>3. ~(g < proc[q].group)
      BY <1>2, <1>5, <1>10, <2>1 DEF Once, EarlierConsumed
  <2> QED
      BY <1>2, <2>1, <2>2, <2>3
<1>11. BlockedAt(r, g)'
    BY <1>2, <1>8, <1>9, <1>10 DEF BlockedAt
<1> PICK k : k = proc[p].key
    OBVIOUS
<1>12. Blocked(k)'
    BY <1>1, <1>2, <1>11 DEF Blocked
<1> QED
    BY <1>6, <1>12 DEF Blocked

\* A transaction that is invalid on chain blocks the batch its handler reads.
LEMMA InvalidBlocks ==
    ASSUME Sound, Once, Next, crashes' = 0, NEW h \in Handlers, NEW w \in proc[h].todo, Read(h, w),
           proc'[h].pc # "delete", chain[w[1]] = "invalid"
    PROVE  Blocked(w[2])
<1> DEFINE b == store[w[2]]
           t == w[1]
           g == GroupOf(b, t)
<1>1. /\ b # NoBatch /\ w[2] \in Batches /\ t \in Txs
      /\ g \in DOMAIN b.groups /\ t \in Range(b.groups[g])
    BY DEF Read
<1>2. IsCopy(b, w[2])
    BY <1>1 DEF Sound
<1>3. ~Consumed(t)
    BY ReadConsumes DEF Once
<1>4. chain[t] = "invalid"
    OBVIOUS
<1> HIDE DEF b, t, g
<1>5. PICK r \in Requests : BatchOf[r] = w[2] /\ b.groups = Groups[r]
    BY <1>2 DEF IsCopy
<1>6. g \in DOMAIN Groups[r] /\ t \in Range(Groups[r][g]) /\ g \in Nat
    BY <1>1, <1>5, GroupTxs
<1>7. ASSUME NEW f \in DOMAIN Groups[r], f > g, NEW u \in Range(Groups[r][f])
      PROVE  submissions[u] = 0
  <2>1. u \in Txs /\ f \in Nat
      BY GroupTxs
  <2>2. ~(submissions[u] > 0)
      BY <1>3, <1>6, <1>7, <2>1 DEF Once, EarlierConsumed
  <2> QED
      BY <2>1, <2>2 DEF Sound, TypeOK
<1>8. ASSUME NEW q \in Procs, proc[q].pc = "send", proc[q].batch.groups = Groups[r]
      PROVE  proc[q].group <= g
  <2>1. proc[q].group \in Nat
      BY DEF Sound, TypeOK, ProcType
  <2>2. ~(g < proc[q].group)
      BY <1>3, <1>6, <1>8 DEF Once, EarlierConsumed
  <2> QED
      BY <1>6, <2>1, <2>2
<1> QED
    BY <1>4, <1>5, <1>6, <1>7, <1>8 DEF Blocked, BlockedAt

\* A process comes to save when it has read a batch, started a group or dropped an item.
LEMMA Savers ==
    ASSUME Sound, Next, NEW p \in Procs, proc'[p].pc = "save"
    PROVE  \/ proc'[p] = proc[p]
           \/ p \in Handlers /\ \E w \in proc[p].todo : Read(p, w)
           \/ p \in Handlers /\ Begun(p)
           \/ p \in Droppers /\ \E w \in proc[p].todo : Dropped(p, w)
<1> Requests \subseteq Procs /\ Handlers \subseteq Procs /\ Droppers \subseteq Procs
    BY DEF Procs
<1>1. CASE proc'[p] = proc[p]
    BY <1>1
<1>2. CASE \E q \in Procs : \E s \in ItemStatus : Sent(q, s)
    BY <1>1, <1>2 DEF Sent
<1>3. CASE \E q \in Procs : \E u \in proc[q].keys : KeySet(q, u)
    BY <1>1, <1>3 DEF KeySet
<1>4. CASE \E r \in Requests : Posted(r)
    BY <1>1, <1>4 DEF Posted
<1>5. CASE \E h \in Handlers : \E v \in proc[h].todo : Read(h, v)
  <2> PICK h \in Handlers : \E v \in proc[h].todo : Read(h, v)
      BY <1>5
  <2>1. \A q \in Procs \ {h} : proc'[q] = proc[q]
      BY DEF Read
  <2> QED
      BY <2>1
<1>6. CASE \E h \in Handlers : Begun(h)
    BY <1>1, <1>6 DEF Begun
<1>7. CASE \E d \in Droppers : \E v \in proc[d].todo : Dropped(d, v)
  <2> PICK d \in Droppers : \E v \in proc[d].todo : Dropped(d, v)
      BY <1>7
  <2>1. \A q \in Procs \ {d} : proc'[q] = proc[q]
      BY DEF Dropped
  <2> QED
      BY <2>1
<1>8. CASE \E q \in Procs : Saved(q) \/ Moved(q)
    BY <1>1, <1>8 DEF Saved, Moved, Quiet
<1>9. CASE \E q \in Procs : \E T \in SUBSET Txs : Handed(q, T)
    BY <1>1, <1>9 DEF Handed
<1>10. CASE Environment
    BY <1>1, <1>10 DEF Environment, Execute
<1>11. CASE CrashProcessor
    BY <1>1, <1>11 DEF CrashProcessor, Idle
<1> QED
  <2>1. undelivered \subseteq Txs
      BY DEF Sound, TypeOK
  <2> QED
      BY <1>2, <1>3, <1>4, <1>5, <1>6, <1>7, <1>8, <1>9, <1>10, <1>11, <2>1, Steps


\* Batches are written, and recorded as failed, by the processes that save their copies.
LEMMA OnlySavedWrites ==
    ASSUME Sound, Next, NEW k \in Batches
    PROVE  \/ /\ store'[k] \in {store[k], NoBatch}
              /\ k \in failed' => k \in failed
           \/ \E p \in Procs : /\ Saved(p) /\ proc[p].key = k /\ store'[k] = proc[p].batch
                               /\ k \in failed' => k \in failed \/ proc[p].batch.status = "invalid"
<1>1. CASE \E p \in Procs : Saved(p)
  <2> PICK p \in Procs : Saved(p)
      BY <1>1
  <2>1. /\ store' = [store EXCEPT ![proc[p].key] = proc[p].batch]
        /\ failed' = IF proc[p].batch.status = "invalid" THEN failed \cup {proc[p].key} ELSE failed
      BY DEF Saved
  <2>2. store \in [Batches -> BatchType \cup {NoBatch}]
      BY DEF Sound, TypeOK
  <2>3. CASE k = proc[p].key
      BY <2>1, <2>2, <2>3
  <2>4. CASE k # proc[p].key
      BY <2>1, <2>2, <2>4
  <2> QED
      BY <2>3, <2>4
<1>2. CASE Environment
    BY <1>2 DEF Environment, Execute, Sound, TypeOK
<1>3. ASSUME ~ \E p \in Procs : Saved(p), ~Environment
      PROVE  UNCHANGED <<store, failed>>
    BY <1>3, Frames
<1> QED
    BY <1>1, <1>2, <1>3

\* A copy becomes invalid when its batch is blocked, and is written after that.
LEMMA NextKeepsInvalidIsBlocked ==
    ASSUME DistinctTxs, Sound, Sound', RealItems, Once, Once', Doomed, Next, crashes' = 0
    PROVE  InvalidIsBlocked'
<1> Handlers \subseteq Procs /\ Droppers \subseteq Procs
    BY DEF Procs
<1>0. UnsentUntouched /\ StartedPending /\ InvalidIsBlocked
    BY DEF Doomed
<1>1. \A k : Blocked(k) => Blocked(k)'
    BY BlockedStays
<1>2. ASSUME NEW p \in Procs, Saved(p), proc[p].batch.status = "invalid" PROVE Blocked(proc[p].key)
  <2>1. proc[p].pc = "save"
      BY <1>0, <1>2 DEF Saved, StartedPending
  <2> QED
      BY <1>0, <1>2, <2>1 DEF InvalidIsBlocked
<1>3. ASSUME NEW k \in failed' PROVE Blocked(k)'
  <2>1. k \in Batches
      BY DEF Sound, TypeOK
  <2>2. Blocked(k)
      BY <1>0, <1>2, <1>3, <2>1, OnlySavedWrites DEF InvalidIsBlocked
  <2> QED
      BY <1>1, <2>2
<1>4. ASSUME NEW k \in Batches, store'[k] # NoBatch, store'[k].status = "invalid" PROVE Blocked(k)'
  <2>1. CASE store'[k] = store[k]
      BY <1>0, <1>1, <1>4, <2>1 DEF InvalidIsBlocked
  <2>2. CASE \E p \in Procs : Saved(p) /\ proc[p].key = k /\ store'[k] = proc[p].batch
      BY <1>1, <1>2, <1>4, <2>2
  <2> QED
      BY <1>4, <2>1, <2>2, OnlySavedWrites
<1>5. ASSUME NEW p \in Procs, proc'[p].pc = "save", proc'[p].batch.status = "invalid"
      PROVE  Blocked(proc[p].key)'
  <2> PICK k : k = proc'[p].key
      OBVIOUS
  <2> SUFFICES Blocked(k)
    <3>1. ASSUME Blocked(k)' PROVE Blocked(proc[p].key)'
        BY <3>1 DEF Blocked
    <3> QED
        BY <1>1, <3>1
  <2>1. CASE proc'[p] = proc[p]
      BY <1>0, <1>5, <2>1 DEF InvalidIsBlocked
  <2>2. CASE p \in Handlers /\ \E w \in proc[p].todo : Read(p, w)
    <3> PICK w \in proc[p].todo : Read(p, w)
        BY <2>2
    <3>1. /\ k = w[2] /\ w[2] \in Batches /\ store[w[2]] # NoBatch
          /\ store[w[2]].status = "invalid" \/ chain[w[1]] = "invalid"
        BY <1>5 DEF Read
    <3>2. CASE store[w[2]].status = "invalid"
        BY <1>0, <3>1, <3>2 DEF InvalidIsBlocked
    <3>3. CASE chain[w[1]] = "invalid"
        BY <1>5, <2>2, <3>1, <3>3, InvalidBlocks
    <3> QED
        BY <3>1, <3>2, <3>3
  <2>3. CASE p \in Handlers /\ Begun(p)
    <3>1. /\ proc[p].pc = "keys" /\ k = proc[p].key
          /\ GroupInvalid(p) \/ proc[p].batch.status = "invalid"
        BY <1>5, <2>3 DEF Begun
    <3>2. GroupInvalid(p)
        BY <1>0, <3>1 DEF StartedPending
    <3> QED
        BY <1>0, <3>1, <3>2 DEF InvalidIsBlocked
  <2>4. CASE p \in Droppers /\ \E w \in proc[p].todo : Dropped(p, w)
      BY <1>5, <2>4 DEF Dropped
  <2> QED
      BY <1>5, <2>1, <2>2, <2>3, <2>4, Savers
<1>6. ASSUME NEW p \in Procs, proc'[p].pc = "keys", GroupInvalid(p)' PROVE Blocked(proc[p].key)'
  <2> PICK k : k = proc'[p].key
      OBVIOUS
  <2> SUFFICES Blocked(k)'
      BY DEF Blocked
  <2>1. CASE /\ proc[p].pc = "keys" /\ proc'[p].batch = proc[p].batch
             /\ proc'[p].group = proc[p].group /\ proc'[p].key = proc[p].key
    <3>1. GroupInvalid(p)
        BY <1>6, <2>1 DEF GroupInvalid, StartedItems
    <3> QED
        BY <1>0, <1>1, <2>1, <3>1 DEF InvalidIsBlocked
  <2>2. CASE \E s \in ItemStatus : Sent(p, s)
    <3> PICK s \in ItemStatus : Sent(p, s)
        BY <2>2
    <3> PICK t : t = StartedItems(p)[proc[p].next]
        OBVIOUS
    <3>1. /\ proc[p].pc = "send" /\ proc'[p].batch.groups = proc[p].batch.groups
          /\ proc'[p].group = proc[p].group /\ proc'[p].key = proc[p].key
          /\ proc'[p].batch.item = [proc[p].batch.item EXCEPT ![t] = s]
          /\ s \in {proc[p].batch.item[t], "invalid"}
        BY DEF Sent
    <3>2. PICK u \in Range(StartedItems(p)) : proc'[p].batch.item[u] = "invalid"
        BY <1>6, <3>1 DEF GroupInvalid, StartedItems
    <3>3. proc[p].batch.item[u] = "pending"
        BY <1>0, <3>1, <3>2 DEF StartedPending
    <3>4. s = "invalid"
        BY <3>1, <3>2, <3>3
    <3>5. Sent(p, "invalid")
        BY <3>4
    <3>6. Blocked(proc[p].key)'
        BY <1>0, <3>5, RefusedBlocks
    <3> QED
        BY <3>6 DEF Blocked
  <2> QED
      BY <1>6, <2>1, <2>2, KeyWriters
<1> QED
    BY <1>3, <1>4, <1>5, <1>6 DEF InvalidIsBlocked

\* A batch becomes successful when its last group has succeeded, and what a copy has as
\* successful is not set back.
LEMMA NextKeepsLastSucceeded ==
    ASSUME Sound, RealItems, StartedPending, LastSucceeded, Next
    PROVE  LastSucceeded'
<1> SUFFICES ASSUME NEW b \in Copies', b.status = "success",
                    NEW u \in Range(b.groups[Len(b.groups)])
             PROVE  b.item[u] = "success"
    BY DEF LastSucceeded
<1>1. CASE b \in Copies
    BY <1>1 DEF LastSucceeded
<1>2. CASE b \notin Copies
  <2> PICK p \in Procs :
            /\ b = proc'[p].batch
            /\ \/ \E s \in ItemStatus : Sent(p, s)
               \/ p \in Requests /\ Posted(p)
               \/ p \in Handlers /\ \E w \in proc[p].todo : Read(p, w) /\ proc'[p].pc # "delete"
               \/ p \in Handlers /\ Begun(p)
               \/ p \in Droppers /\ \E w \in proc[p].todo : Dropped(p, w)
      BY <1>2, NewCopies
  <2>1. CASE \E s \in ItemStatus : Sent(p, s)
      BY <2>1 DEF Sent, StartedPending
  <2>2. CASE p \in Requests /\ Posted(p)
      BY <2>2 DEF Posted
  <2>3. CASE p \in Handlers /\ \E w \in proc[p].todo : Read(p, w) /\ proc'[p].pc # "delete"
    <3> PICK w \in proc[p].todo : Read(p, w) /\ proc'[p].pc # "delete"
        BY <2>3
    <3> DEFINE c == store[w[2]]
               t == w[1]
               g == GroupOf(c, t)
    <3>1. c \in Copies /\ IsCopy(c, w[2]) /\ b.groups = c.groups
          /\ b.item = [c.item EXCEPT ![t] = chain[t]]
        BY InCopies DEF Read, Sound
    <3>2. \/ c.status = "success"
          \/ /\ chain[t] = "success"
             /\ g \in DOMAIN c.groups
             /\ \A v \in Range(c.groups[g]) : v = t \/ c.item[v] = "success"
             /\ \A f \in DOMAIN c.groups : f <= g
        BY DEF Read
    <3> HIDE DEF c, t, g
    <3>3. u \in DOMAIN c.item /\ Len(c.groups) \in DOMAIN c.groups /\ c.groups \in Seq(Seq(Txs))
      <4>1. c.groups \in Seq(Seq(Txs)) /\ c.groups # << >>
          BY <3>1, CopyFacts
      <4>2. Len(c.groups) \in DOMAIN c.groups
          BY <4>1
      <4> QED
          BY <3>1, <4>1, <4>2, CopyFacts
    <3>4. CASE c.status = "success"
      <4>1. c.item[u] = "success"
          BY <3>1, <3>4 DEF LastSucceeded
      <4>2. chain[u] = "success"
          BY <3>1, <3>3, <4>1 DEF RealItems
      <4> QED
          BY <3>1, <3>3, <4>1, <4>2
    <3>5. CASE /\ chain[t] = "success"
               /\ g \in DOMAIN c.groups
               /\ \A v \in Range(c.groups[g]) : v = t \/ c.item[v] = "success"
               /\ \A f \in DOMAIN c.groups : f <= g
      <4>1. g = Len(c.groups)
          BY <3>3, <3>5
      <4>2. u = t \/ c.item[u] = "success"
          BY <3>1, <3>5, <4>1
      <4> QED
          BY <3>1, <3>3, <3>5, <4>2
    <3> QED
        BY <3>2, <3>4, <3>5
  <2>4. CASE p \in Handlers /\ Begun(p)
      BY <2>4 DEF Begun, StartedPending
  <2>5. CASE p \in Droppers /\ \E w \in proc[p].todo : Dropped(p, w)
      BY <2>5 DEF Dropped
  <2> QED
      BY <2>1, <2>2, <2>3, <2>4, <2>5
<1> QED
    BY <1>1, <1>2

\* Until a restart, Doomed is an invariant.
LEMMA AlwaysDoomed ==
    ASSUME DistinctTxs
    PROVE  Spec => [](crashes = 0 => Doomed)
<1>1. ASSUME Init PROVE Doomed
  <2>1. /\ \A p \in Procs : proc[p].pc = "idle" /\ proc[p].todo = {}
        /\ \A t \in Txs : pendingKey[t] = NoKey
        /\ Copies = {} /\ failed = {}
        /\ \A k \in Batches : store[k] = NoBatch
      BY <1>1 DEF Init, Idle, Copies
  <2> QED
      BY <2>1 DEF Doomed, UnsentUntouched, Untouched, StartedPending, InvalidIsBlocked, LastSucceeded
<1>2. ASSUME Sound, Sound', RealItems, crashes = 0 => Once, crashes' = 0 => Once',
             crashes = 0 => Doomed, [Next]_vars, crashes' = 0
      PROVE  Doomed'
  <2>1. CASE UNCHANGED vars
    <3>1. UNCHANGED <<store, pendingKey, chain, proc, submissions, failed, crashes>>
        BY <2>1 DEF vars
    <3>2. Copies' = Copies /\ \A p \in Procs : StartedItems(p)' = StartedItems(p)
        BY <3>1 DEF Copies, StartedItems
    <3>3. Doomed
        BY <1>2, <3>1
    <3>4. UnsentUntouched'
        BY <3>1, <3>2, <3>3 DEF Doomed, UnsentUntouched, Untouched
    <3>5. StartedPending'
        BY <3>1, <3>2, <3>3 DEF Doomed, StartedPending
    <3>6. LastSucceeded'
        BY <3>2, <3>3 DEF Doomed, LastSucceeded
    <3>7. \A k : Blocked(k)' <=> Blocked(k)
      <4>1. \A t : Hopeless(t)' <=> Hopeless(t)
          BY <3>1, <3>2 DEF Hopeless
      <4>2. \A r \in Requests : \A g : BlockedAt(r, g)' <=> BlockedAt(r, g)
          BY <3>1, <4>1 DEF BlockedAt
      <4> QED
          BY <4>2 DEF Blocked
    <3>8. \A p \in Procs : GroupInvalid(p)' <=> GroupInvalid(p)
        BY <3>1, <3>2 DEF GroupInvalid
    <3>9. InvalidIsBlocked'
        BY <3>1, <3>3, <3>7, <3>8 DEF Doomed, InvalidIsBlocked
    <3> QED
        BY <3>4, <3>5, <3>6, <3>9 DEF Doomed
  <2>2. CASE Next
    <3>1. crashes = 0
      <4>1. CASE CrashProcessor
          BY <1>2, <4>1 DEF CrashProcessor, Sound, TypeOK
      <4> QED
          BY <1>2, <2>2, <4>1, Frames
    <3>2. Once /\ Once' /\ UnsentUntouched /\ StartedPending /\ InvalidIsBlocked /\ LastSucceeded
        BY <1>2, <3>1 DEF Doomed
    <3>3. UnsentUntouched'
        BY <1>2, <2>2, <3>2, NextKeepsUnsentUntouched
    <3>4. StartedPending'
        BY <1>2, <2>2, <3>2, <3>3, NextKeepsStartedPending
    <3>5. InvalidIsBlocked'
        BY <1>2, <2>2, <3>1, <3>2, NextKeepsInvalidIsBlocked
    <3>6. LastSucceeded'
        BY <1>2, <2>2, <3>2, NextKeepsLastSucceeded
    <3> QED
        BY <3>3, <3>4, <3>5, <3>6 DEF Doomed
  <2> QED
      BY <1>2, <2>1, <2>2
<1>3. Init => (crashes = 0 => Doomed)
    BY <1>1
<1>4. Sound /\ Sound' /\ RealItems /\ (crashes = 0 => Once) /\ (crashes = 0 => Once)'
          /\ (crashes = 0 => Doomed) /\ [Next]_vars
        => (crashes = 0 => Doomed)'
    BY <1>2
<1> QED
    BY <1>3, <1>4, AlwaysSound, AlwaysRealItems, AlwaysOnce, PTL DEF Spec

\* "This is to prevent an invalid batch to become successful": until the processor restarts, a
\* batch that was stored as invalid is not stored as successful before it has expired, although a
\* handler that works on a stale copy may have set it back to pending.
THEOREM InvalidIsNeverSuccessful ==
    ASSUME DistinctTxs, OneRequest
    PROVE  Spec => []InvalidNeverSuccessful
<1>1. ASSUME Sound, RealItems, Once, Doomed, NEW k \in failed, store[k] # NoBatch,
             store[k].status = "success"
      PROVE  FALSE
  <2> DEFINE b == store[k]
  <2>1. k \in Batches /\ b \in Copies /\ IsCopy(b, k) /\ b.status = "success"
      BY <1>1, InCopies DEF Sound, TypeOK
  <2> HIDE DEF b
  <2>2. PICK r \in Requests : BatchOf[r] = k /\ \E g \in DOMAIN Groups[r] : BlockedAt(r, g)
      BY <1>1 DEF Doomed, InvalidIsBlocked, Blocked
  <2>3. PICK g \in DOMAIN Groups[r] : BlockedAt(r, g)
      BY <2>2
  <2>4. b.groups = Groups[r]
      BY <2>1, <2>2 DEF IsCopy, OneRequest
  <2> PICK n : n = Len(Groups[r])
      OBVIOUS
  <2>5. n \in DOMAIN Groups[r] /\ n \in Nat /\ g \in Nat /\ g <= n
    <3>1. Groups[r] \in Seq(Seq(Txs)) /\ Groups[r] # << >>
        BY BatchAssumption
    <3> QED
        BY <3>1
  <2>6. \A u \in Range(Groups[r][n]) : b.item[u] = "success" /\ u \in DOMAIN b.item
    <3>1. \A u \in Range(Groups[r][n]) : b.item[u] = "success"
        BY <1>1, <2>1, <2>4 DEF Doomed, LastSucceeded
    <3> QED
        BY <2>1, <2>4, <2>5, <3>1, CopyFacts
  <2>7. CASE n > g
    <3>1. PICK u : u \in Range(Groups[r][n])
      <4>1. Groups[r][n] \in Seq(Txs) /\ Groups[r][n] # << >>
          BY <2>5, BatchAssumption
      <4>2. 1 \in DOMAIN Groups[r][n]
          BY <4>1
      <4> QED
          BY <4>2 DEF Range
    <3>2. Consumed(u) /\ u \in Txs
        BY <1>1, <2>1, <2>5, <2>6, <3>1, GroupTxs DEF Once, SuccessIsConsumed
    <3>3. submissions[u] > 0
        BY <1>1, <3>2 DEF Once, SuccessIsConsumed, Consumed, Outcome
    <3>4. submissions[u] = 0
        BY <2>3, <2>5, <2>7, <3>1 DEF BlockedAt
    <3> QED
        BY <3>3, <3>4
  <2>8. CASE n = g
    <3>1. PICK t \in Range(Groups[r][g]) : chain[t] = "invalid" \/ Hopeless(t)
        BY <2>3 DEF BlockedAt
    <3>2. b.item[t] = "success" /\ t \in DOMAIN b.item
        BY <2>6, <2>8
    <3>3. chain[t] = "success"
        BY <1>1, <2>1, <3>2 DEF RealItems
    <3>4. ~Hopeless(t)
        BY <2>1, <3>2 DEF Hopeless
    <3> QED
        BY <3>1, <3>3, <3>4
  <2> QED
      BY <2>5, <2>7, <2>8
<1>2. Sound /\ RealItems /\ (crashes = 0 => Once) /\ (crashes = 0 => Doomed) => InvalidNeverSuccessful
    BY <1>1 DEF InvalidNeverSuccessful
<1> QED
    BY <1>2, AlwaysSound, AlwaysRealItems, AlwaysOnce, AlwaysDoomed, PTL
=============================================================================
