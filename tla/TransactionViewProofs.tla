------------------------ MODULE TransactionViewProofs ------------------------
(***************************************************************************)
(* What the API shows of a transaction on its way, for any transactions,   *)
(* results, logs and number of failures.                                   *)
(*                                                                         *)
(* Neither property is inductive: an answer says what a request read, and  *)
(* the request started before the answer was given.  Ordered connects the  *)
(* three services: the processor emits the event after the key is gone and *)
(* does not set the key again (for that the nonces it saved must be ahead  *)
(* of the events), the index has only what is in a block, and a request    *)
(* that got past its first read did find the transaction.                  *)
(***************************************************************************)
EXTENDS TransactionView, TLAPS

\* The steps of the processor and of a request.
TcSteps == {"emitPending", "save", "delete", "emit", "saveCompleted"}
ReqSteps == {"elastic", "gateway", "results", "logs", "nonce", "process"}
GatewayStates == {"absent", "pool", "transit", "executed", "completed"}

SomeResults == {Results[t] : t \in Hashes} \cup {<<>>}
LogsWith(t) == {LogsOf(t, r) : r \in SomeResults}
SomeLogs == {<<>>} \cup UNION {LogsWith(t) : t \in Hashes}

ReqType ==
    [pc : ReqSteps, kind : {"details", "list"}, tx : Hashes, seen : BOOLEAN, failed : BOOLEAN, done : BOOLEAN,
     status : {"", "pending", "success"}, results : SomeResults, logs : SomeLogs]

\* The types of what the proof is about.
Types ==
    /\ gateway \in [Hashes -> GatewayStates]
    /\ doc \in [Hashes -> {"absent", "pending", "success"}]
    /\ pendingKey \in [Hashes -> BOOLEAN]
    /\ saved \in [Hashes -> {"none", "pending", "completed"}]
    /\ waiting \subseteq Hashes
    /\ tc = [pc |-> "idle"] \/ tc \in [pc : TcSteps, tx : Hashes]
    /\ seen \subseteq Hashes
    /\ req = NoRequest \/ req \in ReqType

\* The completion of t was announced.
Announced(t) == \E e \in told : e[1] = "transactionCompleted" /\ e[2] = t

\* The processor has done with the results t waits for.
Settled(t) == pendingKey[t] = FALSE /\ (IsCrossShard(t) => saved[t] # "none")

(***************************************************************************)
(* The processor: the key is set only for a transaction that waits for     *)
(* results, whose nonce is not saved; what is awaited, and what is being   *)
(* completed, has its nonce saved; an event follows the deletion.          *)
(***************************************************************************)
Processed ==
    /\ \A t \in Hashes : pendingKey[t] = TRUE => IsCrossShard(t)
    /\ \A t \in waiting : saved[t] # "none"
    /\ tc.pc = "delete" => saved[tc.tx] # "none"
    /\ tc.pc \in {"emit", "saveCompleted"} => Settled(tc.tx)
    /\ \A t \in Hashes : Announced(t) => Settled(t)

(***************************************************************************)
(* The reads: the index has what is in a block, and a request that got     *)
(* past its first read, or was ever answered, found its transaction.       *)
(***************************************************************************)
Found ==
    /\ \A t \in Hashes : doc[t] # "absent" => InABlock(t)
    /\ req.pc \in {"results", "logs", "nonce", "process"} => gateway[req.tx] # "absent"
    /\ \A t \in seen : gateway[t] # "absent"

\* What a request knew when it started was so.
Recalled ==
    req # NoRequest => /\ req.seen = TRUE => req.tx \in seen
                       /\ req.done = TRUE => Announced(req.tx)

Ordered == Types /\ Processed /\ Found /\ Recalled

\* The two properties of an answer, with the types of what they read.
Answered ==
    /\ answer.code = "404" => answer.tx \in Hashes /\ answer.seen \in BOOLEAN /\ answer.failed \in BOOLEAN
    /\ answer.code = "200" => answer.done \in BOOLEAN /\ answer.pendingResults \in BOOLEAN
    /\ NeverForgotten
    /\ CompletedIsFinal

Inv == Ordered /\ Answered


-----------------------------------------------------------------------------
\* What a request may have read.
LEMMA NothingRead ==
    /\ <<>> \in SomeResults
    /\ <<>> \in SomeLogs
    /\ \A t \in Hashes, r \in SomeResults : LogsOf(t, r) \in SomeLogs
<1>1. <<>> \in SomeResults
  BY DEF SomeResults
<1>2. <<>> \in SomeLogs
  BY DEF SomeLogs
<1>3. \A t \in Hashes : LogsWith(t) \subseteq SomeLogs
  BY DEF SomeLogs
<1>4. \A t \in Hashes, r \in SomeResults : LogsOf(t, r) \in LogsWith(t)
  BY DEF LogsWith
<1> QED BY <1>1, <1>2, <1>3, <1>4

\* A request that is not idle is of the type.
LEMMA RequestOK ==
    ASSUME Types
    PROVE  /\ req # NoRequest \/ req.pc # "idle" => req \in ReqType
           /\ req.pc # "idle" => req # NoRequest /\ req.tx \in Hashes
           /\ req \in ReqType => req.pc # "idle"
<1>1. NoRequest.pc = "idle"
  BY DEF NoRequest
<1>2. ASSUME req \in ReqType PROVE req.pc # "idle" /\ req.tx \in Hashes
  BY <1>2 DEF ReqType, ReqSteps
<1> QED BY <1>1, <1>2 DEF Types

\* What the chain knows of a transaction it does not forget.
Onward ==
    /\ \A t \in Hashes : gateway[t] # "absent" => gateway'[t] # "absent"
    /\ \A t \in Hashes : InABlock(t) => InABlock(t)'

\* Steps of the network and the indexer.
LEMMA ChainOK ==
    ASSUME Inv, NEW t \in Hashes,
           createTransaction(t) \/ Execute(t) \/ IndexTransaction(t) \/ IndexPart(t) \/ Age(t)
    PROVE  Inv'
<1>1. UNCHANGED <<pendingKey, saved, waiting, tc, told, req, answer, seen>>
  BY DEF createTransaction, Execute, IndexTransaction, IndexPart, Age, tcVars, reqVars
<1>2. gateway' \in [Hashes -> GatewayStates] /\ doc' \in [Hashes -> {"absent", "pending", "success"}]
  BY DEF createTransaction, Execute, IndexTransaction, IndexPart, Age, Inv, Ordered, Types, GatewayStates
<1>3. Onward
  <2>1. CASE createTransaction(t)
    BY <2>1 DEF createTransaction, Onward, InABlock, Inv, Ordered, Types
  <2>2. CASE Execute(t)
    BY <2>2 DEF Execute, Onward, InABlock, Inv, Ordered, Types
  <2>3. CASE IndexTransaction(t) \/ IndexPart(t) \/ Age(t)
    BY <2>3 DEF IndexTransaction, IndexPart, Age, Onward, InABlock
  <2> QED BY <2>1, <2>2, <2>3
<1>4. \A u \in Hashes : doc'[u] # doc[u] => InABlock(u)
  BY DEF createTransaction, Execute, IndexTransaction, IndexPart, Age, Inv, Ordered, Types
<1>5. Types'
  BY <1>1, <1>2 DEF Inv, Ordered, Types
<1>6. Processed' /\ Recalled'
  BY <1>1 DEF Inv, Ordered, Processed, Recalled, Settled, Announced
<1>7. Found'
  <2>1. \A u \in Hashes : doc'[u] # "absent" => InABlock(u)'
    BY <1>3, <1>4 DEF Onward, Inv, Ordered, Found
  <2>2. req.pc # "idle" => req.tx \in Hashes
    BY RequestOK DEF Inv, Ordered
  <2>3. seen \subseteq Hashes
    BY DEF Inv, Ordered, Types
  <2> QED BY <1>1, <1>3, <2>1, <2>2, <2>3 DEF Onward, Inv, Ordered, Found
<1>8. Answered'
  <2>1. NeverForgotten'
    BY <1>1, <1>3 DEF Onward, Inv, Answered, NeverForgotten, SameNonce
  <2> QED BY <1>1, <2>1 DEF Inv, Answered, CompletedIsFinal
<1> QED BY <1>5, <1>6, <1>7, <1>8 DEF Inv, Ordered

\* Steps that leave all but the processor alone keep what the requests rely on, provided
\* that no event is forgotten.
LEMMA OthersStay ==
    ASSUME Inv, UNCHANGED <<gateway, doc, req, answer, seen>>, told \subseteq told'
    PROVE  Found' /\ Recalled' /\ Answered'
<1>1. Found'
  BY DEF Inv, Ordered, Found, InABlock
<1>2. Recalled'
  BY DEF Inv, Ordered, Recalled, Announced
<1>3. Answered'
  BY DEF Inv, Answered, NeverForgotten, CompletedIsFinal, InABlock, SameNonce
<1> QED BY <1>1, <1>2, <1>3

\* The key is set for a transaction of which nothing was announced.
LEMMA PendingOK ==
    ASSUME Inv, NEW t \in Hashes, onTransactionsPending(t)
    PROVE  Inv'
<1>1. /\ UNCHANGED <<gateway, doc, req, answer, seen, saved, waiting, told>>
      /\ tc' = [pc |-> "emitPending", tx |-> t] /\ pendingKey' = [pendingKey EXCEPT ![t] = TRUE]
      /\ IsCrossShard(t) /\ saved[t] = "none"
  BY DEF onTransactionsPending, chainVars, reqVars
<1>2. Types'
  BY <1>1 DEF Inv, Ordered, Types, TcSteps
<1>3. ~Announced(t)
  BY <1>1 DEF Inv, Ordered, Processed, Settled
<1>4. \A u \in Hashes \ {t} : pendingKey'[u] = pendingKey[u]
  BY <1>1 DEF Inv, Ordered, Types
<1>5. Processed'
  <2>1. \A u \in Hashes : pendingKey'[u] = TRUE => IsCrossShard(u)
    BY <1>1, <1>4 DEF Inv, Ordered, Processed
  <2>2. \A u \in Hashes : Announced(u)' => Settled(u)'
    <3> SUFFICES ASSUME NEW u \in Hashes, Announced(u)' PROVE Settled(u)'
      OBVIOUS
    <3>1. Announced(u)
      BY <1>1 DEF Announced
    <3> QED BY <1>1, <1>3, <1>4, <3>1 DEF Inv, Ordered, Processed, Settled
  <2>3. \A u \in waiting : saved[u] # "none"
    BY DEF Inv, Ordered, Processed
  <2> QED BY <1>1, <2>1, <2>2, <2>3 DEF Processed, IsCrossShard
<1> QED BY <1>1, <1>2, <1>5, OthersStay DEF Inv, Ordered


\* The event goes out with the key gone.
LEMMA EmitOK ==
    ASSUME Inv, EmitPendingResults \/ EmitCompleted
    PROVE  Inv'
<1>1. tc \in [pc : TcSteps, tx : Hashes]
  BY DEF EmitPendingResults, EmitCompleted, Inv, Ordered, Types
<1>2. UNCHANGED <<gateway, doc, req, answer, seen, saved, waiting, pendingKey>>
  BY DEF EmitPendingResults, EmitCompleted, chainVars, reqVars
<1>3. PICK t \in Hashes : t = tc.tx
  BY <1>1
<1>4. PICK s \in {"save", "saveCompleted"} : tc' = [tc EXCEPT !.pc = s] /\ (s = "saveCompleted" => tc.pc = "emit")
  BY DEF EmitPendingResults, EmitCompleted
<1>5. tc' \in [pc : TcSteps, tx : Hashes] /\ tc'.pc = s /\ tc'.tx = t
  BY <1>1, <1>3, <1>4 DEF TcSteps
<1>6. Types'
  BY <1>2, <1>5 DEF Inv, Ordered, Types
<1>7. told \subseteq told' /\ \A e \in told' \ told : e[2] = t /\ (e[1] = "transactionCompleted" => tc.pc = "emit")
  BY <1>3 DEF EmitPendingResults, EmitCompleted, Emit
<1>8. Processed'
  <2>1. Settled(t)' <=> Settled(t)
    BY <1>2 DEF Settled
  <2>2. tc.pc = "emit" => Settled(t)
    BY <1>3 DEF Inv, Ordered, Processed
  <2>3. \A u \in Hashes : Announced(u)' => Settled(u)'
    <3> SUFFICES ASSUME NEW u \in Hashes, Announced(u)' PROVE Settled(u)'
      OBVIOUS
    <3>1. PICK e \in told' : e[1] = "transactionCompleted" /\ e[2] = u
      BY DEF Announced
    <3>2. CASE e \in told
      BY <1>2, <3>1, <3>2 DEF Announced, Inv, Ordered, Processed, Settled
    <3>3. CASE e \notin told
      BY <1>7, <2>1, <2>2, <3>1, <3>3
    <3> QED BY <3>2, <3>3
  <2>4. tc'.pc \in {"emit", "saveCompleted"} => Settled(t)'
    BY <1>4, <1>5, <2>1, <2>2
  <2>5. tc'.pc \in {"emit", "saveCompleted"} => pendingKey'[tc'.tx] = FALSE /\ (IsCrossShard(tc'.tx) => saved'[tc'.tx] # "none")
    BY <1>5, <2>4 DEF Settled
  <2>6. /\ \A u \in Hashes : pendingKey'[u] = TRUE => IsCrossShard(u)
        /\ \A u \in waiting' : saved'[u] # "none"
    BY <1>2 DEF Inv, Ordered, Processed
  <2>7. tc'.pc # "delete"
    BY <1>4, <1>5
  <2> QED BY <2>3, <2>5, <2>6, <2>7 DEF Processed, Settled, IsCrossShard
<1> QED BY <1>2, <1>6, <1>7, <1>8, OthersStay DEF Inv, Ordered

\* Results have arrived for a transaction the library awaits, or that waits for none.
LEMMA ReceivedOK ==
    ASSUME Inv, NEW t \in Hashes, onTransactionsReceived(t)
    PROVE  Inv'
<1>1. /\ UNCHANGED <<gateway, doc, req, answer, seen, saved, waiting, pendingKey, told>>
      /\ IsCrossShard(t) => t \in waiting
  BY DEF onTransactionsReceived, chainVars, reqVars
<1>2. PICK s \in {"delete", "emit"} : tc' = [pc |-> s, tx |-> t] /\ (s = "delete" <=> pendingKey[t] = TRUE)
  BY DEF onTransactionsReceived, Inv, Ordered, Types
<1>3. tc'.pc = s /\ tc'.tx = t /\ tc' \in [pc : TcSteps, tx : Hashes]
  BY <1>2 DEF TcSteps
<1>4. Types'
  BY <1>1, <1>3 DEF Inv, Ordered, Types
<1>5. pendingKey[t] \in BOOLEAN
  BY DEF Inv, Ordered, Types
<1>6. s = "delete" => saved[t] # "none"
  BY <1>1, <1>2 DEF Inv, Ordered, Processed
<1>7. s = "emit" => pendingKey[t] = FALSE /\ (IsCrossShard(t) => saved[t] # "none")
  BY <1>1, <1>2, <1>5 DEF Inv, Ordered, Processed
<1>8. Processed'
  <2>1. /\ \A u \in Hashes : pendingKey'[u] = TRUE => IsCrossShard(u)
        /\ \A u \in waiting' : saved'[u] # "none"
        /\ \A u \in Hashes : Announced(u)' => Settled(u)'
    BY <1>1 DEF Inv, Ordered, Processed, Announced, Settled
  <2> QED BY <1>1, <1>3, <1>6, <1>7, <2>1 DEF Processed, Settled, IsCrossShard
<1> QED BY <1>1, <1>4, <1>8, OthersStay DEF Inv, Ordered

\* A key is deleted by the processor or expires.
LEMMA DeleteOK ==
    ASSUME Inv, batchDelCache \/ \E t \in Hashes : Expire(t)
    PROVE  Inv'
<1>1. UNCHANGED <<gateway, doc, req, answer, seen, saved, waiting, told>>
  BY DEF batchDelCache, Expire, chainVars, reqVars
<1>2. PICK t \in Hashes : pendingKey' = [pendingKey EXCEPT ![t] = FALSE]
                          /\ (tc' = tc \/ (tc.pc = "delete" /\ t = tc.tx /\ tc' = [tc EXCEPT !.pc = "emit"]))
  <2>1. CASE batchDelCache
    <3>1. tc.tx \in Hashes
      BY <2>1 DEF batchDelCache, Inv, Ordered, Types
    <3> QED BY <2>1, <3>1 DEF batchDelCache
  <2>2. CASE \E t \in Hashes : Expire(t)
    <3> PICK t \in Hashes : Expire(t)
      BY <2>2
    <3>1. pendingKey' = [pendingKey EXCEPT ![t] = FALSE] /\ tc' = tc
      BY DEF Expire
    <3> QED BY <3>1
  <2> QED BY <2>1, <2>2
<1>3. \A u \in Hashes : pendingKey'[u] = FALSE \/ pendingKey'[u] = pendingKey[u]
  BY <1>2 DEF Inv, Ordered, Types
<1>4. pendingKey'[t] = FALSE
  BY <1>2 DEF Inv, Ordered, Types
<1>5. tc.pc # "idle" => tc \in [pc : TcSteps, tx : Hashes]
  BY DEF Inv, Ordered, Types
<1>6. tc' = tc \/ (tc.pc = "delete" /\ tc.tx = t /\ tc'.pc = "emit" /\ tc'.tx = t /\ tc' \in [pc : TcSteps, tx : Hashes])
  BY <1>2, <1>5 DEF TcSteps
<1>7. Types'
  <2>1. pendingKey' \in [Hashes -> BOOLEAN]
    BY <1>2 DEF Inv, Ordered, Types
  <2> QED BY <1>1, <1>6, <2>1 DEF Inv, Ordered, Types
<1>8. Processed'
  <2>1. \A u \in Hashes : Settled(u) => Settled(u)'
    BY <1>1, <1>3 DEF Settled
  <2>2. /\ \A u \in Hashes : pendingKey'[u] = TRUE => IsCrossShard(u)
        /\ \A u \in waiting' : saved'[u] # "none"
    BY <1>1, <1>3 DEF Inv, Ordered, Processed
  <2>3. \A u \in Hashes : Announced(u)' => Settled(u)'
    BY <1>1, <2>1 DEF Inv, Ordered, Processed, Announced
  <2>4. CASE tc' = tc
    <3>1. tc.pc \in {"emit", "saveCompleted"} => tc.tx \in Hashes /\ Settled(tc.tx)
      BY <1>5 DEF Inv, Ordered, Processed
    <3>2. tc.pc \in {"emit", "saveCompleted"} => pendingKey'[tc.tx] = FALSE /\ (IsCrossShard(tc.tx) => saved'[tc.tx] # "none")
      BY <1>1, <1>3, <3>1 DEF Settled
    <3>3. tc.pc = "delete" => saved[tc.tx] # "none"
      BY DEF Inv, Ordered, Processed
    <3> QED BY <1>1, <2>2, <2>3, <2>4, <3>2, <3>3 DEF Processed, Settled, IsCrossShard
  <2>5. CASE tc' # tc
    <3>1. saved[t] # "none" /\ tc'.pc = "emit" /\ tc'.tx = t
      BY <1>6, <2>5 DEF Inv, Ordered, Processed
    <3> QED BY <1>1, <1>4, <2>2, <2>3, <3>1 DEF Processed, Settled, IsCrossShard
  <2> QED BY <2>4, <2>5
<1> QED BY <1>1, <1>7, <1>8, OthersStay DEF Inv, Ordered

\* Nonces are saved, or the processor restarts.
LEMMA SaveOK ==
    ASSUME Inv, setLastProcessedNonce \/ Restart
    PROVE  Inv'
<1>1. UNCHANGED <<gateway, doc, req, answer, seen, told, pendingKey>> /\ tc' = [pc |-> "idle"]
  BY DEF setLastProcessedNonce, Restart, chainVars, reqVars
<1>2. tc'.pc = "idle"
  BY <1>1
<1>3. tc.pc # "idle" => tc \in [pc : TcSteps, tx : Hashes]
  BY DEF Inv, Ordered, Types
<1>4. /\ saved' \in [Hashes -> {"none", "pending", "completed"}] /\ waiting' \subseteq Hashes
      /\ \A u \in Hashes : saved[u] # "none" => saved'[u] # "none"
      /\ \A u \in waiting' : saved'[u] # "none"
  <2>1. CASE setLastProcessedNonce
    <3> PICK t \in Hashes : t = tc.tx
      BY <1>3, <2>1 DEF setLastProcessedNonce
    <3>1. PICK s \in {"pending", "completed"} : saved' = [saved EXCEPT ![t] = s]
      BY <2>1 DEF setLastProcessedNonce
    <3>2. waiting' \subseteq waiting \cup {t}
      BY <2>1 DEF setLastProcessedNonce
    <3> QED BY <3>1, <3>2 DEF Inv, Ordered, Types, Processed
  <2>2. CASE Restart
    BY <2>2 DEF Restart, Inv, Ordered, Types
  <2> QED BY <2>1, <2>2
<1>5. Types'
  BY <1>1, <1>4 DEF Inv, Ordered, Types
<1>6. Processed'
  <2>1. \A u \in Hashes : Announced(u)' => Settled(u)'
    BY <1>1, <1>4 DEF Inv, Ordered, Processed, Announced, Settled
  <2>2. \A u \in Hashes : pendingKey'[u] = TRUE => IsCrossShard(u)
    BY <1>1 DEF Inv, Ordered, Processed
  <2> QED BY <1>2, <1>4, <2>1, <2>2 DEF Processed, IsCrossShard
<1> QED BY <1>1, <1>5, <1>6, OthersStay DEF Inv, Ordered


-----------------------------------------------------------------------------
\* Steps of a request that leave chain, index and processor alone, and go on to `r': the
\* request is about the same transaction and knows the same of it.
LEMMA ReadOK ==
    ASSUME Inv, req \in ReqType, NEW r \in ReqType, req' = r,
           UNCHANGED <<gateway, doc, pendingKey, saved, waiting, tc, told, answer, seen>>,
           r.tx = req.tx, r.seen = req.seen, r.done = req.done,
           r.pc \in {"results", "logs", "nonce", "process"} => gateway[r.tx] # "absent"
    PROVE  Inv'
<1>1. Types'
  BY DEF Inv, Ordered, Types
<1>2. Processed'
  BY DEF Inv, Ordered, Processed, Settled, Announced
<1>3. Found'
  BY DEF Inv, Ordered, Found, InABlock
<1>4. Recalled'
  <2>1. req # NoRequest
    BY RequestOK DEF Inv, Ordered
  <2> QED BY <2>1 DEF Inv, Ordered, Recalled, Announced
<1>5. Answered'
  BY DEF Inv, Answered, NeverForgotten, CompletedIsFinal, InABlock, SameNonce
<1> QED BY <1>1, <1>2, <1>3, <1>4, <1>5 DEF Inv, Ordered

\* Steps that end a request: its transaction may be new among those that were shown.
LEMMA EndOK ==
    ASSUME Inv, req \in ReqType, req' = NoRequest,
           UNCHANGED <<gateway, doc, pendingKey, saved, waiting, tc, told>>,
           seen' = seen \/ (seen' = seen \cup {req.tx} /\ gateway[req.tx] # "absent")
    PROVE  Ordered'
<1>0. req.tx \in Hashes
  BY DEF ReqType
<1>1. Types'
  BY <1>0 DEF Inv, Ordered, Types
<1>2. Processed'
  BY DEF Inv, Ordered, Processed, Settled, Announced
<1>3. Found' /\ Recalled'
  BY <1>0 DEF Inv, Ordered, Found, Recalled, InABlock, NoRequest
<1> QED BY <1>1, <1>2, <1>3 DEF Ordered

\* An answer without the transaction: either something failed, or there is a reason for it.
LEMMA WithoutOK ==
    ASSUME Inv, req \in ReqType, NEW code \in {"404", "500"}, NEW failed \in BOOLEAN, Without(code, failed),
           code = "404" /\ failed = FALSE /\ req.seen = TRUE => \E u \in SameNonce(req.tx) : InABlock(u)
    PROVE  Inv'
<1>1. UNCHANGED <<gateway, doc, pendingKey, saved, waiting, tc, told, seen>> /\ req' = NoRequest
  BY DEF Without, chainVars, tcVars
<1>2. Ordered'
  BY <1>1, EndOK
<1> DEFINE f == req.failed \/ failed
<1>3. req.seen \in BOOLEAN /\ req.failed \in BOOLEAN /\ req.tx \in Hashes
  BY DEF ReqType
<1>4. f \in BOOLEAN /\ (f = FALSE => failed = FALSE)
  OBVIOUS
<1>5. answer' = [code |-> code, tx |-> req.tx, kind |-> req.kind, failed |-> f, seen |-> req.seen, done |-> req.done]
  BY DEF Without
<1> HIDE DEF f
<1>6. answer'.code = code /\ answer'.tx = req.tx /\ answer'.failed = f /\ answer'.seen = req.seen
  BY <1>5
<1>7. ASSUME answer'.code = "404", answer'.seen, ~answer'.failed
      PROVE  \E u \in SameNonce(answer'.tx) : gateway'[u] \in {"transit", "executed", "completed"}
  <2>1. req.seen = TRUE /\ failed = FALSE /\ code = "404"
    BY <1>3, <1>4, <1>6, <1>7
  <2> QED BY <1>1, <1>6, <2>1 DEF InABlock
<1>8. NeverForgotten'
  BY <1>7 DEF NeverForgotten, InABlock, SameNonce
<1>9. Answered'
  BY <1>3, <1>4, <1>6, <1>8 DEF Answered, CompletedIsFinal
<1> QED BY <1>2, <1>9 DEF Inv


\* A request starts with what is so.
LEMMA AskOK ==
    ASSUME Inv, NEW t \in Hashes, NEW kind \in {"details", "list"}, Ask(kind, t)
    PROVE  Inv'
<1> DEFINE s == t \in seen
           d == \E room \in emitTransactionEvent(t) : <<"transactionCompleted", t, room>> \in told
           r == [pc |-> "elastic", kind |-> kind, tx |-> t, seen |-> s, failed |-> FALSE, done |-> d,
                 status |-> "", results |-> <<>>, logs |-> <<>>]
<1>1. req' = r /\ answer' = NoAnswer
      /\ UNCHANGED <<gateway, doc, pendingKey, saved, waiting, tc, told, seen>>
  BY DEF Ask, chainVars, tcVars
<1>2. s \in BOOLEAN /\ d \in BOOLEAN /\ (s = TRUE => t \in seen) /\ (d = TRUE => Announced(t))
  <2>1. ASSUME NEW room, <<"transactionCompleted", t, room>> \in told PROVE Announced(t)
    BY <2>1 DEF Announced
  <2>2. d => Announced(t)
    BY <2>1
  <2>3. s \in BOOLEAN /\ (s = TRUE => t \in seen)
    OBVIOUS
  <2>4. d \in BOOLEAN
    OBVIOUS
  <2> HIDE DEF d, s
  <2> QED BY <2>2, <2>3, <2>4
<1> HIDE DEF s, d
<1>3. r \in ReqType /\ r.pc = "elastic" /\ r.tx = t /\ r.seen = s /\ r.done = d
  BY <1>2, NothingRead DEF ReqType, ReqSteps
<1> HIDE DEF r
<1>4. Types' /\ Processed' /\ Found'
  BY <1>1, <1>3 DEF Inv, Ordered, Types, Processed, Settled, Announced, Found, InABlock
<1>5. Recalled'
  BY <1>1, <1>2, <1>3 DEF Recalled, Announced
<1>6. Answered'
  BY <1>1 DEF Answered, NeverForgotten, CompletedIsFinal, NoAnswer
<1> QED BY <1>4, <1>5, <1>6 DEF Inv, Ordered

\* The first read: what the index has is in a block.
LEMMA ElasticOK ==
    ASSUME Inv, tryGetTransactionFromElastic
    PROVE  Inv'
<1>0. req \in ReqType /\ req.tx \in Hashes
  BY RequestOK DEF tryGetTransactionFromElastic, Inv, Ordered
<1>1. CASE Goto("gateway") /\ Continue
  <2>1. req' = [req EXCEPT !.pc = "gateway"]
    BY <1>1 DEF Goto
  <2>2. req' \in ReqType /\ req'.tx = req.tx /\ req'.seen = req.seen /\ req'.done = req.done /\ req'.pc = "gateway"
    BY <1>0, <2>1 DEF ReqType, ReqSteps
  <2> QED BY <1>0, <1>1, <2>2, ReadOK DEF Continue, chainVars, tcVars
<1>2. CASE doc[req.tx] # "absent" /\ req' = [req EXCEPT !.pc = "results", !.status = doc[req.tx]] /\ Continue
  <2>1. doc[req.tx] \in {"", "pending", "success"} /\ gateway[req.tx] # "absent"
    BY <1>0, <1>2 DEF Inv, Ordered, Types, Found, InABlock
  <2>2. req' \in ReqType /\ req'.tx = req.tx /\ req'.seen = req.seen /\ req'.done = req.done
    BY <1>0, <1>2, <2>1 DEF ReqType, ReqSteps
  <2> QED BY <1>0, <1>2, <2>1, <2>2, ReadOK DEF Continue, chainVars, tcVars
<1>3. CASE Trouble /\ Without("500", TRUE)
  BY <1>0, <1>3, WithoutOK
<1> QED BY <1>1, <1>2, <1>3 DEF tryGetTransactionFromElastic

\* A query for the results or the logs that fails.
LEMMA ExtrasFailOK ==
    ASSUME Inv, req \in ReqType, ExtrasFail
    PROVE  Inv'
<1>1. CASE Without("500", TRUE)
  BY <1>1, WithoutOK
<1>2. CASE Fallback("gateway") /\ UNCHANGED <<answer, seen, chainVars, tcVars>>
  <2>1. req' = [req EXCEPT !.pc = "gateway", !.failed = TRUE, !.status = "", !.results = <<>>, !.logs = <<>>]
    BY <1>2 DEF Fallback
  <2>2. req' \in ReqType /\ req'.tx = req.tx /\ req'.seen = req.seen /\ req'.done = req.done /\ req'.pc = "gateway"
    BY <2>1, NothingRead DEF ReqType, ReqSteps
  <2> QED BY <1>2, <2>2, ReadOK DEF chainVars, tcVars
<1> QED BY <1>1, <1>2 DEF ExtrasFail

\* The reads of results and logs.
LEMMA ExtrasOK ==
    ASSUME Inv, getTransactionScResultsFromElastic \/ getTransactionLogsFromElastic
    PROVE  Inv'
<1>0. req \in ReqType /\ req.tx \in Hashes /\ gateway[req.tx] # "absent"
  BY RequestOK DEF getTransactionScResultsFromElastic, getTransactionLogsFromElastic, Inv, Ordered, Found
<1>1. CASE ExtrasFail
  BY <1>0, <1>1, ExtrasFailOK
<1>2. CASE getTransactionScResultsFromElastic /\ ~ExtrasFail
  <2> DEFINE rs == IF "results" \in parts[req.tx] THEN Results[req.tx] ELSE <<>>
  <2>1. req' = [req EXCEPT !.pc = "logs", !.results = rs] /\ Continue
    BY <1>2 DEF getTransactionScResultsFromElastic
  <2>2. rs \in SomeResults
    BY <1>0 DEF SomeResults
  <2> HIDE DEF rs
  <2>3. req' \in ReqType /\ req'.tx = req.tx /\ req'.seen = req.seen /\ req'.done = req.done
    BY <1>0, <2>1, <2>2 DEF ReqType, ReqSteps
  <2> QED BY <1>0, <2>1, <2>3, ReadOK DEF Continue, chainVars, tcVars
<1>3. CASE getTransactionLogsFromElastic /\ ~ExtrasFail
  <2> DEFINE ls == IF "logs" \in parts[req.tx] THEN LogsOf(req.tx, req.results) ELSE <<>>
  <2>1. req' = [req EXCEPT !.pc = "process", !.logs = ls] /\ Continue
    BY <1>3 DEF getTransactionLogsFromElastic
  <2>2. ls \in SomeLogs
    <3>1. req.results \in SomeResults
      BY <1>0 DEF ReqType
    <3>2. LogsOf(req.tx, req.results) \in SomeLogs
      BY <1>0, <3>1, NothingRead
    <3> QED BY <3>2, NothingRead
  <2> HIDE DEF ls
  <2>3. req' \in ReqType /\ req'.tx = req.tx /\ req'.seen = req.seen /\ req'.done = req.done
    BY <1>0, <2>1, <2>2 DEF ReqType, ReqSteps
  <2> QED BY <1>0, <2>1, <2>3, ReadOK DEF Continue, chainVars, tcVars
<1> QED BY <1>1, <1>2, <1>3

\* The gateway: a transaction that was shown before is there.
LEMMA GatewayOK ==
    ASSUME Inv, tryGetTransactionFromGateway
    PROVE  Inv'
<1>0. req \in ReqType /\ req.tx \in Hashes /\ (req.seen = TRUE => gateway[req.tx] # "absent")
  BY RequestOK DEF tryGetTransactionFromGateway, Inv, Ordered, Recalled, Found
<1>1. CASE gateway[req.tx] = "absent" /\ Without("404", FALSE)
  BY <1>0, <1>1, WithoutOK
<1>2. CASE Without("404", TRUE)
  BY <1>0, <1>2, WithoutOK
<1> DEFINE s == GatewayStatus(req.tx)
           p == IF req.kind = "list" THEN "logs" ELSE IF s = "pending" THEN "nonce" ELSE "process"
<1>3. CASE gateway[req.tx] # "absent" /\ req' = [req EXCEPT !.status = s, !.pc = p] /\ Continue
  <2>1. s \in {"pending", "success"} /\ p \in ReqSteps
    BY DEF GatewayStatus, ReqSteps
  <2> HIDE DEF s, p
  <2>2. req' \in ReqType /\ req'.tx = req.tx /\ req'.seen = req.seen /\ req'.done = req.done
    BY <1>0, <1>3, <2>1 DEF ReqType
  <2> QED BY <1>0, <1>3, <2>2, ReadOK DEF Continue, chainVars, tcVars
<1> QED BY <1>1, <1>2, <1>3 DEF tryGetTransactionFromGateway

\* A transaction of the same nonce that the index has is in a block.
LEMMA NonceOK ==
    ASSUME Inv, tryGetTransactionFromElasticBySenderAndNonce
    PROVE  Inv'
<1>0. req \in ReqType /\ req.tx \in Hashes /\ gateway[req.tx] # "absent"
  BY RequestOK DEF tryGetTransactionFromElasticBySenderAndNonce, Inv, Ordered, Found
<1>1. CASE IsReplaced(req.tx) /\ Without("404", FALSE)
  <2>1. \E u \in SameNonce(req.tx) : InABlock(u)
    <3>1. PICK u \in SameNonce(req.tx) : doc[u] # "absent"
      BY <1>1 DEF IsReplaced
    <3>2. u \in Hashes
      BY DEF SameNonce
    <3> QED BY <3>1, <3>2 DEF Inv, Ordered, Found
  <2> QED BY <1>0, <1>1, <2>1, WithoutOK
<1>2. CASE Without("404", TRUE)
  BY <1>0, <1>2, WithoutOK
<1>3. CASE Goto("process") /\ Continue
  <2>1. req' = [req EXCEPT !.pc = "process"]
    BY <1>3 DEF Goto
  <2>2. req' \in ReqType /\ req'.tx = req.tx /\ req'.seen = req.seen /\ req'.done = req.done
    BY <1>0, <2>1 DEF ReqType, ReqSteps
  <2> QED BY <1>0, <1>3, <2>2, ReadOK DEF Continue, chainVars, tcVars
<1> QED BY <1>1, <1>2, <1>3 DEF tryGetTransactionFromElasticBySenderAndNonce

\* The answer with the transaction: if its completion was announced, there is no key.
LEMMA ProcessOK ==
    ASSUME Inv, processTransactions
    PROVE  Inv'
<1>0. req \in ReqType /\ req # NoRequest /\ req.tx \in Hashes /\ gateway[req.tx] # "absent"
  BY RequestOK DEF processTransactions, Inv, Ordered, Found
<1>1. UNCHANGED <<gateway, doc, pendingKey, saved, waiting, tc, told>>
      /\ req' = NoRequest /\ seen' = seen \cup {req.tx}
  BY DEF processTransactions, chainVars, tcVars
<1>2. Ordered'
  BY <1>0, <1>1, EndOK
<1> DEFINE a == getTransactionAction(Tx[req.tx])
           p == a # Thrown /\ getPendingResults(req.tx)
           q == p /\ ~(req.kind = "details" /\ HasCompletedTxEvent(req))
           st == IF p THEN "pending" ELSE req.status
           all == RecordedOperations(req)
           ops == ShownOperations(req)
<1>3. answer' = [code |-> "200", tx |-> req.tx, kind |-> req.kind, failed |-> req.failed, seen |-> req.seen,
                 done |-> req.done, action |-> a, status |-> st, pendingResults |-> q,
                 recorded |-> all, operations |-> ops]
  BY DEF processTransactions
<1>4. q \in BOOLEAN /\ req.done \in BOOLEAN
  BY <1>0 DEF ReqType
<1>5. req.done = TRUE => q = FALSE
  <2> HAVE req.done = TRUE
  <2>1. Announced(req.tx)
    BY <1>0 DEF Inv, Ordered, Recalled
  <2>2. pendingKey[req.tx] = FALSE
    BY <1>0, <2>1 DEF Inv, Ordered, Processed, Settled
  <2>3. ~getPendingResults(req.tx)
    BY <2>2 DEF getPendingResults
  <2> QED BY <2>3
<1> HIDE DEF a, p, q, st, all, ops
<1>6. answer'.code = "200" /\ answer'.done = req.done /\ answer'.pendingResults = q
  BY <1>3
<1>7. Answered'
  BY <1>4, <1>5, <1>6 DEF Answered, NeverForgotten, CompletedIsFinal
<1> QED BY <1>2, <1>7 DEF Inv

-----------------------------------------------------------------------------
\* Inv is an inductive invariant.
LEMMA Invariance == Spec => []Inv
<1>1. Init => Inv
  <2> SUFFICES ASSUME Init PROVE Inv
    OBVIOUS
  <2>1. Types
    BY DEF Init, Types, GatewayStates
  <2>2. Processed
    BY DEF Init, Processed, Announced
  <2>3. Found /\ Recalled
    BY DEF Init, Found, Recalled, NoRequest
  <2>4. Answered
    BY DEF Init, Answered, NeverForgotten, CompletedIsFinal, NoAnswer
  <2> QED BY <2>1, <2>2, <2>3, <2>4 DEF Inv, Ordered
<1>2. Inv /\ [Next]_vars => Inv'
  <2> SUFFICES ASSUME Inv, [Next]_vars PROVE Inv'
    OBVIOUS
  <2>1. ASSUME NEW t \in Hashes,
               \/ createTransaction(t) \/ Execute(t) \/ IndexTransaction(t) \/ IndexPart(t) \/ Age(t)
               \/ onTransactionsPending(t) \/ onTransactionsReceived(t) \/ Expire(t)
               \/ Ask("details", t) \/ Ask("list", t)
        PROVE  Inv'
    <3>1. CASE Ask("details", t) \/ Ask("list", t)
      BY <3>1, AskOK
    <3>2. CASE ~(Ask("details", t) \/ Ask("list", t))
      BY <2>1, <3>2, ChainOK, PendingOK, ReceivedOK, DeleteOK
    <3> QED BY <3>1, <3>2
  <2>2. CASE EmitPendingResults \/ batchDelCache \/ EmitCompleted \/ setLastProcessedNonce \/ Restart
    BY <2>2, EmitOK, DeleteOK, SaveOK
  <2>3. CASE \/ tryGetTransactionFromElastic \/ getTransactionScResultsFromElastic \/ getTransactionLogsFromElastic
             \/ tryGetTransactionFromGateway \/ tryGetTransactionFromElasticBySenderAndNonce \/ processTransactions
    BY <2>3, ElasticOK, ExtrasOK, GatewayOK, NonceOK, ProcessOK
  <2>4. CASE UNCHANGED vars
    <3>1. UNCHANGED <<gateway, doc, pendingKey, saved, waiting, tc, told, req, answer, seen>>
      BY <2>4 DEF vars
    <3>2. Types' /\ Processed'
      BY <3>1 DEF Inv, Ordered, Types, Processed, Settled, Announced
    <3> QED BY <3>1, <3>2, OthersStay DEF Inv, Ordered
  <2> QED BY <2>1, <2>2, <2>3, <2>4 DEF Next
<1> QED BY <1>1, <1>2, PTL DEF Spec

(***************************************************************************)
(* A transaction that was shown stays there, whatever the index has of it  *)
(* by now: who asks again gets it, unless a transaction with its nonce got *)
(* into a block, or a query failed.                                        *)
(***************************************************************************)
THEOREM NeverForgottenAtAll == Spec => []NeverForgotten
<1>1. Inv => NeverForgotten
  BY DEF Inv, Answered
<1> QED BY <1>1, Invariance, PTL

(***************************************************************************)
(* Who was told that a transaction is completed is never answered that it  *)
(* waits for results, however often the processor was restarted.           *)
(***************************************************************************)
THEOREM CompletedIsAlwaysFinal == Spec => []CompletedIsFinal
<1>1. Inv => CompletedIsFinal
  BY DEF Inv, Answered
<1> QED BY <1>1, Invariance, PTL
=============================================================================
