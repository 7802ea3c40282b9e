------------------------- MODULE GroupedSubmission -------------------------
(***************************************************************************)
(* What POST /batch promises to its clients, without the processes, the    *)
(* Redis keys and the stale copies of TransactionBatch: the groups of a    *)
(* batch are submitted one after the other, each one only when every       *)
(* transaction of the groups before it has succeeded on chain, and a batch *)
(* is reported as successful only when all its transactions have.          *)
(***************************************************************************)
EXTENDS Naturals, Sequences, Functions

CONSTANTS
    Requests,   \* POST /batch calls
    Batches,    \* batch keys
    Txs,        \* transactions
    BatchOf,    \* BatchOf[r]: the key of the batch request r posts
    Groups      \* Groups[r]: its groups, sequences of transactions

VARIABLES
    outcome,    \* what became of a transaction on chain
    submitted,  \* the transactions that have been given to the gateway
    verdict     \* the status under which a batch is reported, or "none"

vars == <<outcome, submitted, verdict>>

Init ==
    /\ outcome = [t \in Txs |-> "unsent"]
    /\ submitted = {}
    /\ verdict = [k \in Batches |-> "none"]

\* Every transaction of the groups of r before g has succeeded.
EarlierSucceeded(r, g) ==
    \A f \in DOMAIN Groups[r] : f < g => \A u \in Range(Groups[r][f]) : outcome[u] = "success"

\* Some batch of which t is part has come to the group of t.
MayGoOut(t) ==
    \E r \in Requests : \E g \in DOMAIN Groups[r] : t \in Range(Groups[r][g]) /\ EarlierSucceeded(r, g)

\* The gateway is given a transaction, again perhaps; the network may get it or not.
Submit(t) ==
    /\ MayGoOut(t)
    /\ submitted' = submitted \cup {t}
    /\ outcome' \in {outcome, [outcome EXCEPT ![t] = IF @ = "unsent" THEN "sent" ELSE @]}
    /\ UNCHANGED verdict

\* The network executes a transaction, once.
Settle(t) ==
    /\ outcome[t] = "sent"
    /\ \E o \in {"success", "fail", "invalid"} : outcome' = [outcome EXCEPT ![t] = o]
    /\ UNCHANGED <<submitted, verdict>>

\* All that a request posted under the key k has succeeded.
AllSucceeded(k) ==
    \E r \in Requests :
        /\ BatchOf[r] = k
        /\ \A g \in DOMAIN Groups[r] : \A u \in Range(Groups[r][g]) : outcome[u] = "success"

\* The status of a batch is stored, or the batch expires.
Report(k) ==
    /\ \E v \in {"none", "pending", "invalid", "dropped", "success"} :
          /\ v = "success" => AllSucceeded(k)
          /\ verdict' = [verdict EXCEPT ![k] = v]
    /\ UNCHANGED <<outcome, submitted>>

Next ==
    \/ \E t \in Txs : Submit(t) \/ Settle(t)
    \/ \E k \in Batches : Report(k)

Spec == Init /\ [][Next]_vars

-----------------------------------------------------------------------------
TypeOK ==
    /\ outcome \in [Txs -> {"unsent", "sent", "success", "fail", "invalid"}]
    /\ submitted \subseteq Txs
    /\ verdict \in [Batches -> {"none", "pending", "invalid", "dropped", "success"}]

(***************************************************************************)
(* Groups go out in order: what has been submitted is of a group all whose *)
(* predecessors have succeeded.                                            *)
(***************************************************************************)
GroupOrder == \A t \in submitted : MayGoOut(t)

(***************************************************************************)
(* A batch is reported as successful only if its transactions are.         *)
(***************************************************************************)
SuccessIsOfAll == \A k \in Batches : verdict[k] = "success" => AllSucceeded(k)
=============================================================================
