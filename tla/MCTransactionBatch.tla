------------------------- MODULE MCTransactionBatch -------------------------
(***************************************************************************)
(* Instances: one batch of two groups, the first of two transactions; and  *)
(* a second request that posts another batch under the same id.            *)
(***************************************************************************)
EXTENDS TransactionBatch

CONSTANTS a, b, c, d, r1, r2, k1

TwoGroups == <<<<a, b>>, <<c>>>>

OneBatchOf == [r \in {r1} |-> k1]
OneGroups  == [r \in {r1} |-> TwoGroups]
OneId      == [k \in {k1} |-> "id1"]

TwiceBatchOf == [r \in {r1, r2} |-> k1]
TwiceGroups  == [r \in {r1, r2} |-> IF r = r1 THEN TwoGroups ELSE <<<<d>>>>]
=============================================================================
