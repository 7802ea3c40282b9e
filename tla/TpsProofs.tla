------------------------------ MODULE TpsProofs ------------------------------
(***************************************************************************)
(* The block processor, for any shards, blocks, frequencies, numbers of    *)
(* runs at once and numbers of failures.                                   *)
(*                                                                         *)
(* A counter is compared with the number of elements of a set of           *)
(* transactions: adding a block to a counter is adding a disjoint set, so  *)
(* no proof needs an induction over the blocks.                            *)
(*                                                                         *)
(* None of the properties about counters is inductive: a block is in some  *)
(* of its buckets before its nonce is saved, and in the total after that.  *)
(* Inv says what the buckets hold while loops are on the way: at least     *)
(* what a loop has gone past or has added (AtLeastCounted), and, as long   *)
(* as runs neither overlap nor crash, nothing but that (AtMostOnce).  For  *)
(* the second the block that a loop adds must be new, which is why runs    *)
(* have to be alone (Single) and a loop ahead of the saved nonce (Ahead).  *)
(***************************************************************************)
EXTENDS Tps, FiniteSetTheorems, WellFoundedInduction, TLAPS

\* The transactions of a block.
Block(s, n) == {<<s, n, i>> : i \in 1..TxCount[s][n]}

\* The nonces of the blocks of a shard.
NoncesOf(s) == 1..LastNonce(s)

\* The assumption on TxCount: a shard has blocks 1..LastNonce, each with its number of transactions.
LEMMA BlocksOK ==
    ASSUME NEW s \in Shards
    PROVE  /\ LastNonce(s) \in Nat
           /\ NoncesOf(s) \subseteq Nonces
           /\ \A n \in NoncesOf(s) : TxCount[s][n] \in Nat
<1>1. TxCount[s] \in Seq(Nat)
  BY TpsAssumption
<1>2. LastNonce(s) \in Nat /\ DOMAIN TxCount[s] = NoncesOf(s) /\ \A n \in NoncesOf(s) : TxCount[s][n] \in Nat
  BY <1>1 DEF LastNonce, NoncesOf
<1> QED BY <1>2 DEF Nonces

\* A block has as many transactions as TxCount says.
LEMMA BlockSize ==
    ASSUME NEW s \in Shards, NEW n \in NoncesOf(s)
    PROVE  IsFiniteSet(Block(s, n)) /\ Cardinality(Block(s, n)) = TxCount[s][n]
<1> DEFINE c == TxCount[s][n]
           f == [i \in 1..c |-> <<s, n, i>>]
<1>1. c \in Nat
  BY BlocksOK
<1>2. f \in Bijection(1..c, Block(s, n))
  BY DEF Bijection, Injection, IsInjective, Surjection, Block
<1>3. ExistsBijection(1..c, Block(s, n))
  BY <1>2 DEF ExistsBijection
<1> HIDE DEF c
<1>4. IsFiniteSet(1..c) /\ Cardinality(1..c) = c
  BY <1>1, FS_Interval
<1> QED BY <1>3, <1>4, FS_Bijection DEF c

\* Which transactions the blocks with these nonces have.
LEMMA InTransactions ==
    ASSUME NEW s, NEW N
    PROVE  \A x : x \in Transactions(s, N) <=> \E n \in N : x \in Block(s, n)
  BY DEF Transactions, Block

\* The blocks of a shard have finitely many transactions.
LEMMA TransactionsFinite ==
    ASSUME NEW s \in Shards, NEW N \in SUBSET NoncesOf(s)
    PROVE  IsFiniteSet(Transactions(s, N))
<1> DEFINE B == {Block(s, n) : n \in N}
           f == [n \in N |-> Block(s, n)]
<1>1. IsFiniteSet(N)
  <2>1. IsFiniteSet(NoncesOf(s))
    BY BlocksOK, FS_Interval DEF NoncesOf
  <2> QED BY <2>1, FS_Subset
<1>2. f \in Surjection(N, B)
  BY DEF Surjection
<1>3. IsFiniteSet(B)
  BY <1>1, <1>2, FS_Surjection
<1>4. \A b \in B : IsFiniteSet(b)
  BY BlockSize
<1>5. IsFiniteSet(UNION B)
  BY <1>3, <1>4, FS_UNION
<1>6. Transactions(s, N) = UNION B
  BY DEF Transactions, Block
<1> QED BY <1>5, <1>6

\* Nonces of blocks, for every shard.
NonceSets == {N \in [Shards -> SUBSET Nat] : \A s \in Shards : N[s] \subseteq NoncesOf(s)}

\* The nonces of N[s] that bucket b is about.
For(b, N, s) == {n \in N[s] : TimestampByFrequency(n, b[2]) = b[1]}

\* Which transactions a bucket is about.
LEMMA InOfBucket ==
    ASSUME NEW b, NEW N
    PROVE  \A x : x \in OfBucket(b, N) <=> \E s \in Shards : \E n \in For(b, N, s) : x \in Block(s, n)
<1>1. \A x : x \in OfBucket(b, N) <=> \E s \in Shards : x \in Transactions(s, For(b, N, s))
  BY DEF OfBucket, For
<1>2. \A s : \A x : x \in Transactions(s, For(b, N, s)) <=> \E n \in For(b, N, s) : x \in Block(s, n)
  BY InTransactions
<1> HIDE DEF For
<1> QED BY <1>1, <1>2

\* A bucket is about finitely many transactions.
LEMMA OfBucketFinite ==
    ASSUME NEW b, NEW N \in NonceSets
    PROVE  IsFiniteSet(OfBucket(b, N))
<1> DEFINE B == {Transactions(s, For(b, N, s)) : s \in Shards}
           f == [s \in Shards |-> Transactions(s, For(b, N, s))]
<1>1. f \in Surjection(Shards, B)
  BY DEF Surjection
<1>2. IsFiniteSet(B)
  BY <1>1, TpsAssumption, FS_Surjection
<1>3. \A s \in Shards : For(b, N, s) \in SUBSET NoncesOf(s)
  BY DEF For, NonceSets
<1>4. \A x \in B : IsFiniteSet(x)
  BY <1>3, TransactionsFinite
<1>5. IsFiniteSet(UNION B)
  BY <1>2, <1>4, FS_UNION
<1>6. OfBucket(b, N) = UNION B
  BY DEF OfBucket, For
<1> QED BY <1>5, <1>6

-----------------------------------------------------------------------------
\* What the counts of transactions have to do with each other.

\* How many elements a union has.
LEMMA UnionSize ==
    ASSUME NEW A, NEW B, IsFiniteSet(A), IsFiniteSet(B)
    PROVE  /\ IsFiniteSet(A \cup B)
           /\ Cardinality(A) \in Nat /\ Cardinality(A \cup B) \in Nat
           /\ Cardinality(A \cup B) <= Cardinality(A) + Cardinality(B)
           /\ A \cap B = {} => Cardinality(A \cup B) = Cardinality(A) + Cardinality(B)
<1>1. /\ IsFiniteSet(A \cup B)
      /\ Cardinality(A \cup B) = Cardinality(A) + Cardinality(B) - Cardinality(A \cap B)
  BY FS_Union
<1>2. IsFiniteSet(A \cap B)
  BY FS_Intersection
<1>3. /\ Cardinality(A) \in Nat /\ Cardinality(B) \in Nat
      /\ Cardinality(A \cup B) \in Nat /\ Cardinality(A \cap B) \in Nat
  BY <1>1, <1>2, FS_CardinalityType
<1>4. A \cap B = {} => Cardinality(A \cap B) = 0
  BY FS_EmptySet
<1> QED BY <1>1, <1>3, <1>4

\* More nonces have more transactions.
LEMMA MoreTransactions ==
    ASSUME NEW s \in Shards, NEW M \in SUBSET NoncesOf(s), NEW N \in SUBSET M
    PROVE  /\ Cardinality(Transactions(s, N)) \in Nat /\ Cardinality(Transactions(s, M)) \in Nat
           /\ Cardinality(Transactions(s, N)) <= Cardinality(Transactions(s, M))
<1>1. IsFiniteSet(Transactions(s, M)) /\ IsFiniteSet(Transactions(s, N))
  BY TransactionsFinite
<1>2. Transactions(s, N) \subseteq Transactions(s, M)
  BY InTransactions
<1> QED BY <1>1, <1>2, FS_Subset, FS_CardinalityType

\* A block that comes to those before it adds its transactions.
LEMMA OneMoreBlock ==
    ASSUME NEW s \in Shards, NEW n \in NoncesOf(s)
    PROVE  /\ Cardinality(Transactions(s, 1..(n - 1))) \in Nat
           /\ Cardinality(Transactions(s, 1..n)) = Cardinality(Transactions(s, 1..(n - 1))) + TxCount[s][n]
<1>0. n \in Nat /\ n > 0 /\ LastNonce(s) \in Nat /\ n <= LastNonce(s)
  BY BlocksOK DEF NoncesOf
<1>1. 1..n = (1..(n - 1)) \cup {n} /\ n \notin 1..(n - 1) /\ 1..(n - 1) \in SUBSET NoncesOf(s)
  BY <1>0 DEF NoncesOf
<1> DEFINE N == 1..(n - 1)
<1>2. Transactions(s, 1..n) = Transactions(s, N) \cup Block(s, n)
  <2>1. \A x : x \in Transactions(s, 1..n) <=> \E m \in 1..n : x \in Block(s, m)
    BY InTransactions
  <2>2. \A x : x \in Transactions(s, N) <=> \E m \in N : x \in Block(s, m)
    BY InTransactions
  <2>3. 1..n = N \cup {n}
    BY <1>1
  <2> HIDE DEF N
  <2>4. \A x : x \in Transactions(s, 1..n) <=> x \in Transactions(s, N) \cup Block(s, n)
    BY <2>1, <2>2, <2>3
  <2> QED BY <2>4
<1>3. Transactions(s, N) \cap Block(s, n) = {}
  <2>1. ASSUME NEW x \in Transactions(s, N), x \in Block(s, n) PROVE FALSE
    <3>1. PICK m \in N : x \in Block(s, m)
      BY InTransactions
    <3>2. m # n
      BY <1>1
    <3> QED BY <2>1, <3>1, <3>2 DEF Block
  <2> QED BY <2>1
<1>4. IsFiniteSet(Transactions(s, N))
  BY <1>1, TransactionsFinite
<1> HIDE DEF N
<1>5. Cardinality(Transactions(s, 1..n)) = Cardinality(Transactions(s, N)) + TxCount[s][n]
  BY <1>2, <1>3, <1>4, BlockSize, UnionSize
<1>6. Cardinality(Transactions(s, N)) \in Nat
  BY <1>4, FS_CardinalityType
<1> QED BY <1>5, <1>6 DEF N

\* A bucket of more nonces has more transactions.
LEMMA MoreInBucket ==
    ASSUME NEW b, NEW M \in NonceSets, NEW N \in NonceSets, \A s \in Shards : For(b, N, s) \subseteq M[s]
    PROVE  /\ Cardinality(OfBucket(b, N)) \in Nat /\ Cardinality(OfBucket(b, M)) \in Nat
           /\ Cardinality(OfBucket(b, N)) <= Cardinality(OfBucket(b, M))
<1>1. IsFiniteSet(OfBucket(b, M)) /\ IsFiniteSet(OfBucket(b, N))
  BY OfBucketFinite
<1>2. \A s \in Shards : For(b, N, s) \subseteq For(b, M, s)
  BY DEF For
<1>3. OfBucket(b, N) \subseteq OfBucket(b, M)
  BY <1>2, InOfBucket
<1> QED BY <1>1, <1>3, FS_Subset, FS_CardinalityType

\* A bucket of at most one nonce more has at most the transactions of its block more.
LEMMA AtMostOneMore ==
    ASSUME NEW b, NEW M \in NonceSets, NEW N \in NonceSets, NEW s \in Shards, NEW n \in NoncesOf(s),
           \A u \in Shards : For(b, N, u) \subseteq M[u] \cup (IF u = s THEN {n} ELSE {})
    PROVE  /\ Cardinality(OfBucket(b, N)) \in Nat /\ Cardinality(OfBucket(b, M)) \in Nat
           /\ Cardinality(OfBucket(b, N)) <= Cardinality(OfBucket(b, M)) + TxCount[s][n]
<1>1. IsFiniteSet(OfBucket(b, M)) /\ IsFiniteSet(OfBucket(b, N))
  BY OfBucketFinite
<1>2. \A u \in Shards : \A m \in For(b, N, u) : m \in For(b, M, u) \/ (u = s /\ m = n)
  BY DEF For
<1>3. OfBucket(b, N) \subseteq OfBucket(b, M) \cup Block(s, n)
  <2> SUFFICES ASSUME NEW x \in OfBucket(b, N) PROVE x \in OfBucket(b, M) \cup Block(s, n)
    OBVIOUS
  <2>1. PICK u \in Shards : \E m \in For(b, N, u) : x \in Block(u, m)
    BY InOfBucket
  <2>2. PICK m \in For(b, N, u) : x \in Block(u, m)
    BY <2>1
  <2> QED BY <1>2, <2>2, InOfBucket
<1>4. IsFiniteSet(Block(s, n)) /\ Cardinality(Block(s, n)) = TxCount[s][n]
  BY BlockSize
<1>5. /\ IsFiniteSet(OfBucket(b, M) \cup Block(s, n)) /\ Cardinality(OfBucket(b, M)) \in Nat
      /\ Cardinality(OfBucket(b, M) \cup Block(s, n)) \in Nat
      /\ Cardinality(OfBucket(b, M) \cup Block(s, n)) <= Cardinality(OfBucket(b, M)) + TxCount[s][n]
  BY <1>1, <1>4, UnionSize
<1>6. Cardinality(OfBucket(b, N)) \in Nat
      /\ Cardinality(OfBucket(b, N)) <= Cardinality(OfBucket(b, M) \cup Block(s, n))
  BY <1>1, <1>3, <1>5, FS_Subset, FS_CardinalityType
<1>7. TxCount[s][n] \in Nat
  BY BlocksOK
<1> QED BY <1>5, <1>6, <1>7

\* A bucket of one nonce more, which was not among them, has its transactions more.
LEMMA AtLeastOneMore ==
    ASSUME NEW b, NEW M \in NonceSets, NEW N \in NonceSets, NEW s \in Shards, NEW n \in For(b, N, s),
           n \in NoncesOf(s), n \notin M[s], \A u \in Shards : M[u] \subseteq N[u]
    PROVE  /\ Cardinality(OfBucket(b, N)) \in Nat /\ Cardinality(OfBucket(b, M)) \in Nat
           /\ Cardinality(OfBucket(b, N)) >= Cardinality(OfBucket(b, M)) + TxCount[s][n]
<1>1. IsFiniteSet(OfBucket(b, M)) /\ IsFiniteSet(OfBucket(b, N))
  BY OfBucketFinite
<1>2. \A u \in Shards : For(b, M, u) \subseteq For(b, N, u)
  BY DEF For
<1>3. n \notin For(b, M, s)
  BY DEF For
<1>4. OfBucket(b, M) \cup Block(s, n) \subseteq OfBucket(b, N)
  BY <1>2, InOfBucket
<1>5. OfBucket(b, M) \cap Block(s, n) = {}
  <2> SUFFICES ASSUME NEW u \in Shards, NEW m \in For(b, M, u), NEW x \in Block(u, m) PROVE x \notin Block(s, n)
    BY InOfBucket
  <2>1. u # s \/ m # n
    BY <1>3
  <2> QED BY <2>1 DEF Block
<1>6. IsFiniteSet(Block(s, n)) /\ Cardinality(Block(s, n)) = TxCount[s][n]
  BY BlockSize
<1>7. /\ IsFiniteSet(OfBucket(b, M) \cup Block(s, n)) /\ Cardinality(OfBucket(b, M)) \in Nat
      /\ Cardinality(OfBucket(b, M) \cup Block(s, n)) = Cardinality(OfBucket(b, M)) + TxCount[s][n]
  BY <1>1, <1>5, <1>6, UnionSize
<1>8. Cardinality(OfBucket(b, N)) \in Nat
      /\ Cardinality(OfBucket(b, M) \cup Block(s, n)) <= Cardinality(OfBucket(b, N))
  BY <1>1, <1>4, FS_Subset, FS_CardinalityType
<1>9. TxCount[s][n] \in Nat
  BY BlocksOK
<1> QED BY <1>7, <1>8, <1>9

-----------------------------------------------------------------------------
\* Loop l has the block it is at in its walk.
OnBlock(l) == l.pc \in {"buckets", "total", "base"}
Walking(l) == l.pc = "block" \/ OnBlock(l)

\* A loop does not walk past the end, and works on blocks there are.
WithinEnd ==
    \A r \in Runs, s \in Shards :
        /\ Walking(loop[r][s]) => loop[r][s].nonce <= loop[r][s].end
        /\ OnBlock(loop[r][s]) => loop[r][s].nonce > 0

\* Loop l has added the block n, whose nonce is not saved yet, to the bucket of frequency f.
Adding(l, n, f) == l.pc = "buckets" /\ n = l.nonce /\ f \notin l.freqs

\* Loop l has added block n, of a shard of which these are cut off, to the bucket of
\* frequency f, or found it added when it began.
Past(l, n, f, cut) ==
    \/ Walking(l) /\ n < l.nonce /\ n \notin cut
    \/ Adding(l, n, f)
    \/ l.pc \in {"total", "base"} /\ n = l.nonce

\* Block n of shard s is known to be in its bucket of frequency f.
Counted(s, n, f) == n \in Walked(s) \/ \E r \in Runs : Past(loop[r][s], n, f, skipped[s])
CountedFor(f) == [s \in Shards |-> {n \in NoncesOf(s) : Counted(s, n, f)}]

\* What is known to be in a bucket is there.
AtLeastCounted == \A b \in Buckets : bucket[b] >= Cardinality(OfBucket(b, CountedFor(b[2])))

\* Only one run has loops at work.
Single == \A r, q \in Runs, s, u \in Shards : Active(r, s) /\ Active(q, u) => r = q

(***************************************************************************)
(* If runs do not overlap: a loop l on shard s, whose saved nonce and      *)
(* total these are, works on blocks that are not saved yet until it saves  *)
(* their nonce, and the total is that of blocks before, or of this one     *)
(* alone.                                                                  *)
(***************************************************************************)
AheadOf(l, s, nonce, count) ==
    /\ l.pc = "block" /\ l.nonce > 0 => l.nonce > nonce
    /\ l.pc = "buckets" => l.nonce > nonce
    /\ l.pc \in {"total", "base"} => l.nonce = nonce
    /\ l.pc = "total" => count <= Cardinality(Transactions(s, 1..(l.nonce - 1)))
    /\ l.pc = "base" => count <= TxCount[s][l.nonce]

Ahead == \A r \in Runs, s \in Shards : AheadOf(loop[r][s], s, saved[s], total[s])

TotalBelow == \A s \in Shards : total[s] <= Cardinality(Transactions(s, 1..saved[s]))

\* Block n of shard s may be in its bucket of frequency f.
MayBeIn(s, n, f) == n <= saved[s] \/ \E r \in Runs : Adding(loop[r][s], n, f)
MayBeInFor(f) == [s \in Shards |-> {n \in NoncesOf(s) : MayBeIn(s, n, f)}]

\* Nothing else is in a bucket.
AtMostOnce == \A b \in Buckets : bucket[b] <= Cardinality(OfBucket(b, MayBeInFor(b[2])))

Inv ==
    /\ TypeOK
    /\ WithinEnd
    /\ AtLeastCounted
    /\ overlapped = FALSE => Single /\ Ahead /\ TotalBelow
    /\ overlapped = FALSE /\ crashes = 0 => AtMostOnce

-----------------------------------------------------------------------------
\* A bucket is a timestamp and a frequency.
LEMMA BucketOK ==
    ASSUME NEW b \in Buckets
    PROVE  b[2] \in Frequencies /\ b = <<b[1], b[2]>>
  BY DEF Buckets

\* The sets of nonces the invariant speaks of are ones of blocks there are.
LEMMA SetsOK ==
    ASSUME NEW f
    PROVE  /\ CountedFor(f) \in NonceSets /\ CountedFor(f)' \in NonceSets
           /\ MayBeInFor(f) \in NonceSets /\ MayBeInFor(f)' \in NonceSets
<1>1. \A s \in Shards : NoncesOf(s) \subseteq Nat
  BY BlocksOK DEF NoncesOf
<1> QED BY <1>1 DEF CountedFor, MayBeInFor, NonceSets

\* A step that makes no block known to be in a bucket, and keeps the buckets.
LEMMA NoneCounted ==
    ASSUME Inv, bucket' = bucket,
           \A s \in Shards, f \in Frequencies : \A n \in NoncesOf(s) : Counted(s, n, f)' => Counted(s, n, f)
    PROVE  AtLeastCounted'
<1> SUFFICES ASSUME NEW b \in Buckets PROVE bucket'[b] >= Cardinality(OfBucket(b, CountedFor(b[2])'))
  BY DEF AtLeastCounted
<1>1. PICK f \in Frequencies : f = b[2]
  BY BucketOK
<1>2. PICK N \in NonceSets : N = CountedFor(f)'
  BY SetsOK
<1>3. PICK M \in NonceSets : M = CountedFor(f)
  BY SetsOK
<1>4. \A s \in Shards : For(b, N, s) \subseteq M[s]
  BY <1>2, <1>3 DEF For, CountedFor
<1>5. /\ Cardinality(OfBucket(b, N)) \in Nat /\ Cardinality(OfBucket(b, M)) \in Nat
      /\ Cardinality(OfBucket(b, N)) <= Cardinality(OfBucket(b, M))
  BY <1>4, MoreInBucket
<1>6. bucket[b] \in Nat /\ bucket[b] >= Cardinality(OfBucket(b, M))
  BY <1>1, <1>3 DEF Inv, TypeOK, AtLeastCounted
<1> QED BY <1>1, <1>2, <1>5, <1>6

\* A step after which all that may be in a bucket still may, and that keeps the buckets.
LEMMA NoneAdded ==
    ASSUME Inv, bucket' = bucket, AtMostOnce,
           \A s \in Shards, f \in Frequencies : \A n \in NoncesOf(s) : MayBeIn(s, n, f) => MayBeIn(s, n, f)'
    PROVE  AtMostOnce'
<1> SUFFICES ASSUME NEW b \in Buckets PROVE bucket'[b] <= Cardinality(OfBucket(b, MayBeInFor(b[2])'))
  BY DEF AtMostOnce
<1>1. PICK f \in Frequencies : f = b[2]
  BY BucketOK
<1>2. PICK N \in NonceSets : N = MayBeInFor(f)'
  BY SetsOK
<1>3. PICK M \in NonceSets : M = MayBeInFor(f)
  BY SetsOK
<1>4. \A s \in Shards : For(b, M, s) \subseteq N[s]
  BY <1>2, <1>3 DEF For, MayBeInFor
<1>5. /\ Cardinality(OfBucket(b, N)) \in Nat /\ Cardinality(OfBucket(b, M)) \in Nat
      /\ Cardinality(OfBucket(b, M)) <= Cardinality(OfBucket(b, N))
  BY <1>4, MoreInBucket
<1>6. bucket[b] \in Nat /\ bucket[b] <= Cardinality(OfBucket(b, M))
  BY <1>1, <1>3 DEF Inv, TypeOK, AtMostOnce
<1> QED BY <1>1, <1>2, <1>5, <1>6

\* The record of the loop of run r on shard s becomes l, and no other loop moves.
Becomes(r, s, l) == loop' = [loop EXCEPT ![r] = [loop[r] EXCEPT ![s] = l]]

\* The function of the loops after such a step.
LEMMA Moves ==
    ASSUME TypeOK, NEW r \in Runs, NEW s \in Shards, NEW l \in LoopType, Becomes(r, s, l)
    PROVE  /\ loop' \in [Runs -> [Shards -> LoopType]]
           /\ loop'[r][s] = l
           /\ \A q \in Runs, u \in Shards : q # r \/ u # s => loop'[q][u] = loop[q][u]
<1>1. loop[r] \in [Shards -> LoopType]
  BY DEF TypeOK
<1> DEFINE m == [loop[r] EXCEPT ![s] = l]
<1>2. m \in [Shards -> LoopType] /\ m[s] = l /\ \A u \in Shards \ {s} : m[u] = loop[r][u]
  BY <1>1
<1> HIDE DEF m
<1> QED BY <1>2 DEF TypeOK, Becomes, m


\* A step in which shard s alone may get another saved nonce, total and set of skipped blocks.
StaysIn(s) ==
    /\ UNCHANGED <<height, overlapped, crashes>>
    /\ bucket' \in [Buckets -> Nat]
    /\ lock' \in Runs \cup {NoRun} /\ failures' \in 0..MaxTroubles
    /\ saved' \in [Shards -> Nat] /\ total' \in [Shards -> Nat] /\ skipped' \in [Shards -> SUBSET Nat]
    /\ \A u \in Shards \ {s} : saved'[u] = saved[u] /\ total'[u] = total[u] /\ skipped'[u] = skipped[u]
    /\ saved'[s] <= LastNonce(s) /\ skipped[s] \subseteq skipped'[s]

\* One that keeps the buckets, too.
OnlyOf(s) == UNCHANGED bucket /\ StaysIn(s)

\* The walk of loop l is one of blocks of shard s.
InRange(l, s) ==
    /\ l.end <= LastNonce(s) /\ (l.nonce # 0 => l.nonce \in (1 - LookBehind)..(LastNonce(s) + 1))
    /\ Walking(l) => l.nonce <= l.end
    /\ OnBlock(l) => l.nonce > 0

\* What loop l is past, or what is walked now, was known to be in the buckets before.
NoneNew(l, s) ==
    \A f \in Frequencies, n \in NoncesOf(s) :
        Past(l, n, f, skipped'[s]) \/ n \in (1..saved'[s]) \ skipped'[s] => Counted(s, n, f)

\* What loop k may have added, its successor l may have added, or the nonce is saved.
NoneLost(k, l, s) ==
    /\ saved[s] <= saved'[s]
    /\ \A f \in Frequencies, n \in NoncesOf(s) : Adding(k, n, f) => n <= saved'[s] \/ Adding(l, n, f)

\* A step of a loop to the record l, but for what it means for the buckets.
LEMMA LoopRest ==
    ASSUME Inv, NEW r \in Runs, NEW s \in Shards, Active(r, s), NEW l \in LoopType,
           Becomes(r, s, l), StaysIn(s), InRange(l, s),
           overlapped = FALSE => AheadOf(l, s, saved'[s], total'[s]),
           overlapped = FALSE => total'[s] <= Cardinality(Transactions(s, 1..saved'[s]))
    PROVE  /\ loop'[r][s] = l
           /\ \A q \in Runs, u \in Shards : q # r \/ u # s => loop'[q][u] = loop[q][u]
           /\ TypeOK' /\ WithinEnd'
           /\ overlapped' = FALSE => Single' /\ Ahead' /\ TotalBelow'
<1>0. TypeOK
  BY DEF Inv
<1>1. /\ loop' \in [Runs -> [Shards -> LoopType]]
      /\ loop'[r][s] = l
      /\ \A q \in Runs, u \in Shards : q # r \/ u # s => loop'[q][u] = loop[q][u]
  BY <1>0, Moves, Zenon
<1>2. TypeOK'
  <2>1. \A u \in Shards : height'[u] <= LastNonce(u) /\ saved'[u] <= LastNonce(u)
    BY DEF Inv, TypeOK, StaysIn
  <2>2. \A q \in Runs, u \in Shards :
           /\ loop'[q][u].end <= LastNonce(u)
           /\ loop'[q][u].nonce # 0 => loop'[q][u].nonce \in (1 - LookBehind)..(LastNonce(u) + 1)
    BY <1>1 DEF Inv, TypeOK, InRange
  <2>3. \A u \in Shards : LastNonce(u)' = LastNonce(u)
    BY DEF LastNonce
  <2> QED BY <1>1, <2>1, <2>2, <2>3 DEF Inv, TypeOK, StaysIn
<1>3. WithinEnd'
  <2> SUFFICES ASSUME NEW q \in Runs, NEW u \in Shards
               PROVE  /\ Walking(loop'[q][u]) => loop'[q][u].nonce <= loop'[q][u].end
                      /\ OnBlock(loop'[q][u]) => loop'[q][u].nonce > 0
    BY DEF WithinEnd, Walking, OnBlock
  <2>1. CASE q = r /\ u = s
    BY <1>1, <2>1 DEF InRange
  <2>2. CASE q # r \/ u # s
    BY <1>1, <2>2 DEF Inv, WithinEnd
  <2> QED BY <2>1, <2>2
<1>4. ASSUME overlapped' = FALSE PROVE Single' /\ Ahead' /\ TotalBelow'
  <2>0. overlapped = FALSE /\ Single /\ Ahead /\ TotalBelow
    BY <1>4 DEF Inv, StaysIn
  <2>1. \A q \in Runs, u \in Shards : Active(q, u)' => Active(q, u)
    BY <1>1 DEF Active
  <2>2. Single'
    BY <2>0, <2>1 DEF Single
  <2>3. Ahead'
    <3> SUFFICES ASSUME NEW q \in Runs, NEW u \in Shards
                 PROVE  AheadOf(loop'[q][u], u, saved'[u], total'[u])
      BY DEF Ahead, AheadOf
    <3>1. CASE q = r /\ u = s
      BY <1>1, <2>0, <3>1
    <3>2. CASE u # s
      BY <1>1, <2>0, <3>2 DEF Ahead, StaysIn
    <3>3. CASE q # r /\ u = s
      <4>1. ~Active(q, s)
        BY <2>0, <3>3 DEF Single
      <4>2. loop'[q][s].pc \in {"off", "done"}
        BY <1>1, <3>3, <4>1 DEF Active
      <4> QED BY <3>3, <4>2 DEF AheadOf
    <3> QED BY <3>1, <3>2, <3>3
  <2>4. TotalBelow'
    BY <2>0 DEF TotalBelow, StaysIn
  <2> QED BY <2>2, <2>3, <2>4
<1> QED BY <1>1, <1>2, <1>3, <1>4

\* A step of a loop to the record l that keeps the buckets.
LEMMA LoopOK ==
    ASSUME Inv, NEW r \in Runs, NEW s \in Shards, Active(r, s), NEW l \in LoopType,
           Becomes(r, s, l), OnlyOf(s), InRange(l, s), NoneNew(l, s),
           overlapped = FALSE => AheadOf(l, s, saved'[s], total'[s]),
           overlapped = FALSE => total'[s] <= Cardinality(Transactions(s, 1..saved'[s])),
           overlapped = FALSE => NoneLost(loop[r][s], l, s)
    PROVE  Inv'
<1>1. /\ loop'[r][s] = l
      /\ \A q \in Runs, u \in Shards : q # r \/ u # s => loop'[q][u] = loop[q][u]
      /\ TypeOK' /\ WithinEnd'
      /\ overlapped' = FALSE => Single' /\ Ahead' /\ TotalBelow'
  BY LoopRest DEF OnlyOf
<1>4. AtLeastCounted'
  <2> SUFFICES ASSUME NEW u \in Shards, NEW f \in Frequencies, NEW n \in NoncesOf(u), Counted(u, n, f)'
               PROVE  Counted(u, n, f)
    BY NoneCounted DEF OnlyOf, StaysIn
  <2>1. CASE u = s
    <3>1. CASE n \in Walked(u)' \/ Past(loop'[r][s], n, f, skipped'[s])
      BY <1>1, <2>1, <3>1 DEF Walked, NoneNew
    <3>2. CASE \E q \in Runs \ {r} : Past(loop'[q][s], n, f, skipped'[s])
      <4> PICK q \in Runs \ {r} : Past(loop'[q][s], n, f, skipped'[s])
        BY <3>2
      <4>1. Past(loop[q][s], n, f, skipped'[s])
        BY <1>1
      <4>2. Past(loop[q][s], n, f, skipped[s])
        BY <4>1 DEF Past, OnlyOf, StaysIn
      <4> QED BY <2>1, <4>2 DEF Counted
    <3> QED BY <2>1, <3>1, <3>2 DEF Counted
  <2>2. CASE u # s
    <3>1. Walked(u)' = Walked(u)
      BY <2>2 DEF Walked, OnlyOf, StaysIn
    <3>2. \A q \in Runs : Past(loop'[q][u], n, f, skipped'[u]) => Past(loop[q][u], n, f, skipped[u])
      BY <1>1, <2>2 DEF OnlyOf, StaysIn
    <3> QED BY <3>1, <3>2 DEF Counted
  <2> QED BY <2>1, <2>2
<1>5. ASSUME overlapped' = FALSE, crashes' = 0 PROVE AtMostOnce'
  <2>0. overlapped = FALSE /\ AtMostOnce
    BY <1>5 DEF Inv, OnlyOf, StaysIn
  <2> SUFFICES ASSUME NEW u \in Shards, NEW f \in Frequencies, NEW n \in NoncesOf(u), MayBeIn(u, n, f)
               PROVE  MayBeIn(u, n, f)'
    BY <2>0, NoneAdded DEF OnlyOf, StaysIn
  <2>1. saved[u] \in Nat /\ saved'[u] \in Nat /\ saved[u] <= saved'[u] /\ n \in Nat
    <3>1. n \in Nat
      BY BlocksOK DEF NoncesOf
    <3>2. saved[u] \in Nat /\ saved'[u] \in Nat
      BY DEF Inv, TypeOK, OnlyOf, StaysIn
    <3>3. saved[u] <= saved'[u]
      <4>1. CASE u = s
        BY <2>0, <4>1 DEF NoneLost
      <4>2. CASE u # s
        BY <3>2, <4>2 DEF OnlyOf, StaysIn
      <4> QED BY <4>1, <4>2
    <3> QED BY <3>1, <3>2, <3>3
  <2>2. CASE n <= saved[u]
    BY <2>1, <2>2 DEF MayBeIn
  <2>3. CASE \E q \in Runs : Adding(loop[q][u], n, f)
    <3> PICK q \in Runs : Adding(loop[q][u], n, f)
      BY <2>3
    <3>1. CASE q = r /\ u = s
      BY <1>1, <2>0, <3>1 DEF MayBeIn, NoneLost
    <3>2. CASE q # r \/ u # s
      BY <1>1, <3>2 DEF MayBeIn
    <3> QED BY <3>1, <3>2
  <2> QED BY <2>2, <2>3 DEF MayBeIn
<1> QED BY <1>1, <1>4, <1>5 DEF Inv

-----------------------------------------------------------------------------
\* The record that a step gives to the loop of run r on shard s.
LEMMA GoToIs ==
    ASSUME TypeOK, NEW r \in Runs, NEW s \in Shards, NEW n \in Int,
           loop' = GoTo(r, s, n)
    PROVE  \E l \in LoopType :
              /\ Becomes(r, s, l)
              /\ l.pc = (IF n <= loop[r][s].end THEN "block" ELSE "done") /\ l.nonce = n /\ l.end = loop[r][s].end
<1> DEFINE p == IF n <= loop[r][s].end THEN "block" ELSE "done"
           l == [loop[r][s] EXCEPT !.nonce = n, !.pc = p, !.freqs = {}]
<1>0. loop \in [Runs -> [Shards -> LoopType]] /\ loop[r] \in [Shards -> LoopType] /\ loop[r][s] \in LoopType
  BY DEF TypeOK
<1>1. p \in {"block", "done"} /\ loop' = [loop EXCEPT ![r][s].nonce = n, ![r][s].pc = p, ![r][s].freqs = {}]
  BY DEF GoTo
<1> HIDE DEF p
<1>2. l \in LoopType /\ l.pc = p /\ l.nonce = n /\ l.end = loop[r][s].end
  BY <1>0, <1>1 DEF LoopType
<1>3. Becomes(r, s, l)
  <2> DEFINE With(k) == [loop EXCEPT ![r] = [loop[r] EXCEPT ![s] = k]]
             l1 == [loop[r][s] EXCEPT !.nonce = n]
             l2 == [l1 EXCEPT !.pc = p]
             l3 == [l2 EXCEPT !.freqs = {}]
  <2>1. \A k : With(k)[r][s] = k
    BY <1>0
  <2>2. \A k, m : [With(k) EXCEPT ![r][s] = m] = With(m)
    BY <1>0
  <2>3. [loop EXCEPT ![r][s].nonce = n] = With(l1)
    BY <1>0
  <2>4. [With(l1) EXCEPT ![r][s].pc = p] = With(l2)
    <3> HIDE DEF With, l1
    <3>1. [With(l1) EXCEPT ![r][s].pc = p] = [With(l1) EXCEPT ![r][s] = [With(l1)[r][s] EXCEPT !.pc = p]]
      OBVIOUS
    <3> QED BY <2>1, <2>2, <3>1
  <2>5. [With(l2) EXCEPT ![r][s].freqs = {}] = With(l3)
    <3> HIDE DEF With, l2
    <3>1. [With(l2) EXCEPT ![r][s].freqs = {}] = [With(l2) EXCEPT ![r][s] = [With(l2)[r][s] EXCEPT !.freqs = {}]]
      OBVIOUS
    <3> QED BY <2>1, <2>2, <3>1
  <2>6. loop' = With(l3)
    BY <1>1, <2>3, <2>4, <2>5
  <2>7. l3 = l
    OBVIOUS
  <2> QED BY <2>6, <2>7 DEF Becomes
<1> HIDE DEF l
<1> QED BY <1>2, <1>3 DEF p

\* The same for the steps after the buckets,
LEMMA PcIs ==
    ASSUME TypeOK, NEW r \in Runs, NEW s \in Shards, NEW p \in {"total", "base"},
           loop' = [loop EXCEPT ![r][s].pc = p]
    PROVE  \E l \in LoopType :
              /\ Becomes(r, s, l)
              /\ l.pc = p /\ l.nonce = loop[r][s].nonce /\ l.end = loop[r][s].end
<1> DEFINE l == [loop[r][s] EXCEPT !.pc = p]
<1>0. loop \in [Runs -> [Shards -> LoopType]] /\ loop[r] \in [Shards -> LoopType] /\ loop[r][s] \in LoopType
  BY DEF TypeOK
<1>2. l \in LoopType /\ l.pc = p /\ l.nonce = loop[r][s].nonce /\ l.end = loop[r][s].end
  BY <1>0 DEF LoopType
<1>3. Becomes(r, s, l)
  BY <1>0 DEF Becomes
<1> HIDE DEF l
<1> QED BY <1>2, <1>3

\* getEndNonce,
LEMMA StartIs ==
    ASSUME TypeOK, NEW r \in Runs, NEW s \in Shards, NEW e \in Nat,
           loop' = [loop EXCEPT ![r][s].pc = "start", ![r][s].end = e]
    PROVE  \E l \in LoopType :
              /\ Becomes(r, s, l)
              /\ l.pc = "start" /\ l.nonce = loop[r][s].nonce /\ l.end = e
<1> DEFINE l == [loop[r][s] EXCEPT !.pc = "start", !.end = e]
<1>0. loop \in [Runs -> [Shards -> LoopType]] /\ loop[r] \in [Shards -> LoopType] /\ loop[r][s] \in LoopType
  BY DEF TypeOK
<1>2. l \in LoopType /\ l.pc = "start" /\ l.nonce = loop[r][s].nonce /\ l.end = e
  BY <1>0 DEF LoopType
<1>3. Becomes(r, s, l)
  BY <1>0 DEF Becomes
<1> HIDE DEF l
<1> QED BY <1>2, <1>3

\* getBlockByShardAndNonce
LEMMA BucketsIs ==
    ASSUME TypeOK, NEW r \in Runs, NEW s \in Shards,
           loop' = [loop EXCEPT ![r][s].pc = "buckets", ![r][s].freqs = Frequencies]
    PROVE  \E l \in LoopType :
              /\ Becomes(r, s, l)
              /\ l.pc = "buckets" /\ l.nonce = loop[r][s].nonce /\ l.end = loop[r][s].end /\ l.freqs = Frequencies
<1> DEFINE l == [loop[r][s] EXCEPT !.pc = "buckets", !.freqs = Frequencies]
<1>0. loop \in [Runs -> [Shards -> LoopType]] /\ loop[r] \in [Shards -> LoopType] /\ loop[r][s] \in LoopType
  BY DEF TypeOK
<1>2. l \in LoopType /\ l.pc = "buckets" /\ l.nonce = loop[r][s].nonce /\ l.end = loop[r][s].end /\ l.freqs = Frequencies
  BY <1>0 DEF LoopType
<1>3. Becomes(r, s, l)
  BY <1>0 DEF Becomes
<1> HIDE DEF l
<1> QED BY <1>2, <1>3

\* and saveTps.
LEMMA FreqsIs ==
    ASSUME TypeOK, NEW r \in Runs, NEW s \in Shards, NEW F \in SUBSET Frequencies,
           loop' = [loop EXCEPT ![r][s].freqs = F]
    PROVE  \E l \in LoopType :
              /\ Becomes(r, s, l)
              /\ l.pc = loop[r][s].pc /\ l.nonce = loop[r][s].nonce /\ l.end = loop[r][s].end /\ l.freqs = F
<1> DEFINE l == [loop[r][s] EXCEPT !.freqs = F]
<1>0. loop \in [Runs -> [Shards -> LoopType]] /\ loop[r] \in [Shards -> LoopType] /\ loop[r][s] \in LoopType
  BY DEF TypeOK
<1>2. l \in LoopType /\ l.pc = loop[r][s].pc /\ l.nonce = loop[r][s].nonce /\ l.end = loop[r][s].end /\ l.freqs = F
  BY <1>0 DEF LoopType
<1>3. Becomes(r, s, l)
  BY <1>0 DEF Becomes
<1> HIDE DEF l
<1> QED BY <1>2, <1>3

-----------------------------------------------------------------------------
\* What the invariant says of the numbers of one loop.
LEMMA LoopFacts ==
    ASSUME Inv, NEW r \in Runs, NEW s \in Shards
    PROVE  /\ LookBehind \in Nat /\ LastNonce(s) \in Nat
           /\ saved[s] \in Nat /\ saved[s] <= LastNonce(s) /\ total[s] \in Nat
           /\ loop[r][s].end \in Nat /\ loop[r][s].end <= LastNonce(s)
           /\ loop[r][s].nonce \in Int /\ loop[r][s].freqs \in SUBSET Frequencies
           /\ loop[r][s].nonce # 0 => loop[r][s].nonce \in (1 - LookBehind)..(LastNonce(s) + 1)
           /\ Walking(loop[r][s]) => loop[r][s].nonce <= loop[r][s].end
           /\ OnBlock(loop[r][s]) => loop[r][s].nonce > 0
<1>1. loop[r][s] \in LoopType
  BY DEF Inv, TypeOK
<1>2. LookBehind \in Nat /\ LastNonce(s) \in Nat
  BY BlocksOK, TpsAssumption
<1>3. loop[r][s].end \in Nat /\ loop[r][s].nonce \in Int /\ loop[r][s].freqs \in SUBSET Frequencies
  BY <1>1 DEF LoopType
<1>4. /\ saved[s] \in Nat /\ saved[s] <= LastNonce(s) /\ total[s] \in Nat
      /\ loop[r][s].end <= LastNonce(s)
      /\ loop[r][s].nonce # 0 => loop[r][s].nonce \in (1 - LookBehind)..(LastNonce(s) + 1)
  BY DEF Inv, TypeOK
<1>5. /\ Walking(loop[r][s]) => loop[r][s].nonce <= loop[r][s].end
      /\ OnBlock(loop[r][s]) => loop[r][s].nonce > 0
  BY DEF Inv, WithinEnd
<1> QED BY <1>2, <1>3, <1>4, <1>5

\* A step that changes nothing but loops stays in the shard.
LEMMA UnchangedOK ==
    ASSUME Inv, NEW s \in Shards, UNCHANGED <<bucket, height, overlapped, crashes>>,
           UNCHANGED <<saved, total, skipped, lock, failures>>
    PROVE  OnlyOf(s)
  BY DEF Inv, TypeOK, OnlyOf, StaysIn

\* getEndNonce keeps the invariant.
LEMMA GetEndNonceOK ==
    ASSUME Inv, NEW r \in Runs, NEW s \in Shards, GetEndNonce(r, s)
    PROVE  Inv'
<1>0. /\ loop[r][s].pc = "end" /\ Active(r, s) /\ TypeOK
      /\ UNCHANGED <<bucket, height, overlapped, crashes>> /\ UNCHANGED <<saved, total, skipped, lock, failures>>
  BY DEF GetEndNonce, Active, Inv
<1>1. height[s] \in Nat /\ height[s] <= LastNonce(s)
  BY DEF Inv, TypeOK
<1>2. loop' = [loop EXCEPT ![r][s].pc = "start", ![r][s].end = height[s]]
  BY DEF GetEndNonce
<1>3. PICK l \in LoopType : Becomes(r, s, l) /\ l.pc = "start" /\ l.nonce = loop[r][s].nonce /\ l.end = height[s]
  BY <1>0, <1>1, <1>2, StartIs, Zenon
<1>4. InRange(l, s)
  BY <1>1, <1>3, LoopFacts DEF InRange, Walking, OnBlock
<1>5. NoneNew(l, s)
  BY <1>0, <1>3 DEF NoneNew, Past, Walking, OnBlock, Adding, Counted, Walked
<1>6. AheadOf(l, s, saved'[s], total'[s])
  BY <1>3 DEF AheadOf
<1>7. overlapped = FALSE => total'[s] <= Cardinality(Transactions(s, 1..saved'[s]))
  BY <1>0 DEF Inv, TotalBelow
<1>8. NoneLost(loop[r][s], l, s)
  BY <1>0, LoopFacts DEF NoneLost, Adding
<1> QED BY <1>0, <1>3, <1>4, <1>5, <1>6, <1>7, <1>8, UnchangedOK, LoopOK, Zenon


\* getStartNonce keeps the invariant: what it goes past is walked or cut off.
LEMMA GetStartNonceOK ==
    ASSUME Inv, NEW r \in Runs, NEW s \in Shards, GetStartNonce(r, s)
    PROVE  Inv'
<1> DEFINE e == loop[r][s].end
           n == StartNonce(s, e) + 1
<1>0. /\ loop[r][s].pc = "start" /\ Active(r, s) /\ TypeOK
      /\ UNCHANGED <<bucket, height, overlapped, crashes, saved, total, lock, failures>>
      /\ skipped' = [skipped EXCEPT ![s] = @ \cup ((saved[s] + 1)..(e - LookBehind))]
      /\ loop' = GoTo(r, s, n)
  BY DEF GetStartNonce, Active, Inv
<1>1. /\ e \in Nat /\ e <= LastNonce(s) /\ saved[s] \in Nat /\ saved[s] <= LastNonce(s)
      /\ LookBehind \in Nat /\ LastNonce(s) \in Nat
  BY LoopFacts
<1>2. /\ n \in Int /\ n \in (1 - LookBehind)..(LastNonce(s) + 1)
      /\ n > saved[s] \/ (saved[s] = 0 /\ n <= 0)
      /\ n = saved[s] + 1 \/ n = e - LookBehind + 1
  BY <1>1 DEF StartNonce
<1> HIDE DEF n, e
<1>3. PICK l \in LoopType : Becomes(r, s, l) /\ l.pc = (IF n <= e THEN "block" ELSE "done") /\ l.nonce = n /\ l.end = e
  <2>1. \E l \in LoopType : /\ Becomes(r, s, l)
                           /\ l.pc = (IF n <= loop[r][s].end THEN "block" ELSE "done")
                           /\ l.nonce = n /\ l.end = loop[r][s].end
    BY <1>0, <1>2, GoToIs
  <2> QED BY <2>1 DEF e
<1>4. InRange(l, s)
  BY <1>1, <1>2, <1>3 DEF InRange, Walking, OnBlock
<1>5. skipped' \in [Shards -> SUBSET Nat] /\ skipped'[s] = skipped[s] \cup ((saved[s] + 1)..(e - LookBehind))
      /\ \A u \in Shards \ {s} : skipped'[u] = skipped[u]
  BY <1>0, <1>1 DEF TypeOK
<1>6. OnlyOf(s)
  BY <1>0, <1>1, <1>5 DEF OnlyOf, StaysIn, TypeOK
<1>7. NoneNew(l, s)
  <2> SUFFICES ASSUME NEW f \in Frequencies, NEW m \in NoncesOf(s),
                      Past(l, m, f, skipped'[s]) \/ m \in (1..saved'[s]) \ skipped'[s]
               PROVE  Counted(s, m, f)
    BY DEF NoneNew
  <2>1. m \in Nat /\ m > 0
    BY <1>1 DEF NoncesOf
  <2>2. CASE m \in (1..saved'[s]) \ skipped'[s]
    BY <1>0, <1>5, <2>2 DEF Counted, Walked
  <2>3. CASE Past(l, m, f, skipped'[s])
    <3>1. m < n /\ m \notin skipped'[s]
      BY <1>3, <2>3 DEF Past, Walking, OnBlock, Adding
    <3>2. m <= saved[s] /\ m \notin skipped[s]
      BY <1>1, <1>2, <1>5, <2>1, <3>1
    <3> QED BY <1>1, <2>1, <3>2 DEF Counted, Walked
  <2> QED BY <2>2, <2>3
<1>8. AheadOf(l, s, saved'[s], total'[s])
  BY <1>0, <1>1, <1>2, <1>3 DEF AheadOf
<1>9. overlapped = FALSE => total'[s] <= Cardinality(Transactions(s, 1..saved'[s]))
  BY <1>0 DEF Inv, TotalBelow
<1>10. NoneLost(loop[r][s], l, s)
  BY <1>0, <1>1 DEF NoneLost, Adding
<1> QED BY <1>0, <1>3, <1>4, <1>6, <1>7, <1>8, <1>9, <1>10, LoopOK, Zenon

\* getBlockByShardAndNonce keeps the invariant.
LEMMA GetBlockOK ==
    ASSUME Inv, NEW r \in Runs, NEW s \in Shards, GetBlock(r, s)
    PROVE  Inv'
<1>0. /\ loop[r][s].pc = "block" /\ loop[r][s].nonce > 0 /\ Active(r, s) /\ TypeOK
      /\ UNCHANGED <<bucket, height, overlapped, crashes>> /\ UNCHANGED <<saved, total, skipped, lock, failures>>
      /\ loop' = [loop EXCEPT ![r][s].pc = "buckets", ![r][s].freqs = Frequencies]
  BY DEF GetBlock, Active, Inv
<1>1. PICK l \in LoopType : /\ Becomes(r, s, l) /\ l.pc = "buckets" /\ l.nonce = loop[r][s].nonce
                            /\ l.end = loop[r][s].end /\ l.freqs = Frequencies
  BY <1>0, BucketsIs, Zenon
<1>2. InRange(l, s)
  BY <1>0, <1>1, LoopFacts DEF InRange, Walking, OnBlock
<1>3. NoneNew(l, s)
  <2> SUFFICES ASSUME NEW f \in Frequencies, NEW m \in NoncesOf(s),
                      Past(l, m, f, skipped'[s]) \/ m \in (1..saved'[s]) \ skipped'[s]
               PROVE  Counted(s, m, f)
    BY DEF NoneNew
  <2>1. Past(l, m, f, skipped'[s]) => Past(loop[r][s], m, f, skipped[s])
    BY <1>0, <1>1 DEF Past, Walking, OnBlock, Adding
  <2> QED BY <1>0, <2>1 DEF Counted, Walked
<1>4. overlapped = FALSE => AheadOf(l, s, saved'[s], total'[s])
  <2>1. overlapped = FALSE => AheadOf(loop[r][s], s, saved[s], total[s])
    BY DEF Inv, Ahead
  <2> QED BY <1>0, <1>1, <2>1 DEF AheadOf
<1>5. overlapped = FALSE => total'[s] <= Cardinality(Transactions(s, 1..saved'[s]))
  BY <1>0 DEF Inv, TotalBelow
<1>6. NoneLost(loop[r][s], l, s)
  BY <1>0, LoopFacts DEF NoneLost, Adding
<1> QED BY <1>0, <1>1, <1>2, <1>3, <1>4, <1>5, <1>6, UnchangedOK, LoopOK, Zenon


\* Saving the nonce keeps the invariant: its block is in all buckets, and in no total yet.
LEMMA SaveNonceOK ==
    ASSUME Inv, NEW r \in Runs, NEW s \in Shards, SaveNonce(r, s)
    PROVE  Inv'
<1> DEFINE n == loop[r][s].nonce
<1>0. /\ loop[r][s].pc = "buckets" /\ loop[r][s].freqs = {} /\ Active(r, s) /\ TypeOK
      /\ UNCHANGED <<bucket, height, overlapped, crashes, total, skipped, lock, failures>>
      /\ saved' = [saved EXCEPT ![s] = n]
      /\ loop' = [loop EXCEPT ![r][s].pc = "total"]
  BY DEF SaveNonce, Active, Inv
<1>1. /\ n \in Nat /\ n > 0 /\ n <= loop[r][s].end /\ n <= LastNonce(s) /\ LastNonce(s) \in Nat
      /\ loop[r][s].end \in Nat /\ loop[r][s].end <= LastNonce(s) /\ saved[s] \in Nat
  BY <1>0, LoopFacts DEF Walking, OnBlock
<1>2. saved' \in [Shards -> Nat] /\ saved'[s] = n /\ \A u \in Shards \ {s} : saved'[u] = saved[u]
  BY <1>0, <1>1 DEF TypeOK
<1>3. PICK l \in LoopType : Becomes(r, s, l) /\ l.pc = "total" /\ l.nonce = loop[r][s].nonce /\ l.end = loop[r][s].end
  BY <1>0, PcIs
<1> HIDE DEF n
<1>4. InRange(l, s)
  BY <1>1, <1>3, LoopFacts DEF InRange, Walking, OnBlock, n
<1>5. OnlyOf(s)
  BY <1>0, <1>1, <1>2 DEF OnlyOf, StaysIn, TypeOK
<1>6. NoneNew(l, s)
  <2> SUFFICES ASSUME NEW f \in Frequencies, NEW m \in NoncesOf(s),
                      Past(l, m, f, skipped'[s]) \/ m \in (1..saved'[s]) \ skipped'[s]
               PROVE  Counted(s, m, f)
    BY DEF NoneNew
  <2>1. m \in Nat
    BY <1>1 DEF NoncesOf
  <2>2. (m < n /\ m \notin skipped[s]) \/ m = n
    BY <1>0, <1>1, <1>2, <1>3, <2>1 DEF Past, Walking, OnBlock, Adding, n
  <2>3. Past(loop[r][s], m, f, skipped[s])
    BY <1>0, <2>2 DEF Past, Walking, OnBlock, Adding, n
  <2> QED BY <2>3 DEF Counted
<1>7. ASSUME overlapped = FALSE
      PROVE  /\ AheadOf(l, s, saved'[s], total'[s])
             /\ total'[s] <= Cardinality(Transactions(s, 1..saved'[s]))
             /\ NoneLost(loop[r][s], l, s)
  <2>1. AheadOf(loop[r][s], s, saved[s], total[s]) /\ total[s] <= Cardinality(Transactions(s, 1..saved[s]))
    BY <1>7 DEF Inv, Ahead, TotalBelow
  <2>2. saved[s] < n
    BY <1>0, <2>1 DEF AheadOf, n
  <2>3. /\ 1..n \in SUBSET NoncesOf(s) /\ 1..(n - 1) \in SUBSET NoncesOf(s)
        /\ 1..saved[s] \in SUBSET (1..n) /\ 1..saved[s] \in SUBSET (1..(n - 1))
    BY <1>1, <2>2 DEF NoncesOf
  <2>4. /\ Cardinality(Transactions(s, 1..saved[s])) \in Nat
        /\ Cardinality(Transactions(s, 1..n)) \in Nat /\ Cardinality(Transactions(s, 1..(n - 1))) \in Nat
        /\ Cardinality(Transactions(s, 1..saved[s])) <= Cardinality(Transactions(s, 1..n))
        /\ Cardinality(Transactions(s, 1..saved[s])) <= Cardinality(Transactions(s, 1..(n - 1)))
    BY <2>3, MoreTransactions
  <2>5. total[s] \in Nat /\ total'[s] = total[s]
    BY <1>0 DEF TypeOK
  <2>6. total'[s] <= Cardinality(Transactions(s, 1..n)) /\ total'[s] <= Cardinality(Transactions(s, 1..(n - 1)))
    BY <2>1, <2>4, <2>5
  <2>7. AheadOf(l, s, saved'[s], total'[s])
    BY <1>2, <1>3, <2>6 DEF AheadOf, n
  <2>8. NoneLost(loop[r][s], l, s)
    BY <1>1, <1>2, <2>2 DEF NoneLost, Adding, n
  <2> QED BY <1>2, <2>6, <2>7, <2>8
<1> QED BY <1>0, <1>3, <1>4, <1>5, <1>6, <1>7, LoopOK, Zenon

\* A loop of pc total or base that moves on has its block in the buckets.
LEMMA NextBlock ==
    ASSUME Inv, NEW r \in Runs, NEW s \in Shards, loop[r][s].pc \in {"total", "base"}, UNCHANGED <<saved, skipped>>,
           NEW l \in LoopType, l.end = loop[r][s].end,
           \/ l.pc \in {"block", "done"} /\ l.nonce = loop[r][s].nonce + 1 /\ (l.pc = "block" => l.nonce <= l.end)
           \/ l.pc = "base" /\ l.nonce = loop[r][s].nonce
    PROVE  InRange(l, s) /\ NoneNew(l, s) /\ NoneLost(loop[r][s], l, s)
<1> DEFINE n == loop[r][s].nonce
<1>1. /\ n \in Nat /\ n > 0 /\ n <= loop[r][s].end /\ n <= LastNonce(s) /\ LastNonce(s) \in Nat
      /\ loop[r][s].end \in Nat /\ loop[r][s].end <= LastNonce(s) /\ saved[s] \in Nat /\ LookBehind \in Nat
  BY LoopFacts DEF Walking, OnBlock
<1> HIDE DEF n
<1>2. InRange(l, s)
  BY <1>1 DEF InRange, Walking, OnBlock, n
<1>3. NoneNew(l, s)
  <2> SUFFICES ASSUME NEW f \in Frequencies, NEW m \in NoncesOf(s),
                      Past(l, m, f, skipped'[s]) \/ m \in (1..saved'[s]) \ skipped'[s]
               PROVE  Counted(s, m, f)
    BY DEF NoneNew
  <2>1. m \in Nat
    BY <1>1 DEF NoncesOf
  <2>2. CASE m \in (1..saved'[s]) \ skipped'[s]
    BY <2>2 DEF Counted, Walked
  <2>3. CASE Past(l, m, f, skipped'[s])
    <3>1. (m < n /\ m \notin skipped[s]) \/ m = n
      BY <1>1, <2>1, <2>3 DEF Past, Walking, OnBlock, Adding, n
    <3>2. Past(loop[r][s], m, f, skipped[s])
      BY <3>1 DEF Past, Walking, OnBlock, n
    <3> QED BY <3>2 DEF Counted
  <2> QED BY <2>2, <2>3
<1>4. NoneLost(loop[r][s], l, s)
  BY <1>1 DEF NoneLost, Adding
<1> QED BY <1>2, <1>3, <1>4


\* What the total may be while loop l, on a block, has not moved on, and after that.
LEMMA TotalFacts ==
    ASSUME Inv, NEW r \in Runs, NEW s \in Shards, loop[r][s].pc \in {"total", "base"}
    PROVE  LET n == loop[r][s].nonce IN
           /\ n \in Nat /\ total[s] \in Nat /\ TxCount[s][n] \in Nat
           /\ Cardinality(Transactions(s, 1..(n - 1))) \in Nat
           /\ overlapped = FALSE => saved[s] = n
           /\ overlapped = FALSE =>
                 Cardinality(Transactions(s, 1..saved[s])) = Cardinality(Transactions(s, 1..(n - 1))) + TxCount[s][n]
           /\ overlapped = FALSE /\ loop[r][s].pc = "total" => total[s] <= Cardinality(Transactions(s, 1..(n - 1)))
           /\ overlapped = FALSE /\ loop[r][s].pc = "base" => total[s] <= TxCount[s][n]
<1> DEFINE n == loop[r][s].nonce
<1>1. n \in NoncesOf(s) /\ n \in Nat /\ total[s] \in Nat
  BY LoopFacts DEF NoncesOf, Walking, OnBlock
<1>2. overlapped = FALSE => AheadOf(loop[r][s], s, saved[s], total[s])
  BY DEF Inv, Ahead
<1>3. /\ overlapped = FALSE => saved[s] = n
      /\ overlapped = FALSE /\ loop[r][s].pc = "total" => total[s] <= Cardinality(Transactions(s, 1..(n - 1)))
      /\ overlapped = FALSE /\ loop[r][s].pc = "base" => total[s] <= TxCount[s][n]
  BY <1>2 DEF AheadOf
<1> HIDE DEF n
<1>4. /\ Cardinality(Transactions(s, 1..(n - 1))) \in Nat /\ TxCount[s][n] \in Nat
      /\ Cardinality(Transactions(s, 1..n)) = Cardinality(Transactions(s, 1..(n - 1))) + TxCount[s][n]
  BY <1>1, OneMoreBlock, BlocksOK
<1> QED BY <1>1, <1>3, <1>4 DEF n

\* incrementTotalTransactions keeps the invariant.
LEMMA IncrementTotalOK ==
    ASSUME Inv, NEW r \in Runs, NEW s \in Shards, IncrementTotal(r, s)
    PROVE  Inv'
<1> DEFINE n == loop[r][s].nonce
           c == TxCount[s][n]
<1>0. /\ loop[r][s].pc = "total" /\ Active(r, s) /\ TypeOK
      /\ UNCHANGED <<bucket, height, overlapped, crashes, lock, failures>> /\ UNCHANGED <<saved, skipped>>
      /\ total' = [total EXCEPT ![s] = total[s] + c]
  BY DEF IncrementTotal, Active, Inv
<1>1. /\ n \in Nat /\ total[s] \in Nat /\ c \in Nat
      /\ Cardinality(Transactions(s, 1..(n - 1))) \in Nat
      /\ overlapped = FALSE => saved[s] = n
      /\ overlapped = FALSE => Cardinality(Transactions(s, 1..saved[s])) = Cardinality(Transactions(s, 1..(n - 1))) + c
      /\ overlapped = FALSE => total[s] <= Cardinality(Transactions(s, 1..(n - 1)))
  BY <1>0, TotalFacts
<1>2. PICK l \in LoopType :
         /\ Becomes(r, s, l) /\ l.end = loop[r][s].end
         /\ \/ l.pc \in {"block", "done"} /\ l.nonce = n + 1 /\ (l.pc = "block" => l.nonce <= l.end)
            \/ l.pc = "base" /\ l.nonce = n /\ total[s] + c = c
  <2>1. CASE total[s] + c = c
    <3>1. loop' = [loop EXCEPT ![r][s].pc = "base"]
      BY <2>1 DEF IncrementTotal, IsFirstIncrement
    <3>2. \E l \in LoopType : Becomes(r, s, l) /\ l.pc = "base" /\ l.nonce = loop[r][s].nonce /\ l.end = loop[r][s].end
      BY <1>0, <3>1, PcIs
    <3> QED BY <2>1, <3>2
  <2>2. CASE total[s] + c # c
    <3>1. loop' = GoTo(r, s, n + 1)
      BY <2>2 DEF IncrementTotal, IsFirstIncrement
    <3>2. \E l \in LoopType : /\ Becomes(r, s, l)
                             /\ l.pc = (IF n + 1 <= loop[r][s].end THEN "block" ELSE "done")
                             /\ l.nonce = n + 1 /\ l.end = loop[r][s].end
      BY <1>0, <1>1, <3>1, GoToIs
    <3> QED BY <3>2
  <2> QED BY <2>1, <2>2
<1>3. InRange(l, s) /\ NoneNew(l, s) /\ NoneLost(loop[r][s], l, s)
  BY <1>0, <1>2, NextBlock
<1> HIDE DEF n, c
<1>4. total' \in [Shards -> Nat] /\ total'[s] = total[s] + c /\ \A u \in Shards \ {s} : total'[u] = total[u]
  BY <1>0, <1>1 DEF TypeOK
<1>5. OnlyOf(s)
  BY <1>0, <1>4 DEF OnlyOf, StaysIn, TypeOK
<1>6. overlapped = FALSE => total'[s] <= Cardinality(Transactions(s, 1..saved'[s]))
  BY <1>0, <1>1, <1>4
<1>7. overlapped = FALSE => AheadOf(l, s, saved'[s], total'[s])
  BY <1>0, <1>1, <1>2, <1>4 DEF AheadOf, c
<1> QED BY <1>0, <1>2, <1>3, <1>5, <1>6, <1>7, LoopOK, Zenon

\* Adding the base of a new total keeps the invariant.
LEMMA AddBaseOK ==
    ASSUME Inv, NEW r \in Runs, NEW s \in Shards, AddBase(r, s) \/ NoBaseBlock(r, s)
    PROVE  Inv'
<1> DEFINE n == loop[r][s].nonce
           c == TxCount[s][n]
           base == Cardinality(Transactions(s, 1..(n - 1)))
<1>0. /\ loop[r][s].pc = "base" /\ Active(r, s) /\ TypeOK
      /\ UNCHANGED <<bucket, height, overlapped, crashes, lock, failures>> /\ UNCHANGED <<saved, skipped>>
      /\ loop' = GoTo(r, s, n + 1)
      /\ total' = [total EXCEPT ![s] = total[s] + base] \/ total' = total
  BY DEF AddBase, NoBaseBlock, Active, Inv
<1>1. /\ n \in Nat /\ total[s] \in Nat /\ c \in Nat /\ base \in Nat
      /\ overlapped = FALSE => saved[s] = n
      /\ overlapped = FALSE => Cardinality(Transactions(s, 1..saved[s])) = base + c
      /\ overlapped = FALSE => total[s] <= c
  BY <1>0, TotalFacts
<1>2. PICK l \in LoopType :
         /\ Becomes(r, s, l) /\ l.end = loop[r][s].end
         /\ l.pc \in {"block", "done"} /\ l.nonce = n + 1 /\ (l.pc = "block" => l.nonce <= l.end)
  <2>1. \E l \in LoopType : /\ Becomes(r, s, l)
                           /\ l.pc = (IF n + 1 <= loop[r][s].end THEN "block" ELSE "done")
                           /\ l.nonce = n + 1 /\ l.end = loop[r][s].end
    BY <1>0, <1>1, GoToIs
  <2> QED BY <2>1
<1>3. InRange(l, s) /\ NoneNew(l, s) /\ NoneLost(loop[r][s], l, s)
  BY <1>0, <1>2, NextBlock
<1> HIDE DEF n, c, base
<1>4. /\ total' \in [Shards -> Nat] /\ total'[s] \in {total[s], total[s] + base}
      /\ \A u \in Shards \ {s} : total'[u] = total[u]
  BY <1>0, <1>1 DEF TypeOK
<1>5. OnlyOf(s)
  BY <1>0, <1>4 DEF OnlyOf, StaysIn, TypeOK
<1>6. overlapped = FALSE => total'[s] <= Cardinality(Transactions(s, 1..saved'[s]))
  BY <1>0, <1>1, <1>4
<1>7. overlapped = FALSE => AheadOf(l, s, saved'[s], total'[s])
  BY <1>0, <1>1, <1>2 DEF AheadOf
<1> QED BY <1>0, <1>2, <1>3, <1>5, <1>6, <1>7, LoopOK, Zenon

\* A loop that throws keeps the invariant.
LEMMA ThrowOK ==
    ASSUME Inv, NEW r \in Runs, NEW s \in Shards, GatewayFails(r, s) \/ BlockNotFound(r, s)
    PROVE  Inv'
<1>0. /\ loop[r][s].pc \in {"end", "block"} /\ Active(r, s) /\ TypeOK /\ Off \in LoopType
      /\ UNCHANGED <<bucket, height, overlapped, crashes, total>> /\ UNCHANGED <<saved, skipped>>
      /\ loop' = [loop EXCEPT ![r][s] = Off]
  BY DEF GatewayFails, BlockNotFound, Throw, Active, Inv, Off, LoopType
<1>1. lock' \in Runs \cup {NoRun} /\ failures' \in 0..MaxTroubles
  BY TpsAssumption DEF GatewayFails, BlockNotFound, Throw, Inv, TypeOK
<1>2. Becomes(r, s, Off)
  BY <1>0 DEF Becomes, TypeOK
<1>3. OnlyOf(s)
  BY <1>0, <1>1 DEF OnlyOf, StaysIn, TypeOK
<1>4. InRange(Off, s)
  BY LoopFacts DEF InRange, Off, Walking, OnBlock
<1>5. NoneNew(Off, s)
  BY <1>0 DEF NoneNew, Past, Walking, OnBlock, Adding, Counted, Walked, Off
<1>6. AheadOf(Off, s, saved'[s], total'[s])
  BY DEF AheadOf, Off
<1>7. overlapped = FALSE => total'[s] <= Cardinality(Transactions(s, 1..saved'[s]))
  BY <1>0 DEF Inv, TotalBelow
<1>8. NoneLost(loop[r][s], Off, s)
  BY <1>0, LoopFacts DEF NoneLost, Adding
<1> QED BY <1>0, <1>2, <1>3, <1>4, <1>5, <1>6, <1>7, <1>8, LoopOK, Zenon


\* The smallest of some naturals is one of them.
LEMMA MinOK ==
    ASSUME NEW S \in SUBSET Nat, S # {}
    PROVE  Min(S) \in S
<1>1. \E x \in S : \A y \in S : x <= y
  <2>1. PICK x \in S : \A y \in S : ~(<<y, x>> \in OpToRel(<, Nat))
    BY NatLessThanWellFounded, WFMin
  <2>2. \A y \in S : ~(y < x)
    BY <2>1 DEF OpToRel
  <2> QED BY <2>2
<1> QED BY <1>1 DEF Min


\* What saveTps of run r does on shard s: block n goes to its bucket b of frequency f.
LEMMA SaveTpsFacts ==
    ASSUME Inv, NEW r \in Runs, NEW s \in Shards, SaveTps(r, s)
    PROVE  \E n \in NoncesOf(s), f \in Frequencies, l \in LoopType, b \in Buckets :
              /\ n = loop[r][s].nonce /\ f \in loop[r][s].freqs /\ b = <<TimestampByFrequency(n, f), f>>
              /\ bucket' = [bucket EXCEPT ![b] = @ + TxCount[s][n]]
              /\ Becomes(r, s, l) /\ l.pc = "buckets" /\ l.nonce = n /\ l.end = loop[r][s].end
              /\ l.freqs = loop[r][s].freqs \ {f}
<1> DEFINE n == loop[r][s].nonce
           F == loop[r][s].freqs
           f == Min(F)
           b == <<TimestampByFrequency(n, f), f>>
<1>0. loop[r][s].pc = "buckets" /\ F # {} /\ TypeOK
  BY DEF SaveTps, Inv
<1>1. n \in NoncesOf(s) /\ n \in Nonces
  BY <1>0, LoopFacts, BlocksOK DEF NoncesOf, Walking, OnBlock
<1>2. F \in SUBSET Frequencies /\ F \in SUBSET Nat
  BY LoopFacts, TpsAssumption
<1>3. f \in F /\ f \in Frequencies
  BY <1>0, <1>2, MinOK
<1>4. b \in Buckets
  BY <1>1, <1>3 DEF Buckets
<1>5. bucket' = [bucket EXCEPT ![b] = @ + TxCount[s][n]] /\ loop' = [loop EXCEPT ![r][s].freqs = F \ {f}]
  BY DEF SaveTps
<1> HIDE DEF f, b
<1>6. F \ {f} \in SUBSET Frequencies
  BY <1>2
<1>7. \E l \in LoopType : /\ Becomes(r, s, l) /\ l.pc = loop[r][s].pc /\ l.nonce = loop[r][s].nonce
                         /\ l.end = loop[r][s].end /\ l.freqs = F \ {f}
  <2>1. PICK G \in SUBSET Frequencies : G = F \ {f}
    BY <1>6
  <2>2. loop' = [loop EXCEPT ![r][s].freqs = G]
    BY <1>5, <2>1
  <2>3. \E l \in LoopType : /\ Becomes(r, s, l) /\ l.pc = loop[r][s].pc /\ l.nonce = loop[r][s].nonce
                           /\ l.end = loop[r][s].end /\ l.freqs = G
    BY <1>0, <2>2, FreqsIs
  <2> QED BY <2>1, <2>3
<1> QED BY <1>0, <1>1, <1>3, <1>4, <1>5, <1>7 DEF b

\* saveTps keeps the invariant.
LEMMA SaveTpsOK ==
    ASSUME Inv, NEW r \in Runs, NEW s \in Shards, SaveTps(r, s)
    PROVE  Inv'
<1>0. /\ loop[r][s].pc = "buckets" /\ Active(r, s) /\ TypeOK
      /\ UNCHANGED <<height, overlapped, crashes, lock, failures>> /\ UNCHANGED <<saved, total, skipped>>
  BY DEF SaveTps, Active, Inv
<1>1. PICK n \in NoncesOf(s), f \in Frequencies, l \in LoopType, b0 \in Buckets :
              /\ n = loop[r][s].nonce /\ f \in loop[r][s].freqs /\ b0 = <<TimestampByFrequency(n, f), f>>
              /\ bucket' = [bucket EXCEPT ![b0] = @ + TxCount[s][n]]
              /\ Becomes(r, s, l) /\ l.pc = "buckets" /\ l.nonce = n /\ l.end = loop[r][s].end
              /\ l.freqs = loop[r][s].freqs \ {f}
  BY SaveTpsFacts
<1> DEFINE c == TxCount[s][n]
<1>2. c \in Nat
  BY BlocksOK
<1> HIDE DEF c
<1>3. /\ bucket \in [Buckets -> Nat] /\ bucket' \in [Buckets -> Nat]
      /\ bucket'[b0] = bucket[b0] + c /\ \A b \in Buckets \ {b0} : bucket'[b] = bucket[b]
  BY <1>0, <1>1, <1>2 DEF TypeOK, c
<1>4. StaysIn(s)
  BY <1>0, <1>3 DEF StaysIn, TypeOK
<1>5. InRange(l, s)
  BY <1>0, <1>1, LoopFacts DEF InRange, Walking, OnBlock
<1>6. overlapped = FALSE => /\ AheadOf(l, s, saved'[s], total'[s])
                            /\ total'[s] <= Cardinality(Transactions(s, 1..saved'[s]))
  <2>1. overlapped = FALSE => /\ AheadOf(loop[r][s], s, saved[s], total[s])
                              /\ total[s] <= Cardinality(Transactions(s, 1..saved[s]))
    BY DEF Inv, Ahead, TotalBelow
  <2> QED BY <1>0, <1>1, <2>1 DEF AheadOf
<1>7. /\ loop'[r][s] = l
      /\ \A q \in Runs, u \in Shards : q # r \/ u # s => loop'[q][u] = loop[q][u]
      /\ TypeOK' /\ WithinEnd'
      /\ overlapped' = FALSE => Single' /\ Ahead' /\ TotalBelow'
  BY <1>0, <1>1, <1>4, <1>5, <1>6, LoopRest
<1>8. AtLeastCounted'
  <2>1. ASSUME NEW u \in Shards, NEW g \in Frequencies, NEW m \in NoncesOf(u), Counted(u, m, g)'
        PROVE  Counted(u, m, g) \/ (u = s /\ m = n /\ g = f)
    <3>1. CASE m \in Walked(u)'
      BY <1>0, <3>1 DEF Counted, Walked
    <3>2. CASE \E q \in Runs : Past(loop'[q][u], m, g, skipped[u])
      <4> PICK q \in Runs : Past(loop'[q][u], m, g, skipped[u])
        BY <3>2
      <4>1. CASE q # r \/ u # s
        BY <1>7, <4>1 DEF Counted
      <4>2. CASE q = r /\ u = s
        <5>1. Past(loop[r][s], m, g, skipped[s]) \/ (m = n /\ g = f)
          BY <1>0, <1>1, <1>7, <4>2 DEF Past, Walking, OnBlock, Adding
        <5> QED BY <4>2, <5>1 DEF Counted
      <4> QED BY <4>1, <4>2
    <3> QED BY <1>0, <2>1, <3>1, <3>2 DEF Counted
  <2> SUFFICES ASSUME NEW b \in Buckets PROVE bucket'[b] >= Cardinality(OfBucket(b, CountedFor(b[2])'))
    BY DEF AtLeastCounted
  <2>2. PICK g \in Frequencies : g = b[2]
    BY BucketOK
  <2>3. PICK N \in NonceSets : N = CountedFor(g)'
    BY SetsOK
  <2>4. PICK M \in NonceSets : M = CountedFor(g)
    BY SetsOK
  <2>5. bucket[b] \in Nat /\ bucket[b] >= Cardinality(OfBucket(b, M))
    BY <1>3, <2>2, <2>4 DEF Inv, AtLeastCounted
  <2>6. CASE b = b0
    <3>1. \A u \in Shards : For(b, N, u) \subseteq M[u] \cup (IF u = s THEN {n} ELSE {})
      BY <2>1, <2>3, <2>4 DEF For, CountedFor
    <3>2. /\ Cardinality(OfBucket(b, N)) \in Nat /\ Cardinality(OfBucket(b, M)) \in Nat
          /\ Cardinality(OfBucket(b, N)) <= Cardinality(OfBucket(b, M)) + c
      BY <3>1, AtMostOneMore DEF c
    <3> QED BY <1>2, <1>3, <2>2, <2>3, <2>5, <2>6, <3>2
  <2>7. CASE b # b0
    <3>1. b = <<b[1], g>>
      BY <2>2, BucketOK
    <3>2. \A u \in Shards : For(b, N, u) \subseteq M[u]
      BY <1>1, <2>1, <2>2, <2>3, <2>4, <2>7, <3>1 DEF For, CountedFor
    <3>3. /\ Cardinality(OfBucket(b, N)) \in Nat /\ Cardinality(OfBucket(b, M)) \in Nat
          /\ Cardinality(OfBucket(b, N)) <= Cardinality(OfBucket(b, M))
      BY <3>2, MoreInBucket
    <3> QED BY <1>3, <2>2, <2>3, <2>5, <2>7, <3>3
  <2> QED BY <2>6, <2>7
<1>9. ASSUME overlapped' = FALSE, crashes' = 0 PROVE AtMostOnce'
  <2>0. overlapped = FALSE /\ AtMostOnce /\ Single /\ Ahead
    BY <1>0, <1>9 DEF Inv
  <2>1. ASSUME NEW u \in Shards, NEW g \in Frequencies, NEW m \in NoncesOf(u), MayBeIn(u, m, g)
        PROVE  MayBeIn(u, m, g)'
    <3>1. CASE m <= saved[u]
      BY <1>0, <3>1 DEF MayBeIn
    <3>2. CASE \E q \in Runs : Adding(loop[q][u], m, g)
      <4> PICK q \in Runs : Adding(loop[q][u], m, g)
        BY <3>2
      <4>1. CASE q # r \/ u # s
        BY <1>7, <4>1 DEF MayBeIn
      <4>2. CASE q = r /\ u = s
        <5>1. Adding(loop'[r][s], m, g)
          BY <1>1, <1>7, <4>2 DEF Adding
        <5> QED BY <4>2, <5>1 DEF MayBeIn
      <4> QED BY <4>1, <4>2
    <3> QED BY <2>1, <3>1, <3>2 DEF MayBeIn
  <2>2. MayBeIn(s, n, f)'
    <3>1. Adding(loop'[r][s], n, f)
      BY <1>1, <1>7 DEF Adding
    <3> QED BY <3>1 DEF MayBeIn
  <2>3. ~MayBeIn(s, n, f)
    <3>1. AheadOf(loop[r][s], s, saved[s], total[s]) /\ saved[s] \in Nat /\ n \in Int
      BY <1>1, <2>0, LoopFacts DEF Ahead
    <3>2. ~(n <= saved[s])
      BY <1>0, <1>1, <3>1 DEF AheadOf
    <3>3. ASSUME NEW q \in Runs PROVE ~Adding(loop[q][s], n, f)
      <4>1. CASE q = r
        BY <1>1, <4>1 DEF Adding
      <4>2. CASE q # r
        <5>1. ~Active(q, s)
          BY <1>0, <2>0, <4>2 DEF Single
        <5> QED BY <5>1 DEF Active, Adding
      <4> QED BY <4>1, <4>2
    <3> QED BY <3>2, <3>3 DEF MayBeIn
  <2> SUFFICES ASSUME NEW b \in Buckets PROVE bucket'[b] <= Cardinality(OfBucket(b, MayBeInFor(b[2])'))
    BY DEF AtMostOnce
  <2>4. PICK g \in Frequencies : g = b[2]
    BY BucketOK
  <2>5. PICK N \in NonceSets : N = MayBeInFor(g)'
    BY SetsOK
  <2>6. PICK M \in NonceSets : M = MayBeInFor(g)
    BY SetsOK
  <2>7. bucket[b] \in Nat /\ bucket[b] <= Cardinality(OfBucket(b, M))
    BY <1>3, <2>0, <2>4, <2>6 DEF AtMostOnce
  <2>8. \A u \in Shards : M[u] \subseteq N[u]
    BY <2>1, <2>5, <2>6 DEF MayBeInFor
  <2>9. CASE b = b0
    <3>1. g = f /\ b[1] = TimestampByFrequency(n, f) /\ b[2] = f
      BY <1>1, <2>4, <2>9
    <3>2. n \in For(b, N, s) /\ n \notin M[s]
      BY <2>2, <2>3, <2>5, <2>6, <3>1 DEF For, MayBeInFor
    <3>3. /\ Cardinality(OfBucket(b, N)) \in Nat /\ Cardinality(OfBucket(b, M)) \in Nat
          /\ Cardinality(OfBucket(b, N)) >= Cardinality(OfBucket(b, M)) + c
      BY <2>8, <3>2, AtLeastOneMore DEF c
    <3> QED BY <1>2, <1>3, <2>4, <2>5, <2>7, <2>9, <3>3
  <2>10. CASE b # b0
    <3>1. \A u \in Shards : For(b, M, u) \subseteq N[u]
      BY <2>8 DEF For
    <3>2. /\ Cardinality(OfBucket(b, N)) \in Nat /\ Cardinality(OfBucket(b, M)) \in Nat
          /\ Cardinality(OfBucket(b, M)) <= Cardinality(OfBucket(b, N))
      BY <3>1, MoreInBucket
    <3> QED BY <1>3, <2>4, <2>5, <2>7, <2>10, <3>2
  <2> QED BY <2>9, <2>10
<1> QED BY <1>7, <1>8, <1>9 DEF Inv


-----------------------------------------------------------------------------
\* Loops without a block: none, or one that has just begun.
Idle == {Off, [Off EXCEPT !.pc = "end"]}

\* A loop without a block.
LEMMA IdleFacts ==
    ASSUME NEW l \in Idle
    PROVE  l \in LoopType /\ l.pc \in {"off", "end"} /\ l.nonce = 0 /\ l.end = 0
  BY DEF Idle, Off, LoopType

\* A step that keeps a loop or leaves it without a block, and keeps a total or finds it expired.
LEMMA IdleOK ==
    ASSUME Inv, UNCHANGED <<saved, bucket, skipped>>,
           height' \in [Shards -> Nat], \A u \in Shards : height'[u] <= LastNonce(u),
           lock' \in Runs \cup {NoRun}, failures' \in 0..MaxTroubles, crashes' \in 0..MaxTroubles,
           overlapped' \in BOOLEAN, overlapped' = FALSE => overlapped = FALSE,
           total' \in [Shards -> Nat],
           \A u \in Shards : total'[u] = total[u] \/ (total'[u] = 0 /\ \A q \in Runs : loop'[q][u].pc # "base"),
           loop' \in [Runs -> [Shards -> LoopType]],
           \A q \in Runs, u \in Shards : loop'[q][u] = loop[q][u] \/ loop'[q][u] \in Idle,
           overlapped' = FALSE => Single',
           crashes' = 0 => crashes = 0,
           crashes' = 0 => \A q \in Runs, u \in Shards : loop'[q][u] = loop[q][u] \/ loop[q][u].pc # "buckets"
    PROVE  Inv'
<1>1. TypeOK'
  <2>1. \A q \in Runs, u \in Shards :
           /\ loop'[q][u].end <= LastNonce(u)
           /\ loop'[q][u].nonce # 0 => loop'[q][u].nonce \in (1 - LookBehind)..(LastNonce(u) + 1)
    <3> TAKE q \in Runs, u \in Shards
    <3>1. CASE loop'[q][u] = loop[q][u]
      BY <3>1 DEF Inv, TypeOK
    <3>2. CASE loop'[q][u] \in Idle
      BY <3>2, IdleFacts, BlocksOK
    <3> QED BY <3>1, <3>2
  <2>2. \A u \in Shards : LastNonce(u)' = LastNonce(u)
    BY DEF LastNonce
  <2> QED BY <2>1, <2>2 DEF Inv, TypeOK
<1>2. WithinEnd'
  <2> SUFFICES ASSUME NEW q \in Runs, NEW u \in Shards
               PROVE  /\ Walking(loop'[q][u]) => loop'[q][u].nonce <= loop'[q][u].end
                      /\ OnBlock(loop'[q][u]) => loop'[q][u].nonce > 0
    BY DEF WithinEnd, Walking, OnBlock
  <2>1. CASE loop'[q][u] = loop[q][u]
    BY <2>1 DEF Inv, WithinEnd
  <2>2. CASE loop'[q][u] \in Idle
    BY <2>2, IdleFacts DEF Walking, OnBlock
  <2> QED BY <2>1, <2>2
<1>3. AtLeastCounted'
  <2> SUFFICES ASSUME NEW u \in Shards, NEW f \in Frequencies, NEW n \in NoncesOf(u), Counted(u, n, f)'
               PROVE  Counted(u, n, f)
    BY NoneCounted
  <2>1. \A q \in Runs : Past(loop'[q][u], n, f, skipped[u]) => Past(loop[q][u], n, f, skipped[u])
    <3> SUFFICES ASSUME NEW q \in Runs, loop'[q][u] \in Idle PROVE ~Past(loop'[q][u], n, f, skipped[u])
      OBVIOUS
    <3> QED BY IdleFacts DEF Past, Walking, OnBlock, Adding
  <2>2. CASE n \in Walked(u)'
    BY <2>2 DEF Counted, Walked
  <2>3. CASE \E q \in Runs : Past(loop'[q][u], n, f, skipped[u])
    BY <2>1, <2>3 DEF Counted
  <2> QED BY <2>2, <2>3 DEF Counted
<1>4. ASSUME overlapped' = FALSE PROVE Ahead' /\ TotalBelow'
  <2>0. Ahead /\ TotalBelow
    BY <1>4 DEF Inv
  <2>1. ASSUME NEW u \in Shards
        PROVE  saved[u] \in Nat /\ total[u] \in Nat /\ 1..saved[u] \in SUBSET NoncesOf(u)
               /\ 1..(saved[u] - 1) \in SUBSET NoncesOf(u)
    BY BlocksOK DEF Inv, TypeOK, NoncesOf
  <2>2. ASSUME NEW u \in Shards
        PROVE  /\ Cardinality(Transactions(u, 1..saved[u])) \in Nat
               /\ Cardinality(Transactions(u, 1..(saved[u] - 1))) \in Nat
    BY <2>1, MoreTransactions
  <2>3. ASSUME NEW q \in Runs, NEW u \in Shards
        PROVE  AheadOf(loop'[q][u], u, saved'[u], total'[u])
    <3>1. CASE loop'[q][u] \in Idle
      BY <3>1, IdleFacts DEF AheadOf
    <3>2. CASE loop'[q][u] = loop[q][u]
      <4>1. AheadOf(loop[q][u], u, saved[u], total[u])
        BY <2>0 DEF Ahead
      <4>2. CASE total'[u] = total[u]
        BY <3>2, <4>1, <4>2
      <4>3. CASE total'[u] = 0 /\ loop'[q][u].pc # "base"
        BY <2>2, <3>2, <4>1, <4>3 DEF AheadOf
      <4> QED BY <4>2, <4>3
    <3> QED BY <3>1, <3>2
  <2>4. TotalBelow'
    BY <2>0, <2>2 DEF TotalBelow
  <2> QED BY <2>3, <2>4 DEF Ahead, AheadOf
<1>5. ASSUME overlapped' = FALSE, crashes' = 0 PROVE AtMostOnce'
  <2>0. AtMostOnce
    BY <1>5 DEF Inv
  <2> SUFFICES ASSUME NEW u \in Shards, NEW f \in Frequencies, NEW n \in NoncesOf(u), MayBeIn(u, n, f)
               PROVE  MayBeIn(u, n, f)'
    BY <2>0, NoneAdded
  <2>1. \A q \in Runs : Adding(loop[q][u], n, f) => Adding(loop'[q][u], n, f)
    BY <1>5 DEF Adding
  <2> QED BY <2>1 DEF MayBeIn
<1> QED BY <1>1, <1>2, <1>3, <1>4, <1>5 DEF Inv


\* A step that leaves the loops alone.
LEMMA StillOK ==
    ASSUME Inv, \/ UNCHANGED vars
                \/ \E s \in Shards : NewBlock(s) \/ ExpireTotal(s)
    PROVE  Inv'
<1>0. TypeOK
  BY DEF Inv
<1>1. UNCHANGED <<saved, bucket, skipped>> /\ UNCHANGED <<lock, failures, crashes, overlapped, loop>>
  BY DEF vars, NewBlock, ExpireTotal
<1>2. height' \in [Shards -> Nat] /\ \A u \in Shards : height'[u] <= LastNonce(u)
  <2>1. CASE height' = height
    BY <1>0, <2>1 DEF TypeOK
  <2>2. ASSUME NEW s \in Shards, NewBlock(s) PROVE height' \in [Shards -> Nat] /\ \A u \in Shards : height'[u] <= LastNonce(u)
    <3>1. /\ height \in [Shards -> Nat] /\ \A u \in Shards : height[u] <= LastNonce(u)
          /\ LastNonce(s) \in Nat /\ height[s] < LastNonce(s) /\ height' = [height EXCEPT ![s] = height[s] + 1]
      BY <1>0, <2>2, BlocksOK DEF TypeOK, NewBlock
    <3> QED BY <3>1
  <2> QED BY <2>1, <2>2 DEF vars, ExpireTotal
<1>3. /\ total' \in [Shards -> Nat]
      /\ \A u \in Shards : total'[u] = total[u] \/ (total'[u] = 0 /\ \A q \in Runs : loop'[q][u].pc # "base")
  <2>1. CASE total' = total
    BY <1>0, <2>1 DEF TypeOK
  <2>2. ASSUME NEW s \in Shards, ExpireTotal(s)
        PROVE  /\ total' \in [Shards -> Nat]
               /\ \A u \in Shards : total'[u] = total[u] \/ (total'[u] = 0 /\ \A q \in Runs : loop'[q][u].pc # "base")
    BY <1>0, <1>1, <2>2 DEF TypeOK, ExpireTotal
  <2> QED BY <2>1, <2>2 DEF vars, NewBlock
<1>4. overlapped' = FALSE => Single'
  <2>1. overlapped = FALSE => Single
    BY DEF Inv
  <2> QED BY <1>1, <2>1 DEF Single, Active
<1>5. /\ lock' \in Runs \cup {NoRun} /\ failures' \in 0..MaxTroubles /\ crashes' \in 0..MaxTroubles
      /\ overlapped' \in BOOLEAN /\ loop' \in [Runs -> [Shards -> LoopType]]
  BY <1>0, <1>1 DEF TypeOK
<1> QED BY <1>1, <1>2, <1>3, <1>4, <1>5, IdleOK

\* A run that starts keeps the invariant: beside a loop at work it overlaps.
LEMMA StartRunOK ==
    ASSUME Inv, NEW r \in Runs, StartRun(r)
    PROVE  Inv'
<1> DEFINE x == [Off EXCEPT !.pc = "end"]
<1>0. TypeOK /\ x \in LoopType /\ x \in Idle
  BY IdleFacts DEF Inv, Idle
<1>1. /\ UNCHANGED <<saved, bucket, skipped>> /\ UNCHANGED <<height, total, failures, crashes>>
      /\ lock' = r /\ overlapped' = (overlapped \/ \E q \in Runs, s \in Shards : Active(q, s))
      /\ \A s \in Shards : loop[r][s] = Off
      /\ loop' = [loop EXCEPT ![r] = [s \in Shards |-> x]]
  BY DEF StartRun
<1> HIDE DEF x
<1>2. /\ loop' \in [Runs -> [Shards -> LoopType]] /\ \A s \in Shards : loop'[r][s] = x
      /\ \A q \in Runs \ {r}, s \in Shards : loop'[q][s] = loop[q][s]
  BY <1>0, <1>1 DEF TypeOK
<1>3. overlapped' \in BOOLEAN /\ (overlapped' = FALSE => overlapped = FALSE)
  BY <1>0, <1>1 DEF TypeOK
<1>4. overlapped' = FALSE => Single'
  <2> SUFFICES ASSUME overlapped' = FALSE, NEW q \in Runs, NEW s \in Shards, Active(q, s)' PROVE q = r
    BY DEF Single
  <2>1. ~Active(q, s)
    BY <1>1
  <2> QED BY <1>2, <2>1 DEF Active
<1>5. \A q \in Runs, u \in Shards : loop'[q][u] = loop[q][u] \/ loop'[q][u] \in Idle
  BY <1>0, <1>2
<1>6. \A q \in Runs, u \in Shards : loop'[q][u] = loop[q][u] \/ loop[q][u].pc # "buckets"
  BY <1>1, <1>2 DEF Off
<1>7. /\ lock' \in Runs \cup {NoRun} /\ failures' \in 0..MaxTroubles /\ crashes' \in 0..MaxTroubles
      /\ height' \in [Shards -> Nat] /\ (\A u \in Shards : height'[u] <= LastNonce(u))
      /\ total' \in [Shards -> Nat] /\ (\A u \in Shards : total'[u] = total[u])
      /\ (crashes' = 0 => crashes = 0)
  BY <1>0, <1>1 DEF TypeOK
<1> QED BY <1>1, <1>2, <1>3, <1>4, <1>5, <1>6, <1>7, IdleOK

\* A run that returns, or a crash of them all, keeps the invariant.
LEMMA StopOK ==
    ASSUME Inv, (\E r \in Runs : EndRun(r)) \/ Crash
    PROVE  Inv'
<1>0. TypeOK /\ Off \in LoopType /\ Off \in Idle
  BY IdleFacts DEF Inv, Idle
<1>1. UNCHANGED <<saved, bucket, skipped>> /\ UNCHANGED <<height, total, failures, overlapped>>
  BY DEF EndRun, Crash
<1>2. /\ loop' \in [Runs -> [Shards -> LoopType]]
      /\ \A q \in Runs, u \in Shards : loop'[q][u] = loop[q][u] \/ loop'[q][u] = Off
  <2>1. CASE Crash
    BY <1>0, <2>1 DEF Crash
  <2>2. ASSUME NEW r \in Runs, EndRun(r)
        PROVE  /\ loop' \in [Runs -> [Shards -> LoopType]]
               /\ \A q \in Runs, u \in Shards : loop'[q][u] = loop[q][u] \/ loop'[q][u] = Off
    BY <1>0, <2>2 DEF EndRun, TypeOK
  <2> QED BY <2>1, <2>2
<1>3. /\ crashes' \in 0..MaxTroubles
      /\ crashes' = 0 => crashes = 0
      /\ crashes' = 0 => \A q \in Runs, u \in Shards : loop'[q][u] = loop[q][u] \/ loop[q][u].pc # "buckets"
  <2>1. CASE Crash
    BY <1>0, <2>1, TpsAssumption DEF Crash, TypeOK
  <2>2. ASSUME NEW r \in Runs, EndRun(r)
        PROVE  /\ crashes' = crashes
               /\ \A q \in Runs, u \in Shards : loop'[q][u] = loop[q][u] \/ loop[q][u].pc # "buckets"
    BY <1>0, <2>2 DEF EndRun, TypeOK, Active
  <2> QED BY <1>0, <2>1, <2>2 DEF TypeOK
<1>4. overlapped' = FALSE => Single'
  <2>1. \A q \in Runs, u \in Shards : Active(q, u)' => Active(q, u)
    BY <1>2 DEF Active, Off
  <2>2. overlapped' = FALSE => Single
    BY <1>1 DEF Inv
  <2> QED BY <2>1, <2>2 DEF Single
<1>5. lock' \in Runs \cup {NoRun}
  BY <1>0 DEF TypeOK, EndRun, Crash
<1>6. /\ failures' \in 0..MaxTroubles
      /\ height' \in [Shards -> Nat] /\ (\A u \in Shards : height'[u] <= LastNonce(u))
      /\ total' \in [Shards -> Nat] /\ (\A u \in Shards : total'[u] = total[u])
      /\ overlapped' \in BOOLEAN /\ (overlapped' = FALSE => overlapped = FALSE)
  BY <1>0, <1>1 DEF TypeOK
<1> QED BY <1>0, <1>1, <1>2, <1>3, <1>4, <1>5, <1>6, IdleOK


-----------------------------------------------------------------------------
\* The empty counters satisfy the invariant.
LEMMA InitOK == Init => Inv
<1> SUFFICES ASSUME Init PROVE Inv
  OBVIOUS
<1>1. Off \in LoopType /\ Off.pc = "off" /\ Off.nonce = 0 /\ Off.end = 0
  BY IdleFacts DEF Idle, Off
<1>2. \A r \in Runs, s \in Shards : loop[r][s] = Off
  BY DEF Init
<1>3. \A s \in Shards : LastNonce(s) \in Nat
  BY BlocksOK
<1>4. TypeOK
  <2>1. loop \in [Runs -> [Shards -> LoopType]]
    BY <1>1 DEF Init
  <2>2. \A s \in Shards : /\ height[s] <= LastNonce(s) /\ saved[s] <= LastNonce(s)
                          /\ \A r \in Runs : loop[r][s].end <= LastNonce(s) /\ loop[r][s].nonce = 0
    BY <1>1, <1>2, <1>3 DEF Init
  <2>3. /\ height \in [Shards -> Nat] /\ saved \in [Shards -> Nat] /\ bucket \in [Buckets -> Nat]
        /\ total \in [Shards -> Nat] /\ skipped \in [Shards -> SUBSET Nat]
    BY DEF Init
  <2>4. failures \in 0..MaxTroubles /\ crashes \in 0..MaxTroubles
    BY TpsAssumption DEF Init
  <2>5. lock \in Runs \cup {NoRun} /\ overlapped \in BOOLEAN
    BY DEF Init
  <2> QED BY <2>1, <2>2, <2>3, <2>4, <2>5 DEF TypeOK
<1>5. WithinEnd
  BY <1>1, <1>2 DEF WithinEnd, Walking, OnBlock
<1>6. AtLeastCounted
  <2> SUFFICES ASSUME NEW b \in Buckets PROVE bucket[b] >= Cardinality(OfBucket(b, CountedFor(b[2])))
    BY DEF AtLeastCounted
  <2>1. \A f, s, n : s \in Shards => ~Counted(s, n, f)
    BY <1>1, <1>2 DEF Init, Counted, Walked, Past, Walking, OnBlock, Adding
  <2>2. \A s \in Shards : For(b, CountedFor(b[2]), s) = {}
    BY <2>1 DEF For, CountedFor
  <2>3. OfBucket(b, CountedFor(b[2])) = {}
    BY <2>2, InOfBucket
  <2> QED BY <2>3, FS_EmptySet DEF Init
<1>7. Single
  BY <1>1, <1>2 DEF Single, Active
<1>8. Ahead
  BY <1>1, <1>2 DEF Ahead, AheadOf
<1>9. TotalBelow
  <2> SUFFICES ASSUME NEW s \in Shards PROVE total[s] <= Cardinality(Transactions(s, 1..saved[s]))
    BY DEF TotalBelow
  <2>1. 1..saved[s] \in SUBSET NoncesOf(s)
    BY <1>3 DEF Init, NoncesOf
  <2>2. Cardinality(Transactions(s, 1..saved[s])) \in Nat
    BY <2>1, MoreTransactions
  <2> QED BY <2>2 DEF Init
<1>10. AtMostOnce
  <2> SUFFICES ASSUME NEW b \in Buckets PROVE bucket[b] <= Cardinality(OfBucket(b, MayBeInFor(b[2])))
    BY DEF AtMostOnce
  <2>1. Cardinality(OfBucket(b, MayBeInFor(b[2]))) \in Nat
    BY SetsOK, OfBucketFinite, FS_CardinalityType
  <2> QED BY <2>1 DEF Init
<1> QED BY <1>4, <1>5, <1>6, <1>7, <1>8, <1>9, <1>10 DEF Inv

\* Every step keeps it.
LEMMA NextOK == Inv /\ [Next]_vars => Inv'
<1> SUFFICES ASSUME Inv, [Next]_vars PROVE Inv'
  OBVIOUS
<1>1. CASE UNCHANGED vars
  BY <1>1, StillOK
<1>2. CASE \E s \in Shards : NewBlock(s) \/ ExpireTotal(s)
  BY <1>2, StillOK
<1>3. CASE (\E r \in Runs : EndRun(r)) \/ Crash
  BY <1>3, StopOK
<1>4. CASE \E r \in Runs : StartRun(r)
  BY <1>4, StartRunOK
<1>5. ASSUME NEW r \in Runs, NEW s \in Shards, LoopStep(r, s) \/ GatewayFails(r, s) PROVE Inv'
  <2>1. CASE GetEndNonce(r, s)
    BY <2>1, GetEndNonceOK
  <2>2. CASE GetStartNonce(r, s)
    BY <2>2, GetStartNonceOK
  <2>3. CASE GetBlock(r, s)
    BY <2>3, GetBlockOK
  <2>4. CASE SaveTps(r, s)
    BY <2>4, SaveTpsOK
  <2>5. CASE SaveNonce(r, s)
    BY <2>5, SaveNonceOK
  <2>6. CASE IncrementTotal(r, s)
    BY <2>6, IncrementTotalOK
  <2>7. CASE AddBase(r, s) \/ NoBaseBlock(r, s)
    BY <2>7, AddBaseOK
  <2>8. CASE GatewayFails(r, s) \/ BlockNotFound(r, s)
    BY <2>8, ThrowOK
  <2> QED BY <1>5, <2>1, <2>2, <2>3, <2>4, <2>5, <2>6, <2>7, <2>8 DEF LoopStep
<1> QED BY <1>1, <1>2, <1>3, <1>4, <1>5 DEF Next

\* It holds in every state.
LEMMA InvIsInductive == Spec => []Inv
  BY InitOK, NextOK, PTL DEF Spec

(***************************************************************************)
(* Types hold in every state; in particular every walk of                  *)
(* processTpsForShard stays between LookBehind blocks before the first and *)
(* one past the last, for any shards, blocks and number of runs at once.   *)
(***************************************************************************)
THEOREM TypeCorrect == Spec => []TypeOK
<1>1. Inv => TypeOK
  BY DEF Inv
<1> QED BY <1>1, InvIsInductive, PTL

(***************************************************************************)
(* saveTps loses no block: whatever failures, crashes and overlapping runs *)
(* there are, a bucket holds at least the transactions of the blocks up to *)
(* the saved nonce.                                                        *)
(***************************************************************************)
THEOREM BucketsAlwaysComplete == Spec => []BucketsComplete
<1>1. ASSUME Inv PROVE BucketsComplete
  <2> SUFFICES ASSUME NEW b \in Buckets
               PROVE  bucket[b] >= Cardinality(OfBucket(b, [s \in Shards |-> Walked(s)]))
    BY DEF BucketsComplete
  <2>1. PICK N : N = [s \in Shards |-> Walked(s)]
    OBVIOUS
  <2>2. N \in NonceSets
    BY <1>1, <2>1, BlocksOK DEF NonceSets, NoncesOf, Walked, Inv, TypeOK
  <2>3. PICK M \in NonceSets : M = CountedFor(b[2])
    BY SetsOK
  <2>4. \A s \in Shards : For(b, N, s) \subseteq M[s]
    BY <2>1, <2>2, <2>3 DEF For, CountedFor, Counted, NonceSets
  <2>5. /\ Cardinality(OfBucket(b, N)) \in Nat /\ Cardinality(OfBucket(b, M)) \in Nat
        /\ Cardinality(OfBucket(b, N)) <= Cardinality(OfBucket(b, M))
    BY <2>2, <2>4, MoreInBucket
  <2>6. bucket[b] \in Nat /\ bucket[b] >= Cardinality(OfBucket(b, M))
    BY <1>1, <2>3 DEF Inv, TypeOK, AtLeastCounted
  <2> QED BY <2>1, <2>5, <2>6
<1> QED BY <1>1, InvIsInductive, PTL

(***************************************************************************)
(* incrementTotalTransactions counts no block twice while runs do not      *)
(* overlap, whatever fails or crashes and however often the total expires. *)
(***************************************************************************)
THEOREM TotalIsNeverOver == Spec => []TotalNeverOver
<1>1. ASSUME Inv PROVE TotalNeverOver
  BY <1>1 DEF Inv, TypeOK, TotalNeverOver, TotalBelow
<1> QED BY <1>1, InvIsInductive, PTL

(***************************************************************************)
(* saveTps counts no block twice while runs neither crash nor overlap: in  *)
(* a state in which no loop is at work, a bucket holds at most the         *)
(* transactions up to the saved nonces.                                    *)
(***************************************************************************)
THEOREM BucketsAreExact == Spec => []BucketsExact
<1>1. ASSUME Inv PROVE BucketsExact
  <2> SUFFICES ASSUME crashes = 0, ~overlapped, \A r \in Runs, s \in Shards : ~Active(r, s), NEW b \in Buckets
               PROVE  bucket[b] <= Cardinality(OfBucket(b, [s \in Shards |-> 1..saved[s]]))
    BY DEF BucketsExact
  <2>0. AtMostOnce
    BY <1>1 DEF Inv, TypeOK
  <2>1. PICK N : N = [s \in Shards |-> 1..saved[s]]
    OBVIOUS
  <2>2. N \in NonceSets /\ \A s \in Shards : saved[s] \in Nat
    BY <1>1, <2>1, BlocksOK DEF NonceSets, NoncesOf, Inv, TypeOK
  <2>3. PICK M \in NonceSets : M = MayBeInFor(b[2])
    BY SetsOK
  <2>4. \A s \in Shards : For(b, M, s) \subseteq N[s]
    <3> SUFFICES ASSUME NEW s \in Shards, NEW n \in M[s] PROVE n \in 1..saved[s]
      BY <2>1 DEF For
    <3>1. n \in NoncesOf(s) /\ MayBeIn(s, n, b[2])
      BY <2>3 DEF MayBeInFor
    <3>2. \A r \in Runs : ~Adding(loop[r][s], n, b[2])
      BY DEF Adding, Active
    <3>3. n <= saved[s]
      BY <3>1, <3>2 DEF MayBeIn
    <3> QED BY <2>2, <3>1, <3>3, BlocksOK DEF NoncesOf
  <2>5. /\ Cardinality(OfBucket(b, N)) \in Nat /\ Cardinality(OfBucket(b, M)) \in Nat
        /\ Cardinality(OfBucket(b, M)) <= Cardinality(OfBucket(b, N))
    BY <2>2, <2>4, MoreInBucket
  <2>6. bucket[b] \in Nat /\ bucket[b] <= Cardinality(OfBucket(b, M))
    BY <1>1, <2>0, <2>3 DEF Inv, TypeOK, AtMostOnce
  <2> QED BY <2>1, <2>5, <2>6
<1> QED BY <1>1, InvIsInductive, PTL
=============================================================================
