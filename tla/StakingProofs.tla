---------------------------- MODULE StakingProofs ----------------------------
(***************************************************************************)
(* The lists of nodes name owners the nodes have had since the epoch of    *)
(* the keys, and the validators are counted once each: for any nodes,      *)
(* addresses, merges, statuses and queues of the epochs, and any number of *)
(* epochs, wherever the steps of the others fall between the awaits of the *)
(* job.                                                                    *)
(***************************************************************************)
EXTENDS Staking, FiniteSetTheorems, TLAPS

NodeFields == {"bls", "type", "status", "owner", "provider", "identity", "auctioned", "auctionQualified",
               "isInDangerZone", "auctionTopUp", "stake", "topUp", "locked"}

IsNode(n) == DOMAIN n = NodeFields /\ n = [x \in NodeFields |-> n[x]]

\* m is the node n with at most other owners, identity, stake and auction.
SameStatus(m, n) == IsNode(m) /\ m.bls = n.bls /\ m.type = n.type /\ m.status = n.status

\* m is the node n with at most another identity, stake and auction.
SameNode(m, n) == SameStatus(m, n) /\ m.owner = n.owner /\ m.provider = n.provider

\* ... and with the same auction.
SameAuction(m, n) == m.auctioned = n.auctioned /\ m.auctionQualified = n.auctionQualified

\* m is the node n, queued if its key is in the queue.
MayBeQueued(m, n, queue) ==
    /\ IsNode(m) /\ m.bls = n.bls /\ m.owner = n.owner /\ m.provider = n.provider /\ SameAuction(m, n)
    /\ m.type = (IF n.bls \in queue THEN "validator" ELSE n.type)
    /\ m.status = (IF n.bls \in queue THEN "queued" ELSE n.status)

\* T is made of the list ns node by node.
MadeOf(f, ns, T) == DOMAIN f = ns /\ T = {f[n] : n \in ns}

\* A list has one node for each key.
OneEach(ns) ==
    /\ IsFiniteSet(ns)
    /\ {n.bls : n \in ns} = Blses
    /\ \A m, n \in ns : m.bls = n.bls => m = n

-----------------------------------------------------------------------------
(* What the steps of the job do to one node and to a list of them.         *)

\* A set made of another one by one is as finite as this one.
LEMMA ImageFinite ==
    ASSUME NEW S, IsFiniteSet(S), NEW f, DOMAIN f = S, NEW T, T = {f[x] : x \in S}
    PROVE  IsFiniteSet(T)
  <1> DEFINE g == [x \in S |-> f[x]]
  <1>1. g \in [S -> T] /\ \A y \in T : \E x \in S : g[x] = y
    OBVIOUS
  <1> HIDE DEF g
  <1>2. g \in Surjection(S, T)
    BY <1>1 DEF Surjection
  <1> QED BY <1>2, FS_Surjection

\* A list made of another node by node has one node for each key if this one has.
LEMMA MadeOfOneEach ==
    ASSUME NEW ns, OneEach(ns), NEW T, NEW f, MadeOf(f, ns, T), \A n \in ns : f[n].bls = n.bls
    PROVE  OneEach(T)
  <1>1. DOMAIN f = ns /\ T = {f[n] : n \in ns}
    BY DEF MadeOf
  <1>2. IsFiniteSet(T)
    BY <1>1, ImageFinite DEF OneEach
  <1>3. {m.bls : m \in T} = {n.bls : n \in ns}
    BY <1>1
  <1>4. \A m, n \in T : m.bls = n.bls => m = n
    BY <1>1 DEF OneEach
  <1> QED BY <1>2, <1>3, <1>4 DEF OneEach

\* applyNodeIdentities changes nothing but the identity of a node.
LEMMA IdentityOnly ==
    ASSUME NEW ns, \A n \in ns : IsNode(n)
    PROVE  \E f : MadeOf(f, ns, applyNodeIdentities(ns)) /\ \A n \in ns : SameNode(f[n], n) /\ SameAuction(f[n], n)
  <1> DEFINE f == [n \in ns |-> IF n.status # "inactive" THEN [n EXCEPT !.identity = confirmed[n.bls]] ELSE n]
  <1>1. MadeOf(f, ns, applyNodeIdentities(ns))
    BY Zenon DEF applyNodeIdentities, MadeOf
  <1>2. ASSUME NEW n \in ns PROVE SameNode(f[n], n) /\ SameAuction(f[n], n)
    <2> DEFINE v == confirmed[n.bls]
               m == f[n]
    <2>1. m = [n EXCEPT !.identity = v] \/ m = n
      OBVIOUS
    <2>2. IsNode(n)
      OBVIOUS
    <2> HIDE DEF v, m, f
    <2>3. SameNode(m, n) /\ SameAuction(m, n)
      BY <2>1, <2>2 DEF SameNode, SameStatus, SameAuction, IsNode, NodeFields
    <2> QED BY <2>3 DEF m
  <1> HIDE DEF f
  <1> QED BY <1>1, <1>2, Zenon

\* applyNodeStakeInfo changes nothing but the stake of a node.
LEMMA StakeOnly ==
    ASSUME NEW ns, NEW stakes, NEW first, \A n \in ns : IsNode(n)
    PROVE  \E f : MadeOf(f, ns, applyNodeStakeInfo(ns, stakes, first)) /\ \A n \in ns : SameNode(f[n], n) /\ SameAuction(f[n], n)
  <1> DEFINE listing(n) == {a \in DOMAIN stakes : IF n.status = "jailed" THEN a = StakedBy(n) /\ stakes[a].blses # {}
                                                  ELSE n.bls \in stakes[a].blses}
             StakeOf(n) == IF listing(n) = {} THEN NoStake
                           ELSE stakes[IF first \in listing(n) THEN first ELSE CHOOSE a \in listing(n) : TRUE]
             f == [n \in ns |-> IF n.type = "validator"
                    THEN [n EXCEPT !.stake = StakeOf(n).stake, !.topUp = StakeOf(n).topUp, !.locked = StakeOf(n).locked] ELSE n]
  <1>1. MadeOf(f, ns, applyNodeStakeInfo(ns, stakes, first))
    BY Zenon DEF applyNodeStakeInfo, MadeOf
  <1>2. ASSUME NEW n \in ns PROVE SameNode(f[n], n) /\ SameAuction(f[n], n)
    <2> DEFINE s == StakeOf(n).stake
               t == StakeOf(n).topUp
               l == StakeOf(n).locked
               m == f[n]
    <2>1. m = [n EXCEPT !.stake = s, !.topUp = t, !.locked = l] \/ m = n
      <3> HIDE DEF StakeOf, listing
      <3> QED OBVIOUS
    <2>2. IsNode(n)
      OBVIOUS
    <2> HIDE DEF s, t, l, m, f, StakeOf, listing
    <2>3. SameNode(m, n) /\ SameAuction(m, n)
      BY <2>1, <2>2 DEF SameNode, SameStatus, SameAuction, IsNode, NodeFields
    <2> QED BY <2>3 DEF m
  <1> HIDE DEF f
  <1> QED BY <1>1, <1>2, Zenon

\* A queued node is a validator, and every other one is what it was.
LEMMA QueuedOnly ==
    ASSUME NEW ns, NEW queue, \A n \in ns : IsNode(n)
    PROVE  \E f : MadeOf(f, ns, processQueuedNodes(ns, queue)) /\ \A n \in ns : MayBeQueued(f[n], n, queue)
  <1> DEFINE f == [n \in ns |-> IF n.bls \in queue THEN [n EXCEPT !.type = "validator", !.status = "queued"] ELSE n]
  <1>1. MadeOf(f, ns, processQueuedNodes(ns, queue))
    BY Zenon DEF processQueuedNodes, MadeOf
  <1>2. ASSUME NEW n \in ns PROVE MayBeQueued(f[n], n, queue)
    <2> DEFINE m == f[n]
    <2>1. m = IF n.bls \in queue THEN [n EXCEPT !.type = "validator", !.status = "queued"] ELSE n
      OBVIOUS
    <2>2. IsNode(n)
      OBVIOUS
    <2> HIDE DEF m, f
    <2>3. CASE n.bls \in queue
      <3>1. m = [n EXCEPT !.type = "validator", !.status = "queued"]
        BY <2>1, <2>3
      <3>2. MayBeQueued(m, n, queue)
        BY <2>2, <2>3, <3>1 DEF MayBeQueued, SameAuction, IsNode, NodeFields
      <3> QED BY <3>2 DEF m
    <2>4. CASE n.bls \notin queue
      <3>1. m = n
        BY <2>1, <2>4
      <3>2. MayBeQueued(m, n, queue)
        BY <2>2, <2>4, <3>1 DEF MayBeQueued, SameAuction
      <3> QED BY <3>2 DEF m
    <2> QED BY <2>3, <2>4
  <1> HIDE DEF f
  <1> QED BY <1>1, <1>2, Zenon

\* The owners that getOwners has found are given to the nodes, which are otherwise the same.
Given(m, n, known) ==
    /\ SameStatus(m, n) /\ SameAuction(m, n) /\ m.provider = n.provider
    /\ IF n.type = "validator" THEN m.owner = IF known[n.bls] = None THEN "" ELSE known[n.bls] ELSE m.owner = n.owner

\* OwnedBy gives each node of the list its owner.
LEMMA OwnersOnly ==
    ASSUME NEW ns, NEW known, \A n \in ns : IsNode(n)
    PROVE  \E f : MadeOf(f, ns, OwnedBy(ns, known)) /\ \A n \in ns : Given(f[n], n, known)
  <1> DEFINE owner(n) == IF known[n.bls] = None THEN "" ELSE known[n.bls]
             f == [n \in ns |-> IF n.type = "validator" THEN [n EXCEPT !.owner = owner(n)] ELSE n]
  <1>1. MadeOf(f, ns, OwnedBy(ns, known))
    BY Zenon DEF OwnedBy, MadeOf
  <1>2. ASSUME NEW n \in ns PROVE Given(f[n], n, known)
    <2> DEFINE o == owner(n)
               m == f[n]
    <2>1. IF n.type = "validator" THEN m = [n EXCEPT !.owner = o] ELSE m = n
      OBVIOUS
    <2>2. IsNode(n)
      OBVIOUS
    <2> HIDE DEF o, m, f, owner
    <2>3. /\ SameStatus(m, n) /\ SameAuction(m, n) /\ m.provider = n.provider
          /\ IF n.type = "validator" THEN m.owner = o ELSE m.owner = n.owner
      BY <2>1, <2>2 DEF SameStatus, SameAuction, IsNode, NodeFields
    <2> QED BY <2>3 DEF Given, m, o, owner
  <1> HIDE DEF f
  <1> QED BY <1>1, <1>2, Zenon

\* Who stakes a node that has no provider yet is its owner, also when this is a provider and the
\* node is said to be owned by the owner of the provider.
LEMMA ProvidersOnly ==
    ASSUME NEW ns, \A n \in ns : IsNode(n) /\ n.provider = ""
    PROVE  \E f : /\ MadeOf(f, ns, applyNodeProviders(ns))
                  /\ \A n \in ns : SameStatus(f[n], n) /\ SameAuction(f[n], n) /\ StakedBy(f[n]) = n.owner
  <1> DEFINE f == [n \in ns |-> IF n.type = "validator" /\ n.owner \in Contracts /\ providerOwner[n.owner] # ""
                                THEN [n EXCEPT !.provider = n.owner, !.owner = providerOwner[n.owner]] ELSE n]
  <1>1. MadeOf(f, ns, applyNodeProviders(ns))
    BY Zenon DEF applyNodeProviders, MadeOf
  <1>2. ASSUME NEW n \in ns PROVE SameStatus(f[n], n) /\ SameAuction(f[n], n) /\ StakedBy(f[n]) = n.owner
    <2> DEFINE o == n.owner
               po == providerOwner[n.owner]
               m == f[n]
    <2>1. (o \in Contracts /\ m = [n EXCEPT !.provider = o, !.owner = po]) \/ m = n
      OBVIOUS
    <2>2. o \in Contracts => o # ""
      BY StakingAssumption DEF Addresses
    <2>3. IsNode(n) /\ n.provider = ""
      OBVIOUS
    <2> HIDE DEF o, po, m, f
    <2>4. /\ SameStatus(m, n) /\ SameAuction(m, n)
          /\ (m.provider = o /\ o \in Contracts) \/ (m.provider = n.provider /\ m.owner = n.owner)
      BY <2>1, <2>3 DEF SameStatus, SameAuction, IsNode, NodeFields
    <2>5. StakedBy(m) = n.owner
      BY <2>2, <2>3, <2>4 DEF StakedBy, o
    <2> QED BY <2>4, <2>5 DEF m
  <1> HIDE DEF f
  <1> QED BY <1>1, <1>2, Zenon

\* processAuctions marks the nodes that are in the auction list, and no others.
Marked(m, n, auctions) ==
    /\ SameNode(m, n)
    /\ IF \E a \in auctions : a.bls = n.bls
       THEN m.auctioned = TRUE /\ m.auctionQualified \in {"yes", "no"} ELSE SameAuction(m, n)

\* It marks each node of the list so, whatever else the auctions say.
LEMMA AuctionOnly ==
    ASSUME NEW ns, NEW auctions, \A n \in ns : IsNode(n),
           \A a \in auctions : a.qualified \in {"yes", "no"}
    PROVE  \E f : MadeOf(f, ns, processAuctions(ns, auctions)) /\ \A n \in ns : Marked(f[n], n, auctions)
  <1> DEFINE threshold == (getMinimumAuctionStake(auctions) * 105) \div 100
             f == [n \in ns |-> IF \E a \in auctions : a.bls = n.bls
                THEN LET a == CHOOSE a \in auctions : a.bls = n.bls
                     IN  [n EXCEPT !.auctioned = TRUE, !.auctionTopUp = a.qualifiedTopUp, !.auctionQualified = a.qualified,
                                   !.isInDangerZone = n.status = "auction" /\ a.qualified = "yes" /\ n.stake + a.qualifiedTopUp < threshold]
                ELSE n]
  <1>1. MadeOf(f, ns, processAuctions(ns, auctions))
    BY Zenon DEF processAuctions, MadeOf
  <1> HIDE DEF threshold
  <1>2. ASSUME NEW n \in ns PROVE Marked(f[n], n, auctions)
    <2> DEFINE m == f[n]
               a == CHOOSE a \in auctions : a.bls = n.bls
               t == a.qualifiedTopUp
               q == a.qualified
               d == n.status = "auction" /\ a.qualified = "yes" /\ n.stake + a.qualifiedTopUp < threshold
    <2>1. IF \E x \in auctions : x.bls = n.bls
          THEN m = [n EXCEPT !.auctioned = TRUE, !.auctionTopUp = t, !.auctionQualified = q, !.isInDangerZone = d] ELSE m = n
      OBVIOUS
    <2>2. (\E x \in auctions : x.bls = n.bls) => q \in {"yes", "no"}
      OBVIOUS
    <2>3. IsNode(n)
      OBVIOUS
    <2> HIDE DEF m, t, q, d, a, f
    <2>4. CASE \E x \in auctions : x.bls = n.bls
      <3>1. m = [n EXCEPT !.auctioned = TRUE, !.auctionTopUp = t, !.auctionQualified = q, !.isInDangerZone = d]
        BY <2>1, <2>4
      <3>2. SameNode(m, n) /\ m.auctioned = TRUE /\ m.auctionQualified = q
        BY <2>3, <3>1 DEF SameNode, SameStatus, IsNode, NodeFields
      <3> QED BY <2>2, <2>4, <3>2 DEF Marked, m
    <2>5. CASE ~ \E x \in auctions : x.bls = n.bls
      <3>1. m = n
        BY <2>1, <2>5
      <3> QED BY <2>3, <2>5, <3>1 DEF Marked, SameNode, SameStatus, SameAuction, m
    <2> QED BY <2>4, <2>5
  <1> HIDE DEF f
  <1> QED BY <1>1, <1>2, Zenon


-----------------------------------------------------------------------------
(* The inductive invariant, in four parts.                                 *)

ChainType == [owner : [Blses -> Addresses], topUp : [Addresses -> Nat], contracts : SUBSET Contracts]

ChainOK ==
    /\ epoch \in Epochs
    /\ chain \in ChainType
    /\ ownedIn \in [Blses -> [Epochs -> SUBSET Addresses]]
    /\ \A b \in Blses : chain.owner[b] \in ownedIn[b][epoch]

\* What is cached for an epoch is an owner the node has had since.
CacheOK ==
    /\ ownerCache \in [Blses -> [Epochs -> Addresses \cup {None}]]
    /\ \A b \in Blses, e \in Epochs : ownerCache[b][e] # None => ownerCache[b][e] \in OwnedSince(b, e)

\* The status of a node and its type, of the statuses and the queue of two epochs.
StatusAt(b, s, q) == IF b \in Network[q].queue THEN "queued" ELSE Network[s].status[b]
TypeAt(b, s, q) == IF b \in Network[q].queue THEN "validator" ELSE TypeOfStatus(Network[s].status[b])
StatusOK(n, s, q) == n.status = StatusAt(n.bls, s, q) /\ n.type = TypeAt(n.bls, s, q)

\* A list in the making: its nodes are in no auction yet.
ReadOK ==
    /\ nodeJob.statuses \in Epochs
    /\ OneEach(nodeJob.list)
    /\ \A n \in nodeJob.list : IsNode(n) /\ n.auctioned = FALSE

\* The statuses are those of the epoch they were read in, and then the queue that of its own.
HeartbeatsOK ==
    \A n \in nodeJob.list : n.status = Network[nodeJob.statuses].status[n.bls] /\ n.type = TypeOfStatus(n.status)
QueueOK == nodeJob.queue \in Epochs /\ \A n \in nodeJob.list : StatusOK(n, nodeJob.statuses, nodeJob.queue)

\* Before the owners are applied the nodes have none.
UnownedOK == \A n \in nodeJob.list : n.owner = "" /\ n.provider = ""

\* The epoch of the keys has begun.
EpochOK == nodeJob.epoch \in Epochs /\ nodeJob.epoch <= epoch

\* What a step of the loop of getOwners may change.
Looped(step, left, owner, todo, known) ==
    [nodeJob EXCEPT !.step = step, !.left = left, !.owner = owner, !.todo = todo, !.known = known]

\* The loop of getOwners knows owners the nodes have had since that epoch.
AnswersOK ==
    /\ nodeJob = [step |-> nodeJob.step, list |-> nodeJob.list, statuses |-> nodeJob.statuses, queue |-> nodeJob.queue,
                  epoch |-> nodeJob.epoch, known |-> nodeJob.known, missing |-> nodeJob.missing, left |-> nodeJob.left,
                  owner |-> nodeJob.owner, todo |-> nodeJob.todo]
    /\ DOMAIN nodeJob.known = ValidatorBlses(nodeJob.list)
    /\ \A b \in DOMAIN nodeJob.known : nodeJob.known[b] \in {None} \cup OwnedSince(b, nodeJob.epoch)

\* So is the owner whose keys it is about to keep.
KeysOK ==
    /\ nodeJob.owner \in Addresses
    /\ \A k \in nodeJob.todo : k \in Blses /\ nodeJob.owner \in OwnedSince(k, nodeJob.epoch)

\* The epoch that decides on the auctions has begun.
CurrentOK == nodeJob.currentEpoch \in Epochs /\ nodeJob.currentEpoch <= epoch

OwnedOK == \A n \in nodeJob.list : StakedBy(n) \in {""} \cup OwnedSince(n.bls, nodeJob.epoch)

Asking == {"owners", "keys", "setOwner"}
Owned == {"stakes", "setStakes", "auctions"}

JobOK ==
    /\ nodeJob.step \in {"idle", "queue", "epoch", "cached"} \cup Asking \cup Owned
    /\ nodeJob.step # "idle" => ReadOK
    /\ nodeJob.step = "queue" => HeartbeatsOK
    /\ nodeJob.step \in {"epoch", "cached"} \cup Asking \cup Owned => QueueOK
    /\ nodeJob.step \in {"queue", "epoch", "cached"} \cup Asking => UnownedOK
    /\ nodeJob.step \in {"cached"} \cup Asking \cup Owned => EpochOK
    /\ nodeJob.step \in Asking => AnswersOK
    /\ nodeJob.step = "setOwner" => KeysOK
    /\ nodeJob.step \in Owned => OwnedOK
    /\ nodeJob.step = "auctions" => CurrentOK

\* From the start of staking V4 the nodes in auction are the ones marked, each with an answer
\* to whether it qualifies.
AuctionOK(n, x) ==
    IF x >= V4Epoch /\ Network[x].status[n.bls] = "auction"
    THEN n.auctioned = TRUE /\ n.auctionQualified \in {"yes", "no"} ELSE n.auctioned = FALSE

\* A list whose statuses, queue and auctions are those of one epoch.
Fresh(ns, x) == x \in Epochs /\ OneEach(ns) /\ \A n \in ns : StatusOK(n, x, x) /\ AuctionOK(n, x)

ListOK == \A x \in Epochs : readIn = [statuses |-> x, queue |-> x, auctions |-> x] => nodes = {} \/ Fresh(nodes, x)

IInv == ChainOK /\ CacheOK /\ JobOK /\ ListOK

\* What a step does to the chain as far as the others can tell: the epochs go on, and each keeps
\* the owners it has had.
ChainGrows ==
    /\ epoch \in Epochs /\ epoch' \in Epochs /\ epoch <= epoch'
    /\ \A b \in Blses, e \in Epochs : e <= epoch => ownedIn[b][e] \subseteq ownedIn'[b][e]

\* An epoch between two is one.
LEMMA EpochsBetween ==
    ASSUME NEW e \in Epochs, NEW x \in Epochs, NEW y \in Epochs, x <= y, NEW i \in e..x
    PROVE  i \in Epochs /\ i <= x /\ i \in e..y
  <1>1. MaxEpoch \in Nat
    BY StakingAssumption
  <1> QED BY <1>1 DEF Epochs

\* So whoever has owned a node since an epoch still has.
LEMMA SinceGrows ==
    ASSUME ChainGrows, NEW b \in Blses, NEW e \in Epochs
    PROVE  OwnedSince(b, e) \subseteq OwnedSince(b, e)'
  <1> SUFFICES ASSUME NEW a \in OwnedSince(b, e) PROVE a \in OwnedSince(b, e)'
    OBVIOUS
  <1>1. PICK i \in e..epoch : a \in ownedIn[b][i]
    BY DEF OwnedSince
  <1>2. i \in Epochs /\ i <= epoch /\ i \in e..epoch'
    BY EpochsBetween DEF ChainGrows
  <1>3. a \in ownedIn'[b][i]
    BY <1>1, <1>2 DEF ChainGrows
  <1> QED BY <1>2, <1>3 DEF OwnedSince

\* The owner of this moment is one since any epoch that has begun.
LEMMA OwnerSince ==
    ASSUME ChainOK, NEW b \in Blses, NEW e \in Epochs, e <= epoch
    PROVE  chain.owner[b] \in OwnedSince(b, e) /\ chain.owner[b] \in Addresses
  <1>1. epoch \in e..epoch
    BY DEF ChainOK, Epochs
  <1>2. chain.owner[b] \in Addresses
    BY DEF ChainOK, ChainType
  <1> QED BY <1>1, <1>2 DEF ChainOK, OwnedSince

-----------------------------------------------------------------------------
(* The chain.                                                              *)

\* A merge keeps the records of the chain: the new owner is one of this epoch.
LEMMA MergeGrows ==
    ASSUME ChainOK, NEW m \in Merges, Merge(m[1], m[2])
    PROVE  ChainOK' /\ ChainGrows
  <1> DEFINE w == m[1]
             c == m[2]
  <1>1. w \in Wallets /\ c \in Contracts /\ c \in Addresses /\ w \in Addresses
    BY ChainAssumption DEF Addresses
  <1> DEFINE own == [b \in Blses |-> IF chain.owner[b] = w THEN c ELSE chain.owner[b]]
             top == [chain.topUp EXCEPT ![c] = @ + chain.topUp[w], ![w] = 0]
             con == chain.contracts \cup {c}
  <1>2. chain' = [chain EXCEPT !.owner = own, !.topUp = top, !.contracts = con] /\ epoch' = epoch
    BY DEF Merge
  <1>3. ownedIn' = [b \in Blses |-> IF chain.owner[b] = w THEN [ownedIn[b] EXCEPT ![epoch] = @ \cup {c}] ELSE ownedIn[b]]
    BY DEF Merge
  <1>4. own \in [Blses -> Addresses] /\ top \in [Addresses -> Nat] /\ con \in SUBSET Contracts
    BY <1>1 DEF ChainOK, ChainType
  <1>5. \A b \in Blses : own[b] = (IF chain.owner[b] = w THEN c ELSE chain.owner[b])
    OBVIOUS
  <1> HIDE DEF own, top, con, w, c
  <1>6. chain' \in ChainType /\ chain'.owner = own
    BY <1>2, <1>4 DEF ChainOK, ChainType
  <1>8. ownedIn' \in [Blses -> [Epochs -> SUBSET Addresses]]
    BY <1>1, <1>3 DEF ChainOK
  <1>9. \A b \in Blses : own[b] \in ownedIn'[b][epoch]
    BY <1>3, <1>5 DEF ChainOK
  <1>10. \A b \in Blses, e \in Epochs : ownedIn[b][e] \subseteq ownedIn'[b][e]
    BY <1>3 DEF ChainOK
  <1>11. epoch <= epoch
    BY DEF ChainOK, Epochs
  <1> QED BY <1>2, <1>6, <1>8, <1>9, <1>10, <1>11 DEF ChainOK, ChainGrows

\* So does a delegation.
LEMMA DelegateGrows ==
    ASSUME ChainOK, NEW c \in Contracts, Delegate(c)
    PROVE  ChainOK' /\ ChainGrows
  <1>1. chain' = [chain EXCEPT !.topUp[c] = @ + 1] /\ UNCHANGED <<epoch, ownedIn>>
    BY DEF Delegate
  <1>2. c \in Addresses
    BY DEF Addresses
  <1> DEFINE top == [chain.topUp EXCEPT ![c] = @ + 1]
  <1>3. top \in [Addresses -> Nat]
    BY <1>2 DEF ChainOK, ChainType
  <1>4. chain' = [chain EXCEPT !.topUp = top]
    BY <1>1
  <1> HIDE DEF top
  <1>5. chain' \in ChainType /\ chain'.owner = chain.owner
    BY <1>3, <1>4 DEF ChainOK, ChainType
  <1>6. epoch <= epoch
    BY DEF ChainOK, Epochs
  <1> QED BY <1>1, <1>5, <1>6 DEF ChainOK, ChainGrows

\* A new epoch begins with the owners there are, and leaves those of the epochs before alone.
LEMMA NewEpochGrows ==
    ASSUME ChainOK, NewEpoch
    PROVE  ChainOK' /\ ChainGrows
  <1>1. /\ epoch < MaxEpoch /\ epoch' = epoch + 1 /\ chain' = chain
        /\ ownedIn' = [b \in Blses |-> [ownedIn[b] EXCEPT ![epoch + 1] = {chain.owner[b]}]]
    BY DEF NewEpoch
  <1>2. epoch' \in Epochs /\ epoch < epoch' /\ epoch \in Int /\ epoch' \in Int /\ \A e \in Epochs : e <= epoch => e # epoch'
    <2>1. MaxEpoch \in Nat /\ epoch \in 0..MaxEpoch
      BY StakingAssumption DEF ChainOK, Epochs
    <2> QED BY <1>1, <2>1 DEF Epochs
  <1>3. ownedIn' = [b \in Blses |-> [ownedIn[b] EXCEPT ![epoch'] = {chain.owner[b]}]]
    BY <1>1
  <1>4. \A b \in Blses : chain.owner[b] \in Addresses
    BY DEF ChainOK, ChainType
  <1>5. ownedIn' \in [Blses -> [Epochs -> SUBSET Addresses]]
    BY <1>2, <1>3, <1>4 DEF ChainOK
  <1>6. \A b \in Blses : chain.owner[b] \in ownedIn'[b][epoch']
    BY <1>2, <1>3 DEF ChainOK
  <1>7. \A b \in Blses, e \in Epochs : e <= epoch => ownedIn[b][e] \subseteq ownedIn'[b][e]
    BY <1>2, <1>3 DEF ChainOK
  <1>8. ChainOK'
    BY <1>1, <1>2, <1>5, <1>6 DEF ChainOK
  <1>9. ChainGrows
    BY <1>2, <1>7 DEF ChainGrows, ChainOK
  <1> QED BY <1>8, <1>9

\* What leaves the chain alone keeps it.
LEMMA ChainStays ==
    ASSUME ChainOK, UNCHANGED <<epoch, chain, ownedIn>>
    PROVE  ChainOK' /\ ChainGrows
  <1>1. epoch <= epoch
    BY DEF ChainOK, Epochs
  <1> QED BY <1>1 DEF ChainOK, ChainGrows

-----------------------------------------------------------------------------
(* The cached owners.                                                      *)

\* A cache that nobody writes stays right.
LEMMA CacheStays ==
    ASSUME CacheOK, ChainGrows, UNCHANGED ownerCache
    PROVE  CacheOK'
  <1> SUFFICES ASSUME NEW b \in Blses, NEW e \in Epochs, ownerCache[b][e] # None
               PROVE  ownerCache[b][e] \in OwnedSince(b, e)'
    BY DEF CacheOK
  <1> QED BY SinceGrows DEF CacheOK

\* The processor only deletes.
LEMMA CacheDeleted ==
    ASSUME ChainOK, CacheOK, NEW t \in transactions, ProcessTransaction(t)
    PROVE  CacheOK'
  <1>1. UNCHANGED <<epoch, ownedIn>>
    BY DEF ProcessTransaction
  <1>2. CASE UNCHANGED ownerCache
    BY <1>1, <1>2 DEF CacheOK, OwnedSince
  <1>3. CASE deleteOwnersForAddressInCache(t.address)
    <2> DEFINE blses == {n.bls : n \in {n \in nodes : n.owner = t.address}}
    <2>1. ownerCache' = [b \in Blses |-> IF b \in blses THEN [ownerCache[b] EXCEPT ![epoch] = None] ELSE ownerCache[b]]
      BY <1>3 DEF deleteOwnersForAddressInCache
    <2> HIDE DEF blses
    <2>2. epoch \in Epochs
      BY DEF ChainOK
    <2>3. ownerCache' \in [Blses -> [Epochs -> Addresses \cup {None}]]
      BY <2>1, <2>2 DEF CacheOK
    <2>4. \A b \in Blses, e \in Epochs : ownerCache'[b][e] \in {None, ownerCache[b][e]}
      BY <2>1, <2>2 DEF CacheOK
    <2> QED BY <1>1, <2>3, <2>4 DEF CacheOK, OwnedSince
  <1> QED BY <1>2, <1>3 DEF ProcessTransaction, tryInvalidateOwner

\* The job keeps one key at a time, under the epoch it has read, and what was right since.
LEMMA CacheWritten ==
    ASSUME CacheOK, EpochOK, KeysOK, NEW k \in nodeJob.todo, SetOwner(k)
    PROVE  CacheOK'
  <1>1. UNCHANGED <<epoch, ownedIn>>
    BY DEF SetOwner, chainVars
  <1> DEFINE ep == nodeJob.epoch
             own == nodeJob.owner
  <1>2. ownerCache' = [b \in Blses |-> IF b = k THEN [ownerCache[b] EXCEPT ![ep] = own] ELSE ownerCache[b]]
    BY DEF SetOwner
  <1>3. ep \in Epochs /\ own \in Addresses /\ k \in Blses /\ own \in OwnedSince(k, ep)
    BY DEF EpochOK, KeysOK
  <1> HIDE DEF ep, own
  <1>4. ownerCache' \in [Blses -> [Epochs -> Addresses \cup {None}]]
    BY <1>2, <1>3 DEF CacheOK
  <1>5. \A b \in Blses, e \in Epochs :
            \/ ownerCache'[b][e] = ownerCache[b][e]
            \/ b = k /\ e = ep /\ ownerCache'[b][e] = own
    BY <1>2, <1>3 DEF CacheOK
  <1>6. \A b \in Blses, e \in Epochs : ownerCache'[b][e] # None => ownerCache'[b][e] \in OwnedSince(b, e)
    BY <1>3, <1>5 DEF CacheOK
  <1> QED BY <1>1, <1>4, <1>6 DEF CacheOK, OwnedSince

-----------------------------------------------------------------------------
(* The job.                                                                *)

\* While others take their steps what the job holds stays right: its list and its epochs say
\* nothing of the present, and who has owned a node since an epoch still has.
LEMMA JobStays ==
    ASSUME JobOK, ChainGrows, UNCHANGED nodeJob
    PROVE  JobOK'
  <1>1. UNCHANGED <<ReadOK, HeartbeatsOK, QueueOK, UnownedOK>>
    BY DEF ReadOK, HeartbeatsOK, QueueOK, UnownedOK
  <1>2. EpochOK => EpochOK' /\ \A b \in Blses : OwnedSince(b, nodeJob.epoch) \subseteq OwnedSince(b, nodeJob.epoch)'
    <2>1. EpochOK => EpochOK'
      BY DEF EpochOK, ChainGrows, Epochs
    <2>2. ASSUME EpochOK, NEW b \in Blses PROVE OwnedSince(b, nodeJob.epoch) \subseteq OwnedSince(b, nodeJob.epoch)'
      <3>1. nodeJob.epoch \in Epochs
        BY <2>2 DEF EpochOK
      <3> DEFINE ep == nodeJob.epoch
      <3> HIDE DEF ep
      <3>2. OwnedSince(b, ep) \subseteq UNION {ownedIn'[b][i] : i \in ep..epoch'}
        <4>1. ep \in Epochs
          BY <3>1 DEF ep
        <4> QED BY <4>1, <2>2, SinceGrows DEF OwnedSince
      <3> QED BY <3>2 DEF OwnedSince, ep
    <2> QED BY <2>1, <2>2
  <1>3. ASSUME ReadOK PROVE /\ \A n \in nodeJob.list : n.bls \in Blses
                            /\ ValidatorBlses(nodeJob.list) \subseteq Blses
    <2>1. \A n \in nodeJob.list : n.bls \in Blses
      BY <1>3 DEF ReadOK, OneEach
    <2> QED BY <2>1 DEF ValidatorBlses
  <1>4. ReadOK /\ EpochOK /\ AnswersOK => AnswersOK'
    <2> SUFFICES ASSUME ReadOK, EpochOK, AnswersOK PROVE AnswersOK'
      OBVIOUS
    <2>1. \A b \in DOMAIN nodeJob.known : b \in Blses /\ nodeJob.known[b] \in {None} \cup OwnedSince(b, nodeJob.epoch)'
      BY <1>2, <1>3 DEF AnswersOK
    <2> QED BY <2>1 DEF AnswersOK, OwnedSince
  <1>5. EpochOK /\ KeysOK => KeysOK'
    <2> SUFFICES ASSUME EpochOK, KeysOK PROVE KeysOK'
      OBVIOUS
    <2>1. \A k \in nodeJob.todo : k \in Blses /\ nodeJob.owner \in OwnedSince(k, nodeJob.epoch)'
      BY <1>2 DEF KeysOK
    <2> QED BY <2>1 DEF KeysOK, OwnedSince
  <1>6. ReadOK /\ EpochOK /\ OwnedOK => OwnedOK'
    <2> SUFFICES ASSUME ReadOK, EpochOK, OwnedOK PROVE OwnedOK'
      OBVIOUS
    <2>1. \A n \in nodeJob.list : StakedBy(n) \in {""} \cup OwnedSince(n.bls, nodeJob.epoch)'
      BY <1>2, <1>3 DEF OwnedOK
    <2> QED BY <2>1 DEF OwnedOK, OwnedSince, StakedBy
  <1>7. nodeJob.step \in {"cached"} \cup Asking \cup Owned => nodeJob.step # "idle"
    BY DEF Asking, Owned
  <1>8. CurrentOK => CurrentOK'
    BY DEF CurrentOK, ChainGrows, Epochs
  <1> QED BY <1>1, <1>2, <1>4, <1>5, <1>6, <1>7, <1>8 DEF JobOK, Asking, Owned

\* The job that has ended holds nothing.
LEMMA IdleOK == ASSUME nodeJob' = Idle PROVE JobOK'
  BY DEF JobOK, Idle, Asking, Owned

\* The heartbeats are those of the epoch, with neither owners nor auctions.
LEMMA ReadNodesOK ==
    ASSUME ChainOK, ReadNodes
    PROVE  JobOK'
  <1> DEFINE new == getHeartbeatAndValidators
             f == [b \in Blses |->
                    [bls |-> b, type |-> TypeOfStatus(Network[epoch].status[b]), status |-> Network[epoch].status[b],
                     owner |-> "", provider |-> "", identity |-> ClaimedBy[b], auctioned |-> FALSE, auctionQualified |-> None,
                     isInDangerZone |-> FALSE, auctionTopUp |-> 0, stake |-> 0, topUp |-> 0, locked |-> 0]]
  <1>1. nodeJob' = [step |-> "queue", list |-> new, statuses |-> epoch]
    BY DEF ReadNodes
  <1>2. new = {f[b] : b \in Blses} /\ DOMAIN f = Blses
    BY Zenon DEF getHeartbeatAndValidators
  <1>3. ASSUME NEW b \in Blses
        PROVE  /\ IsNode(f[b]) /\ f[b].bls = b /\ f[b].owner = "" /\ f[b].provider = "" /\ f[b].auctioned = FALSE
               /\ f[b].status = Network[epoch].status[b] /\ f[b].type = TypeOfStatus(Network[epoch].status[b])
    <2> DEFINE s == Network[epoch].status[b]
               t == TypeOfStatus(Network[epoch].status[b])
               i == ClaimedBy[b]
               n == f[b]
    <2>1. n = [bls |-> b, type |-> t, status |-> s, owner |-> "", provider |-> "", identity |-> i, auctioned |-> FALSE,
               auctionQualified |-> None, isInDangerZone |-> FALSE, auctionTopUp |-> 0, stake |-> 0, topUp |-> 0, locked |-> 0]
      BY Zenon
    <2> HIDE DEF s, t, i, n, f
    <2>2. /\ IsNode(n) /\ n.bls = b /\ n.owner = "" /\ n.provider = "" /\ n.auctioned = FALSE
          /\ n.status = s /\ n.type = t
      BY <2>1 DEF IsNode, NodeFields
    <2> QED BY <2>2 DEF s, t, n
  <1> HIDE DEF f, new
  <1>4. OneEach(new)
    <2>1. IsFiniteSet(new)
      BY <1>2, ChainAssumption, ImageFinite
    <2>2. new = {f[b] : b \in Blses} /\ \A b \in Blses : f[b].bls = b
      BY <1>2, <1>3
    <2>3. {n.bls : n \in new} = Blses
      BY <2>2
    <2>4. \A m, n \in new : m.bls = n.bls => m = n
      BY <2>2
    <2> QED BY <2>1, <2>3, <2>4 DEF OneEach
  <1>5. epoch \in Epochs
    BY DEF ChainOK
  <1>6. nodeJob'.step = "queue" /\ nodeJob'.list = new /\ nodeJob'.statuses = epoch
    BY <1>1
  <1>10. \A n \in new : /\ IsNode(n) /\ n.owner = "" /\ n.provider = "" /\ n.auctioned = FALSE
                        /\ n.status = Network[epoch].status[n.bls] /\ n.type = TypeOfStatus(n.status)
    <2> SUFFICES ASSUME NEW b \in Blses
                 PROVE  /\ IsNode(f[b]) /\ f[b].owner = "" /\ f[b].provider = "" /\ f[b].auctioned = FALSE
                        /\ f[b].status = Network[epoch].status[f[b].bls] /\ f[b].type = TypeOfStatus(f[b].status)
      BY <1>2
    <2> QED BY <1>3
  <1>7. ReadOK'
    BY <1>10, <1>4, <1>5, <1>6 DEF ReadOK, IsNode
  <1>8. HeartbeatsOK'
    BY <1>10, <1>6 DEF HeartbeatsOK, TypeOfStatus
  <1>9. UnownedOK'
    BY <1>10, <1>6 DEF UnownedOK
  <1> QED BY <1>6, <1>7, <1>8, <1>9 DEF JobOK, Asking, Owned

\* With the queue the nodes have their final status, and with it an identity.
LEMMA getQueueOK ==
    ASSUME ChainOK, JobOK, getQueue
    PROVE  JobOK'
  <1> DEFINE old == nodeJob.list
             queue == Network[epoch].queue
             mid == processQueuedNodes(old, queue)
             new == applyNodeIdentities(mid)
             st == nodeJob.statuses
  <1>1. nodeJob.step = "queue" /\ nodeJob' = [step |-> "epoch", list |-> new, statuses |-> st, queue |-> epoch]
    BY DEF getQueue
  <1>2. ReadOK /\ HeartbeatsOK /\ UnownedOK
    BY <1>1 DEF JobOK
  <1>3. OneEach(old) /\ \A n \in old : IsNode(n) /\ n.auctioned = FALSE /\ n.owner = "" /\ n.provider = ""
                                       /\ n.status = Network[st].status[n.bls] /\ n.type = TypeOfStatus(n.status)
    BY <1>2 DEF ReadOK, HeartbeatsOK, UnownedOK
  <1> HIDE DEF old, queue, mid, new, st
  <1>4. PICK f : MadeOf(f, old, mid) /\ \A n \in old : MayBeQueued(f[n], n, queue)
    BY <1>3, QueuedOnly DEF mid
  <1>5. mid = {f[n] : n \in old}
    BY <1>4 DEF MadeOf
  <1>6. OneEach(mid)
    <2>1. \A n \in old : f[n].bls = n.bls
      BY <1>4 DEF MayBeQueued
    <2>2. OneEach(old)
      BY <1>3
    <2>3. MadeOf(f, old, mid)
      BY <1>4
    <2> QED BY <2>1, <2>2, <2>3, MadeOfOneEach
  <1>7. \A m \in mid : IsNode(m) /\ m.auctioned = FALSE /\ m.owner = "" /\ m.provider = "" /\ StatusOK(m, st, epoch)
    <2> SUFFICES ASSUME NEW n \in old
                 PROVE  /\ IsNode(f[n]) /\ f[n].auctioned = FALSE /\ f[n].owner = "" /\ f[n].provider = ""
                        /\ StatusOK(f[n], st, epoch)
      BY <1>5
    <2>1. MayBeQueued(f[n], n, queue)
      BY <1>4
    <2> QED BY <1>3, <2>1 DEF MayBeQueued, SameAuction, StatusOK, StatusAt, TypeAt, queue
  <1>8. PICK g : MadeOf(g, mid, new) /\ \A n \in mid : SameNode(g[n], n) /\ SameAuction(g[n], n)
    BY <1>7, IdentityOnly DEF new
  <1>9. new = {g[n] : n \in mid}
    BY <1>8 DEF MadeOf
  <1>10. OneEach(new)
    BY <1>6, <1>8, MadeOfOneEach DEF SameNode, SameStatus
  <1>11. \A m \in new : IsNode(m) /\ m.auctioned = FALSE /\ m.owner = "" /\ m.provider = "" /\ StatusOK(m, st, epoch)
    <2> SUFFICES ASSUME NEW n \in mid
                 PROVE  /\ IsNode(g[n]) /\ g[n].auctioned = FALSE /\ g[n].owner = "" /\ g[n].provider = ""
                        /\ StatusOK(g[n], st, epoch)
      BY <1>9
    <2>1. SameNode(g[n], n) /\ SameAuction(g[n], n)
      BY <1>8
    <2> QED BY <1>7, <2>1 DEF SameNode, SameStatus, SameAuction, StatusOK
  <1>12. nodeJob'.step = "epoch" /\ nodeJob'.list = new /\ nodeJob'.statuses = nodeJob.statuses /\ nodeJob'.queue = epoch
    BY <1>1 DEF st
  <1>13. ReadOK'
    BY <1>2, <1>10, <1>11, <1>12 DEF ReadOK
  <1>14. QueueOK'
    BY <1>11, <1>12 DEF QueueOK, ChainOK, st
  <1>15. UnownedOK'
    BY <1>11, <1>12 DEF UnownedOK
  <1> QED BY <1>12, <1>13, <1>14, <1>15 DEF JobOK, Asking, Owned

\* A step of the loop takes the list along.
LEMMA ListGoesOn ==
    ASSUME ReadOK, QueueOK,
           nodeJob'.list = nodeJob.list, nodeJob'.statuses = nodeJob.statuses, nodeJob'.queue = nodeJob.queue
    PROVE  ReadOK' /\ QueueOK' /\ UNCHANGED UnownedOK
  BY DEF ReadOK, QueueOK, UnownedOK

\* The epoch of the keys is one that has begun.
LEMMA ReadEpochOK ==
    ASSUME ChainOK, JobOK, ReadEpoch
    PROVE  JobOK'
  <1> DEFINE l == nodeJob.list
             st == nodeJob.statuses
             qu == nodeJob.queue
  <1>1. /\ nodeJob.step = "epoch" /\ UNCHANGED epoch
        /\ nodeJob' = [step |-> "cached", list |-> l, statuses |-> st, queue |-> qu, epoch |-> epoch]
    BY DEF ReadEpoch, chainVars
  <1> HIDE DEF l, st, qu
  <1>2. /\ nodeJob'.step = "cached" /\ nodeJob'.list = nodeJob.list /\ nodeJob'.statuses = nodeJob.statuses
        /\ nodeJob'.queue = nodeJob.queue /\ nodeJob'.epoch = epoch
    BY <1>1 DEF l, st, qu
  <1>3. ReadOK /\ QueueOK /\ UnownedOK
    BY <1>1 DEF JobOK
  <1>4. ReadOK' /\ QueueOK' /\ UnownedOK'
    BY <1>2, <1>3, ListGoesOn
  <1>5. EpochOK'
    BY <1>1, <1>2 DEF EpochOK, ChainOK, Epochs
  <1> QED BY <1>2, <1>4, <1>5 DEF JobOK, Asking, Owned

\* The loop begins with what is cached for that epoch.
LEMMA ReadOwnerCacheOK ==
    ASSUME CacheOK, JobOK, ReadOwnerCache
    PROVE  JobOK'
  <1> DEFINE l == nodeJob.list
             st == nodeJob.statuses
             qu == nodeJob.queue
             ep == nodeJob.epoch
             known == [b \in ValidatorBlses(nodeJob.list) |-> ownerCache[b][nodeJob.epoch]]
             missing == {b \in DOMAIN known : known[b] = None}
  <1>1. /\ nodeJob.step = "cached" /\ UNCHANGED <<epoch, ownedIn>>
        /\ nodeJob' = [step |-> "owners", list |-> l, statuses |-> st, queue |-> qu, epoch |-> ep,
                       known |-> known, missing |-> missing, left |-> missing, owner |-> None, todo |-> {}]
    BY Zenon DEF ReadOwnerCache, AskOwners, chainVars
  <1>2. ReadOK /\ QueueOK /\ UnownedOK /\ EpochOK
    BY <1>1 DEF JobOK
  <1>3. DOMAIN known = ValidatorBlses(l)
    OBVIOUS
  <1>4. \A b \in DOMAIN known : known[b] \in {None} \cup OwnedSince(b, ep)
    <2>1. ValidatorBlses(nodeJob.list) \subseteq Blses
      BY <1>2 DEF ReadOK, OneEach, ValidatorBlses
    <2>2. nodeJob.epoch \in Epochs
      BY <1>2 DEF EpochOK
    <2> QED BY <2>1, <2>2 DEF CacheOK
  <1> HIDE DEF l, st, qu, ep, known, missing
  <1>5. /\ nodeJob'.step = "owners" /\ nodeJob'.list = l /\ nodeJob'.statuses = st /\ nodeJob'.queue = qu /\ nodeJob'.epoch = ep
        /\ nodeJob'.known = known /\ nodeJob'.missing = missing /\ nodeJob'.left = missing /\ nodeJob'.owner = None
        /\ nodeJob'.todo = {}
    BY <1>1
  <1>6. ReadOK' /\ QueueOK' /\ UnownedOK'
    BY <1>2, <1>5, ListGoesOn DEF l, st, qu
  <1>7. EpochOK'
    BY <1>1, <1>2, <1>5 DEF EpochOK, ep
  <1>8. AnswersOK'
    <2>1. nodeJob' = [step |-> nodeJob'.step, list |-> nodeJob'.list, statuses |-> nodeJob'.statuses, queue |-> nodeJob'.queue,
                  epoch |-> nodeJob'.epoch, known |-> nodeJob'.known, missing |-> nodeJob'.missing, left |-> nodeJob'.left,
                  owner |-> nodeJob'.owner, todo |-> nodeJob'.todo]
      BY <1>1, <1>5
    <2>2. DOMAIN nodeJob'.known = ValidatorBlses(nodeJob'.list)
      BY <1>3, <1>5
    <2>3. \A b \in DOMAIN nodeJob'.known : nodeJob'.known[b] \in {None} \cup OwnedSince(b, nodeJob.epoch)'
      BY <1>1, <1>4, <1>5 DEF OwnedSince
    <2> QED BY <2>1, <2>2, <2>3 DEF AnswersOK, ValidatorBlses, OwnedSince
  <1> QED BY <1>5, <1>6, <1>7, <1>8 DEF JobOK, Asking, Owned

\* A step of the loop that changes at most where it is and what it knows, and this rightly.
LEMMA LoopGoesOn ==
    ASSUME JobOK, nodeJob.step \in Asking, UNCHANGED <<epoch, ownedIn>>,
           NEW step \in Asking, NEW left, NEW owner, NEW todo, NEW known,
           nodeJob' = Looped(step, left, owner, todo, known),
           DOMAIN known = DOMAIN nodeJob.known,
           \A b \in DOMAIN known : known[b] \in {None} \cup OwnedSince(b, nodeJob.epoch),
           step = "setOwner" => /\ owner \in Addresses
                                /\ \A k \in todo : k \in Blses /\ owner \in OwnedSince(k, nodeJob.epoch)
    PROVE  JobOK'
  <1>1. ReadOK /\ QueueOK /\ UnownedOK /\ EpochOK /\ AnswersOK
    BY DEF JobOK, Asking
  <1> DEFINE l == nodeJob.list
             st == nodeJob.statuses
             qu == nodeJob.queue
             ep == nodeJob.epoch
             mi == nodeJob.missing
  <1>2. nodeJob' = [step |-> step, list |-> l, statuses |-> st, queue |-> qu, epoch |-> ep,
                    known |-> known, missing |-> mi, left |-> left, owner |-> owner, todo |-> todo]
    <2> DEFINE ks == nodeJob.known
               os == nodeJob.owner
               ts == nodeJob.todo
               ls == nodeJob.left
               ss == nodeJob.step
    <2>1. nodeJob = [step |-> ss, list |-> l, statuses |-> st, queue |-> qu, epoch |-> ep,
                     known |-> ks, missing |-> mi, left |-> ls, owner |-> os, todo |-> ts]
      BY <1>1 DEF AnswersOK
    <2>2. nodeJob' = [nodeJob EXCEPT !.step = step, !.left = left, !.owner = owner, !.todo = todo, !.known = known]
      BY DEF Looped
    <2> HIDE DEF ss, l, st, qu, ep, mi, ks, os, ts, ls
    <2> QED BY <2>1, <2>2
  <1>3. /\ DOMAIN known = ValidatorBlses(l)
        /\ \A b \in DOMAIN known : known[b] \in {None} \cup OwnedSince(b, ep)
        /\ step = "setOwner" => owner \in Addresses /\ \A k \in todo : k \in Blses /\ owner \in OwnedSince(k, ep)
    BY <1>1 DEF AnswersOK
  <1> HIDE DEF l, st, qu, ep, mi
  <1>4. /\ nodeJob'.step = step /\ nodeJob'.list = l /\ nodeJob'.statuses = st /\ nodeJob'.queue = qu /\ nodeJob'.epoch = ep
        /\ nodeJob'.known = known /\ nodeJob'.missing = mi /\ nodeJob'.left = left /\ nodeJob'.owner = owner /\ nodeJob'.todo = todo
    BY <1>2
  <1>5. ReadOK' /\ QueueOK' /\ UnownedOK'
    BY <1>1, <1>4, ListGoesOn DEF l, st, qu
  <1>6. EpochOK'
    BY <1>1, <1>4 DEF EpochOK, ep
  <1>7. AnswersOK'
    <2>1. nodeJob' = [step |-> nodeJob'.step, list |-> nodeJob'.list, statuses |-> nodeJob'.statuses, queue |-> nodeJob'.queue,
                  epoch |-> nodeJob'.epoch, known |-> nodeJob'.known, missing |-> nodeJob'.missing, left |-> nodeJob'.left,
                  owner |-> nodeJob'.owner, todo |-> nodeJob'.todo]
      BY <1>2, <1>4
    <2>2. DOMAIN nodeJob'.known = ValidatorBlses(nodeJob'.list)
      BY <1>3, <1>4
    <2>3. \A b \in DOMAIN nodeJob'.known : nodeJob'.known[b] \in {None} \cup OwnedSince(b, nodeJob.epoch)'
      BY <1>3, <1>4 DEF OwnedSince
    <2> QED BY <2>1, <2>2, <2>3 DEF AnswersOK, ValidatorBlses, OwnedSince
  <1>8. step = "setOwner" => KeysOK'
    BY <1>3, <1>4 DEF KeysOK, OwnedSince
  <1> QED BY <1>4, <1>5, <1>6, <1>7, <1>8 DEF JobOK, Asking, Owned

\* An owner is asked for.
LEMMA getBlsOwnerOK ==
    ASSUME JobOK, NEW b, getBlsOwner(b)
    PROVE  JobOK'
  <1>1. nodeJob.step = "owners" /\ UNCHANGED <<epoch, ownedIn>>
    BY DEF getBlsOwner, chainVars
  <1>2. AnswersOK
    BY <1>1 DEF JobOK, Asking
  <1>3. PICK answered \in May :
            nodeJob' = [nodeJob EXCEPT !.step = IF answered THEN "keys" ELSE "owners",
                                       !.left = nodeJob.left \ {b}, !.owner = IF answered THEN chain.owner[b] ELSE None]
    BY DEF getBlsOwner
  <1> DEFINE step == IF answered THEN "keys" ELSE "owners"
             left == nodeJob.left \ {b}
             owner == IF answered THEN chain.owner[b] ELSE None
             todo == nodeJob.todo
             known == nodeJob.known
  <1>4. nodeJob' = Looped(step, left, owner, todo, known)
    <2> HIDE DEF left, owner, step
    <2> QED BY <1>2, <1>3 DEF AnswersOK, Looped, left, owner, step
  <1>5. step \in Asking /\ step # "setOwner"
    BY DEF Asking
  <1>6. DOMAIN known = DOMAIN nodeJob.known /\ \A k \in DOMAIN known : known[k] \in {None} \cup OwnedSince(k, nodeJob.epoch)
    BY <1>2 DEF AnswersOK
  <1>7. nodeJob.step \in Asking
    BY <1>1 DEF Asking
  <1> HIDE DEF step, left, owner, todo, known
  <1> QED BY <1>1, <1>4, <1>5, <1>6, <1>7, LoopGoesOn

\* The keys of an owner belong to it at this moment, and so since any epoch that has begun.
LEMMA getOwnerBlsesOK ==
    ASSUME ChainOK, JobOK, getOwnerBlses
    PROVE  JobOK'
  <1>1. nodeJob.step = "keys" /\ UNCHANGED <<epoch, ownedIn>>
    BY DEF getOwnerBlses, chainVars
  <1>2. AnswersOK /\ EpochOK
    BY <1>1 DEF JobOK, Asking
  <1>3. PICK answered \in May :
            LET blses == IF answered THEN BlsesOf(nodeJob.owner) ELSE {} IN
            nodeJob' = [nodeJob EXCEPT !.step = IF blses = {} THEN "owners" ELSE "setOwner",
                                       !.owner = IF blses = {} THEN None ELSE nodeJob.owner, !.todo = blses]
    BY DEF getOwnerBlses
  <1> DEFINE todo == IF answered THEN BlsesOf(nodeJob.owner) ELSE {}
             step == IF todo = {} THEN "owners" ELSE "setOwner"
             owner == IF todo = {} THEN None ELSE nodeJob.owner
             left == nodeJob.left
             known == nodeJob.known
  <1>4. nodeJob' = Looped(step, left, owner, todo, known)
    <2> HIDE DEF todo
    <2>1. nodeJob' = [nodeJob EXCEPT !.step = step, !.owner = owner, !.todo = todo]
      BY <1>3 DEF todo
    <2> HIDE DEF owner, step
    <2> QED BY <1>2, <2>1 DEF AnswersOK, Looped
  <1>5. step \in Asking
    BY DEF Asking
  <1>6. DOMAIN known = DOMAIN nodeJob.known /\ \A k \in DOMAIN known : known[k] \in {None} \cup OwnedSince(k, nodeJob.epoch)
    BY <1>2 DEF AnswersOK
  <1>7. nodeJob.step \in Asking
    BY <1>1 DEF Asking
  <1>8. ASSUME NEW k \in todo PROVE k \in Blses /\ nodeJob.owner \in Addresses /\ nodeJob.owner \in OwnedSince(k, nodeJob.epoch)
    <2>1. k \in Blses /\ chain.owner[k] = nodeJob.owner
      BY <1>8 DEF BlsesOf
    <2>2. nodeJob.epoch \in Epochs /\ nodeJob.epoch <= epoch
      BY <1>2 DEF EpochOK
    <2>3. chain.owner[k] \in OwnedSince(k, nodeJob.epoch) /\ chain.owner[k] \in Addresses
      BY <2>1, <2>2, OwnerSince
    <2> QED BY <2>1, <2>3
  <1>9. step = "setOwner" => owner \in Addresses /\ \A k \in todo : k \in Blses /\ owner \in OwnedSince(k, nodeJob.epoch)
    <2> HIDE DEF todo
    <2> QED BY <1>8
  <1> HIDE DEF step, left, owner, todo, known
  <1> QED BY <1>1, <1>4, <1>5, <1>6, <1>7, <1>9, LoopGoesOn

\* What is kept is also what the loop knows.
LEMMA SetOwnerOK ==
    ASSUME JobOK, NEW k \in nodeJob.todo, SetOwner(k)
    PROVE  JobOK'
  <1>1. nodeJob.step = "setOwner" /\ UNCHANGED <<epoch, ownedIn>>
    BY DEF SetOwner, chainVars
  <1>2. AnswersOK /\ EpochOK /\ KeysOK
    BY <1>1 DEF JobOK, Asking
  <1> DEFINE todo == nodeJob.todo \ {k}
             step == IF todo = {} THEN "owners" ELSE "setOwner"
             owner == IF todo = {} THEN None ELSE nodeJob.owner
             left == nodeJob.left
             known == [b \in DOMAIN nodeJob.known |-> IF b = k /\ b \in nodeJob.missing THEN nodeJob.owner ELSE nodeJob.known[b]]
  <1>3. nodeJob' = [nodeJob EXCEPT !.step = step, !.todo = todo, !.owner = owner, !.known = known]
    BY Zenon DEF SetOwner
  <1>4. nodeJob' = Looped(step, left, owner, todo, known)
    <2> HIDE DEF owner, step, todo, known
    <2> QED BY <1>2, <1>3 DEF AnswersOK, Looped
  <1>5. step \in Asking
    BY DEF Asking
  <1>6. DOMAIN known = DOMAIN nodeJob.known /\ \A b \in DOMAIN known : known[b] \in {None} \cup OwnedSince(b, nodeJob.epoch)
    BY <1>2 DEF AnswersOK, KeysOK
  <1>7. nodeJob.step \in Asking
    BY <1>1 DEF Asking
  <1>8. step = "setOwner" => owner \in Addresses /\ \A b \in todo : b \in Blses /\ owner \in OwnedSince(b, nodeJob.epoch)
    BY <1>2 DEF KeysOK
  <1> HIDE DEF step, left, owner, todo, known
  <1> QED BY <1>1, <1>4, <1>5, <1>6, <1>7, <1>8, LoopGoesOn


\* The nodes have the owners that were found, and their stakers are these.
LEMMA applyNodeOwnersOK ==
    ASSUME JobOK, applyNodeOwners
    PROVE  JobOK'
  <1> DEFINE old == nodeJob.list
             known == nodeJob.known
             mid == OwnedBy(old, known)
             new == applyNodeProviders(mid)
             st == nodeJob.statuses
             qu == nodeJob.queue
             ep == nodeJob.epoch
  <1>1. /\ nodeJob.step = "owners" /\ UNCHANGED <<epoch, ownedIn>>
        /\ nodeJob' = [step |-> "stakes", list |-> new, statuses |-> st, queue |-> qu, epoch |-> ep]
    BY DEF applyNodeOwners, chainVars
  <1>2. ReadOK /\ QueueOK /\ UnownedOK /\ EpochOK /\ AnswersOK
    BY <1>1 DEF JobOK, Asking
  <1>3. /\ OneEach(old) /\ st \in Epochs /\ qu \in Epochs
        /\ \A n \in old : IsNode(n) /\ n.auctioned = FALSE /\ n.owner = "" /\ n.provider = "" /\ StatusOK(n, st, qu)
    BY <1>2 DEF ReadOK, QueueOK, UnownedOK
  <1>4. \A n \in old : n.bls \in Blses /\ (n.type = "validator" => known[n.bls] \in {None} \cup OwnedSince(n.bls, ep))
    BY <1>2 DEF AnswersOK, ValidatorBlses, ReadOK, OneEach
  <1> HIDE DEF old, known, mid, new, st, qu, ep
  <1>5. PICK f : MadeOf(f, old, mid) /\ \A n \in old : Given(f[n], n, known)
    <2>1. \A n \in old : IsNode(n)
      BY <1>3
    <2> QED BY <2>1, OwnersOnly DEF mid
  <1>6. mid = {f[n] : n \in old}
    BY <1>5 DEF MadeOf
  <1>7. OneEach(mid)
    <2>1. \A n \in old : f[n].bls = n.bls
      BY <1>5 DEF SameStatus, Given
    <2>2. OneEach(old) /\ MadeOf(f, old, mid)
      BY <1>3, <1>5
    <2> QED BY <2>1, <2>2, MadeOfOneEach
  <1>8. \A m \in mid : /\ IsNode(m) /\ m.auctioned = FALSE /\ m.provider = "" /\ StatusOK(m, st, qu)
                       /\ m.owner \in {""} \cup OwnedSince(m.bls, ep)
    <2> SUFFICES ASSUME NEW n \in old
                 PROVE  /\ IsNode(f[n]) /\ f[n].auctioned = FALSE /\ f[n].provider = "" /\ StatusOK(f[n], st, qu)
                        /\ f[n].owner \in {""} \cup OwnedSince(f[n].bls, ep)
      BY <1>6
    <2>1. /\ SameStatus(f[n], n) /\ SameAuction(f[n], n) /\ f[n].provider = n.provider
          /\ IF n.type = "validator" THEN f[n].owner = IF known[n.bls] = None THEN "" ELSE known[n.bls]
             ELSE f[n].owner = n.owner
      BY <1>5 DEF Given
    <2>2. f[n].owner \in {""} \cup OwnedSince(n.bls, ep)
      BY <1>3, <1>4, <2>1
    <2> QED BY <1>3, <2>1, <2>2 DEF SameStatus, SameAuction, StatusOK
  <1>9. PICK g : /\ MadeOf(g, mid, new)
                 /\ \A n \in mid : SameStatus(g[n], n) /\ SameAuction(g[n], n) /\ StakedBy(g[n]) = n.owner
    BY <1>8, ProvidersOnly DEF new
  <1>10. new = {g[n] : n \in mid}
    BY <1>9 DEF MadeOf
  <1>11. OneEach(new)
    <2>1. \A n \in mid : g[n].bls = n.bls
      BY <1>9 DEF SameStatus
    <2>2. MadeOf(g, mid, new)
      BY <1>9
    <2> QED BY <1>7, <2>1, <2>2, MadeOfOneEach
  <1>12. \A m \in new : /\ IsNode(m) /\ m.auctioned = FALSE /\ StatusOK(m, st, qu)
                        /\ StakedBy(m) \in {""} \cup OwnedSince(m.bls, ep)
    <2> SUFFICES ASSUME NEW n \in mid
                 PROVE  /\ IsNode(g[n]) /\ g[n].auctioned = FALSE /\ StatusOK(g[n], st, qu)
                        /\ StakedBy(g[n]) \in {""} \cup OwnedSince(g[n].bls, ep)
      BY <1>10
    <2>1. SameStatus(g[n], n) /\ SameAuction(g[n], n) /\ StakedBy(g[n]) = n.owner
      BY <1>9
    <2> QED BY <1>8, <2>1 DEF SameStatus, SameAuction, StatusOK
  <1>13. /\ nodeJob'.step = "stakes" /\ nodeJob'.list = new /\ nodeJob'.statuses = st /\ nodeJob'.queue = qu
         /\ nodeJob'.epoch = nodeJob.epoch
    BY <1>1 DEF ep
  <1>14. ReadOK'
    BY <1>3, <1>11, <1>12, <1>13 DEF ReadOK
  <1>15. QueueOK'
    BY <1>3, <1>12, <1>13 DEF QueueOK
  <1>16. EpochOK'
    BY <1>1, <1>2, <1>13 DEF EpochOK
  <1>17. OwnedOK'
    <2>1. \A m \in nodeJob'.list : StakedBy(m) \in {""} \cup OwnedSince(m.bls, nodeJob.epoch)
      BY <1>12, <1>13 DEF ep
    <2>2. UNCHANGED <<epoch, ownedIn>> /\ nodeJob'.epoch = nodeJob.epoch
      BY <1>1, <1>13
    <2> QED BY <2>1, <2>2 DEF OwnedOK, OwnedSince, StakedBy
  <1> QED BY <1>13, <1>14, <1>15, <1>16, <1>17 DEF JobOK, Asking, Owned

\* The answers of the stakes leave the list alone.
LEMMA getStakesOK ==
    ASSUME JobOK, getStakes
    PROVE  JobOK'
  <1> DEFINE l == nodeJob.list
             st == nodeJob.statuses
             qu == nodeJob.queue
             ep == nodeJob.epoch
  <1>1. /\ nodeJob.step = "stakes" /\ UNCHANGED <<epoch, ownedIn>>
        /\ \E s, f : nodeJob' = [step |-> "setStakes", list |-> l, statuses |-> st, queue |-> qu, epoch |-> ep, stakes |-> s, fresh |-> f]
    <2> DEFINE asked == {StakedBy(n) : n \in {n \in nodeJob.list : n.type = "validator"}} \ {""}
               fresh == asked \ DOMAIN stakeTopup
    <2>1. PICK unanswered \in {{}} \cup IF troubles < MaxTroubles THEN {{a} : a \in fresh} ELSE {} :
            nodeJob' = [step |-> "setStakes", list |-> l, statuses |-> st, queue |-> qu, epoch |-> ep,
                        stakes |-> [a \in asked |-> IF a \in fresh THEN getAllStakesForAddressNodesRaw(a, a \notin unanswered)
                                                    ELSE stakeTopup[a]],
                        fresh |-> fresh]
      BY Zenon DEF getStakes
    <2>2. \E s, f : nodeJob' = [step |-> "setStakes", list |-> l, statuses |-> st, queue |-> qu, epoch |-> ep, stakes |-> s, fresh |-> f]
      BY <2>1, Zenon
    <2>3. nodeJob.step = "stakes" /\ UNCHANGED <<epoch, ownedIn>>
      BY DEF getStakes, chainVars
    <2> QED BY <2>2, <2>3
  <1>2. ReadOK /\ QueueOK /\ EpochOK /\ OwnedOK
    BY <1>1 DEF JobOK, Owned
  <1> HIDE DEF l, st, qu, ep
  <1>3. /\ nodeJob'.step = "setStakes" /\ nodeJob'.list = nodeJob.list /\ nodeJob'.statuses = nodeJob.statuses
        /\ nodeJob'.queue = nodeJob.queue /\ nodeJob'.epoch = nodeJob.epoch
    BY <1>1 DEF l, st, qu, ep
  <1>4. ReadOK' /\ QueueOK'
    BY <1>2, <1>3, ListGoesOn
  <1>5. EpochOK'
    BY <1>1, <1>2, <1>3 DEF EpochOK
  <1>6. OwnedOK'
    BY <1>1, <1>2, <1>3 DEF OwnedOK, OwnedSince, StakedBy
  <1> QED BY <1>3, <1>4, <1>5, <1>6 DEF JobOK, Asking, Owned

\* The stakes change neither status nor staker of a node.
LEMMA SetStakesOK ==
    ASSUME ChainOK, JobOK, SetStakes
    PROVE  JobOK'
  <1> DEFINE old == nodeJob.list
             st == nodeJob.statuses
             qu == nodeJob.queue
             ep == nodeJob.epoch
             stakes == nodeJob.stakes
  <1>1. nodeJob.step = "setStakes" /\ UNCHANGED <<epoch, ownedIn>>
    BY DEF SetStakes, chainVars
  <1>2. PICK first \in Addresses :
            nodeJob' = [step |-> "auctions", list |-> applyNodeStakeInfo(old, stakes, first), statuses |-> st, queue |-> qu,
                        epoch |-> ep, currentEpoch |-> epoch]
    BY DEF SetStakes
  <1>3. ReadOK /\ QueueOK /\ EpochOK /\ OwnedOK
    BY <1>1 DEF JobOK, Owned
  <1>4. /\ OneEach(old) /\ st \in Epochs /\ qu \in Epochs
        /\ \A n \in old : /\ IsNode(n) /\ n.auctioned = FALSE /\ StatusOK(n, st, qu)
                          /\ StakedBy(n) \in {""} \cup OwnedSince(n.bls, ep)
    BY <1>3 DEF ReadOK, QueueOK, OwnedOK
  <1> DEFINE new == applyNodeStakeInfo(old, stakes, first)
  <1> HIDE DEF old, st, qu, ep, stakes, new
  <1>5. PICK f : MadeOf(f, old, new) /\ \A n \in old : SameNode(f[n], n) /\ SameAuction(f[n], n)
    BY <1>4, StakeOnly DEF new
  <1>6. new = {f[n] : n \in old}
    BY <1>5 DEF MadeOf
  <1>7. OneEach(new)
    <2>1. \A n \in old : f[n].bls = n.bls
      BY <1>5 DEF SameNode, SameStatus
    <2>2. OneEach(old) /\ MadeOf(f, old, new)
      BY <1>4, <1>5
    <2> QED BY <2>1, <2>2, MadeOfOneEach
  <1>8. \A m \in new : /\ IsNode(m) /\ m.auctioned = FALSE /\ StatusOK(m, st, qu)
                       /\ StakedBy(m) \in {""} \cup OwnedSince(m.bls, ep)
    <2> SUFFICES ASSUME NEW n \in old
                 PROVE  /\ IsNode(f[n]) /\ f[n].auctioned = FALSE /\ StatusOK(f[n], st, qu)
                        /\ StakedBy(f[n]) \in {""} \cup OwnedSince(f[n].bls, ep)
      BY <1>6
    <2>1. SameNode(f[n], n) /\ SameAuction(f[n], n)
      BY <1>5
    <2> QED BY <1>4, <2>1 DEF SameNode, SameStatus, SameAuction, StatusOK, StakedBy
  <1>9. /\ nodeJob'.step = "auctions" /\ nodeJob'.list = new /\ nodeJob'.statuses = st /\ nodeJob'.queue = qu
        /\ nodeJob'.epoch = nodeJob.epoch /\ nodeJob'.currentEpoch = epoch
    BY <1>2 DEF ep, new
  <1>10. ReadOK'
    BY <1>4, <1>7, <1>8, <1>9 DEF ReadOK
  <1>11. QueueOK'
    BY <1>4, <1>8, <1>9 DEF QueueOK
  <1>12. EpochOK'
    BY <1>1, <1>3, <1>9 DEF EpochOK
  <1>13. OwnedOK'
    <2>1. \A m \in nodeJob'.list : StakedBy(m) \in {""} \cup OwnedSince(m.bls, nodeJob.epoch)
      BY <1>8, <1>9 DEF ep
    <2> QED BY <1>1, <1>9, <2>1 DEF OwnedOK, OwnedSince, StakedBy
  <1>14. CurrentOK'
    BY <1>1, <1>9 DEF CurrentOK, ChainOK, Epochs
  <1> QED BY <1>9, <1>10, <1>11, <1>12, <1>13, <1>14 DEF JobOK, Asking, Owned

\* The auction list has an entry for every node in auction and no other, which qualifies or not.
LEMMA AuctionList ==
    ASSUME NEW qualified
    PROVE  /\ \A a \in ValidatorAuctions(qualified) : a.qualified \in {"yes", "no"}
           /\ \A b : (\E a \in ValidatorAuctions(qualified) : a.bls = b) <=> b \in InAuctionOf(epoch)
  <1> DEFINE topUp(b) == chain.topUp[chain.owner[b]] \div Cardinality(BlsesOf(chain.owner[b]))
             entry(b) == [bls |-> b, qualified |-> IF b \in qualified THEN "yes" ELSE "no", qualifiedTopUp |-> topUp(b)]
  <1>1. ValidatorAuctions(qualified) = {entry(b) : b \in InAuctionOf(epoch)}
    BY Zenon DEF ValidatorAuctions
  <1> HIDE DEF topUp
  <1>2. \A b : entry(b).bls = b /\ entry(b).qualified \in {"yes", "no"}
    OBVIOUS
  <1> HIDE DEF entry
  <1> QED BY <1>1, <1>2

\* What is published has stakers since the epoch of the keys, a node for each key, and, when all
\* that it was read from is of one epoch, the auctions of that epoch.
LEMMA PublishNodesOK ==
    ASSUME ChainOK, JobOK, PublishNodes
    PROVE  /\ ListOK' /\ OneEach(nodes')
           /\ \A n \in nodes' : StakedBy(n) \in {""} \cup OwnedSince(n.bls, nodeJob.epoch)
  <1> DEFINE old == nodeJob.list
             auctioned == nodeJob.currentEpoch >= V4Epoch
             st == nodeJob.statuses
             qu == nodeJob.queue
             au == IF auctioned THEN epoch ELSE nodeJob.currentEpoch
  <1>1. PICK qualified \in SUBSET InAuctionOf(epoch) :
            nodes' = IF auctioned THEN processAuctions(old, ValidatorAuctions(qualified)) ELSE old
    BY DEF PublishNodes
  <1>2. /\ nodeJob.step = "auctions"
        /\ readIn' = [statuses |-> st, queue |-> qu, auctions |-> au]
    BY DEF PublishNodes
  <1>3. /\ OneEach(old) /\ nodeJob.currentEpoch \in Epochs /\ nodeJob.currentEpoch <= epoch
        /\ \A n \in old : /\ IsNode(n) /\ n.auctioned = FALSE /\ StatusOK(n, st, qu)
                          /\ StakedBy(n) \in {""} \cup OwnedSince(n.bls, nodeJob.epoch)
    BY <1>2 DEF JobOK, Owned, ReadOK, QueueOK, OwnedOK, CurrentOK
  <1> DEFINE InList(b) == auctioned /\ b \in InAuctionOf(epoch)
  <1>4. PICK f : /\ MadeOf(f, old, nodes')
                 /\ \A n \in old : /\ SameNode(f[n], n)
                                   /\ IF InList(n.bls) THEN f[n].auctioned = TRUE /\ f[n].auctionQualified \in {"yes", "no"}
                                      ELSE f[n].auctioned = FALSE
    <2>1. CASE auctioned
      <3> DEFINE auctions == ValidatorAuctions(qualified)
                 new == processAuctions(old, auctions)
      <3>1. nodes' = new
        BY <1>1, <2>1
      <3>2. /\ \A a \in auctions : a.qualified \in {"yes", "no"}
            /\ \A b : (\E a \in auctions : a.bls = b) <=> InList(b)
        BY <2>1, AuctionList
      <3>3. \A n \in old : IsNode(n) /\ n.auctioned = FALSE
        BY <1>3
      <3> HIDE DEF auctions, new, old, InList, auctioned
      <3>4. PICK f : MadeOf(f, old, new) /\ \A n \in old : Marked(f[n], n, auctions)
        BY <3>2, <3>3, AuctionOnly DEF new
      <3>5. \A n \in old : /\ SameNode(f[n], n)
                           /\ IF InList(n.bls) THEN f[n].auctioned = TRUE /\ f[n].auctionQualified \in {"yes", "no"}
                              ELSE f[n].auctioned = FALSE
        BY <3>2, <3>3, <3>4 DEF Marked, SameAuction
      <3> QED BY <3>1, <3>4, <3>5
    <2>2. CASE ~auctioned
      <3> DEFINE f == [n \in old |-> n]
      <3>1. nodes' = old
        BY <1>1, <2>2
      <3>2. MadeOf(f, old, nodes')
        <4> HIDE DEF old
        <4> QED BY <3>1 DEF MadeOf
      <3>3. \A n \in old : SameNode(f[n], n) /\ f[n].auctioned = FALSE
        BY <1>3 DEF SameNode, SameStatus
      <3>4. \A n \in old : ~InList(n.bls)
        BY <2>2
      <3> HIDE DEF f, old, InList
      <3> QED BY <3>2, <3>3, <3>4
    <2> QED BY <2>1, <2>2
  <1> HIDE DEF old, InList, auctioned, st, qu, au
  <1>5. nodes' = {f[n] : n \in old}
    BY <1>4 DEF MadeOf
  <1>6. OneEach(nodes')
    <2>1. \A n \in old : f[n].bls = n.bls
      BY <1>4 DEF SameNode, SameStatus
    <2>2. OneEach(old) /\ MadeOf(f, old, nodes')
      BY <1>3, <1>4
    <2> QED BY <2>1, <2>2, MadeOfOneEach
  <1>7. \A m \in nodes' : /\ StatusOK(m, st, qu)
                          /\ StakedBy(m) \in {""} \cup OwnedSince(m.bls, nodeJob.epoch)
                          /\ IF InList(m.bls) THEN m.auctioned = TRUE /\ m.auctionQualified \in {"yes", "no"}
                             ELSE m.auctioned = FALSE
    <2> SUFFICES ASSUME NEW n \in old
                 PROVE  /\ StatusOK(f[n], st, qu)
                        /\ StakedBy(f[n]) \in {""} \cup OwnedSince(f[n].bls, nodeJob.epoch)
                        /\ IF InList(f[n].bls) THEN f[n].auctioned = TRUE /\ f[n].auctionQualified \in {"yes", "no"}
                           ELSE f[n].auctioned = FALSE
      BY <1>5
    <2>1. /\ SameNode(f[n], n)
          /\ IF InList(n.bls) THEN f[n].auctioned = TRUE /\ f[n].auctionQualified \in {"yes", "no"} ELSE f[n].auctioned = FALSE
      BY <1>4
    <2>2. f[n].bls = n.bls /\ f[n].status = n.status /\ f[n].type = n.type /\ StakedBy(f[n]) = StakedBy(n)
      BY <2>1 DEF SameNode, SameStatus, StakedBy
    <2> QED BY <1>3, <2>1, <2>2 DEF StatusOK
  <1>8. ASSUME NEW x \in Epochs, readIn' = [statuses |-> x, queue |-> x, auctions |-> x] PROVE Fresh(nodes', x)
    <2>1. st = x /\ qu = x /\ au = x
      BY <1>2, <1>8
    <2>2. \A m \in nodes' : m.bls \in Blses
      BY <1>6 DEF OneEach
    <2>3. \A m \in nodes' : InList(m.bls) <=> x >= V4Epoch /\ Network[x].status[m.bls] = "auction"
      <3>1. x >= V4Epoch <=> auctioned
        <4>0. V4Epoch \in Nat /\ MaxEpoch \in Nat
          BY StakingAssumption
        <4>1. epoch \in Int /\ V4Epoch \in Int /\ nodeJob.currentEpoch \in Int /\ nodeJob.currentEpoch <= epoch
          <5>1. epoch \in Epochs /\ nodeJob.currentEpoch \in Epochs /\ nodeJob.currentEpoch <= epoch
            BY <1>3 DEF ChainOK
          <5> QED BY <4>0, <5>1 DEF Epochs
        <4> QED BY <2>1, <4>1 DEF au, auctioned
      <3>2. auctioned => x = epoch
        BY <2>1 DEF au
      <3> QED BY <2>2, <3>1, <3>2 DEF InList, InAuctionOf
    <2>4. \A m \in nodes' : StatusOK(m, x, x) /\ AuctionOK(m, x)
      BY <1>7, <2>1, <2>3 DEF AuctionOK
    <2> QED BY <1>6, <2>4 DEF Fresh
  <1>9. ListOK'
    BY <1>8 DEF ListOK, Fresh
  <1> QED BY <1>6, <1>7, <1>9

-----------------------------------------------------------------------------
(* The invariant.                                                          *)

\* Nothing is cached, read or published in the beginning.
LEMMA InitOK == Init => IInv
  <1> SUFFICES ASSUME Init PROVE IInv
    OBVIOUS
  <1>1. 0 \in Epochs
    <2>1. MaxEpoch \in Nat
      BY StakingAssumption
    <2> QED BY <2>1 DEF Epochs
  <1>2. InitialChain \in ChainType
    BY ChainAssumption DEF ChainType
  <1>3. \A b \in Blses : InitialChain.owner[b] \in Addresses
    BY <1>2 DEF ChainType
  <1>4. ownedIn \in [Blses -> [Epochs -> SUBSET Addresses]] /\ \A b \in Blses : chain.owner[b] \in ownedIn[b][0]
    BY <1>1, <1>3 DEF Init
  <1>5. ChainOK
    BY <1>1, <1>2, <1>4 DEF Init, ChainOK
  <1>6. CacheOK
    BY DEF Init, CacheOK
  <1>7. JobOK
    BY DEF Init, JobOK, Idle, Asking, Owned
  <1>8. ListOK
    BY DEF Init, ListOK
  <1> QED BY <1>5, <1>6, <1>7, <1>8 DEF IInv

\* A list that nobody publishes stays as it is.
LEMMA ListStays == ASSUME ListOK, UNCHANGED <<nodes, readIn>> PROVE ListOK'
  BY DEF ListOK, Fresh

\* Who may change what: the chain in its own steps, the cache in the processor and the job, the
\* job and the list in the job.  The steps of the job, by what they change.
Deletes == \E t \in transactions : ProcessTransaction(t)
Keeps == nodeJob.step = "setOwner" /\ \E k \in nodeJob.todo : SetOwner(k)
Asks == ReadNodes \/ getQueue \/ ReadEpoch \/ ReadOwnerCache \/ (\E b : getBlsOwner(b)) \/ getOwnerBlses
Applies == applyNodeOwners \/ getStakes \/ SetStakes
Ends == PublishNodes \/ NodeJobFails

\* No step does more than that.
LEMMA Frames ==
    ASSUME [Next]_vars
    PROVE  /\ \/ \E m \in Merges : Merge(m[1], m[2])
              \/ \E c \in Contracts : Delegate(c)
              \/ NewEpoch
              \/ UNCHANGED <<epoch, chain, ownedIn>>
           /\ Deletes \/ Keeps \/ UNCHANGED ownerCache
           /\ Asks \/ Keeps \/ Applies \/ Ends \/ UNCHANGED nodeJob
           /\ PublishNodes \/ UNCHANGED <<nodes, readIn>>
  <1>1. ASSUME NEW m \in Merges, Merge(m[1], m[2]) PROVE UNCHANGED <<ownerCache, nodeJob, nodes, readIn>>
    BY <1>1 DEF Merge, keyVars, listVars
  <1>2. ASSUME NEW c \in Contracts, Delegate(c) PROVE UNCHANGED <<ownerCache, nodeJob, nodes, readIn>>
    BY <1>2 DEF Delegate, keyVars, listVars
  <1>3. ASSUME NewEpoch PROVE UNCHANGED <<ownerCache, nodeJob, nodes, readIn>>
    BY <1>3 DEF NewEpoch, keyVars, listVars
  <1>4. ASSUME NEW t \in transactions, ProcessTransaction(t)
        PROVE  Deletes /\ UNCHANGED <<epoch, chain, ownedIn, nodeJob, nodes, readIn>>
    BY <1>4 DEF ProcessTransaction, listVars, Deletes
  <1>5. ASSUME confirmIdentities PROVE UNCHANGED <<epoch, chain, ownedIn, ownerCache, nodeJob, nodes, readIn>>
    BY <1>5 DEF confirmIdentities, chainVars, listVars
  <1>6. ASSUME NEW a \in Addresses, ExpireStakeTopup(a) PROVE UNCHANGED <<epoch, chain, ownedIn, ownerCache, nodeJob, nodes, readIn>>
    BY <1>6 DEF ExpireStakeTopup, chainVars, listVars
  <1>7. ASSUME NEW b \in Blses, ExpireConfirmedIdentity(b)
        PROVE  UNCHANGED <<epoch, chain, ownedIn, ownerCache, nodeJob, nodes, readIn>>
    BY <1>7 DEF ExpireConfirmedIdentity, chainVars, listVars
  <1>8. ASSUME Asks PROVE UNCHANGED <<epoch, chain, ownedIn, ownerCache, nodes, readIn>>
    BY <1>8 DEF Asks, ReadNodes, getQueue, ReadEpoch, ReadOwnerCache, AskOwners, getBlsOwner, getOwnerBlses,
                chainVars, keyVars, listVars
  <1>9. ASSUME Keeps PROVE UNCHANGED <<epoch, chain, ownedIn, nodes, readIn>>
    BY <1>9 DEF Keeps, SetOwner, chainVars, listVars
  <1>10. ASSUME Applies PROVE UNCHANGED <<epoch, chain, ownedIn, ownerCache, nodes, readIn>>
    BY <1>10 DEF Applies, applyNodeOwners, getStakes, SetStakes, chainVars, keyVars, listVars
  <1>11. ASSUME PublishNodes PROVE Ends /\ UNCHANGED <<epoch, chain, ownedIn, ownerCache>>
    BY <1>11 DEF PublishNodes, Ends, chainVars, keyVars
  <1>12. ASSUME NodeJobFails PROVE Ends /\ UNCHANGED <<epoch, chain, ownedIn, ownerCache, nodes, readIn>>
    BY <1>12 DEF NodeJobFails, Ends, chainVars, keyVars, listVars
  <1>13. ASSUME getAllProvidersRaw PROVE UNCHANGED <<epoch, chain, ownedIn, ownerCache, nodeJob, nodes, readIn>>
    BY <1>13 DEF getAllProvidersRaw, chainVars
  <1>14. ASSUME UNCHANGED vars PROVE UNCHANGED <<epoch, chain, ownedIn, ownerCache, nodeJob, nodes, readIn>>
    BY <1>14 DEF vars, chainVars, keyVars, listVars
  <1>15. handleNodeInvalidations => Asks \/ Keeps \/ Applies \/ PublishNodes
    BY Zenon DEF handleNodeInvalidations, Asks, Keeps, Applies
  <1> QED BY <1>1, <1>2, <1>3, <1>4, <1>5, <1>6, <1>7, <1>8, <1>9, <1>10, <1>11, <1>12, <1>13, <1>14, <1>15 DEF Next

\* Every step keeps the invariant.
LEMMA NextOK == IInv /\ [Next]_vars => IInv'
  <1> SUFFICES ASSUME IInv, [Next]_vars PROVE IInv'
    OBVIOUS
  <1>1. ChainOK /\ CacheOK /\ JobOK /\ ListOK
    BY DEF IInv
  <1>2. ChainOK' /\ ChainGrows
    BY <1>1, Frames, MergeGrows, DelegateGrows, NewEpochGrows, ChainStays
  <1>3. CacheOK'
    <2>1. CASE Deletes
      BY <1>1, <2>1, CacheDeleted DEF Deletes
    <2>2. CASE Keeps
      <3>1. EpochOK /\ KeysOK
        BY <1>1, <2>2 DEF JobOK, Keeps, Asking
      <3> QED BY <1>1, <2>2, <3>1, CacheWritten DEF Keeps
    <2>3. CASE UNCHANGED ownerCache
      BY <1>1, <1>2, <2>3, CacheStays
    <2> QED BY <2>1, <2>2, <2>3, Frames
  <1>4. JobOK'
    <2>1. CASE Asks
      BY <1>1, <2>1, ReadNodesOK, getQueueOK, ReadEpochOK, ReadOwnerCacheOK, getBlsOwnerOK, getOwnerBlsesOK DEF Asks
    <2>2. CASE Keeps
      BY <1>1, <2>2, SetOwnerOK DEF Keeps
    <2>3. CASE Applies
      BY <1>1, <2>3, applyNodeOwnersOK, getStakesOK, SetStakesOK DEF Applies
    <2>4. CASE Ends
      BY <2>4, IdleOK DEF Ends, PublishNodes, NodeJobFails
    <2>5. CASE UNCHANGED nodeJob
      BY <1>1, <1>2, <2>5, JobStays
    <2> QED BY <2>1, <2>2, <2>3, <2>4, <2>5, Frames
  <1>5. ListOK'
    BY <1>1, Frames, PublishNodesOK, ListStays
  <1> QED BY <1>2, <1>3, <1>4, <1>5 DEF IInv

\* The invariant holds in every reachable state.
LEMMA Invariant == Spec => []IInv
  BY InitOK, NextOK, PTL DEF Spec

\* NodeService.getAllNodesRaw with getOwners and the processor's deletions: a published node is
\* staked by an owner it has had since the epoch in which the job read the names of the keys, or
\* by none; for any merges, deletions, failed queries and epochs between the awaits of the job.
THEOREM OwnersAreSinceTheEpoch == Spec => OwnersSinceTheEpoch
  <1>1. IInv /\ [Next]_vars =>
            [nodes' # nodes => \A n \in nodes' : StakedBy(n) \in {""} \cup OwnedSince(n.bls, nodeJob.epoch)]_vars
    BY Frames, PublishNodesOK DEF IInv
  <1> QED BY <1>1, Invariant, PTL DEF Spec, OwnersSinceTheEpoch

-----------------------------------------------------------------------------
(* The counts.                                                             *)

Apart(T, U) == T \cap U = {}

\* A set of two parts that have nothing in common has as many elements as both together.
LEMMA TwoParts ==
    ASSUME NEW T, IsFiniteSet(T), NEW U, IsFiniteSet(U), Apart(T, U)
    PROVE  Cardinality(T \cup U) = Cardinality(T) + Cardinality(U) /\ Cardinality(T) \in Nat /\ Cardinality(U) \in Nat
  <1>1. Cardinality(T) \in Nat /\ Cardinality(U) \in Nat
    BY FS_CardinalityType
  <1>2. Cardinality(T \cap U) = 0
    BY FS_EmptySet DEF Apart
  <1>3. Cardinality(T \cup U) = Cardinality(T) + Cardinality(U) - Cardinality(T \cap U)
    BY FS_Union
  <1> QED BY <1>1, <1>2, <1>3

\* Nodes of a list are as many as their keys.
LEMMA CountByBls ==
    ASSUME NEW ns, OneEach(ns), NEW T, T \subseteq ns
    PROVE  IsFiniteSet(T) /\ Cardinality(T) = Cardinality({n.bls : n \in T})
  <1>1. IsFiniteSet(T)
    BY FS_Subset DEF OneEach
  <1> DEFINE K == {n.bls : n \in T}
             f == [n \in T |-> n.bls]
  <1>2. \A m, n \in T : f[m] = f[n] => m = n
    BY DEF OneEach
  <1>3. f \in [T -> K] /\ \A k \in K : \E n \in T : f[n] = k
    OBVIOUS
  <1> HIDE DEF f, K
  <1>4. f \in Bijection(T, K)
    BY <1>2, <1>3 DEF Bijection, Injection, Surjection, IsInjective
  <1>5. ExistsBijection(T, K)
    BY <1>4 DEF ExistsBijection
  <1>6. Cardinality(T) = Cardinality(K)
    BY <1>1, <1>5, FS_Bijection
  <1> QED BY <1>1, <1>6 DEF K

\* The keys that an epoch has of a status, and those in auction.
KeysOf(statuses, x) == {b \in Blses : StatusAt(b, x, x) \in statuses}
AuctionKeys(x) == {b \in Blses : Network[x].status[b] = "auction"}

\* The statuses that count for the stake, all of validators.
StakedStatuses == {"eligible", "waiting", "queued", "auction"}

\* What the status of a node of a fresh list says of its type and of its auction.
LEMMA FreshNode ==
    ASSUME NEW x, NEW ns, Fresh(ns, x), NEW n \in ns
    PROVE  /\ n.bls \in Blses /\ n.status = StatusAt(n.bls, x, x)
           /\ n.status \in StakedStatuses => n.type = "validator"
           /\ n.status = "auction" <=> Network[x].status[n.bls] = "auction"
           /\ x >= V4Epoch => (n.auctioned = TRUE <=> n.status = "auction")
           /\ x >= V4Epoch /\ n.auctioned = TRUE => n.auctionQualified \in {"yes", "no"}
  <1>1. n.bls \in Blses /\ StatusOK(n, x, x) /\ AuctionOK(n, x) /\ x \in Epochs
    BY DEF Fresh, OneEach
  <1>2. n.bls \in Network[x].queue => Network[x].status[n.bls] # "auction"
    BY <1>1, ChainAssumption DEF Epochs
  <1>3. n.status = "auction" <=> Network[x].status[n.bls] = "auction"
    BY <1>1, <1>2 DEF StatusOK, StatusAt
  <1>4. n.status \in StakedStatuses => n.type = "validator"
    BY <1>1 DEF StakedStatuses, StatusOK, StatusAt, TypeAt, TypeOfStatus
  <1>5. n.status = StatusAt(n.bls, x, x)
    BY <1>1 DEF StatusOK
  <1> QED BY <1>1, <1>3, <1>4, <1>5 DEF AuctionOK

\* The filters of the counts select what they say.
LEMMA FilteredNodes ==
    ASSUME NEW ns
    PROVE  /\ getFilteredNodes(ns, [type |-> "validator", status |-> "queued"]) =
                    {n \in ns : n.type = "validator" /\ n.status = "queued"}
           /\ getFilteredNodes(ns, [auctioned |-> TRUE]) = {n \in ns : n.auctioned = TRUE}
           /\ \A q : getFilteredNodes(ns, [auctioned |-> TRUE, auctionQualified |-> q])
                        = {n \in ns : n.auctioned = TRUE /\ n.auctionQualified = q}
           /\ \A s : getFilteredNodes(ns, [status |-> s]) = {n \in ns : n.status = s}
  <1>1. getFilteredNodes(ns, [type |-> "validator", status |-> "queued"]) = {n \in ns : n.type = "validator" /\ n.status = "queued"}
    BY DEF getFilteredNodes
  <1>2. getFilteredNodes(ns, [auctioned |-> TRUE]) = {n \in ns : n.auctioned = TRUE}
    <2>1. \A t : getFilteredNodes(ns, [auctioned |-> t]) = {n \in ns : n.auctioned = t}
      BY DEF getFilteredNodes
    <2> QED BY <2>1, Zenon
  <1>3. \A q : getFilteredNodes(ns, [auctioned |-> TRUE, auctionQualified |-> q])
                    = {n \in ns : n.auctioned = TRUE /\ n.auctionQualified = q}
    <2>1. \A t, q : getFilteredNodes(ns, [auctioned |-> t, auctionQualified |-> q])
                        = {n \in ns : n.auctioned = t /\ n.auctionQualified = q}
      BY DEF getFilteredNodes
    <2> QED BY <2>1, Zenon
  <1>4. \A s : getFilteredNodes(ns, [status |-> s]) = {n \in ns : n.status = s}
    BY DEF getFilteredNodes
  <1> QED BY <1>1, <1>2, <1>3, <1>4

\* Whatever the list, if it is fresh, the counts are those of the epoch's keys: of the active
\* nodes, of the queue, of the auction, and of those in auction that qualify in this list or not.
LEMMA Counts ==
    ASSUME NEW x, NEW ns, Fresh(ns, x)
    PROVE  /\ ActiveCount(ns) = Cardinality(KeysOf({"eligible", "waiting"}, x))
           /\ getNodeCount(ns, [type |-> "validator", status |-> "queued"]) = Cardinality(KeysOf({"queued"}, x))
           /\ x >= V4Epoch =>
                /\ getNodeCount(ns, [auctioned |-> TRUE]) = Cardinality(AuctionKeys(x))
                /\ getNodeCount(ns, [auctioned |-> TRUE, auctionQualified |-> "yes"]) = Cardinality(Qualified(ns))
                /\ getNodeCount(ns, [auctioned |-> TRUE, auctionQualified |-> "no"]) = Cardinality(AuctionKeys(x) \ Qualified(ns))
                /\ Qualified(ns) \subseteq AuctionKeys(x)
  <1>1. OneEach(ns) /\ {n.bls : n \in ns} = Blses /\ \A m, n \in ns : m.bls = n.bls => m = n
    BY DEF Fresh, OneEach
  <1>2. ActiveCount(ns) = Cardinality(KeysOf({"eligible", "waiting"}, x))
    <2> DEFINE T == {n \in ns : n.type = "validator" /\ n.status \in {"eligible", "waiting"}}
    <2>1. {n.bls : n \in T} = KeysOf({"eligible", "waiting"}, x)
      <3>1. ASSUME NEW n \in ns PROVE n.bls \in Blses /\ (n \in T <=> StatusAt(n.bls, x, x) \in {"eligible", "waiting"})
        <4>1. n.bls \in Blses /\ n.status = StatusAt(n.bls, x, x)
          BY FreshNode
        <4>2. n.status \in StakedStatuses => n.type = "validator"
          BY FreshNode
        <4> QED BY <4>1, <4>2 DEF StakedStatuses
      <3> HIDE DEF T
      <3>2. T \subseteq ns
        BY DEF T
      <3> QED BY <1>1, <3>1, <3>2 DEF KeysOf
    <2>2. Cardinality(T) = Cardinality({n.bls : n \in T})
      <3>1. T \subseteq ns
        OBVIOUS
      <3> HIDE DEF T
      <3> QED BY <1>1, <3>1, CountByBls
    <2> QED BY <2>1, <2>2 DEF ActiveCount
  <1>3. getNodeCount(ns, [type |-> "validator", status |-> "queued"]) = Cardinality(KeysOf({"queued"}, x))
    <2> DEFINE T == {n \in ns : n.type = "validator" /\ n.status = "queued"}
    <2>1. {n.bls : n \in T} = KeysOf({"queued"}, x)
      <3>1. ASSUME NEW n \in ns PROVE n.bls \in Blses /\ (n \in T <=> StatusAt(n.bls, x, x) \in {"queued"})
        <4>1. n.bls \in Blses /\ n.status = StatusAt(n.bls, x, x)
          BY FreshNode
        <4>2. n.status \in StakedStatuses => n.type = "validator"
          BY FreshNode
        <4> QED BY <4>1, <4>2 DEF StakedStatuses
      <3> HIDE DEF T
      <3>2. T \subseteq ns
        BY DEF T
      <3> QED BY <1>1, <3>1, <3>2 DEF KeysOf
    <2>2. Cardinality(T) = Cardinality({n.bls : n \in T})
      <3>1. T \subseteq ns
        OBVIOUS
      <3> HIDE DEF T
      <3> QED BY <1>1, <3>1, CountByBls
    <2> QED BY <2>1, <2>2, FilteredNodes DEF getNodeCount
  <1>4. ASSUME x >= V4Epoch
        PROVE  /\ getNodeCount(ns, [auctioned |-> TRUE]) = Cardinality(AuctionKeys(x))
               /\ getNodeCount(ns, [auctioned |-> TRUE, auctionQualified |-> "yes"]) = Cardinality(Qualified(ns))
               /\ getNodeCount(ns, [auctioned |-> TRUE, auctionQualified |-> "no"]) = Cardinality(AuctionKeys(x) \ Qualified(ns))
               /\ Qualified(ns) \subseteq AuctionKeys(x)
    <2> DEFINE A == {n \in ns : n.auctioned = TRUE}
               Y == {n \in ns : n.auctioned = TRUE /\ n.auctionQualified = "yes"}
               N == {n \in ns : n.auctioned = TRUE /\ n.auctionQualified = "no"}
    <2>1. \A n \in ns : /\ n.bls \in Blses /\ (n.auctioned = TRUE <=> n.bls \in AuctionKeys(x))
                        /\ n.auctioned = TRUE => n.auctionQualified \in {"yes", "no"}
      BY <1>4, FreshNode DEF AuctionKeys
    <2>9. \A q : getFilteredNodes(ns, [auctioned |-> TRUE, auctionQualified |-> q])
                    = {n \in ns : n.auctioned = TRUE /\ n.auctionQualified = q}
      BY FilteredNodes, Zenon
    <2>10. /\ getFilteredNodes(ns, [auctioned |-> TRUE, auctionQualified |-> "yes"]) = Y
           /\ getFilteredNodes(ns, [auctioned |-> TRUE, auctionQualified |-> "no"]) = N
      BY <2>9, Zenon
    <2>2. Qualified(ns) = {n.bls : n \in Y}
      BY <2>10, Zenon DEF Qualified
    <2>3. {n.bls : n \in A} = AuctionKeys(x)
      BY <1>1, <2>1 DEF AuctionKeys
    <2>4. {n.bls : n \in N} = AuctionKeys(x) \ {n.bls : n \in Y}
      <3>1. ASSUME NEW b \in AuctionKeys(x), b \notin {n.bls : n \in Y} PROVE b \in {n.bls : n \in N}
        <4>1. PICK n \in ns : n.bls = b /\ n.auctioned = TRUE /\ n.auctionQualified \in {"yes", "no"}
          BY <1>1, <2>1 DEF AuctionKeys
        <4>2. n.auctionQualified # "yes"
          BY <3>1, <4>1
        <4> QED BY <4>1, <4>2
      <3>2. ASSUME NEW n \in N PROVE n.bls \in AuctionKeys(x) /\ n.bls \notin {m.bls : m \in Y}
        <4>1. n \in ns /\ n.auctioned = TRUE /\ n.auctionQualified = "no"
          OBVIOUS
        <4>2. \A m \in Y : m \in ns /\ m.auctionQualified = "yes"
          OBVIOUS
        <4>3. \A m \in Y : m.bls # n.bls
          BY <1>1, <4>1, <4>2
        <4> HIDE DEF Y, N
        <4> QED BY <2>1, <4>1, <4>3
      <3> HIDE DEF Y, N
      <3> QED BY <3>1, <3>2
    <2>5. A \subseteq ns /\ Y \subseteq ns /\ N \subseteq ns /\ Y \subseteq A
      OBVIOUS
    <2>6. /\ getFilteredNodes(ns, [auctioned |-> TRUE]) = A
          /\ getFilteredNodes(ns, [auctioned |-> TRUE, auctionQualified |-> "yes"]) = Y
          /\ getFilteredNodes(ns, [auctioned |-> TRUE, auctionQualified |-> "no"]) = N
      BY <2>10, FilteredNodes, Zenon
    <2> HIDE DEF A, Y, N
    <2>7. /\ Cardinality(A) = Cardinality({n.bls : n \in A})
          /\ Cardinality(Y) = Cardinality({n.bls : n \in Y})
          /\ Cardinality(N) = Cardinality({n.bls : n \in N})
      BY <1>1, <2>5, CountByBls
    <2>8. {n.bls : n \in Y} \subseteq {n.bls : n \in A}
      BY <2>5
    <2> QED BY <2>2, <2>3, <2>4, <2>6, <2>7, <2>8 DEF getNodeCount
  <1> QED BY <1>2, <1>3, <1>4

\* Who is staked in an epoch: until the start of staking V4 with the queue, from then on with the auction.
StakedKeys(x) == KeysOf({"eligible", "waiting"}, x) \cup IF x < V4Epoch THEN KeysOf({"queued"}, x) ELSE AuctionKeys(x)

\* The two parts are apart.
LEMMA StakedParts ==
    ASSUME NEW x \in Epochs
    PROVE  /\ IsFiniteSet(AuctionKeys(x))
           /\ Cardinality(KeysOf({"eligible", "waiting"}, x)) \in Nat
           /\ Cardinality(StakedKeys(x)) = Cardinality(KeysOf({"eligible", "waiting"}, x))
                + (IF x < V4Epoch THEN Cardinality(KeysOf({"queued"}, x)) ELSE Cardinality(AuctionKeys(x)))
  <1> DEFINE T == KeysOf({"eligible", "waiting"}, x)
             U == IF x < V4Epoch THEN KeysOf({"queued"}, x) ELSE AuctionKeys(x)
  <1>1. T \subseteq Blses /\ U \subseteq Blses /\ AuctionKeys(x) \subseteq Blses
    BY DEF KeysOf, AuctionKeys
  <1>2. IsFiniteSet(T) /\ IsFiniteSet(U) /\ IsFiniteSet(AuctionKeys(x))
    <2>1. IsFiniteSet(Blses)
      BY ChainAssumption
    <2> HIDE DEF T, U
    <2> QED BY <1>1, <2>1, FS_Subset
  <1>3. Apart(T, U)
    <2>1. \A b \in KeysOf({"queued"}, x) : b \notin T
      BY DEF KeysOf
    <2>2. \A b \in AuctionKeys(x) : b \notin T
      <3>1. \A b \in AuctionKeys(x) : b \notin Network[x].queue
        BY ChainAssumption DEF AuctionKeys, Epochs
      <3> QED BY <3>1 DEF AuctionKeys, KeysOf, StatusAt
    <2> HIDE DEF T
    <2> QED BY <2>1, <2>2 DEF Apart
  <1>4. StakedKeys(x) = T \cup U
    BY DEF StakedKeys
  <1> HIDE DEF T, U
  <1>5. Cardinality(T \cup U) = Cardinality(T) + Cardinality(U) /\ Cardinality(T) \in Nat
    BY <1>2, <1>3, TwoParts
  <1> QED BY <1>2, <1>4, <1>5 DEF T, U

\* Of three fresh lists the total and the inactive validators are those of the epoch, each once.
LEMMA Total ==
    ASSUME NEW x \in Epochs, NEW a, Fresh(a, x), NEW b, Fresh(b, x), NEW c, Fresh(c, x), Qualified(b) = Qualified(c),
           NEW currentEpoch \in Nat, currentEpoch < V4Epoch <=> x < V4Epoch
    PROVE  getTotalAndInactiveValidators(a, currentEpoch, b, c).totalValidators
            + getTotalAndInactiveValidators(a, currentEpoch, b, c).inactiveValidators = Cardinality(StakedKeys(x))
  <1> DEFINE v == getTotalAndInactiveValidators(a, currentEpoch, b, c)
             active == Cardinality(KeysOf({"eligible", "waiting"}, x))
             queued == Cardinality(KeysOf({"queued"}, x))
             auctioned == Cardinality(AuctionKeys(x))
             yes == Cardinality(Qualified(b))
             no == Cardinality(AuctionKeys(x) \ Qualified(b))
  <1>1. V4Epoch \in Nat /\ x \in Int
    <2>1. V4Epoch \in Nat /\ MaxEpoch \in Nat
      BY StakingAssumption
    <2> QED BY <2>1 DEF Epochs
  <1>2. x >= V4Epoch <=> ~(currentEpoch < V4Epoch)
    BY <1>1
  <1>3. Cardinality(StakedKeys(x)) = active + (IF x < V4Epoch THEN queued ELSE auctioned) /\ active \in Nat
    BY StakedParts
  <1>4. CASE currentEpoch < V4Epoch
    <2>1. v = [totalValidators |-> ActiveCount(a), inactiveValidators |-> getNodeCount(a, [type |-> "validator", status |-> "queued"])]
      BY <1>4, Zenon DEF getTotalAndInactiveValidators, BeforeStakingV4
    <2>2. ActiveCount(a) = active /\ getNodeCount(a, [type |-> "validator", status |-> "queued"]) = queued
      BY Counts
    <2> HIDE DEF v, active, queued
    <2>3. v.totalValidators = active /\ v.inactiveValidators = queued
      BY <2>1, <2>2
    <2> QED BY <1>3, <1>4, <2>3 DEF v
  <1>5. CASE ~(currentEpoch < V4Epoch) /\ currentEpoch = V4Epoch
    <2>1. v = [totalValidators |-> ActiveCount(a), inactiveValidators |-> getNodeCount(b, [auctioned |-> TRUE])]
      BY <1>5, Zenon DEF getTotalAndInactiveValidators, DuringStakingV4
    <2>2. ActiveCount(a) = active /\ getNodeCount(b, [auctioned |-> TRUE]) = auctioned
      BY <1>2, <1>5, Counts
    <2> HIDE DEF v, active, auctioned
    <2>3. v.totalValidators = active /\ v.inactiveValidators = auctioned
      BY <2>1, <2>2
    <2> QED BY <1>3, <1>5, <2>3 DEF v
  <1>6. CASE ~(currentEpoch < V4Epoch) /\ currentEpoch # V4Epoch
    <2>1. v = [totalValidators |-> ActiveCount(a) + getNodeCount(b, [auctioned |-> TRUE, auctionQualified |-> "yes"]),
               inactiveValidators |-> getNodeCount(c, [auctioned |-> TRUE, auctionQualified |-> "no"])]
      BY <1>6, Zenon DEF getTotalAndInactiveValidators, AfterStakingV4
    <2>2. /\ ActiveCount(a) = active /\ getNodeCount(b, [auctioned |-> TRUE, auctionQualified |-> "yes"]) = yes
          /\ getNodeCount(c, [auctioned |-> TRUE, auctionQualified |-> "no"]) = no
          /\ Qualified(b) \subseteq AuctionKeys(x)
      BY <1>2, <1>6, Counts
    <2>3. auctioned = yes + no /\ yes \in Nat /\ no \in Nat
      <3> DEFINE Y == Qualified(b)
                 N == AuctionKeys(x) \ Qualified(b)
      <3>1. AuctionKeys(x) = Y \cup N /\ Apart(Y, N) /\ Y \subseteq AuctionKeys(x) /\ N \subseteq AuctionKeys(x)
        BY <2>2 DEF Apart
      <3> HIDE DEF Y, N
      <3>2. IsFiniteSet(Y) /\ IsFiniteSet(N)
        BY <3>1, StakedParts, FS_Subset
      <3>3. Cardinality(Y \cup N) = Cardinality(Y) + Cardinality(N) /\ Cardinality(Y) \in Nat /\ Cardinality(N) \in Nat
        BY <3>1, <3>2, TwoParts
      <3> QED BY <3>1, <3>3 DEF Y, N
    <2> HIDE DEF v, active, auctioned, yes, no
    <2>4. v.totalValidators = active + yes /\ v.inactiveValidators = no
      BY <2>1, <2>2
    <2>5. (active + yes) + no = active + auctioned
      BY <1>3, <2>3
    <2> QED BY <1>3, <1>6, <2>4, <2>5 DEF v
  <1> QED BY <1>4, <1>5, <1>6

\* The staked nodes of a fresh list are those of the epoch.
LEMMA StakedNodes ==
    ASSUME NEW x, NEW ns, Fresh(ns, x)
    PROVE  Cardinality(Staked(ns, x)) = Cardinality(StakedKeys(x))
  <1>1. OneEach(ns) /\ {n.bls : n \in ns} = Blses /\ Staked(ns, x) \subseteq ns
    BY DEF Fresh, OneEach, Staked
  <1>2. {n.bls : n \in Staked(ns, x)} = StakedKeys(x)
    <2>1. \A n \in ns : n \in Staked(ns, x) <=> n.bls \in StakedKeys(x)
      <3> SUFFICES ASSUME NEW n \in ns PROVE n \in Staked(ns, x) <=> n.bls \in StakedKeys(x)
        OBVIOUS
      <3>1. /\ n.bls \in Blses /\ n.status = StatusAt(n.bls, x, x)
            /\ n.status \in StakedStatuses => n.type = "validator"
            /\ n.status = "auction" <=> Network[x].status[n.bls] = "auction"
        <4>1. n.bls \in Blses /\ n.status = StatusAt(n.bls, x, x)
          BY FreshNode
        <4>2. n.status \in StakedStatuses => n.type = "validator"
          BY FreshNode
        <4>3. n.status = "auction" <=> Network[x].status[n.bls] = "auction"
          BY FreshNode
        <4> QED BY <4>1, <4>2, <4>3
      <3>2. CASE x < V4Epoch
        BY <3>1, <3>2 DEF Staked, StakedKeys, KeysOf, AuctionKeys, StakedStatuses
      <3>3. CASE ~(x < V4Epoch)
        BY <3>1, <3>3 DEF Staked, StakedKeys, KeysOf, AuctionKeys, StakedStatuses
      <3> QED BY <3>2, <3>3
    <2>2. StakedKeys(x) \subseteq Blses
      BY DEF StakedKeys, KeysOf, AuctionKeys
    <2> QED BY <1>1, <2>1, <2>2
  <1> QED BY <1>1, <1>2, CountByBls

\* The nodes in auction by who stakes them and how much, as getAllNodesAuctionsRaw groups them.
AuctionKey(n) == <<StakedBy(n), n.stake, n.topUp>>
InAuction(ns) == {n \in ns : n.status = "auction"}
OfKey(ns, k) == {n \in InAuction(ns) : AuctionKey(n) = k}

\* From the start of staking V4 each group counts the nodes of its key, and two keys have two groups.
LEMMA Groups ==
    ASSUME NEW x, NEW ns, Fresh(ns, x), x >= V4Epoch
    PROVE  \E g : /\ DOMAIN g = InAuction(ns)
                  /\ getAllNodesAuctionsRaw(ns) = {g[n] : n \in InAuction(ns)}
                  /\ \A n \in InAuction(ns) : g[n].auctionValidators = Cardinality(OfKey(ns, AuctionKey(n)))
                  /\ \A m, n \in InAuction(ns) : g[m] = g[n] <=> AuctionKey(m) = AuctionKey(n)
  <1> DEFINE qualified(k) == Cardinality({n \in OfKey(ns, k) : n.auctionQualified = "yes"})
             danger(k) == Cardinality({n \in OfKey(ns, k) : n.isInDangerZone})
             counted(k) == Cardinality({n \in OfKey(ns, k) : n.auctioned})
             Group(k) == [staker |-> k[1], stake |-> k[2], topUp |-> k[3], auctionValidators |-> counted(k),
                          qualifiedAuctionValidators |-> qualified(k), dangerZoneValidators |-> danger(k)]
             g == [n \in InAuction(ns) |-> Group(AuctionKey(n))]
  <1>1. getFilteredNodes(ns, [status |-> "auction"]) = InAuction(ns)
    <2>1. \A s : getFilteredNodes(ns, [status |-> s]) = {n \in ns : n.status = s}
      BY FilteredNodes, Zenon
    <2> QED BY <2>1, Zenon DEF InAuction
  <1>2. getAllNodesAuctionsRaw(ns) = {Group(AuctionKey(n)) : n \in InAuction(ns)}
    <2> DEFINE X == getFilteredNodes(ns, [status |-> "auction"])
               of(Y, k) == {n \in Y : AuctionKey(n) = k}
               G(Y, k) == [staker |-> k[1], stake |-> k[2], topUp |-> k[3],
                           auctionValidators |-> Cardinality({n \in of(Y, k) : n.auctioned}),
                           qualifiedAuctionValidators |-> Cardinality({n \in of(Y, k) : n.auctionQualified = "yes"}),
                           dangerZoneValidators |-> Cardinality({n \in of(Y, k) : n.isInDangerZone})]
    <2>1. getAllNodesAuctionsRaw(ns) = {G(X, AuctionKey(n)) : n \in X}
      BY Zenon DEF getAllNodesAuctionsRaw, AuctionKey
    <2>2. \A k : G(InAuction(ns), k) = Group(k)
      BY Zenon DEF OfKey
    <2> HIDE DEF G, X, Group
    <2>3. X = InAuction(ns)
      BY <1>1 DEF X
    <2> QED BY <2>1, <2>2, <2>3
  <1>4. \A n \in InAuction(ns) : n.auctioned = TRUE
    BY FreshNode DEF InAuction
  <1>5. \A k : {n \in OfKey(ns, k) : n.auctioned} = OfKey(ns, k)
    <2>1. \A k, n : n \in OfKey(ns, k) => n.auctioned = TRUE
      BY <1>4 DEF OfKey
    <2> QED BY <2>1, Zenon
  <1>6. \A k : counted(k) = Cardinality(OfKey(ns, k))
    BY <1>5, Zenon
  <1> HIDE DEF qualified, danger, counted
  <1>7. \A k : /\ Group(k).auctionValidators = counted(k)
               /\ Group(k).staker = k[1] /\ Group(k).stake = k[2] /\ Group(k).topUp = k[3]
    OBVIOUS
  <1> HIDE DEF Group
  <1>8. \A n \in InAuction(ns) : g[n] = Group(AuctionKey(n))
    OBVIOUS
  <1>9. \A m, n \in InAuction(ns) : g[m] = g[n] => AuctionKey(m) = AuctionKey(n)
    <2> SUFFICES ASSUME NEW m \in InAuction(ns), NEW n \in InAuction(ns), g[m] = g[n] PROVE AuctionKey(m) = AuctionKey(n)
      OBVIOUS
    <2>1. Group(AuctionKey(m)) = Group(AuctionKey(n))
      BY <1>8
    <2>2. /\ AuctionKey(m)[1] = AuctionKey(n)[1] /\ AuctionKey(m)[2] = AuctionKey(n)[2] /\ AuctionKey(m)[3] = AuctionKey(n)[3]
      BY <1>7, <2>1
    <2> QED BY <2>2 DEF AuctionKey
  <1>10. \A m, n \in InAuction(ns) : AuctionKey(m) = AuctionKey(n) => g[m] = g[n]
    BY <1>8
  <1>11. getAllNodesAuctionsRaw(ns) = {g[n] : n \in InAuction(ns)} /\ DOMAIN g = InAuction(ns)
    BY <1>2, <1>8
  <1>12. \A n \in InAuction(ns) : g[n].auctionValidators = Cardinality(OfKey(ns, AuctionKey(n)))
    BY <1>6, <1>7, <1>8
  <1> HIDE DEF g
  <1> QED BY <1>9, <1>10, <1>11, <1>12

\* So the groups have one place for each node in auction.
LEMMA PlacesOfNodes ==
    ASSUME NEW x, NEW ns, Fresh(ns, x), x >= V4Epoch
    PROVE  Cardinality(AuctionPlaces(ns)) = Cardinality(InAuction(ns))
  <1>1. PICK g : /\ DOMAIN g = InAuction(ns)
                 /\ getAllNodesAuctionsRaw(ns) = {g[n] : n \in InAuction(ns)}
                 /\ \A n \in InAuction(ns) : g[n].auctionValidators = Cardinality(OfKey(ns, AuctionKey(n)))
                 /\ \A m, n \in InAuction(ns) : g[m] = g[n] <=> AuctionKey(m) = AuctionKey(n)
    BY Groups
  <1>2. IsFiniteSet(ns) /\ InAuction(ns) \subseteq ns /\ IsFiniteSet(InAuction(ns))
    BY FS_Subset DEF Fresh, OneEach, InAuction
  <1> DEFINE order(k) == CHOOSE h : h \in Bijection(1..Cardinality(OfKey(ns, k)), OfKey(ns, k))
             size(n) == Cardinality(OfKey(ns, AuctionKey(n)))
             place(n) == CHOOSE i \in 1..size(n) : order(AuctionKey(n))[i] = n
             f == [n \in InAuction(ns) |-> <<g[n], place(n)>>]
  <1>3. \A k : /\ IsFiniteSet(OfKey(ns, k)) /\ Cardinality(OfKey(ns, k)) \in Nat /\ Cardinality(OfKey(ns, k)) <= Cardinality(ns)
               /\ order(k) \in Bijection(1..Cardinality(OfKey(ns, k)), OfKey(ns, k))
    <2> SUFFICES ASSUME NEW k
                 PROVE  /\ IsFiniteSet(OfKey(ns, k)) /\ Cardinality(OfKey(ns, k)) \in Nat /\ Cardinality(OfKey(ns, k)) <= Cardinality(ns)
                        /\ order(k) \in Bijection(1..Cardinality(OfKey(ns, k)), OfKey(ns, k))
      OBVIOUS
    <2>1. OfKey(ns, k) \subseteq ns
      BY DEF OfKey, InAuction
    <2>2. IsFiniteSet(OfKey(ns, k)) /\ Cardinality(OfKey(ns, k)) <= Cardinality(ns)
      BY <1>2, <2>1, FS_Subset
    <2>3. Cardinality(OfKey(ns, k)) \in Nat /\ ExistsBijection(1..Cardinality(OfKey(ns, k)), OfKey(ns, k))
      BY <2>2, FS_CardinalityType
    <2>4. order(k) \in Bijection(1..Cardinality(OfKey(ns, k)), OfKey(ns, k))
      BY <2>3, Zenon DEF ExistsBijection
    <2> QED BY <2>2, <2>3, <2>4
  <1> HIDE DEF order
  <1>4. \A n \in InAuction(ns) : place(n) \in 1..size(n) /\ order(AuctionKey(n))[place(n)] = n
    <2> SUFFICES ASSUME NEW n \in InAuction(ns) PROVE \E i \in 1..size(n) : order(AuctionKey(n))[i] = n
      OBVIOUS
    <2>1. n \in OfKey(ns, AuctionKey(n))
      BY DEF OfKey
    <2> QED BY <1>3, <2>1 DEF Bijection, Surjection
  <1>5. \A n \in InAuction(ns) : g[n].auctionValidators = size(n)
    BY <1>1
  <1>6. \A n \in InAuction(ns) : size(n) \in Nat /\ size(n) <= Cardinality(ns)
    BY <1>3
  <1>7. \A m, n \in InAuction(ns) : AuctionKey(m) = AuctionKey(n) => size(m) = size(n)
    OBVIOUS
  <1>8. \A n \in InAuction(ns) : \A i \in 1..size(n) :
            /\ order(AuctionKey(n))[i] \in InAuction(ns)
            /\ AuctionKey(order(AuctionKey(n))[i]) = AuctionKey(n)
            /\ \A j \in 1..size(n) : order(AuctionKey(n))[i] = order(AuctionKey(n))[j] => i = j
    <2> SUFFICES ASSUME NEW n \in InAuction(ns), NEW i \in 1..size(n)
                 PROVE  /\ order(AuctionKey(n))[i] \in InAuction(ns)
                        /\ AuctionKey(order(AuctionKey(n))[i]) = AuctionKey(n)
                        /\ \A j \in 1..size(n) : order(AuctionKey(n))[i] = order(AuctionKey(n))[j] => i = j
      OBVIOUS
    <2> DEFINE h == order(AuctionKey(n))
    <2>1. h \in Bijection(1..size(n), OfKey(ns, AuctionKey(n)))
      BY <1>3
    <2> HIDE DEF h, size, place, f
    <2>2. h[i] \in OfKey(ns, AuctionKey(n)) /\ \A j \in 1..size(n) : h[i] = h[j] => i = j
      BY <2>1 DEF Bijection, Injection, IsInjective
    <2>3. h[i] \in InAuction(ns) /\ AuctionKey(h[i]) = AuctionKey(n)
      BY <2>2 DEF OfKey
    <2> QED BY <2>2, <2>3 DEF h
  <1> HIDE DEF size, place
  <1>9. \A n \in InAuction(ns) : f[n] \in AuctionPlaces(ns)
    <2> SUFFICES ASSUME NEW n \in InAuction(ns) PROVE <<g[n], place(n)>> \in AuctionPlaces(ns)
      OBVIOUS
    <2>1. g[n] \in getAllNodesAuctionsRaw(ns)
      BY <1>1
    <2>2. Cardinality(ns) \in Nat
      BY <1>2, FS_CardinalityType
    <2>3. place(n) \in 1..Cardinality(ns) /\ place(n) <= g[n].auctionValidators
      BY <1>4, <1>5, <1>6, <2>2
    <2> QED BY <2>1, <2>3 DEF AuctionPlaces
  <1>10. \A m, n \in InAuction(ns) : f[m] = f[n] => m = n
    <2> SUFFICES ASSUME NEW m \in InAuction(ns), NEW n \in InAuction(ns), f[m] = f[n] PROVE m = n
      OBVIOUS
    <2>1. g[m] = g[n] /\ place(m) = place(n)
      OBVIOUS
    <2>2. AuctionKey(m) = AuctionKey(n)
      BY <1>1, <2>1
    <2> QED BY <1>4, <2>1, <2>2
  <1>11. \A p \in AuctionPlaces(ns) : \E n \in InAuction(ns) : f[n] = p
    <2> SUFFICES ASSUME NEW p \in AuctionPlaces(ns) PROVE \E n \in InAuction(ns) : f[n] = p
      OBVIOUS
    <2>1. p = <<p[1], p[2]>> /\ p[1] \in getAllNodesAuctionsRaw(ns) /\ p[2] \in 1..Cardinality(ns) /\ p[2] <= p[1].auctionValidators
      BY DEF AuctionPlaces
    <2>2. PICK m \in InAuction(ns) : p[1] = g[m]
      BY <1>1, <2>1
    <2>3. p[2] \in 1..size(m)
      BY <1>5, <1>6, <2>1, <2>2
    <2> DEFINE n == order(AuctionKey(m))[p[2]]
    <2>4. n \in InAuction(ns) /\ AuctionKey(n) = AuctionKey(m)
      BY <1>8, <2>3
    <2>5. g[n] = g[m] /\ size(n) = size(m)
      BY <1>1, <1>7, <2>4
    <2>6. place(n) = p[2]
      BY <1>4, <1>8, <2>3, <2>4, <2>5
    <2> HIDE DEF n
    <2> QED BY <2>1, <2>2, <2>4, <2>5, <2>6
  <1>12. f \in Bijection(InAuction(ns), AuctionPlaces(ns))
    <2> HIDE DEF f
    <2>1. f \in [InAuction(ns) -> AuctionPlaces(ns)]
      BY <1>9 DEF f
    <2> QED BY <1>10, <1>11, <2>1 DEF Bijection, Injection, Surjection, IsInjective
  <1> HIDE DEF f
  <1>13. ExistsBijection(InAuction(ns), AuctionPlaces(ns))
    BY <1>12 DEF ExistsBijection
  <1> QED BY <1>2, <1>13, FS_Bijection

\* StakeService.getTotalAndInactiveValidators and NodeService.getAllNodesAuctionsRaw: of lists
\* that say what was so in one epoch every validator is counted once, wherever the awaits fall
\* when one list takes the place of another and whatever the phase of staking V4; for any nodes,
\* statuses, queues and number of epochs.
THEOREM EachIsCountedOnce == Spec => CountedOnce
  <1> DEFINE Once(x) ==
        /\ \A s \in Sightings(nodes, nodes'), currentEpoch \in 0..(V4Epoch + 1) :
            (currentEpoch < V4Epoch <=> x < V4Epoch) /\ Qualified(s[2]) = Qualified(s[3]) =>
                LET v == getTotalAndInactiveValidators(s[1], currentEpoch, s[2], s[3])
                IN  v.totalValidators + v.inactiveValidators = Cardinality(Staked(nodes, x))
        /\ x >= V4Epoch => Cardinality(AuctionPlaces(nodes)) = getNodeCount(nodes, [auctioned |-> TRUE])
  <1>1. ASSUME IInv, IInv', [Next]_vars, NEW x \in Epochs, nodes # {},
               readIn = [statuses |-> x, queue |-> x, auctions |-> x], readIn' = readIn
        PROVE  Once(x)
    <2>1. Fresh(nodes, x)
      BY <1>1 DEF IInv, ListOK
    <2>2. nodes' # {}
      <3>1. OneEach(nodes') \/ nodes' = nodes
        BY <1>1, Frames, PublishNodesOK DEF IInv
      <3>2. Blses # {}
        BY <1>1, <2>1 DEF Fresh, OneEach
      <3>3. OneEach(nodes') => nodes' # {}
        BY <3>2 DEF OneEach
      <3> QED BY <1>1, <3>1, <3>3
    <2>3. Fresh(nodes', x)
      BY <1>1, <2>2 DEF IInv, ListOK, Fresh
    <2>4. ASSUME NEW s \in Sightings(nodes, nodes'), NEW currentEpoch \in 0..(V4Epoch + 1),
                 currentEpoch < V4Epoch <=> x < V4Epoch, Qualified(s[2]) = Qualified(s[3])
          PROVE  getTotalAndInactiveValidators(s[1], currentEpoch, s[2], s[3]).totalValidators
                    + getTotalAndInactiveValidators(s[1], currentEpoch, s[2], s[3]).inactiveValidators = Cardinality(Staked(nodes, x))
      <3>1. Fresh(s[1], x) /\ Fresh(s[2], x) /\ Fresh(s[3], x)
        BY <2>1, <2>3 DEF Sightings
      <3>2. currentEpoch \in Nat
        <4>1. V4Epoch \in Nat
          BY StakingAssumption
        <4> QED BY <4>1
      <3>3. Cardinality(Staked(nodes, x)) = Cardinality(StakedKeys(x))
        BY <2>1, StakedNodes
      <3> QED BY <2>4, <3>1, <3>2, <3>3, Total
    <2>5. ASSUME x >= V4Epoch PROVE Cardinality(AuctionPlaces(nodes)) = getNodeCount(nodes, [auctioned |-> TRUE])
      <3>1. Cardinality(AuctionPlaces(nodes)) = Cardinality(InAuction(nodes))
        BY <2>1, <2>5, PlacesOfNodes
      <3>2. \A n \in nodes : n.auctioned = TRUE <=> n.status = "auction"
        BY <2>1, <2>5, FreshNode
      <3>3. {n \in nodes : n.auctioned = TRUE} = InAuction(nodes)
        BY <3>2 DEF InAuction
      <3>4. getFilteredNodes(nodes, [auctioned |-> TRUE]) = {n \in nodes : n.auctioned = TRUE}
        BY FilteredNodes
      <3> QED BY <3>1, <3>3, <3>4 DEF getNodeCount
    <2> QED BY <2>4, <2>5, Zenon
  <1>2. IInv /\ IInv' /\ [Next]_vars =>
            [\A x \in Epochs : (nodes # {} /\ readIn = [statuses |-> x, queue |-> x, auctions |-> x] /\ readIn' = readIn)
                => Once(x)]_vars
    BY <1>1, Zenon
  <1> QED BY <1>2, Invariant, PTL DEF Spec, CountedOnce
=============================================================================
