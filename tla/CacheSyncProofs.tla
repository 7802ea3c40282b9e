-------------------------- MODULE CacheSyncProofs --------------------------
(***************************************************************************)
(* What CacheSync promises, for any number of processes, versions, runs of *)
(* the warmer's job, lost broadcasts and admin requests.                   *)
(***************************************************************************)
EXTENDS CacheSync, TLAPS

\* A deletion never runs ahead of the source.
DroppedIsPast == dropped <= source

\* Nothing in flight is older than the last deletion.
FlightFresh ==
    ~raced =>
        /\ \A p \in Readers : NotOlder(reader[p].value, dropped)
        /\ \A r \in WarmRuns : NotOlder(warm[r].value, dropped)
        /\ \A p \in Procs : \A i \in 1..Len(fetched[p]) : NotOlder(fetched[p][i], dropped)

\* A run of a locked job that is at work holds the lock.
RunLocked ==
    warmer # "unlocked" => \A r \in WarmRuns : warm[r].pc # "idle" => lock = r

\* What a run is about to set is no newer than the source and, if the job is
\* locked, no older than what was set last.
WarmOrdered ==
    /\ lastWarm <= source
    /\ \A r \in WarmRuns :
          warm[r].pc = "set" =>
              /\ warm[r].value <= source
              /\ warmer # "unlocked" => lastWarm <= warm[r].value

IInv ==
    /\ TypeOK
    /\ DroppedIsPast
    /\ NoSilentStaleness
    /\ FlightFresh
    /\ RunLocked
    /\ WarmOrdered

----------------------------------------------------------------------------
\* The messages of a sequence, by position (Range of the community modules).
LEMMA RangeOfSeq ==
    ASSUME NEW S, NEW s \in Seq(S)
    PROVE  \A e : e \in Range(s) <=> \E i \in 1..Len(s) : s[i] = e
  BY DEF Range

\* A broadcast that is appended is in the inbox, and so is all that was there.
LEMMA AppendRange ==
    ASSUME NEW S, NEW s \in Seq(S), NEW e \in S
    PROVE  /\ Append(s, e) \in Seq(S)
           /\ e \in Range(Append(s, e))
           /\ Range(s) \subseteq Range(Append(s, e))
  <1>1. Append(s, e) \in Seq(S) /\ Len(Append(s, e)) = Len(s) + 1
    OBVIOUS
  <1>2. Append(s, e)[Len(s) + 1] = e
    OBVIOUS
  <1>3. \A i \in 1..Len(s) : Append(s, e)[i] = s[i]
    OBVIOUS
  <1>4. Len(s) \in Nat
    OBVIOUS
  <1>0. \A x : x \in Range(Append(s, e)) <=> \E i \in 1..(Len(s) + 1) : Append(s, e)[i] = x
    BY <1>1, RangeOfSeq
  <1>5. e \in Range(Append(s, e))
    BY <1>0, <1>2, <1>4
  <1>6. Range(s) \subseteq Range(Append(s, e))
    <2>1. ASSUME NEW x \in Range(s) PROVE x \in Range(Append(s, e))
      <3>1. PICK i \in 1..Len(s) : s[i] = x
        BY RangeOfSeq
      <3>. QED BY <1>0, <1>3, <1>4, <3>1
    <2>. QED BY <2>1
  <1>. QED BY <1>1, <1>5, <1>6

\* Taking the head off a queue leaves everything that is not the head.
LEMMA TailRange ==
    ASSUME NEW S, NEW s \in Seq(S), s # <<>>
    PROVE  /\ Head(s) \in S
           /\ Tail(s) \in Seq(S)
           /\ Len(Tail(s)) = Len(s) - 1
           /\ \A i \in 1..Len(Tail(s)) : Tail(s)[i] = s[i + 1]
           /\ \A e \in Range(s) : e # Head(s) => e \in Range(Tail(s))
  <1>1. /\ Head(s) \in S /\ Tail(s) \in Seq(S) /\ Len(Tail(s)) = Len(s) - 1
        /\ Len(s) \in Nat /\ Len(s) > 0 /\ Head(s) = s[1]
    OBVIOUS
  <1>2. \A i \in 1..Len(Tail(s)) : Tail(s)[i] = s[i + 1]
    BY <1>1
  <1>3. ASSUME NEW e \in Range(s), e # Head(s)
        PROVE  e \in Range(Tail(s))
    <2>1. PICK i \in 1..Len(s) : e = s[i]
      BY RangeOfSeq
    <2>2. i - 1 \in 1..Len(Tail(s)) /\ Tail(s)[i - 1] = e
      BY <1>1, <1>2, <1>3, <2>1
    <2>3. \A x : x \in Range(Tail(s)) <=> \E j \in 1..Len(Tail(s)) : Tail(s)[j] = x
      BY <1>1, RangeOfSeq
    <2>. QED BY <2>2, <2>3
  <1>. QED BY <1>1, <1>2, <1>3

\* The initial state satisfies the invariant.
LEMMA InitIInv == Init => IInv
  <1>. SUFFICES ASSUME Init PROVE IInv
    OBVIOUS
  <1>. USE CacheSyncAssumption
  <1>1. TypeOK
    <2>1. 0 \in Versions /\ None \in Values /\ <<>> \in Seq(Values)
          /\ <<>> \in Seq({"deleteCacheKeys", "refreshCacheKey"})
      BY DEF Versions, Values, None
    <2>2. Idle \in CallType({"idle", "set", "emit"})
          /\ Idle \in CallType({"idle", "remote", "compute", "setRemote", "setLocal"})
      BY <2>1 DEF Idle, CallType
    <2>3. dropping \in BOOLEAN /\ raced \in BOOLEAN /\ admin \in SUBSET Procs /\ missed \in SUBSET Procs
      BY DEF Init
    <2>4. losses \in Nat /\ requests \in Nat /\ losses + requests <= MaxTroubles
      BY DEF Init
    <2>5. /\ local \in [Procs -> Values]
          /\ inbox \in [Procs -> Seq({"deleteCacheKeys", "refreshCacheKey"})]
          /\ fetched \in [Procs -> Seq(Values)]
          /\ reader \in [Readers -> CallType({"idle", "remote", "compute", "setRemote", "setLocal"})]
          /\ warm \in [WarmRuns -> CallType({"idle", "set", "emit"})]
      BY <2>1, <2>2 DEF Init
    <2>. QED BY <2>1, <2>3, <2>4, <2>5 DEF Init, TypeOK
  <1>2. DroppedIsPast /\ RunLocked /\ WarmOrdered /\ NoSilentStaleness
    BY DEF Init, DroppedIsPast, RunLocked, WarmOrdered, NoSilentStaleness, NotOlder, Idle, None
  <1>3. FlightFresh
    BY DEF Init, FlightFresh, NotOlder, Idle
  <1>. QED BY <1>1, <1>2, <1>3 DEF IInv

\* What a broadcast does to the inboxes and who misses it.
LEMMA EmitFacts ==
    ASSUME TypeOK, NEW m \in {"deleteCacheKeys", "refreshCacheKey"}, Emit(m)
    PROVE  /\ inbox' \in [Procs -> Seq({"deleteCacheKeys", "refreshCacheKey"})]
           /\ losses' \in Nat
           /\ losses' + requests <= MaxTroubles
           /\ missed' \in SUBSET Procs
           /\ missed \subseteq missed'
           /\ \A p \in Procs : Range(inbox[p]) \subseteq Range(inbox'[p])
           /\ m = "deleteCacheKeys" => \A p \in Procs \ missed' : m \in Range(inbox'[p])
  <1>. DEFINE M == {"deleteCacheKeys", "refreshCacheKey"}
  <1>. USE CacheSyncAssumption
  <1>1. PICK got \in SUBSET {p \in Procs : Len(inbox[p]) < MaxInbox} :
          /\ Procs \ got # {} => losses + requests < MaxTroubles
          /\ inbox' = [p \in Procs |-> IF p \in got THEN Append(inbox[p], m) ELSE inbox[p]]
          /\ losses' = IF Procs \ got = {} THEN losses ELSE losses + 1
          /\ missed' = IF m = "deleteCacheKeys" THEN missed \cup (Procs \ got) ELSE missed
    BY DEF Emit
  <1>2. inbox \in [Procs -> Seq(M)] /\ losses \in Nat /\ requests \in Nat /\ losses + requests <= MaxTroubles /\ missed \in SUBSET Procs
    BY DEF TypeOK
  <1>3. \A p \in Procs : /\ Append(inbox[p], m) \in Seq(M)
                         /\ m \in Range(Append(inbox[p], m))
                         /\ Range(inbox[p]) \subseteq Range(Append(inbox[p], m))
    BY <1>2, AppendRange
  <1>4. inbox' \in [Procs -> Seq(M)] /\ \A p \in Procs : Range(inbox[p]) \subseteq Range(inbox'[p])
    BY <1>1, <1>2, <1>3
  <1>5. losses' \in Nat /\ losses' + requests <= MaxTroubles
    BY <1>1, <1>2
  <1>6. missed' \in SUBSET Procs /\ missed \subseteq missed'
    BY <1>1, <1>2
  <1>7. m = "deleteCacheKeys" => \A p \in Procs \ missed' : m \in Range(inbox'[p])
    BY <1>1, <1>2, <1>3
  <1>. QED BY <1>4, <1>5, <1>6, <1>7

\* Every step keeps the invariant.
LEMMA StepIInv == IInv /\ [Next]_vars => IInv'
  <1>. SUFFICES ASSUME IInv, [Next]_vars PROVE IInv'
    OBVIOUS
  <1>. USE CacheSyncAssumption
  <1>0. /\ TypeOK /\ DroppedIsPast /\ NoSilentStaleness /\ FlightFresh /\ RunLocked /\ WarmOrdered
    BY DEF IInv
  <1>1. ASSUME NEW p \in Readers, ReadLocal(p) PROVE IInv'
    <2>1. TypeOK'
      BY <1>0, <1>1 DEF ReadLocal, TypeOK, CallType, NoEmit
    <2>2. DroppedIsPast' /\ RunLocked' /\ WarmOrdered'
      BY <1>0, <1>1 DEF ReadLocal, DroppedIsPast, RunLocked, WarmOrdered
    <2>3. NoSilentStaleness'
      BY <1>0, <1>1 DEF ReadLocal, NoSilentStaleness, NoEmit
    <2>4. FlightFresh'
      BY <1>0, <1>1 DEF ReadLocal, FlightFresh
    <2>. QED BY <2>1, <2>2, <2>3, <2>4 DEF IInv
  <1>2. ASSUME NEW p \in Readers, ReadRemote(p) PROVE IInv'
    <2>1. TypeOK'
      BY <1>0, <1>2 DEF ReadRemote, TypeOK, CallType, NoEmit
    <2>2. DroppedIsPast' /\ RunLocked' /\ WarmOrdered'
      BY <1>0, <1>2 DEF ReadRemote, DroppedIsPast, RunLocked, WarmOrdered
    <2>3. NoSilentStaleness'
      BY <1>0, <1>2 DEF ReadRemote, NoSilentStaleness, NoEmit
    <2>4. FlightFresh'
      BY <1>0, <1>2 DEF ReadRemote, FlightFresh, NoSilentStaleness
    <2>. QED BY <2>1, <2>2, <2>3, <2>4 DEF IInv
  <1>3. ASSUME NEW p \in Readers, Compute(p) PROVE IInv'
    <2>1. TypeOK'
      BY <1>0, <1>3 DEF Compute, TypeOK, CallType, Values, NoEmit
    <2>2. DroppedIsPast' /\ RunLocked' /\ WarmOrdered'
      BY <1>0, <1>3 DEF Compute, DroppedIsPast, RunLocked, WarmOrdered
    <2>3. NoSilentStaleness'
      BY <1>0, <1>3 DEF Compute, NoSilentStaleness, NoEmit
    <2>4. FlightFresh'
      BY <1>0, <1>3 DEF Compute, FlightFresh, NotOlder, DroppedIsPast
    <2>. QED BY <2>1, <2>2, <2>3, <2>4 DEF IInv
  <1>4. ASSUME NEW p \in Readers, ComputeFails(p) PROVE IInv'
    <2>1. TypeOK'
      BY <1>0, <1>4 DEF ComputeFails, TypeOK, CallType, Idle, Values, NoEmit
    <2>2. DroppedIsPast' /\ RunLocked' /\ WarmOrdered'
      BY <1>0, <1>4 DEF ComputeFails, DroppedIsPast, RunLocked, WarmOrdered
    <2>3. NoSilentStaleness'
      BY <1>0, <1>4 DEF ComputeFails, NoSilentStaleness, NoEmit
    <2>4. FlightFresh'
      BY <1>0, <1>4 DEF ComputeFails, FlightFresh, NotOlder, Idle
    <2>. QED BY <2>1, <2>2, <2>3, <2>4 DEF IInv
  <1>5. ASSUME NEW p \in Readers, SetRemote(p) PROVE IInv'
    <2>1. TypeOK'
      BY <1>0, <1>5 DEF SetRemote, TypeOK, CallType, NoEmit
    <2>2. DroppedIsPast' /\ RunLocked' /\ WarmOrdered'
      BY <1>0, <1>5 DEF SetRemote, DroppedIsPast, RunLocked, WarmOrdered
    <2>3. NoSilentStaleness'
      BY <1>0, <1>5 DEF SetRemote, NoSilentStaleness, NoEmit, FlightFresh
    <2>4. FlightFresh'
      BY <1>0, <1>5 DEF SetRemote, FlightFresh
    <2>. QED BY <2>1, <2>2, <2>3, <2>4 DEF IInv
  <1>6. ASSUME NEW p \in Readers, SetLocal(p) PROVE IInv'
    <2>1. TypeOK'
      BY <1>0, <1>6 DEF SetLocal, TypeOK, CallType, Idle, Values, NoEmit
    <2>2. DroppedIsPast' /\ RunLocked' /\ WarmOrdered'
      BY <1>0, <1>6 DEF SetLocal, DroppedIsPast, RunLocked, WarmOrdered
    <2>3. NoSilentStaleness'
      BY <1>0, <1>6 DEF SetLocal, NoSilentStaleness, NoEmit, FlightFresh
    <2>4. FlightFresh'
      BY <1>0, <1>6 DEF SetLocal, FlightFresh, NotOlder, Idle
    <2>. QED BY <2>1, <2>2, <2>3, <2>4 DEF IInv
  <1>7. ASSUME NEW r \in WarmRuns, WarmRead(r) PROVE IInv'
    <2>1. TypeOK'
      BY <1>0, <1>7 DEF WarmRead, RawValue, TypeOK, CallType, Values, NoEmit
    <2>2. DroppedIsPast' /\ RunLocked' /\ WarmOrdered'
      BY <1>0, <1>7 DEF WarmRead, LockFree, RawValue, DroppedIsPast, RunLocked, WarmOrdered, TypeOK, Versions
    <2>3. NoSilentStaleness'
      BY <1>0, <1>7 DEF WarmRead, NoSilentStaleness, NoEmit
    <2>4. FlightFresh'
      BY <1>0, <1>7 DEF WarmRead, RawValue, FlightFresh, NotOlder, DroppedIsPast
    <2>. QED BY <2>1, <2>2, <2>3, <2>4 DEF IInv
  <1>8. ASSUME NEW r \in WarmRuns, WarmFails(r) PROVE IInv'
    <2>1. TypeOK'
      BY <1>0, <1>8 DEF WarmFails, WarmEnds, TypeOK, CallType, Idle, Values, NoEmit
    <2>2. DroppedIsPast' /\ RunLocked' /\ WarmOrdered'
      BY <1>0, <1>8 DEF WarmFails, WarmEnds, DroppedIsPast, RunLocked, WarmOrdered, TypeOK, Idle
    <2>3. NoSilentStaleness'
      BY <1>0, <1>8 DEF WarmFails, WarmEnds, NoSilentStaleness, NoEmit
    <2>4. FlightFresh'
      BY <1>0, <1>8 DEF WarmFails, WarmEnds, FlightFresh, NotOlder, Idle
    <2>. QED BY <2>1, <2>2, <2>3, <2>4 DEF IInv
  <1>9. ASSUME NEW r \in WarmRuns, WarmSet(r) PROVE IInv'
    <2>1. TypeOK'
      BY <1>0, <1>9 DEF WarmSet, TypeOK, CallType, NoEmit
    <2>2. DroppedIsPast' /\ RunLocked' /\ WarmOrdered'
      BY <1>0, <1>9 DEF WarmSet, DroppedIsPast, RunLocked, WarmOrdered, TypeOK, CallType
    <2>3. NoSilentStaleness'
      BY <1>0, <1>9 DEF WarmSet, NoSilentStaleness, NoEmit, FlightFresh
    <2>4. FlightFresh'
      BY <1>0, <1>9 DEF WarmSet, FlightFresh
    <2>. QED BY <2>1, <2>2, <2>3, <2>4 DEF IInv
  <1>10. ASSUME NEW r \in WarmRuns, WarmEmit(r) PROVE IInv'
    <2>0. /\ inbox' \in [Procs -> Seq({"deleteCacheKeys", "refreshCacheKey"})]
          /\ losses' \in Nat /\ losses' + requests <= MaxTroubles
          /\ missed' \in SUBSET Procs
          /\ missed \subseteq missed'
          /\ \A x \in Procs : Range(inbox[x]) \subseteq Range(inbox'[x])
      BY <1>0, <1>10, EmitFacts DEF WarmEmit
    <2>1. TypeOK'
      BY <1>0, <1>10, <2>0 DEF WarmEmit, WarmEnds, TypeOK, CallType, Idle, Values
    <2>2. DroppedIsPast' /\ RunLocked' /\ WarmOrdered'
      BY <1>0, <1>10, <2>0 DEF WarmEmit, WarmEnds, DroppedIsPast, RunLocked, WarmOrdered, TypeOK, Idle
    <2>3. NoSilentStaleness'
      BY <1>0, <1>10, <2>0 DEF WarmEmit, WarmEnds, NoSilentStaleness
    <2>4. FlightFresh'
      BY <1>0, <1>10, <2>0 DEF WarmEmit, WarmEnds, FlightFresh, NotOlder, Idle
    <2>. QED BY <2>1, <2>2, <2>3, <2>4 DEF IInv
  <1>11. ASSUME NEW r \in WarmRuns, WarmSetRemote(r) PROVE IInv'
    <2>1. TypeOK'
      BY <1>0, <1>11 DEF WarmSetRemote, WarmEnds, TypeOK, CallType, Idle, Values, NoEmit
    <2>2. DroppedIsPast' /\ RunLocked' /\ WarmOrdered'
      BY <1>0, <1>11 DEF WarmSetRemote, WarmEnds, DroppedIsPast, RunLocked, WarmOrdered, TypeOK, CallType, Idle
    <2>3. NoSilentStaleness'
      BY <1>0, <1>11 DEF WarmSetRemote, WarmEnds, NoSilentStaleness, NoEmit, FlightFresh
    <2>4. FlightFresh'
      BY <1>0, <1>11 DEF WarmSetRemote, WarmEnds, FlightFresh, NotOlder, Idle
    <2>. QED BY <2>1, <2>2, <2>3, <2>4 DEF IInv
  <1>12. ASSUME DropKey PROVE IInv'
    <2>1. TypeOK'
      BY <1>0, <1>12 DEF DropKey, DeleteInCache, TypeOK, Values, NoEmit
    <2>2. DroppedIsPast' /\ RunLocked' /\ WarmOrdered'
      BY <1>0, <1>12 DEF DropKey, DroppedIsPast, RunLocked, WarmOrdered, TypeOK, Versions
    <2>3. NoSilentStaleness'
      BY <1>0, <1>12 DEF DropKey, DeleteInCache, NoSilentStaleness, NotOlder
    <2>4. FlightFresh'
      <3>1. raced' \/ \A v \in InFlight : NotOlder(v, source)
        BY <1>12 DEF DropKey
      <3>2. /\ \A p \in Readers : reader[p].value \in InFlight
            /\ \A r \in WarmRuns : warm[r].value \in InFlight
            /\ \A p \in Procs : \A i \in 1..Len(fetched[p]) : fetched[p][i] \in InFlight
        <4>1. \A p \in Procs : \A i \in 1..Len(fetched[p]) : fetched[p][i] \in Range(fetched[p])
          BY <1>0, RangeOfSeq DEF TypeOK
        <4>. QED BY <4>1 DEF InFlight
      <3>. QED BY <1>12, <3>1, <3>2 DEF DropKey, FlightFresh
    <2>. QED BY <2>1, <2>2, <2>3, <2>4 DEF IInv
  <1>13. ASSUME DropEmit PROVE IInv'
    <2>0. /\ inbox' \in [Procs -> Seq({"deleteCacheKeys", "refreshCacheKey"})]
          /\ losses' \in Nat /\ losses' + requests <= MaxTroubles
          /\ missed' \in SUBSET Procs
          /\ missed \subseteq missed'
          /\ \A x \in Procs : Range(inbox[x]) \subseteq Range(inbox'[x])
          /\ \A x \in Procs \ missed' : "deleteCacheKeys" \in Range(inbox'[x])
      BY <1>0, <1>13, EmitFacts DEF DropEmit
    <2>1. TypeOK'
      BY <1>0, <1>13, <2>0 DEF DropEmit, TypeOK
    <2>2. DroppedIsPast' /\ RunLocked' /\ WarmOrdered'
      BY <1>0, <1>13, <2>0 DEF DropEmit, DroppedIsPast, RunLocked, WarmOrdered
    <2>3. NoSilentStaleness'
      BY <1>0, <1>13, <2>0 DEF DropEmit, NoSilentStaleness
    <2>4. FlightFresh'
      BY <1>0, <1>13, <2>0 DEF DropEmit, FlightFresh
    <2>. QED BY <2>1, <2>2, <2>3, <2>4 DEF IInv
  <1>14. ASSUME NEW p \in Procs, NEW v \in Versions, AdminSetRemote(p, v) PROVE IInv'
    <2>1. TypeOK'
      BY <1>0, <1>14 DEF AdminSetRemote, AdminRequest, TypeOK, Values, NoEmit
    <2>2. DroppedIsPast' /\ RunLocked' /\ WarmOrdered'
      BY <1>0, <1>14 DEF AdminSetRemote, DroppedIsPast, RunLocked, WarmOrdered
    <2>3. NoSilentStaleness'
      BY <1>0, <1>14 DEF AdminSetRemote, NoSilentStaleness
    <2>4. FlightFresh'
      BY <1>0, <1>14 DEF AdminSetRemote, FlightFresh
    <2>. QED BY <2>1, <2>2, <2>3, <2>4 DEF IInv
  <1>15. ASSUME NEW p \in Procs, AdminDeleteRemote(p) PROVE IInv'
    <2>1. TypeOK'
      BY <1>0, <1>15 DEF AdminDeleteRemote, DeleteInCache, AdminRequest, TypeOK, Values, NoEmit
    <2>2. DroppedIsPast' /\ RunLocked' /\ WarmOrdered'
      BY <1>0, <1>15 DEF AdminDeleteRemote, DroppedIsPast, RunLocked, WarmOrdered
    <2>3. NoSilentStaleness'
      BY <1>0, <1>15 DEF AdminDeleteRemote, DeleteInCache, NoSilentStaleness, NotOlder, NoEmit
    <2>4. FlightFresh'
      BY <1>0, <1>15 DEF AdminDeleteRemote, FlightFresh
    <2>. QED BY <2>1, <2>2, <2>3, <2>4 DEF IInv
  <1>16. ASSUME NEW p \in Procs, AdminEmit(p) PROVE IInv'
    <2>0. /\ inbox' \in [Procs -> Seq({"deleteCacheKeys", "refreshCacheKey"})]
          /\ losses' \in Nat /\ losses' + requests <= MaxTroubles
          /\ missed' \in SUBSET Procs
          /\ missed \subseteq missed'
          /\ \A x \in Procs : Range(inbox[x]) \subseteq Range(inbox'[x])
          /\ \A x \in Procs \ missed' : "deleteCacheKeys" \in Range(inbox'[x])
      BY <1>0, <1>16, EmitFacts DEF AdminEmit
    <2>1. TypeOK'
      BY <1>0, <1>16, <2>0 DEF AdminEmit, TypeOK
    <2>2. DroppedIsPast' /\ RunLocked' /\ WarmOrdered'
      BY <1>0, <1>16, <2>0 DEF AdminEmit, DroppedIsPast, RunLocked, WarmOrdered
    <2>3. NoSilentStaleness'
      BY <1>0, <1>16, <2>0 DEF AdminEmit, NoSilentStaleness
    <2>4. FlightFresh'
      BY <1>0, <1>16, <2>0 DEF AdminEmit, FlightFresh
    <2>. QED BY <2>1, <2>2, <2>3, <2>4 DEF IInv
  <1>17. ASSUME NEW p \in Procs, NEW v \in Values, AdminLocal(p, v) PROVE IInv'
    <2>1. TypeOK'
      BY <1>0, <1>17 DEF AdminLocal, AdminRequest, TypeOK, NoEmit
    <2>2. DroppedIsPast' /\ RunLocked' /\ WarmOrdered'
      BY <1>0, <1>17 DEF AdminLocal, DroppedIsPast, RunLocked, WarmOrdered
    <2>3. NoSilentStaleness'
      BY <1>0, <1>17 DEF AdminLocal, NoSilentStaleness
    <2>4. FlightFresh'
      BY <1>0, <1>17 DEF AdminLocal, FlightFresh
    <2>. QED BY <2>1, <2>2, <2>3, <2>4 DEF IInv
  <1>18. ASSUME NEW p \in Procs, DeleteCacheKey(p) PROVE IInv'
    <2>0. /\ Tail(inbox[p]) \in Seq({"deleteCacheKeys", "refreshCacheKey"})
          /\ \A e \in Range(inbox[p]) : e # Head(inbox[p]) => e \in Range(Tail(inbox[p]))
      BY <1>0, <1>18, TailRange DEF TypeOK, DeleteCacheKey
    <2>1. TypeOK'
      BY <1>0, <1>18, <2>0 DEF DeleteCacheKey, TypeOK, Values
    <2>2. DroppedIsPast' /\ RunLocked' /\ WarmOrdered'
      BY <1>0, <1>18, <2>0 DEF DeleteCacheKey, DroppedIsPast, RunLocked, WarmOrdered
    <2>3. NoSilentStaleness'
      BY <1>0, <1>18, <2>0 DEF DeleteCacheKey, NoSilentStaleness, NotOlder, TypeOK
    <2>4. FlightFresh'
      BY <1>0, <1>18, <2>0 DEF DeleteCacheKey, FlightFresh
    <2>. QED BY <2>1, <2>2, <2>3, <2>4 DEF IInv
  <1>19. ASSUME NEW p \in Procs, RefreshCacheKey(p) PROVE IInv'
    <2>0. /\ Tail(inbox[p]) \in Seq({"deleteCacheKeys", "refreshCacheKey"})
          /\ \A e \in Range(inbox[p]) : e # Head(inbox[p]) => e \in Range(Tail(inbox[p]))
      BY <1>0, <1>19, TailRange DEF TypeOK, RefreshCacheKey
    <2>1. TypeOK'
      BY <1>0, <1>19, <2>0 DEF RefreshCacheKey, TypeOK
    <2>2. DroppedIsPast' /\ RunLocked' /\ WarmOrdered'
      BY <1>0, <1>19, <2>0 DEF RefreshCacheKey, DroppedIsPast, RunLocked, WarmOrdered
    <2>3. NoSilentStaleness'
      BY <1>0, <1>19, <2>0 DEF RefreshCacheKey, NoSilentStaleness
    <2>4. FlightFresh'
      <3>1. /\ Len(Append(fetched[p], remote)) = Len(fetched[p]) + 1
            /\ Len(fetched[p]) \in Nat
            /\ \A i \in 1..(Len(fetched[p]) + 1) :
                  Append(fetched[p], remote)[i] = IF i <= Len(fetched[p]) THEN fetched[p][i] ELSE remote
        BY <1>0 DEF TypeOK
      <3>. QED BY <1>0, <1>19, <3>1 DEF RefreshCacheKey, FlightFresh, NoSilentStaleness
    <2>. QED BY <2>1, <2>2, <2>3, <2>4 DEF IInv
  <1>20. ASSUME NEW p \in Procs, RefreshLocal(p) PROVE IInv'
    <2>0. /\ Head(fetched[p]) \in Values /\ Head(fetched[p]) = fetched[p][1] /\ 1 \in 1..Len(fetched[p])
          /\ Tail(fetched[p]) \in Seq(Values) /\ Len(Tail(fetched[p])) = Len(fetched[p]) - 1
          /\ Len(fetched[p]) \in Nat
          /\ \A i \in 1..Len(Tail(fetched[p])) : Tail(fetched[p])[i] = fetched[p][i + 1]
      BY <1>0, <1>20, TailRange DEF TypeOK, RefreshLocal
    <2>1. TypeOK'
      BY <1>0, <1>20, <2>0 DEF RefreshLocal, TypeOK, NoEmit
    <2>2. DroppedIsPast' /\ RunLocked' /\ WarmOrdered'
      BY <1>0, <1>20, <2>0 DEF RefreshLocal, DroppedIsPast, RunLocked, WarmOrdered
    <2>3. NoSilentStaleness'
      BY <1>0, <1>20, <2>0 DEF RefreshLocal, NoSilentStaleness, NoEmit, FlightFresh
    <2>4. FlightFresh'
      BY <1>0, <1>20, <2>0 DEF RefreshLocal, FlightFresh, NotOlder
    <2>. QED BY <2>1, <2>2, <2>3, <2>4 DEF IInv
  <1>21. ASSUME SourceChanges PROVE IInv'
    <2>1. TypeOK'
      BY <1>0, <1>21 DEF SourceChanges, TypeOK, Versions, NoEmit
    <2>2. DroppedIsPast' /\ RunLocked' /\ WarmOrdered'
      BY <1>0, <1>21 DEF SourceChanges, DroppedIsPast, RunLocked, WarmOrdered, TypeOK, CallType, Values, Versions, None
    <2>3. NoSilentStaleness'
      BY <1>0, <1>21 DEF SourceChanges, NoSilentStaleness, NoEmit
    <2>4. FlightFresh'
      BY <1>0, <1>21 DEF SourceChanges, FlightFresh
    <2>. QED BY <2>1, <2>2, <2>3, <2>4 DEF IInv
  <1>22. ASSUME ExpireRemote PROVE IInv'
    <2>1. TypeOK'
      BY <1>0, <1>22 DEF ExpireRemote, TypeOK, Values, NoEmit
    <2>2. DroppedIsPast' /\ RunLocked' /\ WarmOrdered'
      BY <1>0, <1>22 DEF ExpireRemote, DroppedIsPast, RunLocked, WarmOrdered
    <2>3. NoSilentStaleness'
      BY <1>0, <1>22 DEF ExpireRemote, NoSilentStaleness, NotOlder, NoEmit
    <2>4. FlightFresh'
      BY <1>0, <1>22 DEF ExpireRemote, FlightFresh
    <2>. QED BY <2>1, <2>2, <2>3, <2>4 DEF IInv
  <1>23. ASSUME NEW p \in Procs, ExpireLocal(p) PROVE IInv'
    <2>1. TypeOK'
      BY <1>0, <1>23 DEF ExpireLocal, TypeOK, Values, NoEmit
    <2>2. DroppedIsPast' /\ RunLocked' /\ WarmOrdered'
      BY <1>0, <1>23 DEF ExpireLocal, DroppedIsPast, RunLocked, WarmOrdered
    <2>3. NoSilentStaleness'
      BY <1>0, <1>23 DEF ExpireLocal, NoSilentStaleness, NotOlder, NoEmit
    <2>4. FlightFresh'
      BY <1>0, <1>23 DEF ExpireLocal, FlightFresh
    <2>. QED BY <2>1, <2>2, <2>3, <2>4 DEF IInv
  <1>24. ASSUME UNCHANGED vars PROVE IInv'
    BY <1>0, <1>24 DEF vars, IInv, TypeOK, DroppedIsPast, NoSilentStaleness, FlightFresh, RunLocked, WarmOrdered
  <1>. QED
    BY <1>1, <1>2, <1>3, <1>4, <1>5, <1>6, <1>7, <1>8, <1>9, <1>10, <1>11, <1>12, <1>13, <1>14, <1>15, <1>16, <1>17, <1>18, <1>19, <1>20, <1>21, <1>22, <1>23, <1>24
       DEF Next, GetOrSet, WarmStep, Listen

\* The invariant holds in every reachable state.
LEMMA Inductive == Spec => []IInv
  BY InitIInv, StepIInv, PTL DEF Spec
----------------------------------------------------------------------------
(***************************************************************************)
(* Every copy of the key, in Redis, in memory or in flight, is a version   *)
(* of the source there can be or nothing, and no bound is exceeded.        *)
(***************************************************************************)
THEOREM TypeCorrect == Spec => []TypeOK
  BY Inductive, PTL DEF IInv

(***************************************************************************)
(* The deletions of TransactionProcessorService reach Redis and every      *)
(* process: for any number of processes and requests, a stale copy is only *)
(* left behind if an older value was in flight at the deletion, or where a *)
(* broadcast is missed or still to be handled.                             *)
(***************************************************************************)
THEOREM NoSilentStalenessAlways == Spec => []NoSilentStaleness
  BY Inductive, PTL DEF IInv

(***************************************************************************)
(* Under @Lock, the values a job of CacheWarmerService sets never go back  *)
(* to an older version, however long it takes and whether or not it tells  *)
(* the other processes.                                                    *)
(***************************************************************************)
THEOREM WarmsForwardAlways == Spec => WarmsForward
  <1>1. IInv /\ [Next]_vars => [warmer # "unlocked" => lastWarm' >= lastWarm]_lastWarm
    <2>. SUFFICES ASSUME IInv, [Next]_vars, lastWarm' # lastWarm, warmer # "unlocked" PROVE lastWarm' >= lastWarm
      OBVIOUS
    <2>1. TypeOK /\ WarmOrdered
      BY DEF IInv
    <2>2. PICK r \in WarmRuns : WarmSet(r) \/ WarmSetRemote(r)
      BY DEF vars, Next, GetOrSet, WarmStep, Listen, ReadLocal, ReadRemote, Compute, ComputeFails,
             SetRemote, SetLocal, WarmRead, WarmFails, WarmEmit, DropKey, DropEmit,
             AdminSetRemote, AdminDeleteRemote, AdminEmit, AdminLocal, DeleteCacheKey,
             RefreshCacheKey, RefreshLocal, SourceChanges, ExpireRemote, ExpireLocal
    <2>3. lastWarm' = warm[r].value /\ warm[r].pc = "set"
      BY <2>2 DEF WarmSet, WarmSetRemote
    <2>4. lastWarm \in Int /\ warm[r].value \in Int
      BY <2>1 DEF TypeOK, CallType, Values, Versions, None
    <2>. QED BY <2>1, <2>3, <2>4 DEF WarmOrdered
  <1>. QED BY <1>1, Inductive, PTL DEF Spec, WarmsForward
=============================================================================
