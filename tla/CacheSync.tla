----------------------------- MODULE CacheSync -----------------------------
(***************************************************************************)
(* One key of the two-level cache.  Every process keeps a local copy in    *)
(* memory; Redis keeps the remote copy the processes share.  Requests read *)
(* through both with getOrSet.  The cache warmer overwrites the key with   *)
(* what the source says (invalidateKey) and broadcasts refreshCacheKey, or *)
(* only sets the remote copy;                                              *)
(* the transaction processor deletes it when a transaction has changed the *)
(* source and broadcasts deleteCacheKeys; the two admin controllers set    *)
(* and delete it.  PubSubListenerController applies the broadcasts to the  *)
(* local copies.  Redis pub/sub forgets what it cannot deliver.            *)
(*                                                                         *)
(* A value is the version of the source it was computed from.  A step is   *)
(* the code from one await to the next.  The cache library is external.    *)
(***************************************************************************)
EXTENDS Integers, Sequences, Functions

CONSTANTS
    Procs,        \* the processes with a local cache
    Cron,         \* the one that runs the cache warmer and the transaction processor
    Readers,      \* those that serve requests, one at a time each
    WarmRuns,     \* calls of the warmer's job that may be alive at once
    Warmers,      \* the kinds of job the key may have
    NoRun,
    MaxVersion,   \* bound: how often the source changes
    MaxInbox,     \* bound: broadcasts on their way to a process
    MaxTroubles   \* bound: broadcasts that do not arrive and requests to the admin
                  \* controllers, taken together

ASSUME CacheSyncAssumption ==
    /\ Cron \in Procs
    /\ Readers \subseteq Procs
    /\ NoRun \notin WarmRuns
    /\ Warmers \subseteq {"locked", "remoteOnly", "unlocked"}
    /\ MaxVersion \in Nat
    /\ MaxInbox \in Nat \ {0}
    /\ MaxTroubles \in Nat

None == -1
Versions == 0..MaxVersion
Values == Versions \cup {None}

VARIABLES
    source,    \* the version of the data the key is computed from
    remote,    \* the value in Redis
    local,     \* the value in the memory of a process
    inbox,     \* the broadcasts on their way to a process
    fetched,   \* values refreshLocal has read from Redis and not yet stored
    reader,    \* the getOrSet of a process
    warmer,    \* the kind of job that warms the key, one and the same for ever
    warm,      \* the runs of that job
    lock,      \* the run that holds the job's lock
    dropping,  \* the transaction processor has deleted the key and not yet told
    dropped,   \* the version up to which it has deleted the key
    admin,     \* the process whose admin controller has yet to broadcast
    lastWarm,  \* history: the last value the warmer has set
    raced,     \* history: an older value was in flight at a deletion, or an admin set one
    missed,    \* history: the processes that missed a deleteCacheKeys
    losses,    \* broadcasts that did not arrive so far
    requests   \* admin requests so far

vars == <<source, remote, local, inbox, fetched, reader, warmer, warm, lock, dropping,
          dropped, admin, lastWarm, raced, missed, losses, requests>>

Idle == [pc |-> "idle", value |-> None]

Init ==
    /\ source = 0
    /\ remote = None
    /\ local = [p \in Procs |-> None]
    /\ inbox = [p \in Procs |-> <<>>]
    /\ fetched = [p \in Procs |-> <<>>]
    /\ reader = [p \in Readers |-> Idle]
    /\ warmer \in Warmers
    /\ warm = [r \in WarmRuns |-> Idle]
    /\ lock = NoRun
    /\ dropping = FALSE
    /\ dropped = 0
    /\ admin = {}
    /\ lastWarm = None
    /\ raced = FALSE
    /\ missed = {}
    /\ losses = 0
    /\ requests = 0

----------------------------------------------------------------------------
(***************************************************************************)
(* clientProxy.emit: the broadcast is on its way to the processes got; the *)
(* others miss it, because it is lost or there is no room.                 *)
(***************************************************************************)
Emit(message) ==
    \E got \in SUBSET {p \in Procs : Len(inbox[p]) < MaxInbox} :
        LET out == Procs \ got
        IN  /\ out # {} => losses + requests < MaxTroubles
            /\ inbox' = [p \in Procs |-> IF p \in got THEN Append(inbox[p], message) ELSE inbox[p]]
            /\ losses' = IF out = {} THEN losses ELSE losses + 1
            /\ missed' = IF message = "deleteCacheKeys" THEN missed \cup out ELSE missed

NoEmit == UNCHANGED <<inbox, losses, missed>>

\* deleteInCache in process p.
DeleteInCache(p) ==
    /\ remote' = None
    /\ local' = [local EXCEPT ![p] = None]

----------------------------------------------------------------------------
\* getOrSet: a request finds no local value (a local hit changes nothing).
ReadLocal(p) ==
    /\ reader[p].pc = "idle"
    /\ local[p] = None
    /\ reader' = [reader EXCEPT ![p].pc = "remote"]
    /\ NoEmit
    /\ UNCHANGED <<source, remote, local, fetched, warmer, warm, lock, dropping, dropped,
                   admin, lastWarm, raced, requests>>

\* ... and asks Redis.
ReadRemote(p) ==
    /\ reader[p].pc = "remote"
    /\ reader' = [reader EXCEPT ![p] =
                    [pc |-> IF remote = None THEN "compute" ELSE "setLocal", value |-> remote]]
    /\ NoEmit
    /\ UNCHANGED <<source, remote, local, fetched, warmer, warm, lock, dropping, dropped,
                   admin, lastWarm, raced, requests>>

\* ... which does not have it either: the value is computed.
Compute(p) ==
    /\ reader[p].pc = "compute"
    /\ reader' = [reader EXCEPT ![p] = [pc |-> "setRemote", value |-> source]]
    /\ NoEmit
    /\ UNCHANGED <<source, remote, local, fetched, warmer, warm, lock, dropping, dropped,
                   admin, lastWarm, raced, requests>>

\* ... or computing it fails, and so does the request.
ComputeFails(p) ==
    /\ reader[p].pc = "compute"
    /\ reader' = [reader EXCEPT ![p] = Idle]
    /\ NoEmit
    /\ UNCHANGED <<source, remote, local, fetched, warmer, warm, lock, dropping, dropped,
                   admin, lastWarm, raced, requests>>

SetRemote(p) ==
    /\ reader[p].pc = "setRemote"
    /\ remote' = reader[p].value
    /\ reader' = [reader EXCEPT ![p].pc = "setLocal"]
    /\ NoEmit
    /\ UNCHANGED <<source, local, fetched, warmer, warm, lock, dropping, dropped, admin,
                   lastWarm, raced, requests>>

SetLocal(p) ==
    /\ reader[p].pc = "setLocal"
    /\ local' = [local EXCEPT ![p] = reader[p].value]
    /\ reader' = [reader EXCEPT ![p] = Idle]
    /\ NoEmit
    /\ UNCHANGED <<source, remote, fetched, warmer, warm, lock, dropping, dropped, admin,
                   lastWarm, raced, requests>>

----------------------------------------------------------------------------
\* Mutant: the job has no lock.
LockFree_Ignored == TRUE

\* @Lock: a run is skipped while another holds the lock.
LockFree == lock = NoRun

\* Mutant: the job asks the cached getter, not the raw one.
RawValue_Cached == IF remote = None THEN source ELSE remote

\* What the ...Raw getter of a job returns.
RawValue == source

(***************************************************************************)
(* A run of the job: it asks the source, sets the key and tells everyone.  *)
(* A locked job has @Lock; the one of the verified accounts does not.  The *)
(* jobs of the latest block and of the extra accounts are locked and set   *)
(* Redis only.                                                             *)
(***************************************************************************)
WarmRead(r) ==
    /\ warm[r].pc = "idle"
    /\ IF warmer = "unlocked" THEN lock' = lock ELSE LockFree /\ lock' = r
    /\ warm' = [warm EXCEPT ![r] = [pc |-> "set", value |-> RawValue]]
    /\ NoEmit
    /\ UNCHANGED <<source, remote, local, fetched, reader, warmer, dropping, dropped,
                   admin, lastWarm, raced, requests>>

\* The run r ends.
WarmEnds(r) ==
    /\ warm' = [warm EXCEPT ![r] = Idle]
    /\ lock' = IF lock = r THEN NoRun ELSE lock

\* The getter throws (or has no price, no settings): nothing is set.
WarmFails(r) ==
    /\ warm[r].pc = "set"
    /\ WarmEnds(r)
    /\ NoEmit
    /\ UNCHANGED <<source, remote, local, fetched, reader, warmer, dropping, dropped,
                   admin, lastWarm, raced, requests>>

\* invalidateKey: cachingService.set writes Redis and the process's own copy.
WarmSet(r) ==
    /\ warmer # "remoteOnly"
    /\ warm[r].pc = "set"
    /\ remote' = warm[r].value
    /\ local' = [local EXCEPT ![Cron] = warm[r].value]
    /\ warm' = [warm EXCEPT ![r].pc = "emit"]
    /\ lastWarm' = warm[r].value
    /\ NoEmit
    /\ UNCHANGED <<source, fetched, reader, warmer, lock, dropping, dropped, admin, raced,
                   requests>>

\* ... refreshCacheKey tells everyone.
WarmEmit(r) ==
    /\ warm[r].pc = "emit"
    /\ Emit("refreshCacheKey")
    /\ WarmEnds(r)
    /\ UNCHANGED <<source, remote, local, fetched, reader, warmer, dropping, dropped,
                   admin, lastWarm, raced, requests>>

\* cachingService.setRemote: the local copies are left to their TTL.
WarmSetRemote(r) ==
    /\ warmer = "remoteOnly"
    /\ warm[r].pc = "set"
    /\ remote' = warm[r].value
    /\ WarmEnds(r)
    /\ lastWarm' = warm[r].value
    /\ NoEmit
    /\ UNCHANGED <<source, local, fetched, reader, warmer, dropping, dropped, admin, raced,
                   requests>>

----------------------------------------------------------------------------
\* A value some step in flight is about to store.
InFlight ==
    {reader[p].value : p \in Readers} \cup {warm[r].value : r \in WarmRuns}
        \cup UNION {Range(fetched[p]) : p \in Procs}

\* The value, if there is one, is of version v or later.
NotOlder(value, v) == value = None \/ value >= v

\* Mutant: the broadcast is sent before the key is deleted.
DropKey_AfterEmit ==
    \/ /\ ~dropping
       /\ dropped < source
       /\ dropping' = TRUE
       /\ Emit("deleteCacheKeys")
       /\ UNCHANGED <<source, remote, local, fetched, reader, warmer, warm, lock, dropped,
                      admin, lastWarm, raced, requests>>
    \/ /\ dropping
       /\ dropping' = FALSE
       /\ DeleteInCache(Cron)
       /\ dropped' = source
       /\ raced' = (raced \/ \E v \in InFlight : ~NotOlder(v, source))
       /\ NoEmit
       /\ UNCHANGED <<source, fetched, reader, warmer, warm, lock, admin, lastWarm, requests>>

\* A transaction that changed the source: tryInvalidate... deletes the key.
DropKey ==
    /\ ~dropping
    /\ dropped < source
    /\ dropping' = TRUE
    /\ DeleteInCache(Cron)
    /\ dropped' = source
    /\ raced' = (raced \/ \E v \in InFlight : ~NotOlder(v, source))
    /\ NoEmit
    /\ UNCHANGED <<source, fetched, reader, warmer, warm, lock, admin, lastWarm, requests>>

\* The deleted keys are broadcast once all transactions of the block are done.
DropEmit ==
    /\ dropping
    /\ dropping' = FALSE
    /\ Emit("deleteCacheKeys")
    /\ UNCHANGED <<source, remote, local, fetched, reader, warmer, warm, lock, dropped,
                   admin, lastWarm, raced, requests>>

----------------------------------------------------------------------------
\* The admin controllers.  Every request counts towards the bound.
AdminRequest == losses + requests < MaxTroubles /\ requests' = requests + 1

\* PUT debug/cache/remote/:key, with any value.
AdminSetRemote(p, v) ==
    /\ AdminRequest
    /\ p \notin admin
    /\ remote' = v
    /\ admin' = admin \cup {p}
    /\ raced' = TRUE
    /\ NoEmit
    /\ UNCHANGED <<source, local, fetched, reader, warmer, warm, lock, dropping, dropped, lastWarm>>

\* DELETE debug/cache/remote/:key
AdminDeleteRemote(p) ==
    /\ AdminRequest
    /\ p \notin admin
    /\ DeleteInCache(p)
    /\ admin' = admin \cup {p}
    /\ NoEmit
    /\ UNCHANGED <<source, fetched, reader, warmer, warm, lock, dropping, dropped, lastWarm, raced>>

\* Both broadcast the key afterwards.
AdminEmit(p) ==
    /\ p \in admin
    /\ Emit("deleteCacheKeys")
    /\ admin' = admin \ {p}
    /\ UNCHANGED <<source, remote, local, fetched, reader, warmer, warm, lock, dropping,
                   dropped, lastWarm, raced, requests>>

\* PUT and DELETE debug/cache/local/:key
AdminLocal(p, v) ==
    /\ AdminRequest
    /\ local' = [local EXCEPT ![p] = v]
    /\ raced' = TRUE
    /\ NoEmit
    /\ UNCHANGED <<source, remote, fetched, reader, warmer, warm, lock, dropping, dropped,
                   admin, lastWarm>>

----------------------------------------------------------------------------
\* PubSubListenerController.deleteCacheKey
DeleteCacheKey(p) ==
    /\ inbox[p] # <<>>
    /\ Head(inbox[p]) = "deleteCacheKeys"
    /\ inbox' = [inbox EXCEPT ![p] = Tail(@)]
    /\ local' = [local EXCEPT ![p] = None]
    /\ UNCHANGED <<source, remote, fetched, reader, warmer, warm, lock, dropping, dropped,
                   admin, lastWarm, raced, missed, losses, requests>>

\* PubSubListenerController.refreshCacheKey: refreshLocal reads Redis
RefreshCacheKey(p) ==
    /\ inbox[p] # <<>>
    /\ Head(inbox[p]) = "refreshCacheKey"
    /\ Len(fetched[p]) < MaxInbox
    /\ inbox' = [inbox EXCEPT ![p] = Tail(@)]
    /\ fetched' = [fetched EXCEPT ![p] = Append(@, remote)]
    /\ UNCHANGED <<source, remote, local, reader, warmer, warm, lock, dropping, dropped,
                   admin, lastWarm, raced, missed, losses, requests>>

\* ... and stores what it has read; answers come in the order of the questions.
RefreshLocal(p) ==
    /\ fetched[p] # <<>>
    /\ local' = [local EXCEPT ![p] = Head(fetched[p])]
    /\ fetched' = [fetched EXCEPT ![p] = Tail(@)]
    /\ NoEmit
    /\ UNCHANGED <<source, remote, reader, warmer, warm, lock, dropping, dropped, admin,
                   lastWarm, raced, requests>>

----------------------------------------------------------------------------
\* Environment: the data the key is computed from changes.
SourceChanges ==
    /\ source < MaxVersion
    /\ source' = source + 1
    /\ NoEmit
    /\ UNCHANGED <<remote, local, fetched, reader, warmer, warm, lock, dropping, dropped,
                   admin, lastWarm, raced, requests>>

\* A copy reaches its TTL.
ExpireRemote ==
    /\ remote # None
    /\ remote' = None
    /\ NoEmit
    /\ UNCHANGED <<source, local, fetched, reader, warmer, warm, lock, dropping, dropped,
                   admin, lastWarm, raced, requests>>

ExpireLocal(p) ==
    /\ local[p] # None
    /\ local' = [local EXCEPT ![p] = None]
    /\ NoEmit
    /\ UNCHANGED <<source, remote, fetched, reader, warmer, warm, lock, dropping, dropped,
                   admin, lastWarm, raced, requests>>

GetOrSet(p) ==
    \/ ReadLocal(p) \/ ReadRemote(p) \/ Compute(p) \/ ComputeFails(p)
    \/ SetRemote(p) \/ SetLocal(p)

WarmStep(r) == WarmFails(r) \/ WarmSet(r) \/ WarmEmit(r) \/ WarmSetRemote(r)

Listen(p) == DeleteCacheKey(p) \/ RefreshCacheKey(p) \/ RefreshLocal(p)

Next ==
    \/ \E p \in Readers : GetOrSet(p)
    \/ \E r \in WarmRuns : WarmRead(r) \/ WarmStep(r)
    \/ DropKey \/ DropEmit
    \/ \E p \in Procs : Listen(p) \/ ExpireLocal(p) \/ AdminDeleteRemote(p) \/ AdminEmit(p)
    \/ \E p \in Procs, v \in Versions : AdminSetRemote(p, v)
    \/ \E p \in Procs, v \in Values : AdminLocal(p, v)
    \/ SourceChanges \/ ExpireRemote

Spec == Init /\ [][Next]_vars

(***************************************************************************)
(* Fairness: an await returns, a message that arrives is handled, a TTL    *)
(* runs out.  Nobody has to make requests, and no broadcast has to arrive. *)
(***************************************************************************)
Fairness ==
    /\ \A p \in Readers :
        WF_vars(reader[p].pc # "idle" /\ GetOrSet(p))
    /\ \A r \in WarmRuns : WF_vars(WarmStep(r))
    /\ \A p \in Procs : WF_vars(Listen(p)) /\ WF_vars(ExpireLocal(p)) /\ WF_vars(AdminEmit(p))
    /\ WF_vars(DropKey \/ DropEmit)
    /\ WF_vars(ExpireRemote)

FairSpec == Spec /\ Fairness

----------------------------------------------------------------------------
CallType(pcs) == [pc : pcs, value : Values]

\* Types: every copy of the key, in Redis, in memory or on its way, is a version
\* of the source or nothing.
TypeOK ==
    /\ source \in Versions
    /\ remote \in Values
    /\ local \in [Procs -> Values]
    /\ inbox \in [Procs -> Seq({"deleteCacheKeys", "refreshCacheKey"})]
    /\ fetched \in [Procs -> Seq(Values)]
    /\ reader \in [Readers -> CallType({"idle", "remote", "compute", "setRemote", "setLocal"})]
    /\ warmer \in Warmers
    /\ warm \in [WarmRuns -> CallType({"idle", "set", "emit"})]
    /\ lock \in WarmRuns \cup {NoRun}
    /\ dropping \in BOOLEAN
    /\ dropped \in Versions
    /\ admin \in SUBSET Procs
    /\ lastWarm \in Values
    /\ raced \in BOOLEAN
    /\ missed \in SUBSET Procs
    /\ losses \in Nat
    /\ requests \in Nat
    /\ losses + requests <= MaxTroubles

(***************************************************************************)
(* The deletion of a key reaches every copy: if no older value was in      *)
(* flight when the transaction processor deleted it, then neither Redis    *)
(* nor a process that missed no broadcast and has none to handle holds a   *)
(* value from before the transaction.                                      *)
(***************************************************************************)
NoSilentStaleness ==
    ~raced =>
        /\ NotOlder(remote, dropped)
        /\ \A p \in Procs \ missed :
              dropping \/ "deleteCacheKeys" \in Range(inbox[p]) \/ NotOlder(local[p], dropped)

(***************************************************************************)
(* A job with @Lock never replaces what it has set by something older,     *)
(* even if it takes longer than the period of its cron.  (The job of the   *)
(* verified accounts, which has no lock, may.)                             *)
(***************************************************************************)
WarmsForward ==
    [][warmer # "unlocked" => lastWarm' >= lastWarm]_lastWarm

(***************************************************************************)
(* Once the source stays as it is, every copy in every process is current  *)
(* or gone sooner or later and from then on, whatever was lost, raced or   *)
(* set by an admin.                                                        *)
(***************************************************************************)
Converges ==
    <>[](NotOlder(remote, source) /\ \A p \in Procs : NotOlder(local[p], source))
=============================================================================
