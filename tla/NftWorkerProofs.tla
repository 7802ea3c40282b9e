-------------------------- MODULE NftWorkerProofs --------------------------
(***************************************************************************)
(* The NFT worker, for any number of jobs, messages, retries, versions and *)
(* restarts.                                                               *)
(*                                                                         *)
(* That an acknowledged job has its thumbnail is not inductive: the        *)
(* settings it was asked to respect are those of a message in the queue,   *)
(* which must still be the message the job took, and its result is decided *)
(* several steps before the thumbnail is stored.  Inv adds that a message  *)
(* is held by one job, that a held message was not rejected RETRY_LIMIT    *)
(* times before, and what a job has fetched where it is.                   *)
(***************************************************************************)
EXTENDS NftWorker, TLAPS

\* The job record k has what it needs where it is.
JobOK(k) ==
    /\ k.section # "metadata" => k.result \in -1..1
    /\ k.step = "save" => k.section \in {"metadata", "media"}
    /\ k.step \in {"unmark", "use"} /\ k.section = "thumbnail" => k.result = 1 \/ k.skipped = TRUE

\* A job works on a message that was given to it, and that had an attempt left.
Holds ==
    \A j \in Jobs : job[j].step # "off" =>
        /\ job[j].message \in Messages
        /\ message[job[j].message].state = "taken"
        /\ message[job[j].message].attempt < MaxRetries

\* No two jobs work on the same message.
Alone ==
    \A i, j \in Jobs :
        job[i].step # "off" /\ job[j].step # "off" /\ job[i].message = job[j].message => i = j

\* Job record k, with these settings, has left the thumbnail to nobody.
Owes(k, settings) ==
    k.step = "done" /\ k.media = 1 /\ "skipRefreshThumbnail" \notin settings /\ k.skipped = FALSE

Paid == \A j \in Jobs : Owes(job[j], Settings(j)) => thumb = TRUE

Inv == TypeOK /\ (\A j \in Jobs : JobOK(job[j])) /\ Holds /\ Alone /\ Paid


----------------------------------------------------------------------------
\* The job record Off and the message record Free are of their types, and hold nothing.
LEMMA OffAndFree ==
    /\ Off \in JobType
    /\ JobOK(Off)
    /\ Off.step = "off" /\ Off.section = "metadata"
    /\ Free \in MessageType
  BY NftWorkerAssumption DEF Off, Free, JobType, MessageType, JobOK, Sections, None, Flags

\* GoOn leaves the section: what it changes, and what it keeps of the job record.
LEMMA GoOnOK ==
    ASSUME NEW k \in JobType
    PROVE  /\ GoOn(k) \in JobType
           /\ GoOn(k).step = IF k.section = "thumbnail" THEN "done" ELSE "enter"
           /\ GoOn(k).message = k.message
           /\ GoOn(k).media = k.media
           /\ GoOn(k).skipped = k.skipped
           /\ GoOn(k).result = None
           /\ JobOK(GoOn(k))
<1>0. k.section \in Sections
  BY DEF JobType
<1>1. None \in -2..MaxVersion /\ None \in -1..1
  BY NftWorkerAssumption DEF None
<1>2. CASE k.section = "thumbnail"
  BY <1>1, <1>2 DEF GoOn, JobType, JobOK
<1>3. CASE k.section # "thumbnail"
  <2>1. Following(k.section) \in Sections
    <3>1. CASE k.section = "metadata" BY <3>1 DEF Following, Sections
    <3>2. CASE k.section = "media" BY <3>2 DEF Following, Sections
    <3>3. CASE k.section = "asset" BY <3>3 DEF Following, Sections
    <3> QED BY <1>0, <1>3, <3>1, <3>2, <3>3 DEF Sections
  <2> DEFINE f == Following(k.section)
  <2>2. GoOn(k) = [k EXCEPT !.step = "enter", !.section = f, !.result = None, !.found = FALSE]
    BY <1>3 DEF GoOn
  <2>3. f \in Sections
    BY <2>1
  <2> HIDE DEF f
  <2> DEFINE g == GoOn(k)
  <2>4. g = [k EXCEPT !.step = "enter", !.section = f, !.result = None, !.found = FALSE]
    BY <2>2
  <2> HIDE DEF g
  <2>5. g \in JobType
    BY <1>1, <2>3, <2>4 DEF JobType
  <2>6. /\ g.step = "enter" /\ g.section = f /\ g.result = None /\ g.found = FALSE
    BY <2>4 DEF JobType
  <2>7. g.message = k.message /\ g.media = k.media /\ g.skipped = k.skipped
    BY <2>4 DEF JobType
  <2>8. JobOK(g)
    BY <1>1, <2>6 DEF JobOK
  <2> QED
    BY <1>3, <2>5, <2>6, <2>7, <2>8 DEF g
<1> QED BY <1>2, <1>3

\* Steps that no job takes, and that leave the messages the jobs hold alone.
LEMMA JobsStay ==
    ASSUME Inv, TypeOK', job' = job, thumb' = thumb,
           \A m \in Messages : message[m].state = "taken" => message'[m] = message[m]
    PROVE  Inv'
<1>1. \A j \in Jobs : job[j].step # "off" => message'[job[j].message] = message[job[j].message]
  BY DEF Inv, Holds
<1>2. (\A j \in Jobs : JobOK(job[j]))' /\ Alone'
  BY DEF Inv, Alone, JobOK
<1>3. Holds'
  BY <1>1 DEF Inv, Holds
<1>4. Paid'
  <2> SUFFICES ASSUME NEW j \in Jobs, Owes(job'[j], Settings(j)') PROVE thumb' = TRUE
    BY DEF Paid
  <2>1. job[j].step # "off"
    BY DEF Owes
  <2>2. Settings(j)' = Settings(j)
    BY <1>1, <2>1 DEF Settings
  <2> QED BY <2>2 DEF Inv, Paid
<1> QED BY <1>2, <1>3, <1>4 DEF Inv

\* Steps that end a job: its message is no longer held, the others are as they were.
LEMMA JobEnds ==
    ASSUME Inv, TypeOK', NEW j \in Jobs, job[j].step # "off",
           job' = [job EXCEPT ![j] = Off], thumb' = thumb,
           \A m \in Messages \ {job[j].message} : message'[m] = message[m]
    PROVE  Inv'
<1>1. job'[j] = Off /\ \A i \in Jobs \ {j} : job'[i] = job[i]
  BY DEF Inv, TypeOK
<1>2. \A i \in Jobs \ {j} : job[i].step # "off" => message'[job[i].message] = message[job[i].message]
  BY DEF Inv, Holds, Alone
<1>3. (\A i \in Jobs : JobOK(job[i]))'
  <2> SUFFICES ASSUME NEW i \in Jobs PROVE JobOK(job'[i])
    BY DEF JobOK
  <2> QED BY <1>1, OffAndFree DEF Inv
<1>4. Holds'
  BY <1>1, <1>2, OffAndFree DEF Inv, Holds
<1>5. Alone'
  BY <1>1, OffAndFree DEF Inv, Alone
<1>6. Paid'
  <2> SUFFICES ASSUME NEW i \in Jobs, Owes(job'[i], Settings(i)') PROVE thumb' = TRUE
    BY DEF Paid
  <2>1. job'[i].step # "off"
    BY DEF Owes
  <2>2. i # j /\ job'[i] = job[i]
    BY <1>1, <2>1, OffAndFree
  <2>3. Settings(i)' = Settings(i)
    BY <1>2, <2>1, <2>2 DEF Settings
  <2> QED BY <2>2, <2>3 DEF Inv, Paid
<1> QED BY <1>3, <1>4, <1>5, <1>6 DEF Inv

\* Steps that move a job to k: it keeps its message, and owes no thumbnail.
LEMMA JobMoves ==
    ASSUME Inv, TypeOK', NEW j \in Jobs, NEW k \in JobType, job[j].step # "off",
           job' = [job EXCEPT ![j] = k], k.step # "off", k.message = job[j].message,
           JobOK(k), message' = message, thumb = TRUE => thumb' = TRUE,
           Owes(k, Settings(j)) => thumb' = TRUE
    PROVE  Inv'
<1>1. job'[j] = k /\ \A i \in Jobs \ {j} : job'[i] = job[i]
  BY DEF Inv, TypeOK
<1>2. \A i \in Jobs : job'[i].message = job[i].message /\ (job'[i].step # "off" => job[i].step # "off")
  BY <1>1
<1>3. (\A i \in Jobs : JobOK(job[i]))'
  <2> SUFFICES ASSUME NEW i \in Jobs PROVE JobOK(job'[i])
    BY DEF JobOK
  <2> QED BY <1>1 DEF Inv
<1>4. Holds'
  BY <1>2 DEF Inv, Holds
<1>5. Alone'
  BY <1>2 DEF Inv, Alone
<1>6. Paid'
  <2> SUFFICES ASSUME NEW i \in Jobs, Owes(job'[i], Settings(i)') PROVE thumb' = TRUE
    BY DEF Paid
  <2>1. Settings(i)' = Settings(i)
    BY <1>2 DEF Settings
  <2> QED BY <1>1, <2>1 DEF Inv, Paid
<1> QED BY <1>3, <1>4, <1>5, <1>6 DEF Inv


----------------------------------------------------------------------------
\* A message that is sent takes the place of none that is held.
LEMMA SendOK ==
    ASSUME Inv, NEW s \in SUBSET Flags, NEW e \in 0..MaxVersion, Send(s, e)
    PROVE  /\ message' \in [Messages -> MessageType]
           /\ \A m \in Messages : message[m].state = "taken" => message'[m] = message[m]
<1> DEFINE new == [state |-> "queued", attempt |-> 0, settings |-> s, event |-> e]
<1>1. PICK n \in Messages : message[n] = Free /\ message' = [message EXCEPT ![n] = new]
  BY DEF Send
<1>2. new \in MessageType
  BY NftWorkerAssumption DEF MessageType
<1>3. message[n].state = "free"
  BY <1>1 DEF Free
<1> HIDE DEF new
<1> QED BY <1>1, <1>2, <1>3 DEF Inv, TypeOK

\* Requests, events and cron jobs preserve the invariant.
LEMMA SendersOK ==
    ASSUME Inv, (\E r \in Requests : Request(r)) \/ UpdateAttributes \/ CronMetadata \/ CronMedia
    PROVE  Inv'
<1>0. 0 \in 0..MaxVersion
  BY NftWorkerAssumption
<1>1. CASE \E r \in Requests : Request(r)
  <2>1. PICK r \in Requests : Request(r)
    BY <1>1
  <2>2. r \in SUBSET Flags
    BY NftWorkerAssumption
  <2>3. Send(r, 0)
    BY <2>1 DEF Request
  <2>4. message' \in [Messages -> MessageType]
        /\ \A m \in Messages : message[m].state = "taken" => message'[m] = message[m]
    BY <1>0, <2>2, <2>3, SendOK
  <2>5. TypeOK' /\ job' = job /\ thumb' = thumb
    BY <2>1, <2>4 DEF Request, Stored, Inv, TypeOK
  <2> QED BY <2>4, <2>5, JobsStay
<1>2. CASE UpdateAttributes
  <2>1. chain' \in 1..MaxVersion
    BY <1>2, NftWorkerAssumption DEF UpdateAttributes, Inv, TypeOK
  <2> PICK c \in 1..MaxVersion : c = chain'
    BY <2>1
  <2>2. Send({"forceRefreshMetadata"}, c)
    BY <1>2 DEF UpdateAttributes
  <2>3. message' \in [Messages -> MessageType]
        /\ \A m \in Messages : message[m].state = "taken" => message'[m] = message[m]
    <3>1. c \in 0..MaxVersion /\ {"forceRefreshMetadata"} \in SUBSET Flags
      BY NftWorkerAssumption DEF Flags
    <3> QED BY <2>2, <3>1, SendOK
  <2>4. TypeOK' /\ job' = job /\ thumb' = thumb
    BY <1>2, <2>1, <2>3 DEF UpdateAttributes, Stored, Inv, TypeOK
  <2> QED BY <2>3, <2>4, JobsStay
<1>3. CASE CronMetadata \/ CronMedia
  <2>1. PICK s \in SUBSET Flags : Send(s, 0)
    BY <1>3 DEF CronMetadata, CronMedia, Flags
  <2>2. message' \in [Messages -> MessageType]
        /\ \A m \in Messages : message[m].state = "taken" => message'[m] = message[m]
    BY <1>0, <2>1, SendOK
  <2>3. TypeOK' /\ job' = job /\ thumb' = thumb
    BY <1>3, <2>2 DEF CronMetadata, CronMedia, Stored, Inv, TypeOK
  <2> QED BY <2>2, <2>3, JobsStay
<1> QED BY <1>1, <1>2, <1>3

\* What the queue and the environment do preserves the invariant.
LEMMA QueueOK ==
    ASSUME Inv, NEW m \in Messages, Drop(m) \/ Retry(m)
    PROVE  Inv'
<1> PICK new \in MessageType : message' = [message EXCEPT ![m] = new]
  <2>1. CASE Drop(m) BY <2>1, OffAndFree DEF Drop
  <2>2. CASE Retry(m)
    <3> DEFINE n == [message[m] EXCEPT !.state = "queued"]
    <3>1. message' = [message EXCEPT ![m] = n]
      BY <2>2 DEF Retry
    <3>2. n \in MessageType
      BY DEF MessageType, Inv, TypeOK
    <3> QED BY <3>1, <3>2
  <2> QED BY <2>1, <2>2
<1>1. message' \in [Messages -> MessageType]
  BY DEF Inv, TypeOK
<1>2. message[m].state # "taken"
  BY DEF Drop, Retry
<1>3. \A n \in Messages : message[n].state = "taken" => message'[n] = message[n]
  BY <1>2 DEF Inv, TypeOK
<1>4. TypeOK' /\ job' = job /\ thumb' = thumb
  BY <1>1 DEF Drop, Retry, Stored, Inv, TypeOK
<1> QED BY <1>3, <1>4, JobsStay

\* The index catches up, the services heal, a pending mark expires: no job moves.
LEMMA EnvironmentOK ==
    ASSUME Inv, IndexCatchesUp \/ Heal \/ \E s \in Sections : ExpirePending(s)
    PROVE  Inv'
<1>1. message' = message /\ job' = job /\ thumb' = thumb
  BY DEF IndexCatchesUp, Heal, ExpirePending, Stored
<1>2. TypeOK'
  <2>1. CASE IndexCatchesUp BY <2>1 DEF IndexCatchesUp, Stored, Inv, TypeOK
  <2>2. CASE Heal BY <2>2 DEF Heal, Stored, Inv, TypeOK
  <2>3. CASE \E s \in Sections : ExpirePending(s) BY <2>3 DEF ExpirePending, Inv, TypeOK
  <2> QED BY <2>1, <2>2, <2>3
<1> QED BY <1>1, <1>2, JobsStay

\* A restart gives every held message back to the queue.
LEMMA CrashOK ==
    ASSUME Inv, Crash
    PROVE  Inv'
<1>1. \A j \in Jobs : job'[j] = Off
  BY DEF Crash
<1>2. message' \in [Messages -> MessageType]
  <2> SUFFICES ASSUME NEW m \in Messages
               PROVE  (IF message[m].state = "taken" THEN [message[m] EXCEPT !.state = "queued"]
                       ELSE message[m]) \in MessageType
    BY DEF Crash
  <2>1. message[m] \in MessageType
    BY DEF Inv, TypeOK
  <2> QED BY <2>1 DEF MessageType
<1>3. job' \in [Jobs -> JobType]
  BY OffAndFree DEF Crash
<1>4. crashes' \in 0..MaxCrashes
  BY NftWorkerAssumption DEF Crash, Inv, TypeOK
<1>5. TypeOK'
  BY <1>2, <1>3, <1>4 DEF Crash, Stored, Inv, TypeOK
<1>6. (\A j \in Jobs : JobOK(job[j]))'
  <2> SUFFICES ASSUME NEW j \in Jobs PROVE JobOK(job'[j])
    BY DEF JobOK
  <2> QED BY <1>1, OffAndFree
<1>7. Holds' /\ Alone' /\ Paid'
  BY <1>1, OffAndFree DEF Holds, Alone, Paid, Owes
<1> QED BY <1>5, <1>6, <1>7 DEF Inv

\* A job takes a message that no job holds and that has an attempt left.
LEMMA TakeOK ==
    ASSUME Inv, NEW j \in Jobs, NEW m \in Messages, Take(j, m)
    PROVE  Inv'
<1> DEFINE k == [Off EXCEPT !.step = "nft", !.message = m]
           n == [message[m] EXCEPT !.state = "taken"]
<1>1. k \in JobType /\ JobOK(k) /\ k.step = "nft" /\ k.message = m
  BY OffAndFree DEF JobType, JobOK
<1>2. message[m] \in MessageType /\ message[m].state = "queued" /\ message[m].attempt < MaxRetries
  BY NftWorkerAssumption DEF Inv, TypeOK, Take, Exhausted, MessageType
<1>3. n \in MessageType /\ n.state = "taken" /\ n.attempt < MaxRetries
  BY <1>2 DEF MessageType
<1>4. job' = [job EXCEPT ![j] = k] /\ message' = [message EXCEPT ![m] = n] /\ thumb' = thumb
  BY DEF Take, Stored
<1>5. job[j].step = "off"
  BY OffAndFree DEF Take
<1> HIDE DEF k, n
<1>6. TypeOK'
  BY <1>1, <1>3, <1>4 DEF Take, Stored, Inv, TypeOK
<1>7. job'[j] = k /\ \A i \in Jobs \ {j} : job'[i] = job[i]
  BY <1>4 DEF Inv, TypeOK
<1>8. message'[m] = n /\ \A l \in Messages \ {m} : message'[l] = message[l]
  BY <1>4 DEF Inv, TypeOK
<1>9. \A i \in Jobs \ {j} : job[i].step # "off" =>
         job[i].message # m /\ message'[job[i].message] = message[job[i].message]
  BY <1>2, <1>8 DEF Inv, Holds
<1>10. (\A i \in Jobs : JobOK(job[i]))'
  <2> SUFFICES ASSUME NEW i \in Jobs PROVE JobOK(job'[i])
    BY DEF JobOK
  <2> QED BY <1>1, <1>7 DEF Inv
<1>11. Holds'
  BY <1>1, <1>3, <1>7, <1>8, <1>9 DEF Inv, Holds
<1>12. Alone'
  BY <1>1, <1>7, <1>9 DEF Inv, Alone
<1>13. Paid'
  <2> SUFFICES ASSUME NEW i \in Jobs, Owes(job'[i], Settings(i)') PROVE thumb' = TRUE
    BY DEF Paid
  <2>1. job'[i].step = "done"
    BY DEF Owes
  <2>2. i # j /\ job'[i] = job[i]
    BY <1>1, <1>7, <2>1
  <2>3. Settings(i)' = Settings(i)
    BY <1>9, <2>1, <2>2 DEF Settings
  <2> QED BY <1>4, <2>2, <2>3 DEF Inv, Paid
<1> QED BY <1>6, <1>10, <1>11, <1>12, <1>13 DEF Inv


----------------------------------------------------------------------------
\* A job that is rejected leaves its message with one attempt more, at most RETRY_LIMIT.
LEMMA RejectOK ==
    ASSUME Inv, NEW j \in Jobs, job[j].step # "off", Reject(j),
           UNCHANGED <<chain, index, Stored, healthy, crashes>>
    PROVE  Inv'
<1> PICK m \in Messages : m = job[j].message
  BY DEF Inv, Holds
<1> DEFINE a == message[m].attempt + 1
           n == [message[m] EXCEPT !.state = "dead", !.attempt = a]
<1>1. message[m] \in MessageType /\ message[m].attempt < MaxRetries
  BY DEF Inv, TypeOK, Holds
<1>0. a \in 0..MaxRetries
  BY <1>1, NftWorkerAssumption DEF MessageType
<1>3. message' = [message EXCEPT ![m] = n] /\ job' = [job EXCEPT ![j] = Off]
  BY DEF Reject, Inv, TypeOK
<1> HIDE DEF a
<1>2. n \in MessageType
  BY <1>1, <1>0 DEF MessageType
<1> HIDE DEF n
<1>4. TypeOK'
  BY <1>2, <1>3, OffAndFree DEF Stored, Inv, TypeOK
<1>5. \A l \in Messages \ {m} : message'[l] = message[l]
  BY <1>3 DEF Inv, TypeOK
<1> QED BY <1>3, <1>4, <1>5, JobEnds DEF Stored

\* The acknowledgement and the two errors that reject a message.
LEMMA EndsOK ==
    ASSUME Inv, NEW j \in Jobs, Ack(j) \/ NftNotFound(j) \/ ThumbnailFails(j)
    PROVE  Inv'
<1>1. CASE Ack(j)
  <2>1. job[j].step # "off" /\ job[j].message \in Messages
    BY <1>1 DEF Ack, Inv, Holds
  <2>2. TypeOK'
    BY <1>1, <2>1, OffAndFree DEF Ack, Stored, Inv, TypeOK
  <2>3. \A m \in Messages \ {job[j].message} : message'[m] = message[m]
    BY <1>1 DEF Ack, Inv, TypeOK
  <2> QED BY <1>1, <2>1, <2>2, <2>3, JobEnds DEF Ack, Stored
<1>2. CASE NftNotFound(j)
  BY <1>2, RejectOK DEF NftNotFound
<1>3. CASE ThumbnailFails(j)
  BY <1>3, RejectOK DEF ThumbnailFails
<1> QED BY <1>1, <1>2, <1>3

\* The steps that only move the job: getSingleNft, the look at the key, and the work.
LEMMA WorkOK ==
    ASSUME Inv, NEW j \in Jobs,
           GetNft(j) \/ Check(j) \/ Act(j) \/ MetadataFails(j) \/ ActEmpty(j) \/ ActThrows(j) \/ Find(j)
    PROVE  Inv'
<1>0. job[j] \in JobType /\ JobOK(job[j]) /\ index \in 0..MaxVersion
  BY DEF Inv, TypeOK
<1>3. /\ Empty \in -2..MaxVersion /\ Empty \in -1..1
      /\ Kept \in -2..MaxVersion
  BY NftWorkerAssumption DEF Empty, Kept
<1>1. CASE ActThrows(j) /\ job[j].section = "thumbnail"
  BY <1>1, RejectOK DEF ActThrows
<1>2. CASE ~(ActThrows(j) /\ job[j].section = "thumbnail")
  <2>1. PICK k \in JobType : /\ job' = [job EXCEPT ![j] = k]
                             /\ k.message = job[j].message
                             /\ k.step \notin {"off", "done"}
                             /\ JobOK(k)
    <3>1. CASE GetNft(j)
      <4> DEFINE k == [job[j] EXCEPT !.step = "enter", !.attributes = index]
      <4>1. job' = [job EXCEPT ![j] = k]
        BY <3>1 DEF GetNft, Inv, TypeOK
      <4>2. /\ k \in JobType /\ k.message = job[j].message /\ k.step = "enter" /\ k.section = job[j].section
           /\ k.result = job[j].result /\ k.skipped = job[j].skipped
        BY <1>0 DEF JobType
      <4>3. JobOK(k)
        BY <1>0, <1>3, <4>1, <4>2 DEF JobOK
      <4> QED BY <4>1, <4>2, <4>3
    <3>2. CASE Check(j) /\ job[j].section \in pending
      <4> DEFINE s == job[j].section = "thumbnail"
                 k == [job[j] EXCEPT !.step = "use", !.result = Empty, !.skipped = s]
      <4>1. job' = [job EXCEPT ![j] = k]
        BY <3>2 DEF Check
      <4>b. s \in BOOLEAN /\ (job[j].section = "thumbnail" => s = TRUE)
        OBVIOUS
      <4> HIDE DEF s
      <4>2. /\ k \in JobType /\ k.message = job[j].message /\ k.step = "use" /\ k.section = job[j].section
           /\ k.result = Empty /\ k.skipped = s
        BY <1>0, <1>3, <4>b DEF JobType
      <4>3. JobOK(k)
        BY <1>0, <1>3, <4>b, <4>2 DEF JobOK
      <4> QED BY <4>1, <4>2, <4>3
    <3>3. CASE Check(j) /\ job[j].section \notin pending
      <4> DEFINE k == [job[j] EXCEPT !.step = "mark"]
      <4>1. job' = [job EXCEPT ![j] = k]
        BY <3>3 DEF Check
      <4>2. /\ k \in JobType /\ k.message = job[j].message /\ k.step = "mark" /\ k.section = job[j].section
           /\ k.result = job[j].result /\ k.skipped = job[j].skipped
        BY <1>0 DEF JobType
      <4>3. JobOK(k)
        BY <1>0, <1>3, <4>1, <4>2 DEF JobOK
      <4> QED BY <4>1, <4>2, <4>3
    <3>4. CASE Act(j)
      <4> DEFINE y == Yield(j)
                 k == [job[j] EXCEPT !.step = "unmark", !.result = y]
      <4>1. job' = [job EXCEPT ![j] = k]
        BY <3>4 DEF Act, Inv, TypeOK
      <4>2. y \in -2..MaxVersion /\ (job[j].section # "metadata" => y = 1)
        BY <1>0, NftWorkerAssumption DEF Yield, JobType
      <4> HIDE DEF y
      <4>3. /\ k \in JobType /\ k.message = job[j].message /\ k.step = "unmark" /\ k.section = job[j].section
           /\ k.result = y /\ k.skipped = job[j].skipped
        BY <1>0, <4>2 DEF JobType
      <4>4. JobOK(k)
        BY <1>0, <4>1, <4>2, <4>3 DEF JobOK
      <4> QED BY <4>1, <4>3, <4>4
    <3>5. CASE ActEmpty(j)
      <4> DEFINE k == [job[j] EXCEPT !.step = "unmark", !.result = Empty]
      <4>1. job' = [job EXCEPT ![j] = k] /\ job[j].section = "media"
        BY <3>5 DEF ActEmpty, Inv, TypeOK
      <4>2. /\ k \in JobType /\ k.message = job[j].message /\ k.step = "unmark" /\ k.section = job[j].section
           /\ k.result = Empty /\ k.skipped = job[j].skipped
        BY <1>0, <1>3, <4>1 DEF JobType
      <4>3. JobOK(k)
        BY <1>0, <1>3, <4>1, <4>2 DEF JobOK
      <4> QED BY <4>1, <4>2, <4>3
    <3>6. CASE ActThrows(j)
      <4> DEFINE k == [job[j] EXCEPT !.step = "use", !.result = Empty]
      <4>1. job' = [job EXCEPT ![j] = k] /\ job[j].section # "thumbnail"
        BY <1>2, <3>6 DEF ActThrows, Inv, TypeOK
      <4>2. /\ k \in JobType /\ k.message = job[j].message /\ k.step = "use" /\ k.section = job[j].section
           /\ k.result = Empty /\ k.skipped = job[j].skipped
        BY <1>0, <1>3, <4>1 DEF JobType
      <4>3. JobOK(k)
        BY <1>0, <1>3, <4>1, <4>2 DEF JobOK
      <4> QED BY <4>1, <4>2, <4>3
    <3>7. CASE Find(j)
      <4> DEFINE f == IF job[j].section = "metadata" THEN metadata # None ELSE media # None
                 k == [job[j] EXCEPT !.step = "save", !.found = f]
      <4>1. job' = [job EXCEPT ![j] = k] /\ job[j].section \in {"metadata", "media"}
        BY <3>7 DEF Find, Inv, TypeOK
      <4>2. f \in BOOLEAN
        OBVIOUS
      <4> HIDE DEF f
      <4>3. /\ k \in JobType /\ k.message = job[j].message /\ k.step = "save" /\ k.section = job[j].section
           /\ k.result = job[j].result /\ k.skipped = job[j].skipped
        BY <1>0, <4>1, <4>2 DEF JobType
      <4>4. JobOK(k)
        BY <1>0, <4>1, <4>2, <4>3 DEF JobOK
      <4> QED BY <4>1, <4>3, <4>4
    <3>8. CASE MetadataFails(j)
      <4>1. PICK e \in {Empty, Kept} : job' = [job EXCEPT ![j].step = "unmark", ![j].result = e]
        BY <3>8 DEF MetadataFails
      <4> DEFINE k == [job[j] EXCEPT !.step = "unmark", !.result = e]
      <4>2. job' = [job EXCEPT ![j] = k] /\ job[j].section = "metadata"
        BY <3>8, <4>1 DEF MetadataFails, Inv, TypeOK
      <4>3. /\ k \in JobType /\ k.message = job[j].message /\ k.step = "unmark" /\ k.section = job[j].section
           /\ k.result = e /\ k.skipped = job[j].skipped
        BY <1>0, <1>3, <4>1, <4>2 DEF JobType
      <4>4. JobOK(k)
        BY <1>0, <4>2, <4>3 DEF JobOK
      <4> QED BY <4>2, <4>3, <4>4
    <3> QED BY <3>1, <3>2, <3>3, <3>4, <3>5, <3>6, <3>7, <3>8
  <2>2. /\ job[j].step # "off" /\ message' = message
        /\ UNCHANGED <<chain, index, metadata, media, asset, thumb, pending, healthy, crashes>>
    BY <1>2 DEF GetNft, Check, Act, MetadataFails, ActEmpty, ActThrows, Find, Stored
  <2>3. TypeOK'
    BY <2>1, <2>2 DEF Inv, TypeOK
  <2>4. ~Owes(k, Settings(j))
    BY <2>1 DEF Owes
  <2> QED BY <2>1, <2>2, <2>3, <2>4, JobMoves
<1> QED BY <1>1, <1>2


\* The two steps that set and delete the pending key.
LEMMA KeyOK ==
    ASSUME Inv, NEW j \in Jobs, Mark(j) \/ Unmark(j)
    PROVE  Inv'
<1>1. job[j] \in JobType /\ JobOK(job[j]) /\ job[j].step \in {"mark", "unmark"}
  BY DEF Inv, TypeOK, Mark, Unmark
<1>2. PICK s \in {"act", "use"} : /\ job' = [job EXCEPT ![j].step = s]
                                  /\ s = "use" => job[j].step = "unmark"
  BY DEF Mark, Unmark
<1> DEFINE k == [job[j] EXCEPT !.step = s]
<1>3. /\ k \in JobType /\ k.message = job[j].message /\ k.step = s
      /\ k.section = job[j].section /\ k.result = job[j].result /\ k.skipped = job[j].skipped
  BY <1>1 DEF JobType
<1>4. JobOK(k)
  BY <1>1, <1>2, <1>3 DEF JobOK
<1>5. job' = [job EXCEPT ![j] = k]
  BY <1>2 DEF Inv, TypeOK
<1> HIDE DEF k
<1>6. TypeOK'
  <2>1. job' \in [Jobs -> JobType]
    BY <1>3, <1>5 DEF Inv, TypeOK
  <2>2. pending' \in SUBSET Sections
    BY <1>1 DEF Mark, Unmark, Inv, TypeOK, JobType
  <2> QED BY <2>1, <2>2 DEF Mark, Unmark, Inv, TypeOK
<1>7. ~Owes(k, Settings(j))
  BY <1>3 DEF Owes
<1>8. message' = message /\ thumb' = thumb
  BY DEF Mark, Unmark
<1> QED BY <1>1, <1>3, <1>4, <1>5, <1>6, <1>7, <1>8, JobMoves

\* The step into a section: a job with nothing to do there owes no thumbnail either.
LEMMA EnterOK ==
    ASSUME Inv, NEW j \in Jobs, Enter(j)
    PROVE  Inv'
<1> DEFINE l == IF job[j].section = "media" THEN [job[j] EXCEPT !.media = media] ELSE job[j]
           c == [l EXCEPT !.step = "check"]
           k == IF Wanted(j) THEN c ELSE GoOn(l)
<1>1. /\ job[j] \in JobType /\ JobOK(job[j]) /\ job[j].step = "enter"
      /\ job' = [job EXCEPT ![j] = k] /\ message' = message /\ thumb' = thumb
  BY DEF Enter, Inv, TypeOK, Stored
<1>2. /\ l \in JobType /\ l.message = job[j].message /\ l.section = job[j].section
      /\ l.result = job[j].result /\ l.skipped = job[j].skipped
      /\ job[j].section # "media" => l.media = job[j].media
  BY <1>1 DEF JobType, Inv, TypeOK
<1> HIDE DEF l
<1>3. /\ c \in JobType /\ c.message = l.message /\ c.section = l.section
      /\ c.result = l.result /\ c.step = "check"
  BY <1>2 DEF JobType
<1>4. JobOK(c)
  BY <1>1, <1>2, <1>3 DEF JobOK
<1>5. CASE Wanted(j)
  <2>1. k = c
    BY <1>5
  <2>2. ~Owes(c, Settings(j))
    BY <1>3 DEF Owes
  <2> HIDE DEF c, k
  <2>3. TypeOK'
    BY <1>1, <1>3, <2>1 DEF Enter, Stored, Inv, TypeOK
  <2> QED BY <1>1, <1>2, <1>3, <1>4, <2>1, <2>2, <2>3, JobMoves
<1>6. CASE ~Wanted(j)
  <2>1. k = GoOn(l)
    BY <1>6
  <2> DEFINE g == GoOn(l)
  <2>2. /\ g \in JobType /\ g.message = l.message /\ JobOK(g) /\ g.media = l.media
        /\ g.step = IF l.section = "thumbnail" THEN "done" ELSE "enter"
    BY <1>2, GoOnOK
  <2>3. ~Owes(g, Settings(j))
    <3>1. CASE job[j].section = "thumbnail"
      <4>1. ~(job[j].media = 1 /\ "skipRefreshThumbnail" \notin Settings(j))
        BY <1>6, <3>1 DEF Wanted
      <4> QED BY <1>2, <2>2, <3>1, <4>1 DEF Owes
    <3>2. CASE job[j].section # "thumbnail"
      BY <1>2, <2>2, <3>2 DEF Owes
    <3> QED BY <3>1, <3>2
  <2>4. k = g
    BY <2>1
  <2> HIDE DEF g, k, c
  <2>5. TypeOK'
    BY <1>1, <2>2, <2>4 DEF Enter, Stored, Inv, TypeOK
  <2>6. g.step # "off"
    BY <2>2
  <2> QED BY <1>1, <1>2, <2>2, <2>3, <2>4, <2>5, <2>6, JobMoves
<1> QED BY <1>5, <1>6

\* The step that stores metadata or media.
LEMMA SaveOK ==
    ASSUME Inv, NEW j \in Jobs, Save(j)
    PROVE  Inv'
<1> DEFINE r == IF job[j].section = "media" THEN job[j].result ELSE job[j].media
           l == [job[j] EXCEPT !.media = r]
           g == GoOn(l)
<1>1. /\ job[j] \in JobType /\ job[j].step = "save" /\ job[j].section \in {"metadata", "media"}
      /\ job[j].section = "media" => job[j].result \in -1..1
  BY DEF Save, Inv, TypeOK, JobOK
<1>2. job' = [job EXCEPT ![j] = g] /\ message' = message /\ thumb' = thumb
  BY <1>1 DEF Save, JobType
<1>3. r \in -1..1
  BY <1>1 DEF JobType
<1> HIDE DEF r
<1>4. l \in JobType /\ l.message = job[j].message /\ l.section = job[j].section
  BY <1>1, <1>3 DEF JobType
<1> HIDE DEF l
<1>5. g \in JobType /\ g.message = l.message /\ JobOK(g) /\ g.step = "enter"
  BY <1>1, <1>4, GoOnOK
<1> HIDE DEF g
<1>6. TypeOK'
  <2>1. Saved(j, metadata) \in -2..MaxVersion
    BY <1>1 DEF Saved, Inv, TypeOK, JobType
  <2>2. job[j].section = "media" => Saved(j, media) \in -1..1
    BY <1>1 DEF Saved, Inv, TypeOK
  <2> HIDE DEF Saved
  <2>3. metadata' \in -2..MaxVersion /\ media' \in -1..1
    BY <2>1, <2>2 DEF Save, Inv, TypeOK
  <2>4. job' \in [Jobs -> JobType]
    BY <1>2, <1>5 DEF Inv, TypeOK
  <2> QED BY <2>3, <2>4 DEF Save, Inv, TypeOK
<1>7. ~Owes(g, Settings(j))
  BY <1>5 DEF Owes
<1>8. job[j].step # "off" /\ g.step # "off" /\ g.message = job[j].message
  BY <1>1, <1>4, <1>5
<1> QED BY <1>2, <1>5, <1>6, <1>7, <1>8, JobMoves

\* The steps that store the asset and the thumbnail.
LEMMA UploadOK ==
    ASSUME Inv, NEW j \in Jobs, UploadAsset(j) \/ UploadAssetFails(j) \/ MakeThumbnail(j)
    PROVE  Inv'
<1> DEFINE g == GoOn(job[j])
<1>1. /\ job[j] \in JobType /\ JobOK(job[j]) /\ job[j].step = "use"
      /\ job' = [job EXCEPT ![j] = g] /\ message' = message
  BY DEF UploadAsset, UploadAssetFails, MakeThumbnail, Inv, TypeOK
<1>2. /\ g \in JobType /\ g.message = job[j].message /\ JobOK(g) /\ g.skipped = job[j].skipped
      /\ g.step = IF job[j].section = "thumbnail" THEN "done" ELSE "enter"
  BY <1>1, GoOnOK
<1> HIDE DEF g
<1>3. asset' \in BOOLEAN /\ thumb' \in BOOLEAN /\ (thumb = TRUE => thumb' = TRUE)
  BY DEF UploadAsset, UploadAssetFails, MakeThumbnail, Stored, Inv, TypeOK
<1>4. job' \in [Jobs -> JobType]
  BY <1>1, <1>2 DEF Inv, TypeOK
<1>5. TypeOK'
  BY <1>3, <1>4 DEF UploadAsset, UploadAssetFails, MakeThumbnail, Stored, Inv, TypeOK
<1>6. Owes(g, Settings(j)) => thumb' = TRUE
  <2> HAVE Owes(g, Settings(j))
  <2>1. job[j].section = "thumbnail" /\ job[j].skipped = FALSE
    BY <1>2 DEF Owes
  <2>2. job[j].result = 1
    BY <1>1, <2>1 DEF JobOK
  <2>3. thumb' = (thumb \/ job[j].result = 1)
    BY <2>1 DEF UploadAsset, UploadAssetFails, MakeThumbnail
  <2> QED BY <2>2, <2>3
<1>7. job[j].step # "off" /\ g.step # "off"
  BY <1>1, <1>2
<1> QED BY <1>1, <1>2, <1>3, <1>5, <1>6, <1>7, JobMoves

----------------------------------------------------------------------------
\* Inv is an inductive invariant of the worker.
LEMMA Invariance == Spec => []Inv
<1>1. Init => Inv
  <2> SUFFICES ASSUME Init PROVE Inv
    OBVIOUS
  <2>1. \A j \in Jobs : job[j] = Off
    BY DEF Init
  <2>2. TypeOK
    <3>1. /\ chain \in 1..MaxVersion /\ index \in 1..MaxVersion /\ metadata \in -2..MaxVersion
          /\ media \in -1..1 /\ crashes \in 0..MaxCrashes
      BY NftWorkerAssumption DEF Init, None
    <3>2. job \in [Jobs -> JobType] /\ message \in [Messages -> MessageType]
      BY OffAndFree DEF Init
    <3> QED BY <3>1, <3>2 DEF Init, TypeOK
  <2>3. (\A j \in Jobs : JobOK(job[j])) /\ Holds /\ Alone /\ Paid
    BY <2>1, OffAndFree DEF Holds, Alone, Paid, Owes
  <2> QED BY <2>2, <2>3 DEF Inv
<1>2. Inv /\ [Next]_vars => Inv'
  <2> SUFFICES ASSUME Inv, [Next]_vars PROVE Inv'
    OBVIOUS
  <2>1. CASE (\E r \in Requests : Request(r)) \/ UpdateAttributes \/ CronMetadata \/ CronMedia
    BY <2>1, SendersOK
  <2>2. CASE \E m \in Messages : Drop(m) \/ Retry(m)
    BY <2>2, QueueOK
  <2>3. CASE \E m \in Messages, j \in Jobs : Take(j, m)
    BY <2>3, TakeOK
  <2>4. CASE \E j \in Jobs : JobStep(j)
    <3> PICK j \in Jobs : JobStep(j)
      BY <2>4
    <3> QED BY EndsOK, WorkOK, KeyOK, EnterOK, SaveOK, UploadOK DEF JobStep
  <2>5. CASE IndexCatchesUp \/ Heal \/ \E s \in Sections : ExpirePending(s)
    BY <2>5, EnvironmentOK
  <2>6. CASE Crash
    BY <2>6, CrashOK
  <2>7. CASE UNCHANGED vars
    <3>1. TypeOK' /\ job' = job /\ thumb' = thumb /\ message' = message
      BY <2>7 DEF vars, Inv, TypeOK
    <3> QED BY <3>1, JobsStay
  <2> QED BY <2>1, <2>2, <2>3, <2>4, <2>5, <2>6, <2>7 DEF Next
<1> QED BY <1>1, <1>2, PTL DEF Spec

(***************************************************************************)
(* The types, and with them the bound on retries: however often workers    *)
(* crash and messages come back, none is rejected more than RETRY_LIMIT    *)
(* times.                                                                  *)
(***************************************************************************)
THEOREM TypeCorrect == Spec => []TypeOK
<1>1. Inv => TypeOK
  BY DEF Inv
<1> QED BY <1>1, Invariance, PTL

(***************************************************************************)
(* A job that is acknowledged, had a media item, was not told to leave the *)
(* thumbnail out and was not skipped by a pending key has left the         *)
(* thumbnail on S3, whatever the other jobs did meanwhile.                 *)
(***************************************************************************)
THEOREM AckedAlwaysHasThumbnail == Spec => AckedHasThumbnail
<1>1. Inv /\ [Next]_vars => [\A j \in Jobs :
                               /\ Ack(j)
                               /\ job[j].media = 1
                               /\ "skipRefreshThumbnail" \notin Settings(j)
                               /\ ~job[j].skipped
                               => thumb]_vars
  <2> SUFFICES ASSUME Inv, NEW j \in Jobs, Ack(j), job[j].media = 1,
                      "skipRefreshThumbnail" \notin Settings(j), ~job[j].skipped
               PROVE  thumb
    OBVIOUS
  <2>1. job[j].skipped = FALSE
    BY DEF Inv, TypeOK, JobType
  <2>2. Owes(job[j], Settings(j))
    BY <2>1 DEF Owes, Ack
  <2> QED BY <2>2 DEF Inv, Paid
<1> QED BY <1>1, Invariance, PTL DEF Spec, AckedHasThumbnail
=============================================================================
