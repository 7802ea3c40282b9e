----------------------------- MODULE NftWorker -----------------------------
(***************************************************************************)
(* The processing of one NFT with attributes and one media file.  Events   *)
(* of the chain, cron jobs and requests send messages to a RabbitMQ queue; *)
(* queue workers fetch the NFT's metadata and media properties, upload the *)
(* asset and generate the thumbnail.  A message that fails is rejected to  *)
(* the dead letter exchange, comes back with its x-death count raised, and *)
(* is dropped once that count reaches RETRY_LIMIT.                         *)
(*                                                                         *)
(* Each of the four sections does its work under executeOptimistic, which  *)
(* skips the work if a key in Redis says that it is being done, and keeps  *)
(* the key if the work throws.                                             *)
(*                                                                         *)
(* A step is the code from one await to the next.  Metadata is the version *)
(* of the attributes it was fetched for, or says how fetching it failed.   *)
(* The media file is of an accepted type and size.  The caches in front of *)
(* the database are the subject of CacheSync.                              *)
(***************************************************************************)
EXTENDS Integers

CONSTANTS
    Jobs,          \* messages the workers handle at the same time
    Messages,      \* messages there may be at the same time
    NoMessage,
    Requests,      \* the settings a request to process the NFT may have
    MaxRetries,    \* RETRY_LIMIT
    MaxVersion,    \* bound: versions of the attributes
    MaxCrashes     \* bound: restarts of the workers

(***************************************************************************)
(* What is stored when there is no version: None is no document; Empty is  *)
(* a document with nothing in it or, for metadata, one with an error the   *)
(* cron jobs ask again about (not_found, timeout); Kept is metadata with   *)
(* an error they leave alone (unknown_error, ipfs_error,                   *)
(* invalid_content_type, json_parse_error, empty_metadata).                *)
(***************************************************************************)
None == -1
Empty == 0
Kept == -2

Flags == {"forceRefreshMetadata", "forceRefreshMedia", "forceRefreshThumbnail",
          "skipRefreshThumbnail", "uploadAsset"}

ASSUME NftWorkerAssumption ==
    /\ NoMessage \notin Messages
    /\ Requests \subseteq SUBSET Flags
    /\ MaxRetries \in Nat \ {0}
    /\ MaxVersion \in Nat \ {0}
    /\ MaxCrashes \in Nat

Sections == {"metadata", "media", "asset", "thumbnail"}

VARIABLES
    chain,      \* the version of the NFT's attributes
    index,      \* the version the index knows
    metadata,   \* MongoDB nft_metadata: None, Empty, Kept or a version
    media,      \* MongoDB nft_media: None, Empty or 1 for the media item
    asset,      \* the asset is on S3
    thumb,      \* the thumbnail is on S3
    pending,    \* the sections whose pending key is in Redis
    message,    \* the messages in the queue
    job,        \* onNftCreated calls
    healthy,    \* IPFS, S3 and the media files answer, and well, from now on
    crashes

vars == <<chain, index, metadata, media, asset, thumb, pending, message, job, healthy, crashes>>

Free == [state |-> "free", attempt |-> 0, settings |-> {}, event |-> 0]
Off == [step |-> "off", section |-> "metadata", message |-> NoMessage,
        attributes |-> 0, result |-> None, found |-> FALSE, media |-> None, skipped |-> FALSE]

Init ==
    /\ chain = 1
    /\ index = 1
    /\ metadata = None
    /\ media = None
    /\ asset = FALSE
    /\ thumb = FALSE
    /\ pending = {}
    /\ message = [m \in Messages |-> Free]
    /\ job = [j \in Jobs |-> Off]
    /\ healthy = FALSE
    /\ crashes = 0

----------------------------------------------------------------------------
\* needsProcessing
NeedsProcessing(settings) ==
    \/ settings \cap {"forceRefreshMedia", "forceRefreshMetadata", "forceRefreshThumbnail"} # {}
    \/ media = None
    \/ metadata = None
    \/ "skipRefreshThumbnail" \notin settings /\ media = 1 /\ ~thumb
    \/ "uploadAsset" \in settings /\ media = 1 /\ ~asset

\* addProcessNftQueueJob; event is the version of the attributes the event brought.
Send(settings, event) ==
    /\ NeedsProcessing(settings)
    /\ \E m \in Messages :
        /\ message[m] = Free
        /\ message' = [message EXCEPT ![m] =
                         [state |-> "queued", attempt |-> 0, settings |-> settings, event |-> event]]

Stored == <<metadata, media, asset, thumb, pending>>

\* handleNftCreateEvent, the NFT cron jobs' uploads and the requests.
Request(settings) ==
    /\ Send(settings, 0)
    /\ UNCHANGED <<chain, index, Stored, job, healthy, crashes>>

\* handleNftUpdateAttributesEvent, for an NFT that is not dynamic.
UpdateAttributes ==
    /\ chain < MaxVersion
    /\ chain' = chain + 1
    /\ Send({"forceRefreshMetadata"}, chain')
    /\ UNCHANGED <<index, Stored, job, healthy, crashes>>

\* Mutant: {} and the errors are taken for metadata.
NeedsMetadataRefresh_NoneOnly == metadata = None

\* needsMetadataRefresh: no metadata, {}, not_found or timeout.
NeedsMetadataRefresh == metadata \in {None, Empty}

\* needsMediaRefresh
NeedsMediaRefresh == media \in {None, Empty}

\* triggerProcessFailedMetadata and the hourly job, for an NFT minted recently.
CronMetadata ==
    /\ NeedsMetadataRefresh
    /\ Send({"forceRefreshMetadata"}, 0)
    /\ UNCHANGED <<chain, index, Stored, job, healthy, crashes>>

CronMedia ==
    /\ NeedsMediaRefresh
    /\ Send({"forceRefreshMedia"}, 0)
    /\ UNCHANGED <<chain, index, Stored, job, healthy, crashes>>

----------------------------------------------------------------------------
Settings(j) == message[job[j].message].settings

\* Mutant: one attempt too many.
Exhausted_OffByOne(m) == message[m].attempt > MaxRetries

\* getAttempt says that the message has been rejected often enough.
Exhausted(m) == message[m].attempt >= MaxRetries

\* Mutant: the message is rejected, not acknowledged.
Drop_Rejects(m) ==
    /\ message[m].state = "queued"
    /\ Exhausted(m)
    /\ message' = [message EXCEPT ![m].state = "dead"]
    /\ UNCHANGED <<chain, index, Stored, job, healthy, crashes>>

\* onNftCreated drops the message
Drop(m) ==
    /\ message[m].state = "queued"
    /\ Exhausted(m)
    /\ message' = [message EXCEPT ![m] = Free]
    /\ UNCHANGED <<chain, index, Stored, job, healthy, crashes>>

\* ... or starts.
Take(j, m) ==
    /\ job[j] = Off
    /\ message[m].state = "queued"
    /\ ~Exhausted(m)
    /\ message' = [message EXCEPT ![m].state = "taken"]
    /\ job' = [job EXCEPT ![j] = [Off EXCEPT !.step = "nft", !.message = m]]
    /\ UNCHANGED <<chain, index, Stored, healthy, crashes>>

\* channel.reject: the job ends with an error.
Reject(j) ==
    /\ message' = [message EXCEPT ![job[j].message].state = "dead",
                                  ![job[j].message].attempt = @ + 1]
    /\ job' = [job EXCEPT ![j] = Off]

\* getSingleNft
GetNft(j) ==
    /\ job[j].step = "nft"
    /\ job' = [job EXCEPT ![j].step = "enter", ![j].attributes = index]
    /\ UNCHANGED <<chain, index, Stored, message, healthy, crashes>>

NftNotFound(j) ==
    /\ job[j].step = "nft"
    /\ ~healthy
    /\ Reject(j)
    /\ UNCHANGED <<chain, index, Stored, healthy, crashes>>

Following(section) ==
    CASE section = "metadata" -> "media"
      [] section = "media" -> "asset"
      [] section = "asset" -> "thumbnail"

\* Job record k goes on with the next section; after the last one it is done.
GoOn(k) ==
    IF k.section = "thumbnail"
    THEN [k EXCEPT !.step = "done", !.result = None]
    ELSE [k EXCEPT !.step = "enter", !.section = Following(k.section), !.result = None, !.found = FALSE]

\* The job has something to do in its section.
Wanted(j) ==
    CASE job[j].section = "metadata" -> metadata = None \/ "forceRefreshMetadata" \in Settings(j)
      [] job[j].section = "media" -> media = None \/ "forceRefreshMedia" \in Settings(j)
      [] job[j].section = "asset" -> job[j].media = 1 /\ "uploadAsset" \in Settings(j) /\ ~asset
      [] job[j].section = "thumbnail" -> job[j].media = 1 /\ "skipRefreshThumbnail" \notin Settings(j)

\* getMetadata, getMedia, isAssetUploaded: enter the section, or leave it out.
Enter(j) ==
    LET k == IF job[j].section = "media" THEN [job[j] EXCEPT !.media = media] ELSE job[j]
    IN  /\ job[j].step = "enter"
        /\ job' = [job EXCEPT ![j] = IF Wanted(j) THEN [k EXCEPT !.step = "check"] ELSE GoOn(k)]
        /\ UNCHANGED <<chain, index, Stored, message, healthy, crashes>>

----------------------------------------------------------------------------
\* executeOptimistic: look at the key
Check(j) ==
    /\ job[j].step = "check"
    /\ job' = [job EXCEPT ![j] =
                 IF job[j].section \in pending
                 THEN [job[j] EXCEPT !.step = "use", !.result = Empty, !.skipped = job[j].section = "thumbnail"]
                 ELSE [job[j] EXCEPT !.step = "mark"]]
    /\ UNCHANGED <<chain, index, Stored, message, healthy, crashes>>

\* ... set it
Mark(j) ==
    /\ job[j].step = "mark"
    /\ pending' = pending \cup {job[j].section}
    /\ job' = [job EXCEPT ![j].step = "act"]
    /\ UNCHANGED <<chain, index, metadata, media, asset, thumb, message, healthy, crashes>>

\* What the action of a section yields when all goes well.
Yield(j) == IF job[j].section = "metadata" THEN job[j].attributes ELSE 1

\* ... do the work
Act(j) ==
    /\ job[j].step = "act"
    /\ job' = [job EXCEPT ![j].step = "unmark", ![j].result = Yield(j)]
    /\ UNCHANGED <<chain, index, Stored, message, healthy, crashes>>

\* Fetching metadata never throws: it yields nothing or an error.
MetadataFails(j) ==
    /\ job[j].step = "act"
    /\ job[j].section = "metadata"
    /\ ~healthy
    /\ \E error \in {Empty, Kept} :
        job' = [job EXCEPT ![j].step = "unmark", ![j].result = error]
    /\ UNCHANGED <<chain, index, Stored, message, healthy, crashes>>

\* A media file may have no properties.
ActEmpty(j) ==
    /\ job[j].step = "act"
    /\ job[j].section = "media"
    /\ ~healthy
    /\ job' = [job EXCEPT ![j].step = "unmark", ![j].result = Empty]
    /\ UNCHANGED <<chain, index, Stored, message, healthy, crashes>>

(***************************************************************************)
(* The request for the file throws: the key stays.  getMediaRaw and        *)
(* uploadAsset catch the error, generateThumbnail does not.                *)
(***************************************************************************)
ActThrows(j) ==
    /\ job[j].step = "act"
    /\ job[j].section # "metadata"
    /\ ~healthy
    /\ IF job[j].section = "thumbnail"
       THEN Reject(j)
       ELSE /\ job' = [job EXCEPT ![j].step = "use", ![j].result = Empty]
            /\ UNCHANGED message
    /\ UNCHANGED <<chain, index, Stored, healthy, crashes>>

\* ... delete the key.
Unmark(j) ==
    /\ job[j].step = "unmark"
    /\ pending' = pending \ {job[j].section}
    /\ job' = [job EXCEPT ![j].step = "use"]
    /\ UNCHANGED <<chain, index, metadata, media, asset, thumb, message, healthy, crashes>>

----------------------------------------------------------------------------
\* setMetadata, setMedia: look for the document
Find(j) ==
    /\ job[j].step = "use"
    /\ job[j].section \in {"metadata", "media"}
    /\ job' = [job EXCEPT ![j].step = "save",
                          ![j].found = IF job[j].section = "metadata" THEN metadata # None ELSE media # None]
    /\ UNCHANGED <<chain, index, Stored, message, healthy, crashes>>

\* What is stored: an insert that finds the document there by now is swallowed.
Saved(j, old) == IF ~job[j].found /\ old # None THEN old ELSE job[j].result

\* ... and save it; the job goes on with what it has fetched.
Save(j) ==
    LET isMedia == job[j].section = "media"
    IN  /\ job[j].step = "save"
        /\ metadata' = IF isMedia THEN metadata ELSE Saved(j, metadata)
        /\ media' = IF isMedia THEN Saved(j, media) ELSE media
        /\ job' = [job EXCEPT ![j] =
                     GoOn([job[j] EXCEPT !.media = IF isMedia THEN job[j].result ELSE @])]
        /\ UNCHANGED <<chain, index, asset, thumb, pending, message, healthy, crashes>>

\* uploadAsset puts the file on S3, unless there is none; an error there is caught.
UploadAsset(j) ==
    /\ job[j].step = "use"
    /\ job[j].section = "asset"
    /\ asset' = (asset \/ job[j].result = 1)
    /\ job' = [job EXCEPT ![j] = GoOn(job[j])]
    /\ UNCHANGED <<chain, index, metadata, media, thumb, pending, message, healthy, crashes>>

UploadAssetFails(j) ==
    /\ job[j].step = "use"
    /\ job[j].section = "asset"
    /\ ~healthy
    /\ job' = [job EXCEPT ![j] = GoOn(job[j])]
    /\ UNCHANGED <<chain, index, Stored, message, healthy, crashes>>

\* generateThumbnail: pendingUploadAsset if it was skipped, else success.
MakeThumbnail(j) ==
    /\ job[j].step = "use"
    /\ job[j].section = "thumbnail"
    /\ thumb' = (thumb \/ job[j].result = 1)
    /\ job' = [job EXCEPT ![j] = GoOn(job[j])]
    /\ UNCHANGED <<chain, index, metadata, media, asset, pending, message, healthy, crashes>>

\* Mutant: couldNotExtractThumbnail is logged and forgotten.
ThumbnailFails_Swallowed(j) ==
    /\ job[j].step = "use"
    /\ job[j].section = "thumbnail"
    /\ job[j].result = 1
    /\ ~healthy
    /\ job' = [job EXCEPT ![j] = GoOn(job[j])]
    /\ UNCHANGED <<chain, index, Stored, message, healthy, crashes>>

\* Whether there is a thumbnail cannot be found out, or it cannot be extracted or stored.
ThumbnailFails(j) ==
    /\ job[j].step = "use"
    /\ job[j].section = "thumbnail"
    /\ job[j].result = 1
    /\ ~healthy
    /\ Reject(j)
    /\ UNCHANGED <<chain, index, Stored, healthy, crashes>>

\* channel.ack
Ack(j) ==
    /\ job[j].step = "done"
    /\ message' = [message EXCEPT ![job[j].message] = Free]
    /\ job' = [job EXCEPT ![j] = Off]
    /\ UNCHANGED <<chain, index, Stored, healthy, crashes>>

----------------------------------------------------------------------------
\* RabbitMQ: a dead letter comes back to the queue.
Retry(m) ==
    /\ message[m].state = "dead"
    /\ message' = [message EXCEPT ![m].state = "queued"]
    /\ UNCHANGED <<chain, index, Stored, job, healthy, crashes>>

\* Environment: the index catches up, a key reaches its TTL, the world heals.
IndexCatchesUp ==
    /\ index < chain
    /\ index' = chain
    /\ UNCHANGED <<chain, Stored, message, job, healthy, crashes>>

ExpirePending(section) ==
    /\ section \in pending
    /\ pending' = pending \ {section}
    /\ UNCHANGED <<chain, index, metadata, media, asset, thumb, message, job, healthy, crashes>>

Heal ==
    /\ ~healthy
    /\ healthy' = TRUE
    /\ UNCHANGED <<chain, index, Stored, message, job, crashes>>

\* The workers restart: RabbitMQ delivers what was not acknowledged again.
Crash ==
    /\ crashes < MaxCrashes
    /\ \E j \in Jobs : job[j] # Off
    /\ crashes' = crashes + 1
    /\ message' = [m \in Messages |->
                     IF message[m].state = "taken" THEN [message[m] EXCEPT !.state = "queued"] ELSE message[m]]
    /\ job' = [j \in Jobs |-> Off]
    /\ UNCHANGED <<chain, index, Stored, healthy>>

JobStep(j) ==
    \/ GetNft(j) \/ NftNotFound(j) \/ Enter(j)
    \/ Check(j) \/ Mark(j) \/ Act(j) \/ MetadataFails(j) \/ ActEmpty(j)
    \/ ActThrows(j) \/ Unmark(j)
    \/ Find(j) \/ Save(j) \/ UploadAsset(j) \/ UploadAssetFails(j)
    \/ MakeThumbnail(j) \/ ThumbnailFails(j) \/ Ack(j)

Next ==
    \/ \E r \in Requests : Request(r)
    \/ UpdateAttributes \/ CronMetadata \/ CronMedia
    \/ \E m \in Messages : Drop(m) \/ Retry(m) \/ \E j \in Jobs : Take(j, m)
    \/ \E j \in Jobs : JobStep(j)
    \/ \E s \in Sections : ExpirePending(s)
    \/ IndexCatchesUp \/ Heal \/ Crash

Spec == Init /\ [][Next]_vars

(***************************************************************************)
(* Fairness: a worker takes what is in the queue and every await returns;  *)
(* the dead letter exchange gives messages back; keys expire; the cron     *)
(* jobs fire while the NFT is recent.  That the world heals is not         *)
(* assumed.                                                                *)
(***************************************************************************)
Fairness ==
    /\ \A j \in Jobs : WF_vars(JobStep(j))
    /\ \A m \in Messages :
          WF_vars(Drop(m)) /\ WF_vars(Retry(m)) /\ SF_vars(\E j \in Jobs : Take(j, m))
    /\ \A s \in Sections : WF_vars(ExpirePending(s))
    /\ SF_vars(CronMetadata)

FairSpec == Spec /\ Fairness

----------------------------------------------------------------------------
MessageType ==
    [state : {"free", "queued", "taken", "dead"}, attempt : 0..MaxRetries,
     settings : SUBSET Flags, event : 0..MaxVersion]

JobType ==
    [step : {"off", "nft", "enter", "check", "mark", "act", "unmark", "use", "save", "done"},
     section : Sections, message : Messages \cup {NoMessage}, attributes : 0..MaxVersion,
     result : -2..MaxVersion, found : BOOLEAN, media : -1..1, skipped : BOOLEAN]

(***************************************************************************)
(* Types; in particular a message is never rejected more often than        *)
(* RETRY_LIMIT, crashes and redeliveries included.                         *)
(***************************************************************************)
TypeOK ==
    /\ chain \in 1..MaxVersion
    /\ index \in 1..MaxVersion
    /\ metadata \in -2..MaxVersion
    /\ media \in -1..1
    /\ asset \in BOOLEAN
    /\ thumb \in BOOLEAN
    /\ pending \in SUBSET Sections
    /\ message \in [Messages -> MessageType]
    /\ job \in [Jobs -> JobType]
    /\ healthy \in BOOLEAN
    /\ crashes \in 0..MaxCrashes

(***************************************************************************)
(* An acknowledged message has its thumbnail: when a job is acknowledged   *)
(* that had a media item and was not told to leave the thumbnail out, the  *)
(* thumbnail is on S3, unless the pending key of another job (or one that  *)
(* was left behind) made it skip the work.                                 *)
(***************************************************************************)
AckedHasThumbnail ==
    [][\A j \in Jobs :
          /\ Ack(j)
          /\ job[j].media = 1
          /\ "skipRefreshThumbnail" \notin Settings(j)
          /\ ~job[j].skipped
          => thumb]_vars

(***************************************************************************)
(* No message stays for ever: whatever fails and however often it is       *)
(* rejected and tried again, it is acknowledged or dropped.                *)
(***************************************************************************)
Settled == \A m \in Messages : message[m].state # "free" ~> message[m].state = "free"

(***************************************************************************)
(* Once the world is healthy, a recent NFT gets its metadata, even if {},  *)
(* not_found or timeout was stored for it or a crash left the pending key  *)
(* behind.  Only an error the cron jobs leave alone may stay.              *)
(***************************************************************************)
MetadataHeals == healthy ~> (metadata >= 1 \/ metadata = Kept)
=============================================================================
