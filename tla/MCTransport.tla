------------------------------ MODULE MCTransport ------------------------------
(* Small instances, for TLC, of the parts that share no state: the cache,  *)
(* a download, an upload, the admission of idempotency keys and the load   *)
(* campaign. A behaviour runs one of them, and leaves the others where     *)
(* they began.                                                             *)
EXTENDS HttpCache, Download, Upload, Admission, Campaign, TLC

VARIABLE part

(* The cache: an answer that must not be stored, one with no cache control *)
(* and one to revalidate; two bodies, limits reached with two of them, and *)
(* for the first key a condition of the caller's own.                      *)
CONSTANTS k1, k2
Answered(etag, directives, age) ==
  [etag |-> etag, control |-> [directives |-> directives, maxAge |-> age]]
SomeHeaders ==
  {Answered(FALSE, {"no-store"}, NoAge), [etag |-> TRUE, control |-> NoControl],
   Answered(TRUE, {"no-cache"}, 0)}
TwoLimits == {[entries |-> 2, bytes |-> 3], [entries |-> 1, bytes |-> 2]}
TwoBodies == 1 :> 1 @@ 2 :> 2
OneOwn    == k1 :> 2 @@ k2 :> NoCondition

(* Downloads: one that resumes, over a file or not; two that meet on one   *)
(* destination.                                                            *)
Plan(overwrite, resume, maxBytes, expected, attempts) ==
  [overwrite |-> overwrite, resume |-> resume, maxBytes |-> maxBytes,
   expected |-> expected, attempts |-> attempts]
FourWorkloads ==
  {<<Plan(TRUE, TRUE, 3, Anything, 2)>>, <<Plan(FALSE, TRUE, 3, 2, 2)>>,
   <<Plan(FALSE, FALSE, 2, Anything, 1), Plan(TRUE, FALSE, 2, Anything, 1)>>,
   <<Plan(FALSE, FALSE, 2, Anything, 1), Plan(FALSE, FALSE, 2, Anything, 1)>>}
TwoLengths == <<2, 2>>

(* Gets, calls, keys and workers are numbers, and the first free one is    *)
(* taken: one is as good as another.                                       *)
NextGet(g)     == \A q \in 1..(g - 1) : gets[q] # Free
NextWorker(w)  == \A q \in 1..(w - 1) : work[q] # NoTicket
NextCall(c)    == \A b \in 1..(c - 1) : calls[b].pc # "new"
NextKey(k)     == \A i \in 1..(k - 1) : \E c \in Calls : calls[c].pc # "new" /\ calls[c].key = i

CacheTurn == part = "cache" /\ UNCHANGED <<part, downloadVars, uploadVars, admissionVars, campaignVars>>
DownloadTurn == part = "download" /\ UNCHANGED <<part, cacheVars, uploadVars, admissionVars, campaignVars>>
UploadTurn == part = "upload" /\ UNCHANGED <<part, cacheVars, downloadVars, admissionVars, campaignVars>>
AdmissionTurn == part = "admission" /\ UNCHANGED <<part, cacheVars, downloadVars, uploadVars, campaignVars>>
CampaignTurn == part = "campaign" /\ UNCHANGED <<part, cacheVars, downloadVars, uploadVars, admissionVars>>

One(S) == CHOOSE x \in S : TRUE

TransportInit ==
  /\ part \in {"cache", "download", "upload", "admission", "campaign"}
  /\ CacheInit /\ DownloadInit /\ UploadInit /\ AdmissionInit /\ CampaignInit
  /\ part # "cache" => limits = One(CacheLimits)
  /\ part # "download" =>
       destination = NoFile /\ Len(downloads) = 1 /\ downloads[1].target.overwrite
  /\ part # "upload" => source = <<>>
  /\ part # "admission" => keyLimit = One(KeyLimits)

CacheStep ==
  \/ \E g \in Gets, k \in CacheKeys, wish \in FreshFor : CacheTurn /\ NextGet(g) /\ Hit(g, k, wish)
  \/ \E g \in Gets, k \in CacheKeys, wish \in FreshFor : CacheTurn /\ NextGet(g) /\ Ask(g, k, wish)
  \/ \E g \in Gets : CacheTurn /\ Answer(g)
  \/ \E g \in Gets : CacheTurn /\ ReceiveNotModified(g)
  \/ \E g \in Gets : CacheTurn /\ ReceiveFetched(g)
  \/ \E g \in Gets : CacheTurn /\ Store(g)
  \/ \E g \in Gets : CacheTurn /\ DropGet(g)
  \/ \E k \in CacheKeys : CacheTurn /\ ChangeResource(k)
  \/ CacheTurn /\ CacheTick

DownloadStep ==
  \/ \E d \in Downloads : DownloadTurn /\ CheckDestination(d)
  \/ \E d \in Downloads : DownloadTurn /\ CreateStaging(d)
  \/ \E d \in Downloads : DownloadTurn /\ SendFails(d)
  \/ \E d \in Downloads : DownloadTurn /\ Receive(d)
  \/ \E d \in Downloads : DownloadTurn /\ RefuseReply(d)
  \/ \E d \in Downloads : DownloadTurn /\ AcceptRange(d)
  \/ \E d \in Downloads : DownloadTurn /\ AcceptWhole(d)
  \/ \E d \in Downloads : DownloadTurn /\ WriteBlock(d)
  \/ \E d \in Downloads : DownloadTurn /\ CutBody(d)
  \/ \E d \in Downloads : DownloadTurn /\ WriteFails(d)
  \/ \E d \in Downloads : DownloadTurn /\ EndBody(d)
  \/ \E d \in Downloads : DownloadTurn /\ Sync(d)
  \/ \E d \in Downloads : DownloadTurn /\ Link(d)
  \/ \E d \in Downloads : DownloadTurn /\ Unlink(d)
  \/ \E d \in Downloads : DownloadTurn /\ Rename(d)
  \/ \E d \in Downloads : DownloadTurn /\ RemoveDestination(d)
  \/ \E d \in Downloads : DownloadTurn /\ RenameAgain(d)
  \/ \E d \in Downloads : DownloadTurn /\ Discard(d)
  \/ \E d \in Downloads : DownloadTurn /\ DropDownload(d)
  \/ \E d \in Downloads : DownloadTurn /\ RemoveLate(d)
  \/ DownloadTurn /\ ChangeContent

UploadStep ==
  \/ UploadTurn /\ Measure
  \/ UploadTurn /\ HashBlock
  \/ UploadTurn /\ HashEnds
  \/ UploadTurn /\ RehashEnds
  \/ UploadTurn /\ SendBlock
  \/ UploadTurn /\ Accepted
  \/ UploadTurn /\ AttemptFails
  \/ UploadTurn /\ FileFails
  \/ UploadTurn /\ WriteSource

AdmissionStep ==
  \/ \E c \in Calls, key \in IdempotencyKeys \cup {NoKey}, print \in Prints :
       AdmissionTurn /\ NextCall(c) /\ NextKey(key) /\ Enter(c, key, print)
  \/ \E c \in Calls : AdmissionTurn /\ RefuseEarly(c)
  \/ \E c \in Calls : AdmissionTurn /\ AdmitNew(c)
  \/ \E c \in Calls : AdmissionTurn /\ AdmitKnown(c)
  \/ \E c \in Calls : AdmissionTurn /\ RefuseKey(c)
  \/ AdmissionTurn /\ CloseEngine

CampaignStep ==
  \/ CampaignTurn /\ StartFunctional
  \/ CampaignTurn /\ StartLoad
  \/ CampaignTurn /\ TickLoad
  \/ CampaignTurn /\ EndLoad
  \/ CampaignTurn /\ Drained
  \/ CampaignTurn /\ DrainTimesOut
  \/ CampaignTurn /\ Report
  \/ \E w \in Workers : CampaignTurn /\ NextWorker(w) /\ Take(w)
  \/ \E w \in Workers : CampaignTurn /\ NextWorker(w) /\ Leave(w)
  \/ \E t \in Tickets : CampaignTurn /\ OperationEnds(t)
  \/ \E t \in Tickets : CampaignTurn /\ Watchdog(t)
  \/ \E t \in Tickets : CampaignTurn /\ LooseEnds(t)
  \/ \E t \in Tickets : CampaignTurn /\ SendOne(t)
  \/ \E t \in Tickets : CampaignTurn /\ Arrive(t)
  \/ \E t \in Tickets : CampaignTurn /\ Release(t)
  \/ \E t \in Tickets : CampaignTurn /\ ReplyArrives(t)
  \/ \E t \in Tickets : CampaignTurn /\ ClientDrops(t)

TransportNext ==
  \/ CacheStep
  \/ DownloadStep
  \/ UploadStep
  \/ AdmissionStep
  \/ CampaignStep

TransportSpec ==
  TransportInit /\ [][TransportNext]_<<part, cacheVars, downloadVars, uploadVars, admissionVars, campaignVars>>
=============================================================================
