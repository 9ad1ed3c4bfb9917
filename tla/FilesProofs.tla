------------------------------- MODULE FilesProofs -------------------------------
(***************************************************************************)
(* Theorems about the two modules that handle files.                       *)
(*                                                                         *)
(* Download, for any number of downloads, of attempts and of changes of    *)
(* the resource: one invariant says of each place in the code whether the  *)
(* download has published, whether its staging file is there, and whether  *)
(* it may replace the destination (Fine). Another says what is in the      *)
(* files (Content): the part an attempt resumes is of the version of its   *)
(* ETag, the body a download reads is of the version of its file, and what *)
(* reached the publication is of one version and long enough.              *)
(*                                                                         *)
(* Upload, for files of any size and any number of writes: the stamps of a *)
(* block only grow, and each reading of the file is later than the one     *)
(* before. So the digest, the body and the last digest are ordered block   *)
(* by block (ReadInOrder), and when the two digests are equal the body     *)
(* between them is equal to both.                                          *)
(***************************************************************************)
EXTENDS Download, Upload, TLAPS

-----------------------------------------------------------------------------
(* Downloads                                                               *)

Fields == {"pc", "target", "state", "attempt", "reply", "published", "error"}

\* The places before the publication, and those with a staging file.
Unpublished ==
  {"start", "create", "send", "reply", "body", "sync", "publish", "replace", "rename again"}
Staged == Unpublished \ {"start", "create"}

\* Download x, whose staging file is file, when the downloads in left may have
\* left theirs behind.
Fine(d, x, file, left) ==
  /\ DOMAIN x = Fields
  /\ x.pc \in Unpublished => x.published = NoFile
  /\ x.pc = "unlink" => x.published # NoFile
  /\ x.pc \in {"discard", "failed"} => (x.published # NoFile <=> x.error = "cleanup")
  /\ x.pc = "done" => x.published # NoFile
  /\ x.pc \in {"start", "create", "done"} => file = NoFile
  /\ x.pc \in {"failed", "dropped", "removing"} => file = NoFile \/ d \in left
  /\ x.pc \in Staged => file \in Seq(Resource)
  /\ x.pc \in {"reply", "body"} => x.reply.status = 503 \/ x.reply.version \in Resource
  /\ x.pc = "body" => x.reply.status # 503
  /\ x.pc \in {"replace", "rename again", "removing"} => x.target.overwrite

DownloadInv ==
  /\ DOMAIN staging = Downloads
  /\ resource \in Resource
  /\ \A d \in Downloads : Fine(d, downloads[d], staging[d], failedUnlink)

-----------------------------------------------------------------------------

\* No download has begun.
LEMMA DownloadStarts == DownloadInit => DownloadInv
<1> SUFFICES ASSUME DownloadInit PROVE DownloadInv
  OBVIOUS
<1>1. PICK targets \in Workloads :
       downloads = [d \in DOMAIN targets |->
         [pc |-> "start", target |-> targets[d], state |-> Fresh, attempt |-> 1,
          reply |-> NoFile, published |-> NoFile, error |-> "none"]]
  BY DEF DownloadInit
<1>2. staging = [d \in Downloads |-> NoFile] /\ resource \in Resource
  BY NoFileAssumption DEF DownloadInit
<1>3. ASSUME NEW d \in Downloads
      PROVE  Fine(d, downloads[d], staging[d], failedUnlink)
  BY <1>1, <1>2 DEF Downloads, Fine, Fields, Unpublished, Staged
<1> QED BY <1>2, <1>3 DEF DownloadInv

\* What holds of a download that has its staging file.
LEMMA StagedFacts ==
  ASSUME DownloadInv, NEW d \in Downloads, downloads[d].pc \in Staged
  PROVE  /\ DOMAIN downloads[d] = Fields /\ downloads[d].published = NoFile
         /\ staging[d] \in Seq(Resource) /\ staging[d] # NoFile
<1>1. Fine(d, downloads[d], staging[d], failedUnlink)
  BY DEF DownloadInv
<1>2. downloads[d].pc \in Unpublished
  BY DEF Staged
<1>3. DOMAIN downloads[d] = Fields /\ downloads[d].published = NoFile /\ staging[d] \in Seq(Resource)
  BY <1>1, <1>2 DEF Fine
<1> QED BY <1>3, NoFileAssumption

\* What holds of the response it has.
LEMMA ReplyFacts ==
  ASSUME DownloadInv, NEW d \in Downloads, downloads[d].pc \in {"reply", "body"}
  PROVE  /\ downloads[d].reply.status = 503 \/ downloads[d].reply.version \in Resource
         /\ downloads[d].pc = "body" => downloads[d].reply.status # 503
<1>1. Fine(d, downloads[d], staging[d], failedUnlink)
  BY DEF DownloadInv
<1> QED BY <1>1 DEF Fine

\* What is said of a download stays true when more removals have failed.
LEMMA FineForMore ==
  ASSUME NEW d, NEW x, NEW file, NEW left, NEW more, Fine(d, x, file, left),
         d \in left => d \in more
  PROVE  Fine(d, x, file, more)
BY DEF Fine

\* The invariant holds when it holds of each download.
LEMMA FineHolds ==
  ASSUME DOMAIN downloads' = Downloads, DOMAIN staging' = Downloads, resource' \in Resource,
         \A d \in Downloads : Fine(d, downloads'[d], staging'[d], failedUnlink')
  PROVE  DownloadInv'
<1>1. Downloads' = Downloads
  BY DEF Downloads
<1>2. \A d \in Downloads : Fine(d, downloads[d], staging[d], failedUnlink)'
  BY DEF Fine
<1> QED BY <1>1, <1>2 DEF DownloadInv

\* A step of one download.
LEMMA OneDownload ==
  ASSUME DownloadInv, NEW d \in Downloads,
         DOMAIN downloads' = Downloads, DOMAIN staging' = Downloads,
         \A q \in Downloads \ {d} : downloads'[q] = downloads[q] /\ staging'[q] = staging[q],
         \A q \in failedUnlink : q \in failedUnlink',
         resource' = resource,
         Fine(d, downloads'[d], staging'[d], failedUnlink')
  PROVE  DownloadInv'
<1>2. ASSUME NEW q \in Downloads \ {d}
      PROVE  Fine(q, downloads'[q], staging'[q], failedUnlink')
  <2>1. downloads'[q] = downloads[q] /\ staging'[q] = staging[q]
    OBVIOUS
  <2>2. Fine(q, downloads[q], staging[q], failedUnlink)
    BY DEF DownloadInv
  <2>3. Fine(q, downloads[q], staging[q], failedUnlink')
    BY <2>2, FineForMore
  <2> QED BY <2>1, <2>3
<1>3. \A q \in Downloads : Fine(q, downloads'[q], staging'[q], failedUnlink')
  BY <1>2
<1> QED BY <1>3, FineHolds DEF DownloadInv

\* An error before the publication: the staging file is removed next.
LEMMA AbandonStep ==
  ASSUME DownloadInv, NEW d \in Downloads, NEW error, error # "cleanup", Abandon(d, error),
         downloads[d].pc \in Unpublished, UNCHANGED <<staging, resource, failedUnlink>>
  PROVE  DownloadInv'
<1>1. DOMAIN downloads[d] = Fields /\ downloads[d].published = NoFile
  BY ZenonT(60) DEF DownloadInv, Fine
<1>2. /\ DOMAIN downloads' = Downloads
      /\ \A q \in Downloads \ {d} : downloads'[q] = downloads[q]
      /\ DOMAIN downloads'[d] = Fields /\ downloads'[d].pc = "discard"
      /\ downloads'[d].error = error /\ downloads'[d].published = NoFile
  BY <1>1 DEF Abandon, Downloads, Fields
<1>3. Fine(d, downloads'[d], staging'[d], failedUnlink')
  BY <1>2 DEF Fine, Unpublished, Staged
<1> QED BY <1>2, <1>3, OneDownload DEF DownloadInv

\* Going on to another place, with the rest of the download as it was but for
\* its state, attempt and reply.
GoesTo(d, place) ==
  /\ DOMAIN downloads' = Downloads
  /\ \A q \in Downloads \ {d} : downloads'[q] = downloads[q]
  /\ DOMAIN downloads'[d] = Fields /\ downloads'[d].pc = place
  /\ downloads'[d].target = downloads[d].target
  /\ downloads'[d].published = downloads[d].published
  /\ downloads'[d].error = downloads[d].error

\* Move only changes the place.
LEMMA MoveGoes ==
  ASSUME DownloadInv, NEW d \in Downloads, NEW place, Move(d, place)
  PROVE  GoesTo(d, place) /\ downloads'[d].reply = downloads[d].reply
<1>1. DOMAIN downloads[d] = Fields
  BY DEF DownloadInv, Fine
<1> QED BY <1>1 DEF Move, GoesTo, Downloads, Fields

\* A retry goes back to the place where the request is sent.
LEMMA RetryGoes ==
  ASSUME DownloadInv, NEW d \in Downloads, NEW state, Retry(d, state)
  PROVE  GoesTo(d, "send")
<1> DEFINE n == downloads[d].attempt + 1
<1>1. DOMAIN downloads[d] = Fields
  BY DEF DownloadInv, Fine
<1>2. downloads' = [downloads EXCEPT ![d].pc = "send", ![d].attempt = n,
                                     ![d].state = state, ![d].reply = NoFile]
  BY DEF Retry, Downloads
<1> HIDE DEF n
<1> QED BY <1>1, <1>2 DEF GoesTo, Downloads, Fields

\* A step to a place before the publication.
LEMMA StagedStep ==
  ASSUME DownloadInv, NEW d \in Downloads, NEW place \in {"send", "sync", "publish"}, GoesTo(d, place),
         downloads[d].pc \in Unpublished, UNCHANGED <<resource, failedUnlink>>,
         DOMAIN staging' = Downloads, staging'[d] \in Seq(Resource),
         \A q \in Downloads \ {d} : staging'[q] = staging[q]
  PROVE  DownloadInv'
<1>1. Fine(d, downloads'[d], staging'[d], failedUnlink')
  BY ZenonT(60) DEF DownloadInv, Fine, GoesTo, Unpublished, Staged
<1> QED BY <1>1, OneDownload DEF GoesTo

\* The publication, and the place after it.
LEMMA PublishGoes ==
  ASSUME DownloadInv, NEW d \in Downloads, NEW place,
         downloads' = [Published(d) EXCEPT ![d].pc = place]
  PROVE  /\ DOMAIN downloads' = Downloads
         /\ \A q \in Downloads \ {d} : downloads'[q] = downloads[q]
         /\ DOMAIN downloads'[d] = Fields /\ downloads'[d].pc = place
         /\ downloads'[d].published = staging[d]
<1>1. DOMAIN downloads[d] = Fields
  BY DEF DownloadInv, Fine
<1> DEFINE x == [downloads[d] EXCEPT !.published = staging[d]]
<1>2. DOMAIN x = Fields /\ x.published = staging[d]
  BY <1>1 DEF Fields
<1>3. /\ DOMAIN Published(d) = Downloads /\ Published(d)[d] = x
      /\ \A q \in Downloads \ {d} : Published(d)[q] = downloads[q]
  BY DEF Published, Downloads
<1> HIDE DEF x
<1> QED BY <1>2, <1>3 DEF Fields

\* Where the staging file becomes the destination.
LEMMA RenameStep ==
  ASSUME DownloadInv, NEW d \in Downloads, RenameNow(d), downloads[d].pc \in Staged,
         UNCHANGED <<resource, failedUnlink>>
  PROVE  DownloadInv'
<1>1. /\ DOMAIN downloads' = Downloads
      /\ \A q \in Downloads \ {d} : downloads'[q] = downloads[q]
      /\ DOMAIN downloads'[d] = Fields /\ downloads'[d].pc = "done"
      /\ downloads'[d].published = staging[d]
  BY PublishGoes DEF RenameNow
<1>2. staging[d] # NoFile
  BY StagedFacts
<1>3. /\ DOMAIN staging' = Downloads /\ staging'[d] = NoFile
      /\ \A q \in Downloads \ {d} : staging'[q] = staging[q]
  BY DEF RenameNow, DownloadInv
<1>4. Fine(d, downloads'[d], staging'[d], failedUnlink')
  BY <1>1, <1>2, <1>3 DEF Fine, Unpublished, Staged
<1> QED BY <1>1, <1>3, <1>4, OneDownload

\* The download ends at place with its staging file removed, or left behind.
Leaves(d) ==
  \/ staging' = [staging EXCEPT ![d] = NoFile] /\ failedUnlink' = failedUnlink
  \/ staging' = staging /\ failedUnlink' = failedUnlink \cup {d}

\* What the removal of a staging file changes.
LEMMA LeavesIt ==
  ASSUME DownloadInv, NEW d \in Downloads, Leaves(d)
  PROVE  /\ DOMAIN staging' = Downloads
         /\ \A q \in Downloads \ {d} : staging'[q] = staging[q]
         /\ \A q \in failedUnlink : q \in failedUnlink'
         /\ staging'[d] = NoFile \/ d \in failedUnlink'
BY DEF Leaves, DownloadInv

\* Every step keeps the invariant: one case for each action.
LEMMA DownloadStep == DownloadInv /\ [DownloadNext]_downloadVars => DownloadInv'
<1> SUFFICES ASSUME DownloadInv, [DownloadNext]_downloadVars PROVE DownloadInv'
  OBVIOUS
<1>0. /\ DOMAIN staging = Downloads /\ resource \in Resource
      /\ \A d \in Downloads : Fine(d, downloads[d], staging[d], failedUnlink)
      /\ <<>> \in Seq(Resource)
  BY DEF DownloadInv
<1>1. CASE UNCHANGED downloadVars
  <2>1. UNCHANGED <<downloads, staging, resource, failedUnlink>>
    BY <1>1 DEF downloadVars
  <2>2. \A d \in Downloads : Fine(d, downloads'[d], staging'[d], failedUnlink')
    BY <1>0, <2>1
  <2> QED BY <1>0, <2>1, <2>2, FineHolds DEF Downloads
<1>2. CASE ChangeContent
  <2>1. UNCHANGED <<downloads, staging, failedUnlink>> /\ resource' \in Resource
    BY <1>2 DEF ChangeContent
  <2>2. \A d \in Downloads : Fine(d, downloads'[d], staging'[d], failedUnlink')
    BY <1>0, <2>1
  <2> QED BY <1>0, <2>1, <2>2, FineHolds DEF Downloads
<1>3. ASSUME NEW d \in Downloads, CheckDestination(d)
      PROVE  DownloadInv'
  <2>1. UNCHANGED <<staging, resource, failedUnlink>> /\ downloads[d].pc = "start"
    BY <1>3 DEF CheckDestination, At
  <2>2. CASE Move(d, "create")
    <3>1. GoesTo(d, "create")
      BY <2>2, MoveGoes
    <3>2. Fine(d, downloads'[d], staging'[d], failedUnlink')
      BY <1>0, <2>1, <3>1 DEF Fine, GoesTo, Unpublished, Staged
    <3> QED BY <1>0, <2>1, <3>1, <3>2, OneDownload DEF GoesTo
  <2>3. CASE downloads' = [downloads EXCEPT ![d].pc = "failed", ![d].error = "exists"]
    <3>1. DOMAIN downloads[d] = Fields /\ downloads[d].published = NoFile /\ staging[d] = NoFile
      BY ZenonT(60), <1>0, <2>1 DEF Fine, Unpublished
    <3>2. /\ DOMAIN downloads' = Downloads
          /\ \A q \in Downloads \ {d} : downloads'[q] = downloads[q]
          /\ DOMAIN downloads'[d] = Fields /\ downloads'[d].pc = "failed"
          /\ downloads'[d].error = "exists" /\ downloads'[d].published = NoFile
      BY <2>3, <3>1 DEF Downloads, Fields
    <3>3. Fine(d, downloads'[d], staging'[d], failedUnlink')
      BY <2>1, <3>1, <3>2 DEF Fine, Unpublished, Staged
    <3> QED BY <1>0, <2>1, <3>2, <3>3, OneDownload
  <2> QED BY <1>3, <2>2, <2>3 DEF CheckDestination
<1>4. ASSUME NEW d \in Downloads, CreateStaging(d)
      PROVE  DownloadInv'
  <2>1. UNCHANGED <<resource, failedUnlink>> /\ downloads[d].pc = "create"
    BY <1>4 DEF CreateStaging, At
  <2>2. CASE staging' = [staging EXCEPT ![d] = <<>>] /\ Move(d, "send")
    <3>1. GoesTo(d, "send")
      BY <2>2, MoveGoes
    <3>2. /\ DOMAIN staging' = Downloads /\ staging'[d] \in Seq(Resource)
          /\ \A q \in Downloads \ {d} : staging'[q] = staging[q]
      BY <1>0, <2>2
    <3> QED BY <2>1, <3>1, <3>2, StagedStep DEF Unpublished
  <2>3. CASE downloads' = [downloads EXCEPT ![d].pc = "failed", ![d].error = "write"] /\ staging' = staging
    <3>1. DOMAIN downloads[d] = Fields /\ downloads[d].published = NoFile /\ staging[d] = NoFile
      BY ZenonT(60), <1>0, <2>1 DEF Fine, Unpublished
    <3>2. /\ DOMAIN downloads' = Downloads
          /\ \A q \in Downloads \ {d} : downloads'[q] = downloads[q]
          /\ DOMAIN downloads'[d] = Fields /\ downloads'[d].pc = "failed"
          /\ downloads'[d].error = "write" /\ downloads'[d].published = NoFile
      BY <2>3, <3>1 DEF Downloads, Fields
    <3>3. Fine(d, downloads'[d], staging'[d], failedUnlink')
      BY <2>1, <2>3, <3>1, <3>2 DEF Fine, Unpublished, Staged
    <3> QED BY <1>0, <2>1, <2>3, <3>2, <3>3, OneDownload
  <2> QED BY <1>4, <2>2, <2>3 DEF CreateStaging
<1>5. ASSUME NEW d \in Downloads, SendFails(d) \/ RefuseReply(d)
      PROVE  DownloadInv'
  <2>1. /\ UNCHANGED <<staging, resource, failedUnlink>> /\ downloads[d].pc \in {"send", "reply"}
        /\ \/ Retry(d, downloads[d].state)
           \/ \E error \in {"transport", "status", "response"} : Abandon(d, error)
    BY <1>5 DEF SendFails, RefuseReply, RetryOrEnd, At
  <2>2. CASE Retry(d, downloads[d].state)
    <3>1. staging[d] \in Seq(Resource)
      BY <2>1, StagedFacts DEF Unpublished, Staged
    <3>2. GoesTo(d, "send")
      BY <2>2, RetryGoes
    <3> QED BY <1>0, <2>1, <3>1, <3>2, StagedStep DEF Unpublished
  <2>3. CASE \E error \in {"transport", "status", "response"} : Abandon(d, error)
    <3>1. PICK error \in {"transport", "status", "response"} : Abandon(d, error)
      BY <2>3
    <3>2. downloads[d].pc \in Unpublished /\ error # "cleanup"
      BY <2>1 DEF Unpublished
    <3> QED BY <2>1, <3>1, <3>2, AbandonStep
  <2> QED BY <2>1, <2>2, <2>3
<1>6. ASSUME NEW d \in Downloads, Receive(d)
      PROVE  DownloadInv'
  <2>1. /\ UNCHANGED <<staging, resource, failedUnlink>> /\ downloads[d].pc = "send"
    BY <1>6 DEF Receive, At
  <2>2. PICK reply \in Replies :
          downloads' = [downloads EXCEPT ![d].pc = "reply", ![d].reply = reply]
    BY <1>6 DEF Receive
  <2>3. reply.status = 503 \/ reply.version = resource
    BY DEF Replies
  <2>4. /\ DOMAIN downloads[d] = Fields /\ downloads[d].published = NoFile
        /\ staging[d] \in Seq(Resource)
    BY ZenonT(60), <1>0, <2>1 DEF Fine, Unpublished, Staged
  <2>5. /\ GoesTo(d, "reply") /\ downloads'[d].reply = reply
    BY <2>2, <2>4 DEF GoesTo, Downloads, Fields
  <2>6. Fine(d, downloads'[d], staging'[d], failedUnlink')
    BY ZenonT(60), <1>0, <2>1, <2>3, <2>4, <2>5 DEF Fine, GoesTo, Unpublished, Staged
  <2> QED BY <1>0, <2>1, <2>5, <2>6, OneDownload DEF GoesTo
<1>7. ASSUME NEW d \in Downloads, AcceptRange(d)
      PROVE  DownloadInv'
  <2> DEFINE total == Length[downloads[d].reply.version]
             etag  == downloads[d].reply.etag
  <2>1. /\ UNCHANGED <<staging, resource, failedUnlink>> /\ downloads[d].pc = "reply"
        /\ downloads[d].reply.status = 206
        /\ downloads' = [downloads EXCEPT
             ![d].pc = "body", ![d].state.total = total, ![d].state.etag = etag]
    BY <1>7 DEF AcceptRange, At
  <2> HIDE DEF total, etag
  <2>2. /\ DOMAIN downloads[d] = Fields /\ downloads[d].published = NoFile
        /\ staging[d] \in Seq(Resource) /\ downloads[d].reply.version \in Resource
    <3>1. downloads[d].pc \in Staged
      BY <2>1 DEF Unpublished, Staged
    <3>2. downloads[d].reply.status = 503 \/ downloads[d].reply.version \in Resource
      BY <2>1, ReplyFacts
    <3> QED BY <2>1, <3>1, <3>2, StagedFacts
  <2>3. /\ GoesTo(d, "body") /\ downloads'[d].reply = downloads[d].reply
    BY <2>1, <2>2 DEF GoesTo, Downloads, Fields
  <2>4. Fine(d, downloads'[d], staging'[d], failedUnlink')
    BY <2>1, <2>2, <2>3 DEF Fine, GoesTo, Unpublished, Staged
  <2> QED BY <1>0, <2>1, <2>3, <2>4, OneDownload DEF GoesTo
<1>8. ASSUME NEW d \in Downloads, AcceptWhole(d)
      PROVE  DownloadInv'
  <2> DEFINE fresh == [Fresh EXCEPT !.etag = downloads[d].reply.etag, !.total = downloads[d].reply.length]
             long  == TooLong(d, downloads[d].reply.length)
  <2>1. /\ UNCHANGED <<resource, failedUnlink>> /\ downloads[d].pc = "reply"
        /\ downloads[d].reply.status = 200
        /\ staging' = [staging EXCEPT ![d] = <<>>]
        /\ downloads' = IF long
             THEN [downloads EXCEPT ![d].pc = "discard", ![d].error = "too large",
                                    ![d].state = fresh]
             ELSE [downloads EXCEPT ![d].pc = "body", ![d].state = fresh]
    BY <1>8 DEF AcceptWhole, At
  <2>6. downloads[d].pc = "reply" /\ downloads[d].reply.status = 200
    BY <2>1
  <2> HIDE DEF fresh, long
  <2>2. /\ DOMAIN downloads[d] = Fields /\ downloads[d].published = NoFile
        /\ downloads[d].reply.version \in Resource
    <3>1. downloads[d].pc \in Staged
      BY <2>6 DEF Unpublished, Staged
    <3>2. downloads[d].reply.version \in Resource
      BY <2>6, ReplyFacts
    <3> QED BY <3>1, <3>2, StagedFacts
  <2>3. /\ DOMAIN staging' = Downloads /\ staging'[d] \in Seq(Resource)
        /\ \A q \in Downloads \ {d} : staging'[q] = staging[q]
    BY <1>0, <2>1
  <2>4. CASE long
    <3>1. /\ DOMAIN downloads' = Downloads
          /\ \A q \in Downloads \ {d} : downloads'[q] = downloads[q]
          /\ DOMAIN downloads'[d] = Fields /\ downloads'[d].pc = "discard"
          /\ downloads'[d].error = "too large" /\ downloads'[d].published = NoFile
      BY <2>1, <2>2, <2>4 DEF Downloads, Fields
    <3>2. Fine(d, downloads'[d], staging'[d], failedUnlink')
      BY <3>1 DEF Fine, Unpublished, Staged
    <3> QED BY <1>0, <2>1, <2>3, <3>1, <3>2, OneDownload
  <2>5. CASE ~long
    <3>1. /\ GoesTo(d, "body") /\ downloads'[d].reply = downloads[d].reply
      BY <2>1, <2>2, <2>5 DEF GoesTo, Downloads, Fields
    <3>2. Fine(d, downloads'[d], staging'[d], failedUnlink')
      <4>1. /\ DOMAIN downloads'[d] = Fields /\ downloads'[d].pc = "body"
            /\ downloads'[d].published = NoFile /\ staging'[d] \in Seq(Resource)
            /\ downloads'[d].reply.status = 200 /\ downloads'[d].reply.version \in Resource
        BY <2>1, <2>2, <2>3, <3>1 DEF GoesTo
      <4> QED BY <4>1 DEF Fine, Unpublished, Staged
    <3> QED BY <1>0, <2>1, <2>3, <3>1, <3>2, OneDownload DEF GoesTo
  <2> QED BY <2>4, <2>5
<1>9. ASSUME NEW d \in Downloads, WriteBlock(d)
      PROVE  DownloadInv'
  <2> DEFINE v == downloads[d].reply.version
             n == downloads[d].state.written + 1
             digest == Append(downloads[d].state.digest, v)
  <2>1. UNCHANGED <<resource, failedUnlink>> /\ downloads[d].pc = "body"
    BY <1>9 DEF WriteBlock, At
  <2>2. CASE Abandon(d, "too large") /\ staging' = staging
    BY <2>1, <2>2, AbandonStep DEF Unpublished
  <2>3. CASE /\ staging' = [staging EXCEPT ![d] = Append(@, v)]
             /\ downloads' = [downloads EXCEPT
                   ![d].state.written = @ + 1, ![d].state.digest = Append(@, v)]
    <3>1. /\ DOMAIN downloads[d] = Fields /\ downloads[d].published = NoFile
          /\ staging[d] \in Seq(Resource) /\ v \in Resource /\ downloads[d].reply.status # 503
      <4>1. downloads[d].pc \in Staged
        BY <2>1 DEF Unpublished, Staged
      <4>2. v \in Resource /\ downloads[d].reply.status # 503
        BY <2>1, ReplyFacts
      <4> QED BY <4>1, <4>2, StagedFacts
    <3>2. /\ DOMAIN staging' = Downloads /\ staging'[d] \in Seq(Resource)
          /\ \A q \in Downloads \ {d} : staging'[q] = staging[q]
      BY <1>0, <2>3, <3>1
    <3>3. \E state : downloads' = [downloads EXCEPT ![d].state = state]
      BY <2>3
    <3>4. /\ GoesTo(d, "body") /\ downloads'[d].reply = downloads[d].reply
      BY <2>1, <3>1, <3>3 DEF GoesTo, Downloads, Fields
    <3>5. Fine(d, downloads'[d], staging'[d], failedUnlink')
      BY <2>1, <3>1, <3>2, <3>4 DEF Fine, GoesTo, Unpublished, Staged
    <3> QED BY <1>0, <2>1, <3>2, <3>4, <3>5, OneDownload DEF GoesTo
  <2> QED BY <1>9, <2>2, <2>3 DEF WriteBlock
<1>10. ASSUME NEW d \in Downloads, CutBody(d)
       PROVE  DownloadInv'
  <2>1. UNCHANGED <<resource, failedUnlink>> /\ downloads[d].pc = "body"
    BY <1>10 DEF CutBody, At
  <2>2. staging[d] \in Seq(Resource)
    BY <1>0, <2>1 DEF Fine, Unpublished, Staged
  <2>3. CASE \E error \in {"transport", "write"} : Abandon(d, error) /\ staging' = staging
    BY <2>1, <2>3, AbandonStep DEF Unpublished
  <2>4. CASE \E state : Retry(d, state) /\ staging' \in {staging, [staging EXCEPT ![d] = <<>>]}
    <3>1. GoesTo(d, "send")
      BY <2>4, RetryGoes
    <3>2. /\ DOMAIN staging' = Downloads /\ staging'[d] \in Seq(Resource)
          /\ \A q \in Downloads \ {d} : staging'[q] = staging[q]
      BY <1>0, <2>2, <2>4
    <3> QED BY <2>1, <3>1, <3>2, StagedStep DEF Unpublished
  <2> QED BY <1>10, <2>3, <2>4 DEF CutBody
<1>11. ASSUME NEW d \in Downloads, WriteFails(d)
       PROVE  DownloadInv'
  <2>1. /\ UNCHANGED <<staging, resource, failedUnlink>> /\ Abandon(d, "write")
        /\ downloads[d].pc \in {"body", "sync", "reply"}
    BY <1>11 DEF WriteFails, At
  <2>2. downloads[d].pc \in Unpublished
    BY <2>1 DEF Unpublished
  <2> QED BY <2>1, <2>2, AbandonStep
<1>12. ASSUME NEW d \in Downloads, EndBody(d)
       PROVE  DownloadInv'
  <2>1. UNCHANGED <<staging, resource, failedUnlink>> /\ downloads[d].pc = "body"
    BY <1>12 DEF EndBody, At
  <2>2. CASE Abandon(d, "response")
    BY <2>1, <2>2, AbandonStep DEF Unpublished
  <2>3. CASE downloads' = [downloads EXCEPT ![d].pc = "sync", ![d].reply = NoFile]
    <3>1. DOMAIN downloads[d] = Fields /\ staging[d] \in Seq(Resource)
      BY <1>0, <2>1 DEF Fine, Unpublished, Staged
    <3>2. GoesTo(d, "sync")
      BY <2>3, <3>1 DEF GoesTo, Downloads, Fields
    <3> QED BY <1>0, <2>1, <3>1, <3>2, StagedStep DEF Unpublished
  <2> QED BY <1>12, <2>2, <2>3 DEF EndBody
<1>13. ASSUME NEW d \in Downloads, Sync(d)
       PROVE  DownloadInv'
  <2>1. UNCHANGED <<staging, resource, failedUnlink>> /\ downloads[d].pc = "sync"
    BY <1>13 DEF Sync, At
  <2>2. staging[d] \in Seq(Resource)
    BY <1>0, <2>1 DEF Fine, Unpublished, Staged
  <2>3. CASE Abandon(d, "checksum")
    BY <2>1, <2>3, AbandonStep DEF Unpublished
  <2>4. CASE Move(d, "publish")
    BY <1>0, <2>1, <2>2, <2>4, MoveGoes, StagedStep DEF Unpublished
  <2> QED BY <1>13, <2>3, <2>4 DEF Sync
<1>14. ASSUME NEW d \in Downloads, Link(d)
       PROVE  DownloadInv'
  <2>1. UNCHANGED <<staging, resource, failedUnlink>> /\ downloads[d].pc = "publish"
    BY <1>14 DEF Link, At
  <2>2. CASE Abandon(d, "write")
    BY <2>1, <2>2, AbandonStep DEF Unpublished
  <2>3. CASE downloads' = [Published(d) EXCEPT ![d].pc = "unlink"]
    <3>1. /\ DOMAIN downloads' = Downloads
          /\ \A q \in Downloads \ {d} : downloads'[q] = downloads[q]
          /\ DOMAIN downloads'[d] = Fields /\ downloads'[d].pc = "unlink"
          /\ downloads'[d].published = staging[d]
      BY <2>3, PublishGoes
    <3>2. staging[d] # NoFile
      BY ZenonT(60), <1>0, <2>1, NoFileAssumption DEF Fine, Unpublished, Staged
    <3>3. Fine(d, downloads'[d], staging'[d], failedUnlink')
      BY <2>1, <3>1, <3>2 DEF Fine, Unpublished, Staged
    <3> QED BY <1>0, <2>1, <3>1, <3>3, OneDownload
  <2> QED BY <1>14, <2>2, <2>3 DEF Link
<1>15. ASSUME NEW d \in Downloads, Unlink(d)
       PROVE  DownloadInv'
  <2>1. /\ resource' = resource /\ downloads[d].pc = "unlink"
        /\ DOMAIN downloads[d] = Fields /\ downloads[d].published # NoFile
    BY <1>0, <1>15 DEF Unlink, At, Fine
  <2>2. CASE staging' = [staging EXCEPT ![d] = NoFile] /\ Move(d, "done") /\ UNCHANGED failedUnlink
    <3>1. GoesTo(d, "done")
      BY <2>2, MoveGoes
    <3>2. /\ DOMAIN staging' = Downloads /\ staging'[d] = NoFile
          /\ \A q \in Downloads \ {d} : staging'[q] = staging[q]
      BY <1>0, <2>2
    <3>3. Fine(d, downloads'[d], staging'[d], failedUnlink')
      BY <2>1, <3>1, <3>2 DEF Fine, GoesTo, Unpublished, Staged
    <3> QED BY <2>1, <2>2, <3>1, <3>2, <3>3, OneDownload DEF GoesTo
  <2>3. CASE /\ failedUnlink' = failedUnlink \cup {d} /\ staging' = staging
             /\ downloads' = [downloads EXCEPT ![d].pc = "discard", ![d].error = "cleanup"]
    <3>1. /\ DOMAIN downloads' = Downloads
          /\ \A q \in Downloads \ {d} : downloads'[q] = downloads[q]
          /\ DOMAIN downloads'[d] = Fields /\ downloads'[d].pc = "discard"
          /\ downloads'[d].error = "cleanup" /\ downloads'[d].published # NoFile
      BY <2>1, <2>3 DEF Downloads, Fields
    <3>2. Fine(d, downloads'[d], staging'[d], failedUnlink')
      BY <3>1 DEF Fine, Unpublished, Staged
    <3> QED BY <1>0, <2>1, <2>3, <3>1, <3>2, OneDownload
  <2> QED BY <1>15, <2>2, <2>3 DEF Unlink
<1>16. ASSUME NEW d \in Downloads, Rename(d) \/ RenameAgain(d)
       PROVE  DownloadInv'
  <2>1. UNCHANGED <<resource, failedUnlink>> /\ downloads[d].pc \in {"publish", "rename again"}
    BY <1>16 DEF Rename, RenameAgain, At
  <2>2. CASE RenameNow(d)
    BY <2>1, <2>2, RenameStep DEF Staged, Unpublished
  <2>3. CASE Abandon(d, "write") /\ staging' = staging
    BY <2>1, <2>3, AbandonStep DEF Unpublished
  <2>4. CASE Rename(d) /\ Move(d, "replace") /\ staging' = staging
    <3>1. downloads[d].target.overwrite /\ downloads[d].pc = "publish"
      BY <2>4 DEF Rename, At
    <3>2. GoesTo(d, "replace")
      BY <2>4, MoveGoes
    <3>3. Fine(d, downloads'[d], staging'[d], failedUnlink')
      BY ZenonT(60), <1>0, <2>1, <2>4, <3>1, <3>2 DEF Fine, GoesTo, Unpublished, Staged
    <3> QED BY <1>0, <2>1, <2>4, <3>2, <3>3, OneDownload DEF GoesTo
  <2> QED BY <1>16, <2>2, <2>3, <2>4 DEF Rename, RenameAgain
<1>17. ASSUME NEW d \in Downloads, RemoveDestination(d)
       PROVE  DownloadInv'
  <2>1. UNCHANGED <<staging, resource, failedUnlink>> /\ downloads[d].pc = "replace"
    BY <1>17 DEF RemoveDestination, At
  <2>2. CASE Abandon(d, "write")
    BY <2>1, <2>2, AbandonStep DEF Unpublished
  <2>3. CASE Move(d, "rename again")
    <3>1. GoesTo(d, "rename again")
      BY <2>3, MoveGoes
    <3>2. Fine(d, downloads'[d], staging'[d], failedUnlink')
      BY ZenonT(60), <1>0, <2>1, <3>1 DEF Fine, GoesTo, Unpublished, Staged
    <3> QED BY <1>0, <2>1, <3>1, <3>2, OneDownload DEF GoesTo
  <2> QED BY <1>17, <2>2, <2>3 DEF RemoveDestination
<1>18. ASSUME NEW d \in Downloads, Discard(d)
       PROVE  DownloadInv'
  <2>1. /\ resource' = resource /\ downloads[d].pc = "discard" /\ Leaves(d) /\ Move(d, "failed")
    BY <1>18 DEF Discard, At, Leaves
  <2>2. GoesTo(d, "failed")
    BY <2>1, MoveGoes
  <2>3. /\ DOMAIN staging' = Downloads
        /\ \A q \in Downloads \ {d} : staging'[q] = staging[q]
        /\ \A q \in failedUnlink : q \in failedUnlink'
        /\ staging'[d] = NoFile \/ d \in failedUnlink'
    BY <2>1, LeavesIt
  <2>4. downloads[d].published # NoFile <=> downloads[d].error = "cleanup"
    BY <1>0, <2>1 DEF Fine
  <2>5. /\ DOMAIN downloads'[d] = Fields /\ downloads'[d].pc = "failed"
        /\ downloads'[d].published # NoFile <=> downloads'[d].error = "cleanup"
    BY <2>2, <2>4 DEF GoesTo
  <2>6. Fine(d, downloads'[d], staging'[d], failedUnlink')
    BY <2>3, <2>5 DEF Fine, Unpublished, Staged
  <2> QED BY <2>1, <2>2, <2>3, <2>6, OneDownload DEF GoesTo
<1>19. ASSUME NEW d \in Downloads, DropDownload(d)
       PROVE  DownloadInv'
  <2>1. resource' = resource /\ Leaves(d)
    BY <1>19 DEF DropDownload, Leaves
  <2>2. /\ DOMAIN staging' = Downloads
        /\ \A q \in Downloads \ {d} : staging'[q] = staging[q]
        /\ \A q \in failedUnlink : q \in failedUnlink'
        /\ staging'[d] = NoFile \/ d \in failedUnlink'
    BY <2>1, LeavesIt
  <2>3. CASE Move(d, IF At(d, "replace") THEN "removing" ELSE "dropped")
    <3>1. GoesTo(d, IF At(d, "replace") THEN "removing" ELSE "dropped")
      BY <2>3, MoveGoes
    <3>2. \/ downloads'[d].pc = "dropped"
          \/ downloads'[d].pc = "removing" /\ downloads'[d].target.overwrite
      BY <1>0, <3>1 DEF GoesTo, At, Fine
    <3>3. Fine(d, downloads'[d], staging'[d], failedUnlink')
      BY <2>2, <3>1, <3>2 DEF Fine, GoesTo, Unpublished, Staged
    <3> QED BY <2>1, <2>2, <3>1, <3>3, OneDownload DEF GoesTo
  <2>4. CASE downloads' = [Published(d) EXCEPT ![d].pc = "dropped"]
    <3>1. /\ DOMAIN downloads' = Downloads
          /\ \A q \in Downloads \ {d} : downloads'[q] = downloads[q]
          /\ DOMAIN downloads'[d] = Fields /\ downloads'[d].pc = "dropped"
      BY <2>4, PublishGoes
    <3>2. Fine(d, downloads'[d], staging'[d], failedUnlink')
      BY <2>2, <3>1 DEF Fine, Unpublished, Staged
    <3> QED BY <2>1, <2>2, <3>1, <3>2, OneDownload
  <2> QED BY <1>19, <2>3, <2>4 DEF DropDownload
<1>20. ASSUME NEW d \in Downloads, RemoveLate(d)
       PROVE  DownloadInv'
  <2>1. UNCHANGED <<staging, resource, failedUnlink>> /\ downloads[d].pc = "removing"
    BY <1>20 DEF RemoveLate, At
  <2>2. GoesTo(d, "dropped")
    BY <1>20, MoveGoes DEF RemoveLate
  <2>3. Fine(d, downloads'[d], staging'[d], failedUnlink')
    BY <1>0, <2>1, <2>2 DEF Fine, GoesTo, Unpublished, Staged
  <2> QED BY <1>0, <2>1, <2>2, <2>3, OneDownload DEF GoesTo
<1> QED BY <1>1, <1>2, <1>3, <1>4, <1>5, <1>6, <1>7, <1>8, <1>9, <1>10, <1>11, <1>12, <1>13,
           <1>14, <1>15, <1>16, <1>17, <1>18, <1>19, <1>20 DEF DownloadNext

-----------------------------------------------------------------------------

\* A download that ends well, or reports a failed cleanup, published; one that
\* ends with another error did not; and however it ends its staging file is
\* gone, unless a removal of it failed (persist_download, discard_download_state).
THEOREM ReportsAreTrue == DownloadSpec => []ReportIsTrue
<1>1. DownloadInv => ReportIsTrue
  <2> SUFFICES ASSUME DownloadInv, NEW d \in Downloads
               PROVE  /\ downloads[d].pc \in {"done", "failed"} =>
                           (downloads[d].published # NoFile <=>
                              At(d, "done") \/ downloads[d].error = "cleanup")
                      /\ Over(d) => staging[d] = NoFile \/ d \in failedUnlink
    BY DEF ReportIsTrue
  <2>1. Fine(d, downloads[d], staging[d], failedUnlink)
    BY DEF DownloadInv
  <2>2. CASE downloads[d].pc = "done"
    BY <2>1, <2>2 DEF Fine, At
  <2>3. CASE downloads[d].pc = "failed"
    BY <2>1, <2>3 DEF Fine, At
  <2>4. CASE downloads[d].pc = "dropped"
    BY <2>1, <2>4 DEF Fine
  <2> QED BY <2>2, <2>3, <2>4 DEF Over
<1> QED BY <1>1, DownloadStarts, DownloadStep, PTL DEF DownloadSpec

\* Only a download that may overwrite the destination touches a file that is
\* there, whatever the others did since it looked (persist_download).
THEOREM ExistingFilesAreKept == DownloadSpec => KeepsExisting
<1>1. ASSUME DownloadInv, DownloadNext, destination # NoFile, destination' # destination
      PROVE  \E d \in Downloads : downloads[d].target.overwrite /\ downloads'[d] # downloads[d]
  <2>1. PICK d \in Downloads : \/ Link(d) \/ Rename(d) \/ RemoveDestination(d) \/ RenameAgain(d)
                               \/ DropDownload(d) \/ RemoveLate(d)
    BY ZenonT(60), <1>1 DEF DownloadNext, CheckDestination, CreateStaging, SendFails, Receive, RefuseReply,
       AcceptRange, AcceptWhole, WriteBlock, CutBody, WriteFails, EndBody, Sync, Unlink, Discard,
       ChangeContent
  <2>2. Fine(d, downloads[d], staging[d], failedUnlink)
    BY <1>1 DEF DownloadInv
  <2>3. ~Link(d)
    BY <1>1 DEF Link
  <2>4. downloads[d].target.overwrite
    BY <1>1, <2>1, <2>2, <2>3 DEF Rename, RemoveDestination, RenameAgain, DropDownload, RemoveLate,
       At, Fine
  <2>5. downloads'[d].pc # downloads[d].pc
    <3>1. ASSUME RenameNow(d)
          PROVE  downloads'[d].pc = "done"
      BY <1>1, <3>1, PublishGoes DEF RenameNow
    <3>2. ASSUME NEW place, Move(d, place)
          PROVE  downloads'[d].pc = place
      BY <1>1, <3>2, MoveGoes DEF GoesTo
    <3>3. ASSUME downloads' = [Published(d) EXCEPT ![d].pc = "dropped"]
          PROVE  downloads'[d].pc = "dropped"
      BY <1>1, <3>3, PublishGoes
    <3>4. CASE Rename(d) \/ RenameAgain(d)
      BY <1>1, <3>1, <3>4 DEF Rename, RenameAgain, At
    <3>5. CASE RemoveDestination(d)
      BY <1>1, <3>2, <3>5 DEF RemoveDestination, At
    <3>6. CASE RemoveLate(d)
      BY <3>2, <3>6 DEF RemoveLate, At
    <3>7. CASE DropDownload(d)
      BY <1>1, <3>3, <3>7 DEF DropDownload
    <3> QED BY <2>1, <2>3, <3>4, <3>5, <3>6, <3>7
  <2> QED BY <2>4, <2>5
<1>2. DownloadInv /\ [DownloadNext]_downloadVars =>
        [destination # NoFile /\ destination' # destination =>
           \E d \in Downloads :
             downloads[d].target.overwrite /\ downloads'[d] # downloads[d]]_downloadVars
  BY <1>1
<1> QED BY <1>2, DownloadStarts, DownloadStep, PTL DEF DownloadSpec, KeepsExisting

-----------------------------------------------------------------------------
(* What is in the files of the downloads                                   *)

StateFields == {"written", "digest", "etag", "total"}

\* The blocks of a file are the first ones of version v.
OfVersion(file, v) == Len(file) <= Length[v] /\ \A i \in 1..Len(file) : file[i] = v

\* What DownloadState says of its file.
Described(x, file) ==
  /\ file \in Seq(Resource)
  /\ x.state.digest = file /\ x.state.written = Len(file)
  /\ Len(file) <= x.target.maxBytes

\* An attempt begins with nothing, or with a part that may be resumed, whose ETag
\* is that of its version.
Resumable(x, file) ==
  \/ x.state = Fresh /\ file = <<>>
  \/ /\ x.target.resume /\ x.state.written > 0 /\ x.state.etag # NoTag
     /\ x.state.etag \in Resource /\ OfVersion(file, x.state.etag)
     /\ x.state.total \in {NoLength, Length[x.state.etag]}

\* A response with content.
Response(reply) ==
  /\ reply.version \in Resource /\ reply.etag \in {reply.version, NoTag}
  /\ reply.from \in Nat /\ reply.upto \in Nat /\ reply.upto <= Length[reply.version]
  /\ reply.status = 200 =>
       reply.from = 0 /\ reply.length \in {NoLength, Length[reply.version]}

\* A body is being written: the file and the response are of one version.
Reading(x, file) ==
  /\ x.reply.status # 503 /\ Response(x.reply)
  /\ OfVersion(file, x.reply.version)
  /\ x.state.etag \in {x.reply.version, NoTag}
  /\ x.state.total \in {NoLength, Length[x.reply.version]}

\* All that was asked for is there, of one version; and with the checksum, if
\* one is expected.
Received(x, file) ==
  \E v \in Resource :
    OfVersion(file, v) /\ (x.state.total # NoLength => Len(file) = Length[v])

Verified(x, file) ==
  \E v \in Resource :
    /\ OfVersion(file, v)
    /\ x.state.total # NoLength => Len(file) = Length[v]
    /\ x.target.expected # Anything => v = x.target.expected /\ Len(file) = Length[v]

\* Download x with the staging file.
Content(x, file) ==
  /\ x.target \in Target /\ DOMAIN x.state = StateFields
  /\ x.pc \in {"start", "create"} => x.state = Fresh
  /\ x.pc \in Staged => Described(x, file)
  /\ x.pc \in {"send", "reply"} => Resumable(x, file)
  /\ x.pc = "reply" => x.reply.status = 503 \/ Response(x.reply)
  /\ x.pc = "body" => Reading(x, file)
  /\ x.pc = "sync" => Received(x, file)
  /\ x.pc \in {"publish", "replace", "rename again"} => Verified(x, file)
  /\ x.published # NoFile => Described(x, x.published) /\ Verified(x, x.published)

Publications == {downloads[d].published : d \in Downloads}

ContentInv ==
  /\ DownloadInv
  /\ \A d \in Downloads : Content(downloads[d], staging[d])
  /\ destination \in {NoFile, <<0>>} \cup Publications

\* What is said of the content of a download stays true of one with the same target
\* and state, and response.
LEMMA SameContent ==
  ASSUME NEW x, NEW y, NEW file, y.target = x.target, y.state = x.state
  PROVE  /\ Described(y, file) <=> Described(x, file)
         /\ Resumable(y, file) <=> Resumable(x, file)
         /\ Received(y, file) <=> Received(x, file)
         /\ Verified(y, file) <=> Verified(x, file)
BY DEF Described, Resumable, Received, Verified

\* The invariant holds when it holds of the download that moved, if its publication is
\* not replaced and the destination is only removed or replaced by it.
LEMMA OneContent ==
  ASSUME ContentInv, DownloadInv', NEW d \in Downloads,
         DOMAIN downloads' = Downloads,
         \A q \in Downloads \ {d} : downloads'[q] = downloads[q] /\ staging'[q] = staging[q],
         Content(downloads'[d], staging'[d]),
         downloads[d].published = NoFile \/ downloads'[d].published = downloads[d].published,
         destination' \in {NoFile, destination, downloads'[d].published}
  PROVE  ContentInv'
<1>1. Downloads' = Downloads
  BY DEF Downloads
<1>2. ASSUME NEW q \in Downloads PROVE Content(downloads'[q], staging'[q])
  <2>1. CASE q = d
    BY <2>1
  <2>2. CASE q # d
    BY <2>2 DEF ContentInv
  <2> QED BY <2>1, <2>2
<1>3. \A q \in Downloads : Content(downloads[q], staging[q])'
  BY <1>2 DEF Content, Described, Resumable, Response, Reading, Received, Verified, OfVersion, Fresh
<1>4. Publications' = {downloads'[q].published : q \in Downloads}
  BY <1>1 DEF Publications
<1>5. ASSUME NEW q \in Downloads
      PROVE  downloads[q].published \in Publications' \cup {NoFile}
  <2>1. CASE q # d
    BY <1>4, <2>1
  <2>2. CASE q = d
    BY <1>4, <2>2
  <2> QED BY <2>1, <2>2
<1>6. Publications \subseteq Publications' \cup {NoFile}
  BY <1>5 DEF Publications
<1>7. destination' \in {NoFile, <<0>>} \cup Publications'
  BY <1>4, <1>6 DEF ContentInv
<1> QED BY <1>1, <1>3, <1>7 DEF ContentInv

\* What holds of a download that is there.
LEMMA ContentFacts ==
  ASSUME ContentInv, NEW d \in Downloads
  PROVE  /\ DownloadInv /\ Content(downloads[d], staging[d])
         /\ DOMAIN downloads[d] = Fields
         /\ downloads[d].pc \in Unpublished => downloads[d].published = NoFile
         /\ DOMAIN staging = Downloads
<1>1. Fine(d, downloads[d], staging[d], failedUnlink)
  BY DEF ContentInv, DownloadInv
<1>2. DOMAIN downloads[d] = Fields /\ (downloads[d].pc \in Unpublished => downloads[d].published = NoFile)
  BY <1>1 DEF Fine
<1> QED BY <1>2 DEF ContentInv, DownloadInv

\* Going on to another place with the same content, where nothing more is said of it.
LEMMA QuietContent ==
  ASSUME NEW x, NEW y, NEW file, NEW left, Content(x, file),
         y.target = x.target, y.state = x.state, y.published = x.published,
         \/ y.pc \in {"discard", "failed", "done", "dropped", "removing"}
         \/ y.pc = "create" /\ x.pc = "start"
         \/ y.pc = "publish" /\ x.pc = "sync" /\ Verified(x, file) /\ left = file
         \/ y.pc \in {"replace", "rename again"} /\ x.pc \in {"publish", "replace"} /\ left = file
  PROVE  Content(y, left)
<1>1. \A f : (Described(y, f) <=> Described(x, f)) /\ (Verified(y, f) <=> Verified(x, f))
  BY SameContent
<1>2. y.published # NoFile => Described(y, y.published) /\ Verified(y, y.published)
  BY <1>1 DEF Content
<1>3. y.target \in Target /\ DOMAIN y.state = StateFields
  BY DEF Content
<1>4. CASE y.pc \in {"discard", "failed", "done", "dropped", "removing"}
  BY <1>2, <1>3, <1>4 DEF Content, Staged, Unpublished
<1>5. CASE y.pc = "create" /\ x.pc = "start"
  BY <1>2, <1>3, <1>5 DEF Content, Staged, Unpublished
<1>6. CASE y.pc = "publish" /\ x.pc = "sync" /\ Verified(x, file) /\ left = file
  <2>1. Described(x, file)
    BY <1>6 DEF Content, Staged, Unpublished
  <2> QED BY <1>1, <1>2, <1>3, <1>6, <2>1 DEF Content, Staged, Unpublished
<1>7. CASE y.pc \in {"replace", "rename again"} /\ x.pc \in {"publish", "replace"} /\ left = file
  <2>1. Described(x, file) /\ Verified(x, file)
    BY <1>7 DEF Content, Staged, Unpublished
  <2> QED BY <1>1, <1>2, <1>3, <1>7, <2>1 DEF Content, Staged, Unpublished
<1> QED BY <1>4, <1>5, <1>6, <1>7

\* Move.
LEMMA MoveContent ==
  ASSUME ContentInv, NEW d \in Downloads, NEW place, Move(d, place)
  PROVE  LET x == downloads[d]
             y == downloads'[d]
         IN  /\ DOMAIN downloads' = Downloads
             /\ \A q \in Downloads \ {d} : downloads'[q] = downloads[q]
             /\ y.pc = place /\ y.target = x.target /\ y.state = x.state
             /\ y.published = x.published
<1>1. DOMAIN downloads[d] = Fields
  BY ContentFacts
<1> QED BY <1>1 DEF Move, Downloads, Fields

\* Abandon, before the publication.
LEMMA AbandonContent ==
  ASSUME ContentInv, DownloadInv', NEW d \in Downloads, NEW error, Abandon(d, error),
         downloads[d].pc \in Unpublished, UNCHANGED <<staging, destination>>
  PROVE  ContentInv'
<1>1. /\ DOMAIN downloads[d] = Fields /\ downloads[d].published = NoFile
      /\ Content(downloads[d], staging[d])
  BY ContentFacts
<1>2. /\ DOMAIN downloads' = Downloads
      /\ \A q \in Downloads \ {d} : downloads'[q] = downloads[q]
      /\ downloads'[d].pc = "discard" /\ downloads'[d].target = downloads[d].target
      /\ downloads'[d].state = Fresh /\ downloads'[d].published = NoFile
  BY <1>1 DEF Abandon, Downloads, Fields
<1>3. DOMAIN Fresh = StateFields
  BY DEF Fresh, StateFields
<1>4. Content(downloads'[d], staging'[d])
  BY <1>1, <1>2, <1>3 DEF Content, Staged, Unpublished
<1> QED BY <1>1, <1>2, <1>4, OneContent

\* Retry.
LEMMA RetryContent ==
  ASSUME ContentInv, DownloadInv', NEW d \in Downloads, NEW state, Retry(d, state),
         downloads[d].pc \in Unpublished, destination' = destination,
         \A q \in Downloads \ {d} : staging'[q] = staging[q],
         \/ /\ state = downloads[d].state /\ staging'[d] = staging[d]
            /\ Described(downloads[d], staging[d]) /\ Resumable(downloads[d], staging[d])
         \/ state = Fresh /\ staging'[d] = <<>>
  PROVE  ContentInv'
<1> DEFINE x == downloads[d]
           y == downloads'[d]
           n == x.attempt + 1
<1>1. DOMAIN x = Fields /\ x.published = NoFile /\ Content(x, staging[d])
  BY ContentFacts
<1>2. downloads' = [downloads EXCEPT ![d].pc = "send", ![d].attempt = n,
                                     ![d].state = state, ![d].reply = NoFile]
  BY DEF Retry, Downloads
<1> HIDE DEF n
<1>3. /\ DOMAIN downloads' = Downloads
      /\ \A q \in Downloads \ {d} : downloads'[q] = downloads[q]
      /\ y.pc = "send" /\ y.target = x.target /\ y.state = state /\ y.published = NoFile
  BY <1>1, <1>2 DEF Downloads, Fields
<1>4. x.target \in Target /\ DOMAIN x.state = StateFields
  BY <1>1 DEF Content
<1>5. CASE /\ state = x.state /\ staging'[d] = staging[d]
           /\ Described(x, staging[d]) /\ Resumable(x, staging[d])
  <2>1. Described(y, staging[d]) /\ Resumable(y, staging[d])
    BY <1>3, <1>5, SameContent
  <2>2. Content(y, staging'[d])
    BY <1>3, <1>4, <1>5, <2>1 DEF Content, Staged, Unpublished
  <2> QED BY <1>1, <1>3, <2>2, OneContent
<1>6. CASE state = Fresh /\ staging'[d] = <<>>
  <2>1. DOMAIN Fresh = StateFields /\ Fresh.digest = <<>> /\ Fresh.written = 0
    BY DEF Fresh, StateFields
  <2>2. x.target.maxBytes \in Nat
    BY <1>4 DEF Target
  <2>3. Described(y, <<>>) /\ Resumable(y, <<>>)
    BY <1>3, <1>6, <2>1, <2>2 DEF Described, Resumable
  <2>4. Content(y, staging'[d])
    BY <1>3, <1>4, <1>6, <2>1, <2>3 DEF Content, Staged, Unpublished
  <2> QED BY <1>1, <1>3, <2>4, OneContent
<1> QED BY <1>5, <1>6

\* The publication of a staging file that is complete.
LEMMA PublishContent ==
  ASSUME ContentInv, DownloadInv', NEW d \in Downloads, NEW place \in {"unlink", "done", "dropped"},
         downloads[d].pc \in {"publish", "replace", "rename again"},
         downloads' = [Published(d) EXCEPT ![d].pc = place], destination' = staging[d],
         \A q \in Downloads \ {d} : staging'[q] = staging[q]
  PROVE  ContentInv'
<1> DEFINE x == downloads[d]
           y == downloads'[d]
<1>1. /\ DOMAIN x = Fields /\ Content(x, staging[d])
      /\ (x.pc \in Unpublished => x.published = NoFile)
  BY ContentFacts
<1>2. /\ x.published = NoFile /\ Described(x, staging[d]) /\ Verified(x, staging[d])
      /\ x.target \in Target /\ DOMAIN x.state = StateFields
  BY <1>1 DEF Content, Staged, Unpublished
<1> DEFINE z == [x EXCEPT !.published = staging[d]]
<1>3. /\ DOMAIN Published(d) = Downloads /\ Published(d)[d] = z
      /\ \A q \in Downloads \ {d} : Published(d)[q] = downloads[q]
  BY DEF Published, Downloads
<1>4. /\ DOMAIN z = Fields /\ z.published = staging[d] /\ z.target = x.target /\ z.state = x.state
  BY <1>1 DEF Fields
<1> HIDE DEF z
<1>5. /\ DOMAIN downloads' = Downloads
      /\ \A q \in Downloads \ {d} : downloads'[q] = downloads[q]
      /\ y.pc = place /\ y.published = staging[d] /\ y.target = x.target /\ y.state = x.state
  BY <1>3, <1>4 DEF Fields
<1>6. Described(y, staging[d]) /\ Verified(y, staging[d])
  BY <1>2, <1>5, SameContent
<1>7. Content(y, staging'[d])
  BY <1>2, <1>5, <1>6 DEF Content, Staged, Unpublished
<1>8. /\ \A q \in Downloads \ {d} : downloads'[q] = downloads[q] /\ staging'[q] = staging[q]
      /\ downloads[d].published = NoFile
      /\ destination' \in {NoFile, destination, downloads'[d].published}
  BY <1>2, <1>5
<1> QED BY <1>5, <1>7, <1>8, OneContent

\* Receive.
LEMMA ReceiveContent ==
  ASSUME ContentInv, DownloadInv', NEW d \in Downloads, Receive(d)
  PROVE  ContentInv'
<1> DEFINE x == downloads[d]
           y == downloads'[d]
<1>1. /\ UNCHANGED <<staging, destination>> /\ x.pc = "send"
  BY DEF Receive, At
<1>2. PICK reply \in Replies :
        downloads' = [downloads EXCEPT ![d].pc = "reply", ![d].reply = reply]
  BY DEF Receive
<1>3. DOMAIN x = Fields /\ Content(x, staging[d]) /\ x.published = NoFile
  BY <1>1, ContentFacts DEF Unpublished
<1>4. reply.status = 503 \/ Response(reply)
  <2>1. resource \in Resource /\ Length[resource] \in Nat
    BY LengthAssumption DEF ContentInv, DownloadInv
  <2>2. CASE reply \in [status: {503}]
    BY <2>2
  <2>3. CASE reply \in [status: {200}, version: {resource}, from: {0}, upto: {Length[resource]},
                        etag: {resource, NoTag}, length: {Length[resource], NoLength}]
    BY <2>1, <2>3 DEF Response
  <2>4. CASE reply \in [status: {206}, version: {resource}, from: 0..(Length[resource] - 1),
                        upto: 1..Length[resource], etag: {resource, NoTag}, length: {NoLength}]
    BY <2>1, <2>4 DEF Response
  <2> QED BY <2>2, <2>3, <2>4 DEF Replies
<1>5. /\ DOMAIN downloads' = Downloads
      /\ \A q \in Downloads \ {d} : downloads'[q] = downloads[q]
      /\ y.pc = "reply" /\ y.target = x.target /\ y.state = x.state
      /\ y.published = NoFile /\ y.reply = reply
  BY <1>2, <1>3 DEF Downloads, Fields
<1>6. /\ Described(x, staging[d]) /\ Resumable(x, staging[d])
      /\ x.target \in Target /\ DOMAIN x.state = StateFields
  BY <1>1, <1>3 DEF Content, Staged, Unpublished
<1>7. Described(y, staging[d]) /\ Resumable(y, staging[d])
  BY <1>5, <1>6, SameContent
<1>8. Content(y, staging'[d])
  BY <1>1, <1>4, <1>5, <1>6, <1>7 DEF Content, Staged, Unpublished
<1> QED BY <1>1, <1>3, <1>5, <1>8, OneContent

\* AcceptRange: the rest of the file, or the whole of it.
LEMMA AcceptRangeContent ==
  ASSUME ContentInv, DownloadInv', NEW d \in Downloads, AcceptRange(d)
  PROVE  ContentInv'
<1> DEFINE x == downloads[d]
           y == downloads'[d]
           v == x.reply.version
           total == Length[v]
           etag  == x.reply.etag
<1>1. /\ UNCHANGED <<staging, destination>> /\ x.pc = "reply" /\ x.reply.status = 206
      /\ RangeFits(d, x.reply)
      /\ downloads' = [downloads EXCEPT
           ![d].pc = "body", ![d].state.total = total, ![d].state.etag = etag]
  BY DEF AcceptRange, At
<1>2. DOMAIN x = Fields /\ Content(x, staging[d]) /\ x.published = NoFile
  BY <1>1, ContentFacts DEF Unpublished
<1>3. /\ Described(x, staging[d]) /\ Resumable(x, staging[d]) /\ Response(x.reply)
      /\ x.target \in Target /\ DOMAIN x.state = StateFields
  BY <1>1, <1>2 DEF Content, Staged, Unpublished
<1>0. v = x.reply.version /\ total = Length[v] /\ etag = x.reply.etag /\ x.reply.status = 206
  BY <1>1
<1>4. /\ DOMAIN downloads' = Downloads
      /\ \A q \in Downloads \ {d} : downloads'[q] = downloads[q]
      /\ y.pc = "body" /\ y.target = x.target
      /\ y.published = NoFile /\ y.reply = x.reply
  BY <1>1, <1>2 DEF Downloads, Fields
<1>5. /\ DOMAIN y.state = StateFields /\ y.state.total = total /\ y.state.etag = etag
      /\ y.state.written = x.state.written /\ y.state.digest = x.state.digest
  <2>1. y.state = [[x.state EXCEPT !.total = total] EXCEPT !.etag = etag]
    BY <1>1, <1>2 DEF Downloads, Fields
  <2> QED BY <1>3, <2>1 DEF StateFields
<1> HIDE DEF v, total, etag
<1>6. OfVersion(staging[d], v)
  <2>1. CASE x.state = Fresh /\ staging[d] = <<>>
    <3>1. Length[v] \in Nat
      BY <1>0, <1>3, LengthAssumption DEF Response
    <3> QED BY <2>1, <3>1 DEF OfVersion
  <2>2. CASE /\ x.target.resume /\ x.state.written > 0 /\ x.state.etag # NoTag
             /\ OfVersion(staging[d], x.state.etag)
    <3>1. x.reply.etag = x.state.etag
      BY <1>1, <2>2 DEF RangeFits, Resumed
    <3>2. x.reply.etag \in {v, NoTag}
      BY <1>0, <1>3 DEF Response
    <3>3. v = x.state.etag
      BY <2>2, <3>1, <3>2
    <3> QED BY <2>2, <3>3
  <2> QED BY <1>3, <2>1, <2>2 DEF Resumable
<1>8. Described(y, staging[d])
  BY <1>3, <1>4, <1>5 DEF Described
<1>9. Reading(y, staging[d])
  <2>1. etag \in {v, NoTag}
    BY <1>0, <1>3 DEF Response
  <2> QED BY <1>0, <1>3, <1>4, <1>5, <1>6, <2>1 DEF Reading
<1>10. Content(y, staging'[d])
  BY <1>1, <1>3, <1>4, <1>5, <1>8, <1>9 DEF Content, Staged, Unpublished
<1> QED BY <1>1, <1>2, <1>4, <1>10, OneContent

\* AcceptWhole: the file begins again.
LEMMA AcceptWholeContent ==
  ASSUME ContentInv, DownloadInv', NEW d \in Downloads, AcceptWhole(d)
  PROVE  ContentInv'
<1> DEFINE x == downloads[d]
           y == downloads'[d]
           v == x.reply.version
           fresh == [Fresh EXCEPT !.etag = x.reply.etag, !.total = x.reply.length]
           long  == TooLong(d, x.reply.length)
<1>1. /\ destination' = destination /\ x.pc = "reply" /\ x.reply.status = 200
      /\ staging' = [staging EXCEPT ![d] = <<>>]
      /\ downloads' = IF long
           THEN [downloads EXCEPT ![d].pc = "discard", ![d].error = "too large",
                                  ![d].state = fresh]
           ELSE [downloads EXCEPT ![d].pc = "body", ![d].state = fresh]
  BY DEF AcceptWhole, At
<1>2. /\ DOMAIN x = Fields /\ Content(x, staging[d]) /\ x.published = NoFile
      /\ DOMAIN staging = Downloads
  BY <1>1, ContentFacts DEF Unpublished
<1>0. x.pc = "reply" /\ x.reply.status = 200
  BY <1>1
<1>3. Response(x.reply) /\ x.target \in Target
  BY <1>0, <1>2 DEF Content
<1>4. /\ DOMAIN fresh = StateFields /\ fresh.written = 0 /\ fresh.digest = <<>>
      /\ fresh.etag = x.reply.etag /\ fresh.total = x.reply.length
  BY DEF Fresh, StateFields
<1> HIDE DEF fresh, long
<1>5. /\ DOMAIN downloads' = Downloads
      /\ \A q \in Downloads \ {d} : downloads'[q] = downloads[q]
      /\ y.pc = (IF long THEN "discard" ELSE "body") /\ y.target = x.target /\ y.state = fresh
      /\ y.published = NoFile /\ y.reply = x.reply
  <2>1. CASE long
    BY <1>1, <1>2, <2>1 DEF Downloads, Fields
  <2>2. CASE ~long
    BY <1>1, <1>2, <2>2 DEF Downloads, Fields
  <2> QED BY <2>1, <2>2
<1>6. Described(y, <<>>)
  <2>1. x.target.maxBytes \in Nat
    BY <1>3 DEF Target
  <2> QED BY <1>4, <1>5, <2>1 DEF Described
<1>7. Reading(y, <<>>)
  <2>1. x.reply.etag \in {v, NoTag} /\ x.reply.length \in {NoLength, Length[v]} /\ Length[v] \in Nat
    BY <1>0, <1>3, LengthAssumption DEF Response
  <2>2. OfVersion(<<>>, v)
    BY <2>1 DEF OfVersion
  <2> QED BY <1>0, <1>3, <1>4, <1>5, <2>1, <2>2 DEF Reading
<1>8. /\ staging'[d] = <<>>
      /\ \A q \in Downloads \ {d} : staging'[q] = staging[q]
  BY <1>1, <1>2
<1>9. Content(y, staging'[d])
  BY <1>3, <1>4, <1>5, <1>6, <1>7, <1>8 DEF Content, Staged, Unpublished
<1> QED BY <1>1, <1>2, <1>5, <1>8, <1>9, OneContent

\* WriteBlock: one block more of the version that is read.
LEMMA WriteBlockContent ==
  ASSUME ContentInv, DownloadInv', NEW d \in Downloads, WriteBlock(d)
  PROVE  ContentInv'
<1> DEFINE x == downloads[d]
           y == downloads'[d]
           v == x.reply.version
           file == staging[d]
           next == [x.state EXCEPT !.written = @ + 1, !.digest = Append(@, v)]
<1>1. destination' = destination /\ x.pc = "body" /\ Got(d) < Expected(d)
  BY DEF WriteBlock, At
<1>2. CASE Abandon(d, "too large") /\ UNCHANGED staging
  <2>1. x.pc \in Unpublished
    BY <1>1 DEF Unpublished
  <2> QED BY <1>1, <1>2, <2>1, AbandonContent
<1>3. CASE /\ ~(x.state.written + 1 > x.target.maxBytes)
           /\ staging' = [staging EXCEPT ![d] = Append(@, v)]
           /\ downloads' = [downloads EXCEPT
                ![d].state.written = @ + 1, ![d].state.digest = Append(@, v)]
  <2>1. /\ DOMAIN x = Fields /\ Content(x, file) /\ x.published = NoFile
        /\ DOMAIN staging = Downloads
    BY <1>1, ContentFacts DEF Unpublished
  <2>2. /\ Described(x, file) /\ Reading(x, file) /\ Response(x.reply)
        /\ x.target \in Target /\ DOMAIN x.state = StateFields
    BY <1>1, <2>1 DEF Content, Staged, Unpublished, Reading
  <2>3. downloads' = [downloads EXCEPT ![d].state = next]
    BY <1>3, <2>1 DEF Downloads, Fields
  <2>4. /\ DOMAIN next = StateFields /\ next.total = x.state.total /\ next.etag = x.state.etag
        /\ next.written = x.state.written + 1 /\ next.digest = Append(x.state.digest, v)
    BY <2>2 DEF StateFields
  <2> HIDE DEF next
  <2>5. /\ DOMAIN downloads' = Downloads
        /\ \A q \in Downloads \ {d} : downloads'[q] = downloads[q]
        /\ y.pc = "body" /\ y.target = x.target /\ y.state = next
        /\ y.published = NoFile /\ y.reply = x.reply
    BY <1>1, <2>1, <2>3 DEF Downloads, Fields
  <2>6. /\ staging'[d] = Append(file, v)
        /\ \A q \in Downloads \ {d} : staging'[q] = staging[q]
    BY <1>3, <2>1
  <2>7. /\ file \in Seq(Resource) /\ v \in Resource /\ x.state.written = Len(file)
        /\ x.state.digest = file /\ x.target.maxBytes \in Nat
        /\ x.reply.from \in Nat /\ x.reply.upto \in Nat /\ x.reply.upto <= Length[v]
        /\ Length[v] \in Nat /\ Len(file) \in Nat
    BY <2>2, LengthAssumption DEF Described, Response, Target
  <2> DEFINE more == Append(file, v)
  <2>8. /\ more \in Seq(Resource) /\ Len(more) = Len(file) + 1 /\ more[Len(file) + 1] = v
        /\ \A i \in 1..Len(file) : more[i] = file[i]
    BY <2>7
  <2>9. Len(more) <= Length[v]
    BY <1>1, <2>7, <2>8 DEF Got, Expected
  <2>10. \A i \in 1..Len(more) : i \in 1..Len(file) \/ i = Len(file) + 1
    BY <2>7, <2>8
  <2>11. OfVersion(more, v)
    BY <2>2, <2>8, <2>9, <2>10 DEF Reading, OfVersion
  <2>12. Len(more) <= x.target.maxBytes
    BY <1>3, <2>7, <2>8
  <2> HIDE DEF more
  <2>13. Described(y, more)
    BY <2>4, <2>5, <2>7, <2>8, <2>12 DEF Described, more
  <2>14. Reading(y, more)
    BY <2>2, <2>4, <2>5, <2>11 DEF Reading
  <2>15. Content(y, staging'[d])
    BY <2>2, <2>4, <2>5, <2>6, <2>13, <2>14 DEF Content, Staged, Unpublished, more
  <2> QED BY <1>1, <2>1, <2>5, <2>6, <2>15, OneContent
<1> QED BY <1>2, <1>3 DEF WriteBlock

\* EndBody: what was read is enough.
LEMMA EndBodyContent ==
  ASSUME ContentInv, DownloadInv', NEW d \in Downloads, EndBody(d)
  PROVE  ContentInv'
<1> DEFINE x == downloads[d]
           y == downloads'[d]
<1>1. /\ UNCHANGED <<staging, destination>> /\ x.pc = "body"
  BY DEF EndBody, At
<1>2. CASE Abandon(d, "response")
  <2>1. x.pc \in Unpublished
    BY <1>1 DEF Unpublished
  <2> QED BY <1>1, <1>2, <2>1, AbandonContent
<1>3. CASE /\ x.state.total \in {NoLength, x.state.written}
           /\ downloads' = [downloads EXCEPT ![d].pc = "sync", ![d].reply = NoFile]
  <2>1. DOMAIN x = Fields /\ Content(x, staging[d]) /\ x.published = NoFile
    BY <1>1, ContentFacts DEF Unpublished
  <2>2. /\ Described(x, staging[d]) /\ Reading(x, staging[d])
        /\ x.target \in Target /\ DOMAIN x.state = StateFields
    BY <1>1, <2>1 DEF Content, Staged, Unpublished
  <2>3. Received(x, staging[d])
    <3>1. x.reply.version \in Resource
      BY <2>2 DEF Reading, Response
    <3> QED BY <1>3, <2>2, <3>1 DEF Received, Reading, Described
  <2>4. /\ DOMAIN downloads' = Downloads
        /\ \A q \in Downloads \ {d} : downloads'[q] = downloads[q]
        /\ y.pc = "sync" /\ y.target = x.target /\ y.state = x.state /\ y.published = NoFile
    BY <1>3, <2>1 DEF Downloads, Fields
  <2>5. Described(y, staging[d]) /\ Received(y, staging[d])
    BY <2>2, <2>3, <2>4, SameContent
  <2>6. Content(y, staging'[d])
    BY <1>1, <2>2, <2>4, <2>5 DEF Content, Staged, Unpublished
  <2> QED BY <1>1, <2>1, <2>4, <2>6, OneContent
<1> QED BY <1>2, <1>3 DEF EndBody

\* Sync: the checksum, when one is expected, is that of the whole version.
LEMMA SyncContent ==
  ASSUME ContentInv, DownloadInv', NEW d \in Downloads, Sync(d)
  PROVE  ContentInv'
<1> DEFINE x == downloads[d]
           y == downloads'[d]
           e == x.target.expected
<1>1. /\ UNCHANGED <<staging, destination>> /\ x.pc = "sync"
  BY DEF Sync, At
<1>2. CASE Abandon(d, "checksum")
  <2>1. x.pc \in Unpublished
    BY <1>1 DEF Unpublished
  <2> QED BY <1>1, <1>2, <2>1, AbandonContent
<1>3. CASE (e # Anything => x.state.digest = Whole(e)) /\ Move(d, "publish")
  <2>1. Content(x, staging[d])
    BY ContentFacts
  <2>2. Described(x, staging[d]) /\ Received(x, staging[d]) /\ x.target \in Target
    BY <1>1, <2>1 DEF Content, Staged, Unpublished
  <2>3. Verified(x, staging[d])
    <3>1. CASE e = Anything
      BY <2>2, <3>1 DEF Received, Verified
    <3>2. CASE e # Anything
      <4>1. e \in Resource /\ Length[e] \in Nat
        BY <2>2, <3>2, LengthAssumption DEF Target
      <4>2. staging[d] = [i \in 1..Length[e] |-> e]
        BY <1>3, <2>2, <3>2 DEF Described, Whole
      <4>3. Len(staging[d]) = Length[e] /\ \A i \in 1..Len(staging[d]) : staging[d][i] = e
        BY <4>1, <4>2
      <4> QED BY <4>1, <4>3 DEF Verified, OfVersion
    <3> QED BY <3>1, <3>2
  <2>4. /\ DOMAIN downloads' = Downloads
        /\ \A q \in Downloads \ {d} : downloads'[q] = downloads[q]
        /\ y.pc = "publish" /\ y.target = x.target /\ y.state = x.state
        /\ y.published = x.published
    BY <1>3, MoveContent
  <2>5. Content(y, staging'[d])
    BY <1>1, <2>1, <2>3, <2>4, QuietContent
  <2> QED BY <1>1, <2>4, <2>5, OneContent
<1> QED BY <1>2, <1>3 DEF Sync

\* CutBody: the part is kept if it can be resumed.
LEMMA CutContent ==
  ASSUME ContentInv, DownloadInv', NEW d \in Downloads, CutBody(d)
  PROVE  ContentInv'
<1> DEFINE x == downloads[d]
           file == staging[d]
<1>1. destination' = destination /\ x.pc = "body" /\ x.pc \in Unpublished
  BY DEF CutBody, At, Unpublished
<1>2. Content(x, file) /\ DOMAIN staging = Downloads
  BY ContentFacts
<1>3. CASE \E error \in {"transport", "write"} : Abandon(d, error) /\ UNCHANGED staging
  BY <1>1, <1>3, AbandonContent
<1>4. CASE Resumed(d) /\ Retry(d, x.state) /\ UNCHANGED staging
  <2>1. Described(x, file) /\ Reading(x, file)
    BY <1>1, <1>2 DEF Content, Staged, Unpublished
  <2>2. x.target.resume /\ x.state.written > 0 /\ x.state.etag # NoTag
    BY <1>4 DEF Resumed
  <2>3. x.state.etag = x.reply.version /\ x.reply.version \in Resource
    BY <2>1, <2>2 DEF Reading, Response
  <2>4. Resumable(x, file)
    BY <2>1, <2>2, <2>3 DEF Reading, Resumable
  <2> QED BY <1>1, <1>4, <2>1, <2>4, RetryContent
<1>5. CASE Retry(d, Fresh) /\ staging' = [staging EXCEPT ![d] = <<>>]
  <2>1. /\ staging'[d] = <<>>
        /\ \A q \in Downloads \ {d} : staging'[q] = staging[q]
    BY <1>2, <1>5
  <2> QED BY <1>1, <1>5, <2>1, RetryContent
<1> QED BY <1>3, <1>4, <1>5 DEF CutBody

\* The attempts that end before a body is read.
LEMMA SendContent ==
  ASSUME ContentInv, DownloadInv', NEW d \in Downloads, SendFails(d) \/ RefuseReply(d)
  PROVE  ContentInv'
<1> DEFINE x == downloads[d]
<1>1. /\ UNCHANGED <<staging, destination>> /\ x.pc \in {"send", "reply"}
      /\ x.pc \in Unpublished
      /\ \/ Retry(d, x.state)
         \/ \E error \in {"transport", "status", "response"} : Abandon(d, error)
  BY DEF SendFails, RefuseReply, RetryOrEnd, At, Unpublished
<1>2. Content(x, staging[d])
  BY ContentFacts
<1>3. Described(x, staging[d]) /\ Resumable(x, staging[d])
  BY <1>1, <1>2 DEF Content, Staged, Unpublished
<1>4. CASE Retry(d, x.state)
  BY <1>1, <1>3, <1>4, RetryContent
<1>5. CASE \E error \in {"transport", "status", "response"} : Abandon(d, error)
  BY <1>1, <1>5, AbandonContent
<1> QED BY <1>1, <1>4, <1>5

\* The steps before the first attempt.
LEMMA BeginContent ==
  ASSUME ContentInv, DownloadInv', NEW d \in Downloads, CheckDestination(d) \/ CreateStaging(d)
  PROVE  ContentInv'
<1> DEFINE x == downloads[d]
           y == downloads'[d]
<1>1. /\ destination' = destination /\ x.pc \in {"start", "create"}
      /\ (CheckDestination(d) => x.pc = "start")
      /\ \A q \in Downloads \ {d} : staging'[q] = staging[q]
  BY ContentFacts DEF CheckDestination, CreateStaging, At
<1>2. /\ DOMAIN x = Fields /\ Content(x, staging[d]) /\ x.published = NoFile
      /\ DOMAIN staging = Downloads
  BY <1>1, ContentFacts DEF Unpublished
<1>3. ASSUME NEW error, downloads' = [downloads EXCEPT ![d].pc = "failed", ![d].error = error]
      PROVE  ContentInv'
  <2>1. /\ DOMAIN downloads' = Downloads
        /\ \A q \in Downloads \ {d} : downloads'[q] = downloads[q]
        /\ y.pc = "failed" /\ y.target = x.target /\ y.state = x.state
        /\ y.published = x.published
    BY <1>2, <1>3 DEF Downloads, Fields
  <2>2. Content(y, staging'[d])
    BY <1>2, <2>1, QuietContent
  <2> QED BY <1>1, <2>1, <2>2, OneContent
<1>4. CASE Move(d, "create") /\ CheckDestination(d)
  <2>1. /\ DOMAIN downloads' = Downloads
        /\ \A q \in Downloads \ {d} : downloads'[q] = downloads[q]
        /\ y.pc = "create" /\ y.target = x.target /\ y.state = x.state
        /\ y.published = x.published
    BY <1>4, MoveContent
  <2>2. Content(y, staging'[d])
    BY <1>1, <1>2, <1>4, <2>1, QuietContent
  <2> QED BY <1>1, <2>1, <2>2, OneContent
<1>5. CASE Move(d, "send") /\ staging' = [staging EXCEPT ![d] = <<>>]
  <2>1. /\ DOMAIN downloads' = Downloads
        /\ \A q \in Downloads \ {d} : downloads'[q] = downloads[q]
        /\ y.pc = "send" /\ y.target = x.target /\ y.state = x.state
        /\ y.published = NoFile
    BY <1>2, <1>5, MoveContent
  <2>2. x.state = Fresh /\ x.target \in Target /\ x.target.maxBytes \in Nat
    BY <1>1, <1>2 DEF Content, Target
  <2>3. Fresh.digest = <<>> /\ Fresh.written = 0 /\ DOMAIN Fresh = StateFields
    BY DEF Fresh, StateFields
  <2>4. Described(y, <<>>) /\ Resumable(y, <<>>)
    BY <2>1, <2>2, <2>3 DEF Described, Resumable
  <2>5. staging'[d] = <<>>
    BY <1>2, <1>5
  <2>6. Content(y, staging'[d])
    BY <2>1, <2>2, <2>3, <2>4, <2>5 DEF Content, Staged, Unpublished
  <2> QED BY <1>1, <1>2, <2>1, <2>6, OneContent
<1> QED BY <1>3, <1>4, <1>5 DEF CheckDestination, CreateStaging

\* The publication, by link or rename, and its failures.
LEMMA PublishingContent ==
  ASSUME ContentInv, DownloadInv', NEW d \in Downloads,
         Link(d) \/ Rename(d) \/ RemoveDestination(d) \/ RenameAgain(d)
  PROVE  ContentInv'
<1> DEFINE x == downloads[d]
           y == downloads'[d]
<1>1. /\ x.pc \in {"publish", "replace", "rename again"} /\ x.pc \in Unpublished
      /\ (Rename(d) => x.pc = "publish") /\ (RemoveDestination(d) => x.pc = "replace")
  BY DEF Link, Rename, RemoveDestination, RenameAgain, At, Unpublished
<1>2. Content(x, staging[d]) /\ DOMAIN staging = Downloads
  BY ContentFacts
<1>3. CASE Abandon(d, "write") /\ UNCHANGED <<staging, destination>>
  BY <1>1, <1>3, AbandonContent
<1>4. CASE downloads' = [Published(d) EXCEPT ![d].pc = "unlink"] /\ destination' = staging[d]
           /\ UNCHANGED staging
  BY <1>1, <1>4, PublishContent
<1>5. CASE RenameNow(d)
  <2>1. \A q \in Downloads \ {d} : staging'[q] = staging[q]
    BY <1>2, <1>5 DEF RenameNow
  <2> QED BY <1>1, <1>5, <2>1, PublishContent DEF RenameNow
<1>6. ASSUME NEW place \in {"replace", "rename again"}, Move(d, place),
             x.pc \in {"publish", "replace"}, destination' \in {destination, NoFile},
             UNCHANGED staging
      PROVE  ContentInv'
  <2>1. /\ DOMAIN downloads' = Downloads
        /\ \A q \in Downloads \ {d} : downloads'[q] = downloads[q]
        /\ y.pc = place /\ y.target = x.target /\ y.state = x.state
        /\ y.published = x.published
    BY <1>6, MoveContent
  <2>2. Content(y, staging'[d])
    BY <1>2, <1>6, <2>1, QuietContent
  <2> QED BY <1>6, <2>1, <2>2, OneContent
<1>7. CASE Link(d)
  BY <1>3, <1>4, <1>7 DEF Link
<1>8. CASE Rename(d)
  BY <1>1, <1>3, <1>5, <1>6, <1>8 DEF Rename
<1>9. CASE RemoveDestination(d)
  BY <1>1, <1>3, <1>6, <1>9 DEF RemoveDestination
<1>10. CASE RenameAgain(d)
  BY <1>3, <1>5, <1>10 DEF RenameAgain
<1> QED BY <1>7, <1>8, <1>9, <1>10

\* The ends of a download.
LEMMA EndingContent ==
  ASSUME ContentInv, DownloadInv', NEW d \in Downloads,
         Unlink(d) \/ Discard(d) \/ DropDownload(d) \/ RemoveLate(d)
  PROVE  ContentInv'
<1> DEFINE x == downloads[d]
           y == downloads'[d]
<1>1. DOMAIN x = Fields /\ Content(x, staging[d]) /\ DOMAIN staging = Downloads
  BY ContentFacts
<1>2. \A q \in Downloads \ {d} : staging'[q] = staging[q]
  BY <1>1 DEF Unlink, Discard, DropDownload, RemoveLate
<1>3. ASSUME NEW place \in {"done", "failed", "dropped", "removing"}, Move(d, place),
             destination' \in {destination, NoFile}
      PROVE  ContentInv'
  <2>1. /\ DOMAIN downloads' = Downloads
        /\ \A q \in Downloads \ {d} : downloads'[q] = downloads[q]
        /\ y.pc = place /\ y.target = x.target /\ y.state = x.state
        /\ y.published = x.published
    BY <1>3, MoveContent
  <2>2. Content(y, staging'[d])
    BY <1>1, <1>3, <2>1, QuietContent
  <2> QED BY <1>2, <1>3, <2>1, <2>2, OneContent
<1>4. CASE Unlink(d)
  <2>1. CASE Move(d, "done")
    BY <1>3, <1>4, <2>1 DEF Unlink
  <2>2. CASE downloads' = [downloads EXCEPT ![d].pc = "discard", ![d].error = "cleanup"]
    <3>1. /\ DOMAIN downloads' = Downloads
          /\ \A q \in Downloads \ {d} : downloads'[q] = downloads[q]
          /\ y.pc = "discard" /\ y.target = x.target /\ y.state = x.state
          /\ y.published = x.published
      BY <1>1, <2>2 DEF Downloads, Fields
    <3>2. Content(y, staging'[d])
      BY <1>1, <3>1, QuietContent
    <3> QED BY <1>2, <1>4, <3>1, <3>2, OneContent DEF Unlink
  <2> QED BY <1>4, <2>1, <2>2 DEF Unlink
<1>5. CASE Discard(d)
  BY <1>3, <1>5 DEF Discard
<1>6. CASE RemoveLate(d)
  BY <1>3, <1>6 DEF RemoveLate
<1>7. CASE DropDownload(d)
  <2>1. CASE \E place \in {"removing", "dropped"} : Move(d, place) /\ UNCHANGED destination
    BY <1>3, <2>1
  <2>2. CASE /\ x.pc \in {"publish", "rename again"} /\ destination' = staging[d]
             /\ downloads' = [Published(d) EXCEPT ![d].pc = "dropped"]
    BY <1>2, <2>2, PublishContent
  <2> QED BY <1>7, <2>1, <2>2 DEF DropDownload, At
<1> QED BY <1>4, <1>5, <1>6, <1>7

\* Every step keeps what is said of the files: one case for each action.
LEMMA ContentStep == ContentInv /\ [DownloadNext]_downloadVars => ContentInv'
<1> SUFFICES ASSUME ContentInv, [DownloadNext]_downloadVars PROVE ContentInv'
  OBVIOUS
<1>1. DownloadInv'
  BY DownloadStep DEF ContentInv
<1>2. CASE UNCHANGED <<downloads, staging, destination>>
  <2>1. Downloads' = Downloads /\ Publications' = Publications
    BY <1>2 DEF Downloads, Publications
  <2>2. \A d \in Downloads : Content(downloads[d], staging[d])'
    BY <1>2, <2>1 DEF ContentInv
  <2> QED BY <1>1, <1>2, <2>1, <2>2 DEF ContentInv
<1>3. ASSUME NEW d \in Downloads, WriteFails(d) PROVE ContentInv'
  <2>1. /\ UNCHANGED <<staging, destination>> /\ Abandon(d, "write")
        /\ downloads[d].pc \in Unpublished
    BY <1>3 DEF WriteFails, At, Unpublished
  <2> QED BY <1>1, <2>1, AbandonContent
<1>4. CASE \E d \in Downloads :
             \/ CheckDestination(d) \/ CreateStaging(d)
             \/ SendFails(d) \/ Receive(d) \/ RefuseReply(d)
             \/ AcceptRange(d) \/ AcceptWhole(d)
             \/ WriteBlock(d) \/ CutBody(d) \/ WriteFails(d) \/ EndBody(d) \/ Sync(d)
             \/ Link(d) \/ Unlink(d)
             \/ Rename(d) \/ RemoveDestination(d) \/ RenameAgain(d)
             \/ Discard(d) \/ DropDownload(d) \/ RemoveLate(d)
  BY <1>1, <1>3, <1>4, BeginContent, SendContent, ReceiveContent, AcceptRangeContent,
     AcceptWholeContent, WriteBlockContent, CutContent, EndBodyContent, SyncContent,
     PublishingContent, EndingContent
<1>5. ChangeContent => UNCHANGED <<downloads, staging, destination>>
  BY DEF ChangeContent
<1>6. UNCHANGED downloadVars => UNCHANGED <<downloads, staging, destination>>
  BY DEF downloadVars
<1> QED BY <1>2, <1>4, <1>5, <1>6 DEF DownloadNext

\* Nothing was written.
LEMMA ContentStarts == DownloadInit => ContentInv
<1> SUFFICES ASSUME DownloadInit PROVE ContentInv
  OBVIOUS
<1>1. PICK targets \in Workloads :
       downloads = [d \in DOMAIN targets |->
         [pc |-> "start", target |-> targets[d], state |-> Fresh, attempt |-> 1,
          reply |-> NoFile, published |-> NoFile, error |-> "none"]]
  BY DEF DownloadInit
<1>2. targets \in Seq(Target)
  BY WorkloadsAreLegal
<1>3. DOMAIN Fresh = StateFields
  BY DEF Fresh, StateFields
<1>4. ASSUME NEW d \in Downloads PROVE Content(downloads[d], staging[d])
  <2>1. d \in DOMAIN targets /\ targets[d] \in Target
    BY <1>1, <1>2 DEF Downloads
  <2>2. /\ downloads[d].pc = "start" /\ downloads[d].target = targets[d]
        /\ downloads[d].state = Fresh /\ downloads[d].published = NoFile
    BY <1>1, <2>1
  <2> QED BY <1>3, <2>1, <2>2 DEF Content, Staged, Unpublished
<1>5. destination \in {NoFile, <<0>>}
  BY DEF DownloadInit
<1> QED BY <1>4, <1>5, DownloadStarts DEF ContentInv

\* What a download publishes is blocks of one version only, however many attempts and
\* changes of the resource it took, whole if a response told the length or a checksum was
\* expected, within the limit, and as the digest reports; and the destination is the old
\* file or a publication (write_download_attempt, persist_download).
THEOREM PublicationsAreComplete == DownloadSpec => []PublishedIsComplete
<1>1. ContentInv => PublishedIsComplete
  <2> SUFFICES ASSUME ContentInv PROVE PublishedIsComplete
    OBVIOUS
  <2>1. ASSUME NEW d \in Downloads, downloads[d].published # NoFile
        PROVE  LET file   == downloads[d].published
                   state  == downloads[d].state
                   target == downloads[d].target
               IN  /\ \E v \in Resource :
                        /\ IsPrefix(file, Whole(v))
                        /\ state.total # NoLength => file = Whole(v)
                        /\ target.expected # Anything => v = target.expected /\ file = Whole(v)
                   /\ Len(file) <= target.maxBytes
                   /\ state.digest = file /\ state.written = Len(file)
    <3> DEFINE file == downloads[d].published
    <3>1. Described(downloads[d], file) /\ Verified(downloads[d], file)
      BY <2>1 DEF ContentInv, Content
    <3>2. PICK v \in Resource :
            /\ OfVersion(file, v)
            /\ downloads[d].state.total # NoLength => Len(file) = Length[v]
            /\ downloads[d].target.expected # Anything =>
                 v = downloads[d].target.expected /\ Len(file) = Length[v]
      BY <3>1 DEF Verified
    <3>3. file \in Seq(Resource) /\ Length[v] \in Nat
      BY <3>1, LengthAssumption DEF Described
    <3> HIDE DEF file
    <3>4. Whole(v) \in Seq(Resource) /\ Len(Whole(v)) = Length[v]
      BY <3>3 DEF Whole
    <3>5. IsPrefix(file, Whole(v))
      <4>1. Len(file) \in Nat /\ Len(file) <= Length[v] /\ \A i \in 1..Len(file) : file[i] = v
        BY <3>2, <3>3 DEF OfVersion
      <4>2. \A i \in 1..Len(file) : Whole(v)[i] = v
        BY <3>3, <4>1 DEF Whole
      <4>3. SubSeq(file, 1, Len(file)) = SubSeq(Whole(v), 1, Len(file))
        BY <3>3, <3>4, <4>1, <4>2
      <4> QED BY <3>4, <4>1, <4>3 DEF IsPrefix
    <3>6. Len(file) = Length[v] => file = Whole(v)
      BY <3>2, <3>3 DEF OfVersion, Whole
    <3> QED BY <3>1, <3>2, <3>5, <3>6 DEF Described, file
  <2>2. destination \in {NoFile, <<0>>} \cup {downloads[d].published : d \in Downloads}
    BY DEF ContentInv, Publications
  <2> QED BY <2>1, <2>2 DEF PublishedIsComplete
<1> QED BY <1>1, ContentStarts, ContentStep, PTL DEF DownloadSpec

-----------------------------------------------------------------------------
(* An upload                                                               *)

Contents == Seq(Nat)

Execution ==
  [pc : {"length", "hash", "send", "rehash", "done", "failed"}, length : Nat,
   read : Contents, sha256 : Contents, attempt : Nat, delivered : Contents,
   error : {"none", "too large", "checksum", "transport", "file"}]

UploadType == source \in Contents /\ stamp \in Nat /\ upload \in Execution

\* Content s was read before t: it is no longer, and no block of it is younger.
Before(s, t) == Len(s) <= Len(t) /\ \A i \in 1..Len(s) : s[i] <= t[i]

\* As much of s as t has was read before.
StartBefore(s, t) == \A i \in 1..Len(t) : i <= Len(s) => s[i] <= t[i]

StampsAreUsedOnce == \A i \in 1..Len(source) : source[i] <= stamp

ReadInOrder ==
  /\ Before(upload.read, source)
  /\ Before(upload.sha256, source)
  /\ Before(upload.delivered, source)
  /\ ~InPhase("failed") => upload.length <= Len(source)
  /\ InPhase("send") =>
       /\ upload.length <= Len(upload.sha256) /\ Len(upload.read) <= upload.length
       /\ StartBefore(upload.sha256, upload.read)
  /\ InPhase("rehash") \/ InPhase("done") =>
       /\ upload.length <= Len(upload.sha256) /\ Len(upload.delivered) = upload.length
       /\ StartBefore(upload.sha256, upload.delivered)
  /\ InPhase("rehash") => StartBefore(upload.delivered, upload.read)
  /\ InPhase("done") =>
       \A i \in 1..upload.length : upload.delivered[i] = upload.sha256[i]

UploadInv == UploadType /\ StampsAreUsedOnce /\ ReadInOrder

-----------------------------------------------------------------------------

\* A reading that goes on by one block stays behind the file.
LEMMA ReadMore ==
  ASSUME NEW s \in Contents, NEW t \in Contents, Before(s, t), Len(s) < Len(t)
  PROVE  LET u == Append(s, t[Len(s) + 1]) IN
         /\ u \in Contents /\ Len(u) = Len(s) + 1
         /\ \A i \in 1..Len(s) : u[i] = s[i]
         /\ u[Len(s) + 1] = t[Len(s) + 1]
         /\ Before(u, t)
BY DEF Contents, Before

\* Nothing was read.
LEMMA UploadStarts == UploadInit => UploadInv
BY UploadAssumption DEF UploadInit, UploadInv, UploadType, Execution, StampsAreUsedOnce, ReadInOrder, Contents,
   Before, StartBefore, InPhase

\* A failure leaves the contents as they are.
LEMMA FailureKeeps ==
  ASSUME UploadInv, NEW error \in {"too large", "checksum", "transport", "file"},
         Fails(error), UNCHANGED <<source, stamp>>
  PROVE  UploadInv'
<1>1. /\ upload' \in Execution /\ upload'.pc = "failed"
      /\ upload'.read = upload.read /\ upload'.sha256 = upload.sha256
      /\ upload'.delivered = upload.delivered
  BY DEF Fails, UploadInv, UploadType, Execution
<1> QED BY <1>1 DEF UploadInv, UploadType, StampsAreUsedOnce, ReadInOrder, InPhase

\* A step of the upload leaves the file alone.
LEMMA UploadSteps ==
  ASSUME UploadInv, Measure \/ HashBlock \/ HashEnds \/ RehashEnds
                    \/ SendBlock \/ Accepted \/ AttemptFails \/ FileFails
  PROVE  UploadInv'
<1> DEFINE Failing == \E error \in {"too large", "checksum", "transport", "file"} : Fails(error)
<1>0. CASE Failing
  <2>1. UNCHANGED <<source, stamp>>
    BY DEF Measure, HashBlock, HashEnds, RehashEnds, SendBlock, Accepted, AttemptFails, FileFails
  <2> QED BY <1>0, <2>1, FailureKeeps
<1> SUFFICES ASSUME ~Failing PROVE UploadInv'
  BY <1>0
<1> HIDE DEF Failing
<1>1. /\ source \in Contents /\ stamp \in Nat /\ upload \in Execution
      /\ UNCHANGED <<source, stamp>>
      /\ \A i \in 1..Len(source) : source[i] <= stamp
  BY DEF UploadInv, UploadType, StampsAreUsedOnce, Measure, HashBlock, HashEnds, RehashEnds,
     SendBlock, Accepted, AttemptFails, FileFails
<1>2. /\ <<>> \in Contents /\ Len(<<>>) = 0 /\ Len(source) \in Nat
      /\ upload.read \in Contents /\ Len(upload.read) \in Nat
      /\ upload.sha256 \in Contents /\ upload.delivered \in Contents
      /\ upload.length \in Nat /\ upload.attempt \in Nat /\ upload.attempt + 1 \in Nat
  <2>1. /\ upload.read \in Contents /\ upload.sha256 \in Contents /\ upload.delivered \in Contents
        /\ upload.length \in Nat /\ upload.attempt \in Nat
    BY <1>1 DEF Execution
  <2>2. <<>> \in Contents /\ Len(<<>>) = 0
    BY DEF Contents
  <2>3. \A s \in Contents : Len(s) \in Nat
    BY DEF Contents
  <2> QED BY <1>1, <2>1, <2>2, <2>3
<1>3. CASE Measure
  <2>1. /\ upload' \in Execution /\ upload'.pc = "hash" /\ upload'.length = Len(source)
        /\ upload'.read = upload.read /\ upload'.sha256 = upload.sha256
        /\ upload'.delivered = upload.delivered
    <3> DEFINE n == Len(source)
    <3>1. n \in Nat
      BY <1>2
    <3>2. upload' = [upload EXCEPT !.pc = "hash", !.length = n]
      BY <1>3 DEF Measure, Failing
    <3> HIDE DEF n
    <3>3. /\ upload' \in Execution /\ upload'.pc = "hash" /\ upload'.length = n
          /\ upload'.read = upload.read /\ upload'.sha256 = upload.sha256
          /\ upload'.delivered = upload.delivered
      BY <1>1, <3>1, <3>2 DEF Execution
    <3> QED BY <3>3 DEF n
  <2> QED BY <1>1, <1>2, <2>1 DEF UploadInv, UploadType, StampsAreUsedOnce, ReadInOrder, InPhase
<1>4. CASE HashBlock \/ SendBlock
  <2> DEFINE u == Append(upload.read, source[Len(upload.read) + 1])
  <2>1. /\ upload' = [upload EXCEPT !.read = u]
        /\ InPhase("hash") \/ InPhase("rehash") \/ InPhase("send")
        /\ Len(upload.read) < Len(source)
        /\ InPhase("send") => Len(upload.read) < upload.length
    BY <1>4 DEF HashBlock, SendBlock, More, ReadOn, InPhase, Failing
  <2>2. /\ u \in Contents /\ Len(u) = Len(upload.read) + 1
        /\ \A i \in 1..Len(upload.read) : u[i] = upload.read[i]
        /\ u[Len(upload.read) + 1] = source[Len(upload.read) + 1]
        /\ Before(u, source)
    BY <1>1, <2>1, ReadMore DEF UploadInv, ReadInOrder, Execution
  <2> HIDE DEF u
  <2>3. /\ upload' \in Execution /\ upload'.read = u
        /\ upload'.pc = upload.pc /\ upload'.length = upload.length
        /\ upload'.sha256 = upload.sha256 /\ upload'.delivered = upload.delivered
    BY <1>1, <2>1, <2>2 DEF Execution
  <2>4. ASSUME NEW s \in Contents, Before(s, source), StartBefore(s, upload.read)
        PROVE  StartBefore(s, u)
    <3>1. /\ s \in Seq(Nat) /\ source \in Seq(Nat) /\ u \in Seq(Nat) /\ upload.read \in Seq(Nat)
          /\ Len(s) \in Nat /\ Len(upload.read) \in Nat
      BY <1>1, <1>2, <2>2 DEF Contents
    <3> SUFFICES ASSUME NEW i \in 1..Len(u), i <= Len(s) PROVE s[i] <= u[i]
      BY DEF StartBefore
    <3>2. CASE i \in 1..Len(upload.read)
      BY <2>2, <2>4, <3>2 DEF StartBefore
    <3>3. CASE i = Len(upload.read) + 1
      <4>1. i \in 1..Len(s)
        BY <3>1
      <4>2. u[i] = source[i] /\ s[i] <= source[i]
        BY <2>2, <2>4, <3>3, <4>1 DEF Before
      <4> QED BY <4>2
    <3>4. Len(u) = Len(upload.read) + 1
      BY <2>2
    <3>5. i \in 1..Len(upload.read) \/ i = Len(upload.read) + 1
      BY <3>1, <3>4
    <3> QED BY <3>2, <3>3, <3>5
  <2>5. /\ Before(upload.sha256, source) /\ Before(upload.delivered, source)
        /\ upload.sha256 \in Contents /\ upload.delivered \in Contents
        /\ upload.length \in Nat /\ upload.read \in Contents
    BY <1>1 DEF UploadInv, ReadInOrder, Execution
  <2>6. ReadInOrder'
    BY SMTT(30), <1>1, <2>1, <2>2, <2>3, <2>4, <2>5 DEF UploadInv, ReadInOrder, InPhase, Contents
  <2> QED BY <1>1, <2>3, <2>6 DEF UploadInv, UploadType, StampsAreUsedOnce
<1>5. CASE HashEnds
  <2>1. /\ upload' \in Execution /\ upload'.pc = "send" /\ upload'.length = upload.length
        /\ upload'.read = <<>> /\ upload'.sha256 = upload.read
        /\ upload'.delivered = upload.delivered
    BY <1>1, <1>2, <1>5 DEF HashEnds, Execution
  <2>2. Len(upload.read) = Len(source) /\ upload.pc = "hash"
    BY <1>2, <1>5 DEF HashEnds, More, InPhase, UploadInv, ReadInOrder, Before
  <2>3. Before(<<>>, source) /\ StartBefore(upload.read, <<>>)
    BY <1>2 DEF Before, StartBefore
  <2>4. /\ Before(upload.read, source) /\ Before(upload.delivered, source)
        /\ upload.length <= Len(upload.read)
    BY <2>2 DEF UploadInv, ReadInOrder, InPhase
  <2>5. ReadInOrder'
    BY <1>1, <1>2, <2>1, <2>2, <2>3, <2>4 DEF ReadInOrder, InPhase
  <2> QED BY <1>1, <2>1, <2>5 DEF UploadInv, UploadType, StampsAreUsedOnce
<1>6. CASE RehashEnds
  <2>1. /\ upload' \in Execution /\ upload'.pc = "done" /\ upload'.length = upload.length
        /\ upload'.read = upload.read /\ upload'.sha256 = upload.sha256
        /\ upload'.delivered = upload.delivered
        /\ upload.read = upload.sha256 /\ upload.pc = "rehash"
    BY <1>1, <1>6 DEF RehashEnds, Execution, InPhase, Failing
  <2>2. /\ upload.length <= Len(upload.sha256) /\ Len(upload.delivered) = upload.length
        /\ StartBefore(upload.sha256, upload.delivered)
        /\ StartBefore(upload.delivered, upload.sha256)
    BY <2>1 DEF UploadInv, ReadInOrder, InPhase
  <2>3. \A i \in 1..upload.length : upload.delivered[i] = upload.sha256[i]
    <3> SUFFICES ASSUME NEW i \in 1..upload.length
                 PROVE  upload.delivered[i] = upload.sha256[i]
      OBVIOUS
    <3>1. /\ upload.length \in Nat /\ upload.delivered \in Seq(Nat) /\ upload.sha256 \in Seq(Nat)
      BY <1>1 DEF Execution, Contents
    <3>2. /\ i \in 1..Len(upload.delivered) /\ i \in 1..Len(upload.sha256)
      BY <2>2, <3>1
    <3>3. /\ upload.sha256[i] <= upload.delivered[i] /\ upload.delivered[i] <= upload.sha256[i]
      BY <2>2, <3>1, <3>2 DEF StartBefore
    <3>4. upload.sha256[i] \in Nat /\ upload.delivered[i] \in Nat
      BY SMTT(30), <3>1, <3>2
    <3> QED BY <3>3, <3>4
  <2> QED BY <1>1, <2>1, <2>2, <2>3
          DEF UploadInv, UploadType, StampsAreUsedOnce, ReadInOrder, InPhase
<1>7. CASE Accepted
  <2>1. /\ upload' \in Execution /\ upload'.pc = "rehash" /\ upload'.length = upload.length
        /\ upload'.read = <<>> /\ upload'.sha256 = upload.sha256
        /\ upload'.delivered = upload.read
        /\ upload.pc = "send" /\ Len(upload.read) = upload.length
    BY <1>1, <1>2, <1>7 DEF Accepted, Execution, InPhase
  <2>2. Before(<<>>, source) /\ StartBefore(upload.read, <<>>)
    BY <1>1, <1>2 DEF Before, StartBefore, Contents
  <2> QED BY <1>1, <2>1, <2>2
          DEF UploadInv, UploadType, StampsAreUsedOnce, ReadInOrder, InPhase
<1>8. CASE AttemptFails
  <2>1. /\ upload' \in Execution /\ upload'.pc = "send" /\ upload'.length = upload.length
        /\ upload'.read = <<>> /\ upload'.sha256 = upload.sha256
        /\ upload'.delivered = upload.delivered /\ upload.pc = "send"
    <3> DEFINE n == upload.attempt + 1
    <3>1. /\ upload' = [[upload EXCEPT !.attempt = n] EXCEPT !.read = <<>>]
          /\ upload.pc = "send"
      BY <1>1, <1>8 DEF AttemptFails, InPhase, Failing, Execution
    <3>2. n \in Nat
      BY <1>2
    <3> HIDE DEF n
    <3> QED BY <1>1, <1>2, <3>1, <3>2 DEF Execution
  <2>2. Before(<<>>, source) /\ StartBefore(upload.sha256, <<>>)
    BY <1>1, <1>2 DEF Before, StartBefore, Contents
  <2>3. upload.length \in Nat /\ Len(<<>>) = 0
    BY <1>1 DEF Execution
  <2> QED BY <1>1, <2>1, <2>2, <2>3
          DEF UploadInv, UploadType, StampsAreUsedOnce, ReadInOrder, InPhase
<1>9. ~FileFails
  BY DEF FileFails, Failing
<1> QED BY <1>3, <1>4, <1>5, <1>6, <1>7, <1>8, <1>9

\* A write gives a block a stamp above every one in use.
LEMMA WriteStep ==
  ASSUME UploadInv, WriteSource
  PROVE  UploadInv'
<1>1. /\ source \in Contents /\ stamp \in Nat /\ upload \in Execution
      /\ \A i \in 1..Len(source) : source[i] <= stamp
      /\ stamp' = stamp + 1 /\ upload' = upload
  BY DEF UploadInv, UploadType, StampsAreUsedOnce, WriteSource
<1>2. /\ source' \in Contents /\ Before(source, source')
      /\ \A i \in 1..Len(source') : source'[i] <= stamp'
  <2>1. CASE \E i \in DOMAIN source : source' = [source EXCEPT ![i] = stamp + 1]
    BY <1>1, <2>1 DEF Contents, Before
  <2>2. CASE source' = Append(source, stamp + 1)
    BY <1>1, <2>2 DEF Contents, Before
  <2> QED BY <2>1, <2>2 DEF WriteSource
<1>3. ASSUME NEW s \in Contents, Before(s, source)
      PROVE  Before(s, source')
  <2>1. Len(s) \in Nat /\ Len(source) \in Nat /\ Len(source') \in Nat
    BY <1>1, <1>2 DEF Contents
  <2>2. Len(s) <= Len(source') /\ Len(s) <= Len(source)
    BY <1>2, <1>3, <2>1 DEF Before
  <2>3. ASSUME NEW i \in 1..Len(s)
        PROVE  s[i] <= source'[i]
    <3>1. i \in 1..Len(source) /\ i \in 1..Len(source')
      BY <2>1, <2>2
    <3>2. s[i] <= source[i] /\ source[i] <= source'[i]
      BY <1>2, <1>3, <3>1 DEF Before
    <3>3. s[i] \in Nat /\ source[i] \in Nat /\ source'[i] \in Nat
      BY SMTT(30), <1>1, <1>2, <3>1 DEF Contents
    <3> QED BY <3>2, <3>3
  <2> QED BY <2>2, <2>3 DEF Before
<1>4. ReadInOrder'
  <2>1. /\ upload.read \in Contents /\ upload.sha256 \in Contents /\ upload.delivered \in Contents
        /\ upload.length \in Nat
    BY <1>1 DEF Execution
  <2>2. Len(source) <= Len(source') /\ Len(source) \in Nat /\ Len(source') \in Nat
    BY <1>1, <1>2 DEF Before, Contents
  <2> QED BY <1>1, <1>3, <2>1, <2>2 DEF UploadInv, ReadInOrder, InPhase
<1> QED BY <1>1, <1>2, <1>4 DEF UploadInv, UploadType, StampsAreUsedOnce

\* Every step of the upload, or of the writer, keeps the invariant.
LEMMA UploadInduction == UploadInv /\ [UploadNext]_uploadVars => UploadInv'
<1> SUFFICES ASSUME UploadInv, [UploadNext]_uploadVars PROVE UploadInv'
  OBVIOUS
<1>1. CASE UNCHANGED uploadVars
  BY <1>1 DEF uploadVars, UploadInv, UploadType, StampsAreUsedOnce, ReadInOrder, InPhase
<1> QED BY <1>1, UploadSteps, WriteStep DEF UploadNext

-----------------------------------------------------------------------------

\* When a result reports a digest, the service was sent the content that has it,
\* up to the announced length (upload).
THEOREM UploadsAreAuthentic == UploadSpec => []UploadIsAuthentic
<1>1. UploadInv => UploadIsAuthentic
  <2> SUFFICES ASSUME UploadInv, InPhase("done")
               PROVE  upload.delivered = SubSeq(upload.sha256, 1, upload.length)
    BY DEF UploadIsAuthentic
  <2>1. /\ upload.delivered \in Seq(Nat) /\ upload.sha256 \in Seq(Nat) /\ upload.length \in Nat
        /\ upload.length <= Len(upload.sha256) /\ Len(upload.delivered) = upload.length
        /\ \A i \in 1..upload.length : upload.delivered[i] = upload.sha256[i]
    BY DEF UploadInv, UploadType, ReadInOrder, Execution, Contents
  <2>2. SubSeq(upload.sha256, 1, upload.length) \in Seq(Nat)
    BY <2>1
  <2>3. Len(SubSeq(upload.sha256, 1, upload.length)) = upload.length
    BY <2>1
  <2>4. \A i \in 1..upload.length : SubSeq(upload.sha256, 1, upload.length)[i] = upload.sha256[i]
    BY <2>1
  <2> DEFINE sent == upload.delivered
             read == SubSeq(upload.sha256, 1, upload.length)
  <2>5. /\ sent \in Seq(Nat) /\ read \in Seq(Nat) /\ Len(sent) = Len(read)
        /\ \A i \in 1..Len(sent) : sent[i] = read[i]
    BY <2>1, <2>2, <2>3, <2>4
  <2> HIDE DEF sent, read
  <2>6. sent = read
    BY <2>5
  <2> QED BY <2>6 DEF sent, read
<1> QED BY <1>1, UploadStarts, UploadInduction, PTL DEF UploadSpec
=============================================================================
