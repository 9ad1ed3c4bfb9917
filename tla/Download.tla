------------------------------- MODULE Download -------------------------------
(* Downloads to a file: staging, retries, resumption by Range, checks of   *)
(* every response, publication by link or rename, and removal of the       *)
(* staging file however the download ends.                                 *)
(*                                                                         *)
(* Content is a sequence of blocks, each the version of the resource it    *)
(* belongs to: content of two versions mixed is visible as such. All the   *)
(* downloads of an instance have one destination. File operations run on   *)
(* blocking threads: they finish although the download is dropped.         *)
EXTENDS Integers, Sequences, FiniteSets, FiniteSetsExt, SequencesExt

CONSTANTS
  Workloads,     \* concurrent downloads: sequences of Targets, see below
  Length,        \* blocks in each version of the resource
  NoFile,        \* the destination or a staging file is not there
  NoTag,         \* no strong ETag
  NoLength,      \* no Content-Length, no known total
  Anything,      \* no expected checksum
  MaxChanges     \* bound on the changes of the resource, per instance

Resource  == DOMAIN Length
MaxLength == Max({Length[v] : v \in Resource})
Whole(v) == [i \in 1..Length[v] |-> v]

(* What DownloadTarget and RetryPolicy decide: overwrite, resume, the size *)
(* limit, the version whose checksum is expected, and the attempts.        *)
Target == [overwrite: BOOLEAN, resume: BOOLEAN, maxBytes: Nat,
           expected: Resource \cup {Anything}, attempts: Nat \ {0}]

ASSUME WorkloadsAreLegal == Workloads \subseteq Seq(Target)
ASSUME LengthAssumption == \A v \in Resource : Length[v] \in Nat
ASSUME NoFileAssumption == NoFile \notin Seq(Resource) /\ 1 \in Resource

VARIABLES
  downloads,   \* the executions: their place in the code and DownloadState
  staging,     \* the staging file of each execution
  destination, \* the destination file
  resource,    \* the version the service has now
  failedUnlink \* executions for which a removal of their staging file failed

Downloads == DOMAIN downloads

downloadVars == <<downloads, staging, destination, resource, failedUnlink>>

-----------------------------------------------------------------------------
(* DownloadState: bytes_written, digest, etag, expected_total. The digest  *)
(* is the content it was computed over.                                    *)
Fresh == [written |-> 0, digest |-> <<>>, etag |-> NoTag, total |-> NoLength]

At(d, place) == d \in Downloads /\ downloads[d].pc = place
Over(d)      == downloads[d].pc \in {"done", "failed", "dropped"}

Move(d, place) == downloads' = [downloads EXCEPT ![d].pc = place]

(* The error paths end in discard_download_state; the rest of the state is *)
(* not read again.                                                         *)
Abandon(d, error) ==
  downloads' = [downloads EXCEPT ![d].pc = "discard", ![d].error = error,
                                 ![d].reply = NoFile, ![d].state = Fresh]

DownloadInit ==
  /\ \E targets \in Workloads :
       downloads = [d \in DOMAIN targets |->
         [pc |-> "start", target |-> targets[d], state |-> Fresh, attempt |-> 1,
          reply |-> NoFile, published |-> NoFile, error |-> "none"]]
  /\ staging = [d \in Downloads |-> NoFile]
  /\ destination \in {NoFile, <<0>>}
  /\ resource = 1
  /\ failedUnlink = {}

(* download_authenticated looks at the destination first, unless it may    *)
(* overwrite it; the staging file is created later, with its guard.        *)
CheckDestination(d) ==
  /\ At(d, "start")
  /\ IF ~downloads[d].target.overwrite /\ destination # NoFile
     THEN downloads' = [downloads EXCEPT ![d].pc = "failed", ![d].error = "exists"]
     ELSE Move(d, "create")
  /\ UNCHANGED <<staging, destination, resource, failedUnlink>>

CreateStaging(d) ==
  /\ At(d, "create")
  /\ \/ /\ staging' = [staging EXCEPT ![d] = <<>>]
        /\ Move(d, "send")
     \/ /\ downloads' = [downloads EXCEPT ![d].pc = "failed", ![d].error = "write"]
        /\ UNCHANGED staging
  /\ UNCHANGED <<destination, resource, failedUnlink>>

(* An attempt asks for the rest of the file when the target resumes, bytes *)
(* are there and the earlier response had a strong ETag.                   *)
Resumed(d) ==
  /\ downloads[d].target.resume
  /\ downloads[d].state.written > 0
  /\ downloads[d].state.etag # NoTag

(* Replies of the service: the whole current version; a range of it, which *)
(* may be another than the one asked for; or a retryable status. A strong  *)
(* ETag may be missing, and a 200 may not announce its length. A range     *)
(* says its total.                                                         *)
Replies ==
  LET v    == resource
      tags == {v, NoTag}
  IN  [status: {503}]
      \cup [status: {200}, version: {v}, from: {0}, upto: {Length[v]},
            etag: tags, length: {Length[v], NoLength}]
      \cup {r \in [status: {206}, version: {v}, from: 0..(Length[v] - 1),
                   upto: 1..Length[v], etag: tags, length: {NoLength}] :
              r.from < r.upto}

MayRetry(d) == downloads[d].attempt < downloads[d].target.attempts

Retry(d, state) ==
  downloads' = [downloads EXCEPT ![d].pc = "send", ![d].attempt = @ + 1,
                                 ![d].state = state, ![d].reply = NoFile]

(* send_once_response fails, or the status asks for a retry: the state is  *)
(* kept. The status or the error is the result when no attempt is left,    *)
(* the error is not retryable or Retry-After asks for too long a wait.     *)
RetryOrEnd(d, error) ==
  \/ MayRetry(d) /\ Retry(d, downloads[d].state)
  \/ Abandon(d, error)

SendFails(d) ==
  /\ At(d, "send")
  /\ RetryOrEnd(d, "transport")
  /\ UNCHANGED <<staging, destination, resource, failedUnlink>>

Receive(d) ==
  /\ At(d, "send")
  /\ \E reply \in Replies :
       downloads' = [downloads EXCEPT ![d].pc = "reply", ![d].reply = reply]
  /\ UNCHANGED <<staging, destination, resource, failedUnlink>>

\* Faulty variant: the ETag of the part is not compared.
RangeFitsAnyTag(d, reply) ==
  IF Resumed(d)
  THEN /\ reply.from = downloads[d].state.written
       /\ downloads[d].state.total \in {NoLength, Length[reply.version]}
  ELSE reply.from = 0 /\ reply.upto = Length[reply.version]

(* write_download_attempt's checks of a 206: one that was asked for goes   *)
(* on where the file ends, with the same ETag and total; one that was not  *)
(* is taken if it is the whole.                                            *)
RangeFits(d, reply) ==
  IF Resumed(d)
  THEN /\ reply.from = downloads[d].state.written
       /\ reply.etag = downloads[d].state.etag
       /\ downloads[d].state.total \in {NoLength, Length[reply.version]}
  ELSE reply.from = 0 /\ reply.upto = Length[reply.version]

TooLong(d, total) == total # NoLength /\ total > downloads[d].target.maxBytes

RefuseReply(d) ==
  LET reply == downloads[d].reply
  IN  /\ At(d, "reply")
      /\ \/ /\ reply.status = 503
            /\ RetryOrEnd(d, "status")
         \/ /\ reply.status = 206
            /\ ~RangeFits(d, reply) \/ TooLong(d, Length[reply.version])
            /\ Abandon(d, "response")
      /\ UNCHANGED <<staging, destination, resource, failedUnlink>>

(* A 206 is appended to what is there; a 200 starts the file again, by     *)
(* reset_download_state when bytes were written.                           *)
AcceptRange(d) ==
  LET reply == downloads[d].reply
      total == Length[reply.version]
  IN  /\ At(d, "reply")
      /\ reply.status = 206
      /\ RangeFits(d, reply)
      /\ ~TooLong(d, total)
      /\ downloads' = [downloads EXCEPT
           ![d].pc = "body", ![d].state.total = total, ![d].state.etag = reply.etag]
      /\ UNCHANGED <<staging, destination, resource, failedUnlink>>

AcceptWhole(d) ==
  LET reply == downloads[d].reply
      fresh == [Fresh EXCEPT !.etag = reply.etag, !.total = reply.length]
  IN  /\ At(d, "reply")
      /\ reply.status = 200
      /\ staging' = [staging EXCEPT ![d] = <<>>]
      /\ downloads' =
           IF TooLong(d, reply.length)
           THEN [downloads EXCEPT ![d].pc = "discard", ![d].error = "too large",
                                  ![d].state = fresh]
           ELSE [downloads EXCEPT ![d].pc = "body", ![d].state = fresh]
      /\ UNCHANGED <<destination, resource, failedUnlink>>

(* One block of the body: refused past the limit, otherwise written and    *)
(* added to the digest.                                                    *)
Expected(d) == downloads[d].reply.upto - downloads[d].reply.from
Got(d)      == downloads[d].state.written - downloads[d].reply.from

WriteBlock(d) ==
  LET v == downloads[d].reply.version
  IN  /\ At(d, "body")
      /\ Got(d) < Expected(d)
      /\ IF downloads[d].state.written + 1 > downloads[d].target.maxBytes
         THEN Abandon(d, "too large") /\ UNCHANGED staging
         ELSE /\ staging' = [staging EXCEPT ![d] = Append(@, v)]
              /\ downloads' = [downloads EXCEPT
                   ![d].state.written = @ + 1, ![d].state.digest = Append(@, v)]
      /\ UNCHANGED <<destination, resource, failedUnlink>>

(* The body is cut: what was written is kept only if it can be resumed,    *)
(* and otherwise the staging file is emptied, which may fail.              *)
CutBody(d) ==
  /\ At(d, "body")
  /\ Got(d) < Expected(d)
  /\ \/ Abandon(d, "transport") /\ UNCHANGED staging
     \/ /\ MayRetry(d) /\ Resumed(d)
        /\ Retry(d, downloads[d].state)
        /\ UNCHANGED staging
     \/ /\ MayRetry(d) /\ ~Resumed(d)
        /\ \/ Retry(d, Fresh) /\ staging' = [staging EXCEPT ![d] = <<>>]
           \/ Abandon(d, "write") /\ UNCHANGED staging
  /\ UNCHANGED <<destination, resource, failedUnlink>>

(* A local write, or the emptying of the file for a 200, fails: nothing is *)
(* retried.                                                                *)
WriteFails(d) ==
  /\ \/ At(d, "body") \/ At(d, "sync")
     \/ At(d, "reply") /\ downloads[d].reply.status = 200 /\ downloads[d].state.written > 0
  /\ Abandon(d, "write")
  /\ UNCHANGED <<staging, destination, resource, failedUnlink>>

(* The body ends: lengths, then flush and sync, then checksum. A body      *)
(* without an announced length may end early and nothing shows it.         *)
EndBody(d) ==
  LET state == downloads[d].state
  IN  /\ At(d, "body")
      /\ Got(d) = Expected(d) \/ state.total = NoLength
      /\ IF state.total \in {NoLength, state.written}
         THEN downloads' = [downloads EXCEPT ![d].pc = "sync", ![d].reply = NoFile]
         ELSE Abandon(d, "response")
      /\ UNCHANGED <<staging, destination, resource, failedUnlink>>

Sync(d) ==
  LET expected == downloads[d].target.expected
  IN  /\ At(d, "sync")
      /\ IF expected # Anything /\ downloads[d].state.digest # Whole(expected)
         THEN Abandon(d, "checksum")
         ELSE Move(d, "publish")
      /\ UNCHANGED <<staging, destination, resource, failedUnlink>>

-----------------------------------------------------------------------------
(* persist_download. Without overwrite a hard link, which fails when the   *)
(* destination is there, then the removal of the staging file.             *)
Published(d) == [downloads EXCEPT ![d].published = staging[d]]

\* Faulty variant: a link that replaces the file that is there.
LinkOver(d) ==
  /\ At(d, "publish")
  /\ ~downloads[d].target.overwrite
  /\ destination' = staging[d]
  /\ downloads' = [Published(d) EXCEPT ![d].pc = "unlink"]
  /\ UNCHANGED <<staging, resource, failedUnlink>>

Link(d) ==
  /\ At(d, "publish")
  /\ ~downloads[d].target.overwrite
  /\ \/ /\ destination = NoFile
        /\ destination' = staging[d]
        /\ downloads' = [Published(d) EXCEPT ![d].pc = "unlink"]
     \/ Abandon(d, "write") /\ UNCHANGED destination
  /\ UNCHANGED <<staging, resource, failedUnlink>>

\* Faulty variant: a failed removal is told as a write that failed.
UnlinkFailsAsWrite(d) ==
  /\ At(d, "unlink")
  /\ \/ staging' = [staging EXCEPT ![d] = NoFile] /\ Move(d, "done") /\ UNCHANGED failedUnlink
     \/ /\ failedUnlink' = failedUnlink \cup {d}
        /\ downloads' = [downloads EXCEPT ![d].pc = "discard", ![d].error = "write"]
        /\ UNCHANGED staging
  /\ UNCHANGED <<destination, resource>>

Unlink(d) ==
  /\ At(d, "unlink")
  /\ \/ /\ staging' = [staging EXCEPT ![d] = NoFile]
        /\ Move(d, "done")
        /\ UNCHANGED failedUnlink
     \/ /\ failedUnlink' = failedUnlink \cup {d}
        /\ downloads' = [downloads EXCEPT ![d].pc = "discard", ![d].error = "cleanup"]
        /\ UNCHANGED staging
  /\ UNCHANGED <<destination, resource>>

(* With overwrite a rename. Where the system refuses to replace a file,    *)
(* the destination is removed first.                                       *)
RenameNow(d) ==
  /\ destination' = staging[d]
  /\ staging' = [staging EXCEPT ![d] = NoFile]
  /\ downloads' = [Published(d) EXCEPT ![d].pc = "done"]

Rename(d) ==
  /\ At(d, "publish")
  /\ downloads[d].target.overwrite
  /\ \/ RenameNow(d)
     \/ Abandon(d, "write") /\ UNCHANGED <<staging, destination>>
     \/ /\ destination # NoFile
        /\ Move(d, "replace")
        /\ UNCHANGED <<staging, destination>>
  /\ UNCHANGED <<resource, failedUnlink>>

RemoveDestination(d) ==
  /\ At(d, "replace")
  /\ \/ /\ destination # NoFile
        /\ destination' = NoFile
        /\ Move(d, "rename again")
     \/ Abandon(d, "write") /\ UNCHANGED destination
  /\ UNCHANGED <<staging, resource, failedUnlink>>

RenameAgain(d) ==
  /\ At(d, "rename again")
  /\ \/ RenameNow(d)
     \/ Abandon(d, "write") /\ UNCHANGED <<staging, destination>>
  /\ UNCHANGED <<resource, failedUnlink>>

-----------------------------------------------------------------------------
(* The end of a failed download: discard_download_state removes the        *)
(* staging file; when that fails the guard tries again as it is dropped.   *)
Discard(d) ==
  /\ At(d, "discard")
  /\ Move(d, "failed")
  /\ \/ staging' = [staging EXCEPT ![d] = NoFile] /\ UNCHANGED failedUnlink
     \/ failedUnlink' = failedUnlink \cup {d} /\ UNCHANGED staging
  /\ UNCHANGED <<destination, resource>>

(* The future is dropped. The guard removes the staging file at once; a    *)
(* file operation on its blocking thread still happens: a link or a rename *)
(* before the guard or not at all, a removal of the destination even later.*)
DropDownload(d) ==
  /\ downloads[d].pc \notin {"create", "done", "failed", "dropped", "removing"}
  /\ \/ /\ UNCHANGED destination
        /\ Move(d, IF At(d, "replace") THEN "removing" ELSE "dropped")
     \/ /\ At(d, "publish") \/ At(d, "rename again")
        /\ destination = NoFile \/ downloads[d].target.overwrite
        /\ destination' = staging[d]
        /\ downloads' = [Published(d) EXCEPT ![d].pc = "dropped"]
  /\ \/ staging' = [staging EXCEPT ![d] = NoFile] /\ UNCHANGED failedUnlink
     \/ /\ staging[d] # NoFile
        /\ failedUnlink' = failedUnlink \cup {d}
        /\ UNCHANGED staging
  /\ UNCHANGED resource

RemoveLate(d) ==
  /\ At(d, "removing")
  /\ destination' = NoFile
  /\ Move(d, "dropped")
  /\ UNCHANGED <<staging, resource, failedUnlink>>

ChangeContent ==
  /\ resource < MaxChanges + 1
  /\ resource + 1 \in Resource
  /\ resource' = resource + 1
  /\ UNCHANGED <<downloads, staging, destination, failedUnlink>>

DownloadNext ==
  \/ \E d \in Downloads :
       \/ CheckDestination(d) \/ CreateStaging(d)
       \/ SendFails(d) \/ Receive(d) \/ RefuseReply(d)
       \/ AcceptRange(d) \/ AcceptWhole(d)
       \/ WriteBlock(d) \/ CutBody(d) \/ WriteFails(d) \/ EndBody(d) \/ Sync(d)
       \/ Link(d) \/ Unlink(d)
       \/ Rename(d) \/ RemoveDestination(d) \/ RenameAgain(d)
       \/ Discard(d) \/ DropDownload(d) \/ RemoveLate(d)
  \/ ChangeContent

DownloadSpec == DownloadInit /\ [][DownloadNext]_downloadVars

-----------------------------------------------------------------------------
(* Shape of the executions' states and of the files.                       *)
DownloadTypeOK ==
  LET contents == UNION {[1..n -> 0..Cardinality(Resource)] : n \in 0..MaxLength}
  IN  /\ \A d \in Downloads :
           /\ downloads[d].target \in Target
           /\ downloads[d].state.written \in 0..MaxLength
           /\ downloads[d].state.etag \in Resource \cup {NoTag}
           /\ downloads[d].attempt \in 1..downloads[d].target.attempts
           /\ staging[d] \in contents \cup {NoFile}
      /\ destination \in contents \cup {NoFile}
      /\ failedUnlink \subseteq Downloads

(* write_download_attempt and persist_download: what a download publishes  *)
(* is blocks of one version only, from the first on, however many attempts *)
(* and changes of the resource it took; all of them when a response said   *)
(* the length or a checksum was expected; within the limit, and as the     *)
(* digest reports. The destination is the old file or a publication.       *)
PublishedIsComplete ==
  /\ \A d \in Downloads :
       LET file   == downloads[d].published
           state  == downloads[d].state
           target == downloads[d].target
       IN  file # NoFile =>
             /\ \E v \in Resource :
                  /\ IsPrefix(file, Whole(v))
                  /\ state.total # NoLength => file = Whole(v)
                  /\ target.expected # Anything => v = target.expected /\ file = Whole(v)
             /\ Len(file) <= target.maxBytes
             /\ state.digest = file /\ state.written = Len(file)
  /\ destination \in {NoFile, <<0>>} \cup {downloads[d].published : d \in Downloads}

(* persist_download, DownloadState's guard, discard_download_state: a       *)
(* download that ends well, or reports the failed cleanup of what it       *)
(* published, did publish; one that ends with any other error published    *)
(* nothing. However it ends, dropped or not, its staging file is gone,     *)
(* unless a removal of it failed.                                          *)
ReportIsTrue ==
  \A d \in Downloads :
    /\ downloads[d].pc \in {"done", "failed"} =>
         (downloads[d].published # NoFile <=>
            At(d, "done") \/ downloads[d].error = "cleanup")
    /\ Over(d) => staging[d] = NoFile \/ d \in failedUnlink

(* download_authenticated and persist_download: a file that is there is    *)
(* touched only by a download that may overwrite it, although the check    *)
(* and the publication are far apart and others publish in between.        *)
KeepsExisting ==
  [][destination # NoFile /\ destination' # destination =>
       \E d \in Downloads :
         downloads[d].target.overwrite /\ downloads'[d] # downloads[d]]_downloadVars
=============================================================================
