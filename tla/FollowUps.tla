------------------------------- MODULE FollowUps -------------------------------
(* Where the next request of an execution goes, when an answer says so: the *)
(* next page named by a Link header, and the URLs of an asynchronous job,   *)
(* which a later execution finds again from the job's recovery handle.      *)
(*                                                                          *)
(* A header is read character by character: the delimiters are the ones of  *)
(* the code, and a relation or a parameter's name is one character. What    *)
(* the polling loop then does with a job is in Execution.                   *)
EXTENDS Integers, Sequences, SequencesExt

CONSTANTS
  LinkHeaders,   \* what a service writes and how much arrives: see FollowUpAssumption
  PolledJobs,    \* configurations of polling and answers: see PolledJob
  Unnamed        \* no value, no parameter, no URL

VARIABLES
  links,     \* the relation looked for, the links written, how much arrived
  search,    \* link_header_target: what is left to read, what was found
  job,       \* the configuration and the answer that started the job
  polled     \* the execution that polls the job, and the one that resumes it

followUpVars == <<links, search, job, polled>>

-----------------------------------------------------------------------------
(* The characters of a header: delimiters, and letters.                    *)
Quote  == "quote"
Escape == "backslash"

(* A registered relation ignores case; one with a colon does not.          *)
Lower(c) ==
  CASE c = "NEXT" -> "next" [] c = "REL" -> "rel" [] OTHER -> c
HasColon(c) == c \in {"x:next", "x:NEXT"}

Chop(text) ==
  LET ink == {i \in DOMAIN text : text[i] # " "}
  IN  IF ink = {} THEN <<>>
      ELSE SubSeq(text, CHOOSE i \in ink : \A j \in ink : i <= j,
                        CHOOSE i \in ink : \A j \in ink : i >= j)

(* One character more of a text that is split at the separators outside    *)
(* of quotes, and outside of targets where it has any.                     *)
Lex(separator, targets, read, c) ==
  LET kept == [read EXCEPT !.parts[Len(read.parts)] = Append(@, c)]
  IN  IF read.escaped THEN [kept EXCEPT !.escaped = FALSE]
      ELSE IF read.quoted /\ c = Escape THEN [kept EXCEPT !.escaped = TRUE]
      ELSE IF c = Quote /\ ~read.target THEN [kept EXCEPT !.quoted = ~@]
      ELSE IF targets /\ c \in {"<", ">"} /\ ~read.quoted THEN [kept EXCEPT !.target = c = "<"]
      ELSE IF c = separator /\ ~read.target /\ ~read.quoted
           THEN [read EXCEPT !.parts = Append(@, <<>>)]
      ELSE kept

Split(text, separator, targets) ==
  LET LexOne(read, c) == Lex(separator, targets, read, c)
  IN  FoldLeft(LexOne, [parts |-> <<<<>>>>, target |-> FALSE, quoted |-> FALSE,
                       escaped |-> FALSE], text)

Unfinished(read) == read.target \/ read.quoted \/ read.escaped

LinkEntries(text)    == Split(text, ",", TRUE)
LinkParameters(text) == Split(text, ";", FALSE)

(* The place of the first c, or 0.                                         *)
FirstOf(text, c) ==
  LET at == {i \in DOMAIN text : text[i] = c}
  IN  IF at = {} THEN 0 ELSE CHOOSE i \in at : \A j \in at : i <= j

(* unquote_header_value.                                                   *)
IllQuoted(value) ==
  LET first == value # <<>> /\ value[1] = Quote
      last  == value # <<>> /\ value[Len(value)] = Quote
  IN  (first \/ last) /\ ~(first /\ last /\ Len(value) > 1)

Unescape(read, c) ==
  IF read.escaped \/ c # Escape
  THEN [text |-> Append(read.text, c), escaped |-> FALSE]
  ELSE [read EXCEPT !.escaped = TRUE]

Unquoted(value) ==
  IF value = <<>> \/ value[1] # Quote THEN value
  ELSE FoldLeft(Unescape, [text |-> <<>>, escaped |-> FALSE],
                SubSeq(value, 2, Len(value) - 1)).text

RelationMatches(c) ==
  IF HasColon(links.relation) THEN c = links.relation
  ELSE Lower(c) = Lower(links.relation)

(* The values of the parameters called rel, in order.                      *)
RelValues(parameters) ==
  LET Name(p)  == Chop(SubSeq(p, 1, FirstOf(p, "=") - 1))
      Value(p) == Chop(SubSeq(p, FirstOf(p, "=") + 1, Len(p)))
      IsRel(p) == FirstOf(p, "=") > 0 /\ Len(Name(p)) = 1 /\ Lower(Name(p)[1]) = "rel"
      rels     == SelectSeq(parameters, IsRel)
  IN  [i \in DOMAIN rels |-> Value(rels[i])]

(* The words of a value are its relations.                                 *)
HasRelation(value) ==
  LET text == Unquoted(value)
  IN  \E i \in DOMAIN text :
        /\ RelationMatches(text[i])
        /\ i > 1 => text[i - 1] = " "
        /\ i < Len(text) => text[i + 1] = " "

\* Faulty variant: every rel of a link counts.
AnyRelNamesNext(values) == \E i \in DOMAIN values : HasRelation(values[i])

NamesNext(values) == values # <<>> /\ HasRelation(values[1])

(* One entry of the header: its target, and its parameters.                *)
Entry      == Chop(search.rest[1])
TargetEnd  == FirstOf(Entry, ">")
Target     == SubSeq(Entry, 2, TargetEnd - 1)
Parameters == LinkParameters(SubSeq(Entry, TargetEnd + 1, Len(Entry)))
Rels       == RelValues(Parameters.parts)

IllFormedEntry ==
  \/ FirstOf(Entry, "<") # 1 \/ TargetEnd = 0
  \/ Unfinished(Parameters)
  \/ Rels # <<>> /\ IllQuoted(Rels[1])

-----------------------------------------------------------------------------
(* How a service writes a header. Each character is written with whether   *)
(* the one after it is inside a target or a quoted value; a parameter is   *)
(* its name and its value, a token or a quoted text, whose delimiters (and *)
(* the other characters too, if escapes says so) are escaped.              *)
Within(text, open) == [i \in DOMAIN text |-> <<text[i], open>>]

QuotedText(value) ==
  FlattenSeq([i \in DOMAIN value.text |->
    IF value.escapes \/ value.text[i] \in {Quote, Escape}
    THEN <<Escape, value.text[i]>> ELSE <<value.text[i]>>])

WriteValue(value) ==
  IF value.quoted
  THEN Within(<<Quote>> \o QuotedText(value), TRUE) \o Within(<<Quote>>, FALSE)
  ELSE Within(value.text, FALSE)

WriteParameter(p) ==
  Within(<<";", " ", p.name>>, FALSE)
    \o (IF p.value = Unnamed THEN <<>> ELSE Within(<<"=">>, FALSE) \o WriteValue(p.value))

WriteLink(l) ==
  Within(<<"<">> \o l.target, TRUE) \o Within(<<">">>, FALSE)
    \o FlattenSeq([i \in DOMAIN l.parameters |-> WriteParameter(l.parameters[i])])

Written(header) ==
  FlattenSeq([i \in DOMAIN header |->
    IF i = 1 THEN WriteLink(header[i]) ELSE Within(<<",", " ">>, FALSE) \o WriteLink(header[i])])

-----------------------------------------------------------------------------
(* link_header_target: the whole header is split first, then each entry is *)
(* read in turn, up to the one that names the next page.                   *)
Search(pc, rest, target) == [pc |-> pc, rest |-> rest, target |-> target]
StartSearch == search = Search("header", <<>>, Unnamed)

Arrived ==
  LET text == Written(links.header)
  IN  [i \in 1..links.arrived |-> text[i][1]]

NoHeader ==
  /\ search.pc = "header" /\ links.header = <<>>
  /\ search' = Search("none", <<>>, Unnamed)
  /\ UNCHANGED <<links, job, polled>>

SplitHeader ==
  /\ search.pc = "header" /\ links.header # <<>>
  /\ LET read == LinkEntries(Arrived)
     IN  search' = IF Unfinished(read) THEN Search("refused", <<>>, Unnamed)
                   ELSE Search("entry", read.parts, Unnamed)
  /\ UNCHANGED <<links, job, polled>>

RefuseEntry ==
  /\ search.pc = "entry" /\ search.rest # <<>> /\ IllFormedEntry
  /\ search' = Search("refused", <<>>, Unnamed)
  /\ UNCHANGED <<links, job, polled>>

TakeEntry ==
  /\ search.pc = "entry" /\ search.rest # <<>> /\ ~IllFormedEntry /\ NamesNext(Rels)
  /\ search' = Search("found", <<>>, Target)
  /\ UNCHANGED <<links, job, polled>>

PassEntry ==
  /\ search.pc = "entry" /\ search.rest # <<>> /\ ~IllFormedEntry /\ ~NamesNext(Rels)
  /\ search' = [search EXCEPT !.rest = Tail(@)]
  /\ UNCHANGED <<links, job, polled>>

NoEntry ==
  /\ search.pc = "entry" /\ search.rest = <<>>
  /\ search' = Search("none", <<>>, Unnamed)
  /\ UNCHANGED <<links, job, polled>>

-----------------------------------------------------------------------------
(* The job. A URL is its origin, its place there and the id in it; the     *)
(* answer that started the job was served, after redirects, from           *)
(* job.served. A template is relative, starts with {base}, or names its    *)
(* origin, and may hold the id. An id is what the answer has at id_path    *)
(* (or, as a text, in id_header); any other value than a text or a number  *)
(* is a "bool" here.                                                       *)
Url == [origin: {"home", "away"}, place: STRING, id: STRING \cup {Unnamed}]
FirstUrl == [origin |-> "home", place |-> "first", id |-> Unnamed]

Template == [at: {"relative", "base", "home", "away"}, id: BOOLEAN]
Absolute(template) == template.at \in {"home", "away"}

(* PollingConfig and the answer: which of url_path, url_template and       *)
(* location_header are set, the URL the answer gives for the first and the *)
(* last, the cancel request and the result request.                        *)
PolledJob ==
  [status: {"none", "null", "pending", "success", "failure", "unknown"},
   set: SUBSET {"path", "template", "location"}, given: Url \cup {Unnamed},
   template: Template, id: [kind: {"absent", "null", "text", "number", "bool"}, text: STRING],
   served: Url, crossOrigin: BOOLEAN,
   cancel: [template: Template \cup {Unnamed}, timeout: Nat] \cup {Unnamed},
   result: [from: {"config", "answer"}, template: Template \cup {Unnamed}] \cup {Unnamed}]

(* polling_job_id: a null id is no id.                                     *)
JobId == IF job.id.kind \in {"absent", "null"} THEN Unnamed ELSE job.id.text

(* public_job_id: the handle, unless the id is not a text or a number, or  *)
(* validate_job_id refuses it.                                             *)
ValidId(text) == text \notin {Unnamed, "", "control", "too long"}
Handle == IF job.id.kind \in {"text", "number"} /\ ValidId(job.id.text) THEN job.id.text ELSE Unnamed

(* render_poll_template_from_base and Url::join.                           *)
CanRender(template, id) == template.id => id # Unnamed
Render(template, base, id) ==
  [origin |-> IF Absolute(template) THEN template.at ELSE base.origin,
   place  |-> IF template.at = "relative" THEN base.place ELSE "jobs",
   id     |-> IF template.id THEN id ELSE Unnamed]

Admitted(base, url) == job.crossOrigin \/ base.origin = url.origin

NoVisit == [url |-> Unnamed, id |-> Unnamed, handle |-> Unnamed, cancel |-> Unnamed, result |-> Unnamed]

StartPolling ==
  polled = [pc |-> "answer", run |-> "first", visits |-> [r \in {"first", "resumed"} |-> NoVisit]]

Visit == polled.visits[polled.run]
Became(pc) == polled' = [polled EXCEPT !.pc = pc]
Visited(pc, visit) == polled' = [polled EXCEPT !.pc = pc, !.visits[polled.run] = visit]

(* poll_url: the first source that is set, whatever the others say; a      *)
(* template needs an id in the answer even when it does not hold one.      *)
PollUrl ==
  IF "path" \in job.set THEN job.given
  ELSE IF "template" \in job.set
       THEN IF JobId = Unnamed THEN Unnamed ELSE Render(job.template, job.served, JobId)
  ELSE IF "location" \in job.set THEN job.given
  ELSE Unnamed

(* poll_state and await_poll_completion.                                   *)
AnswerEndsJob ==
  /\ polled.pc = "answer"
  /\ \/ job.status = "success" /\ Became("done")
     \/ job.status \in {"null", "failure", "unknown"} /\ Became("failed")
  /\ UNCHANGED <<links, search, job>>

StartJob ==
  /\ polled.pc = "answer" /\ job.status \in {"none", "pending"}
  /\ IF PollUrl # Unnamed /\ Admitted(job.served, PollUrl)
     THEN Visited("register", [Visit EXCEPT !.url = PollUrl, !.id = JobId])
     ELSE Became("failed")
  /\ UNCHANGED <<links, search, job>>

(* register_polled_job and prepare_remote_cancel.                          *)
CancelUrl ==
  IF job.cancel.template = Unnamed THEN Visit.url
  ELSE Render(job.cancel.template, Visit.url, Visit.id)

CanCancel ==
  /\ job.cancel.timeout # 0
  /\ job.cancel.template # Unnamed => CanRender(job.cancel.template, Visit.id)
  /\ Admitted(Visit.url, CancelUrl)

RegisterJob ==
  /\ polled.pc = "register"
  /\ IF job.cancel = Unnamed THEN Visited("poll", [Visit EXCEPT !.handle = Handle])
     ELSE IF CanCancel
     THEN Visited("poll", [Visit EXCEPT !.handle = Handle, !.cancel = CancelUrl])
     ELSE Became("failed")
  /\ UNCHANGED <<links, search, job>>

(* polling_result_url and prepare_poll_result_request: the template may    *)
(* come from the answer, and is then rendered all the same.                *)
HasResultUrl ==
  /\ job.result.template # Unnamed
  /\ CanRender(job.result.template, Visit.id)
  /\ Admitted(Visit.url, Render(job.result.template, Visit.url, Visit.id))

CompleteJob ==
  /\ polled.pc = "poll"
  /\ IF job.result = Unnamed THEN Became("done")
     ELSE /\ HasResultUrl
          /\ Visited("done", [Visit EXCEPT !.result =
                                Render(job.result.template, Visit.url, Visit.id)])
  /\ UNCHANGED <<links, search, job>>

(* A status of failure ends the job.                                       *)
JobFails ==
  /\ polled.pc = "poll"
  /\ Became("failed")
  /\ UNCHANGED <<links, search, job>>

(* A poll or the result fails, or time runs out: the handle is reported.   *)
LeaveJob ==
  /\ polled.pc = "poll"
  /\ Became(IF polled.run = "first" THEN "left" ELSE "failed")
  /\ UNCHANGED <<links, search, job>>

\* Faulty variant: the URL is rendered against the base URL of the status.
ResumeUrlOfAnswer(handle) == Render([job.template EXCEPT !.at = "relative"], FirstUrl, handle)

(* await_resumed_poll_completion: a later execution, with the handle, of   *)
(* the same configuration.                                                 *)
ResumeUrl(handle) == Render(job.template, FirstUrl, handle)

ResumeJob ==
  /\ polled.pc = "left" /\ polled.visits["first"].handle # Unnamed
  /\ LET handle == polled.visits["first"].handle
         url    == ResumeUrl(handle)
     IN  IF ValidId(handle) /\ "template" \in job.set /\ Admitted(FirstUrl, url)
         THEN polled' = [polled EXCEPT !.pc = "register", !.run = "resumed",
                           !.visits["resumed"] = [NoVisit EXCEPT !.url = url, !.id = handle]]
         ELSE polled' = [polled EXCEPT !.pc = "refused", !.run = "resumed"]
  /\ UNCHANGED <<links, search, job>>

-----------------------------------------------------------------------------
ASSUME FollowUpAssumption ==
  /\ \A l \in LinkHeaders : l.arrived \in 0..Len(Written(l.header))
  /\ PolledJobs \subseteq PolledJob

LinkNext == NoHeader \/ SplitHeader \/ RefuseEntry \/ TakeEntry \/ PassEntry \/ NoEntry
PollNext ==
  \/ AnswerEndsJob \/ StartJob \/ RegisterJob
  \/ CompleteJob \/ JobFails \/ LeaveJob \/ ResumeJob

FollowUpInit == links \in LinkHeaders /\ job \in PolledJobs /\ StartSearch /\ StartPolling
FollowUpSpec == FollowUpInit /\ [][LinkNext \/ PollNext]_followUpVars

-----------------------------------------------------------------------------
(* The first link whose first rel with a value holds the relation.         *)
RelsOf(l) ==
  SelectSeq(l.parameters, LAMBDA p : Lower(p.name) = "rel" /\ p.value # Unnamed)

HoldsNext(l) ==
  /\ RelsOf(l) # <<>>
  /\ LET text == RelsOf(l)[1].value.text
     IN  \E i \in DOMAIN text :
           /\ \/ text[i] = links.relation
              \/ ~HasColon(links.relation) /\ Lower(text[i]) = Lower(links.relation)
           /\ i > 1 => text[i - 1] = " "
           /\ i < Len(text) => text[i + 1] = " "

NextTarget ==
  LET next == SelectSeq(links.header, HoldsNext)
  IN  IF next = <<>> THEN Unnamed ELSE next[1].target

(* link_header_target (engine.rs:3865): whatever delimiters the service    *)
(* put inside a target or a quoted value, and however it escaped them, the *)
(* next page is the target of the first link that names it. A header that  *)
(* arrives cut inside one of them is refused: it never ends the pagination *)
(* as if there was no next page, and never yields another page.            *)
NextLinkIsFound ==
  search.pc # "header" =>
  LET text == Written(links.header)
      whole == links.arrived = Len(text)
  IN  /\ search.pc = "found" => search.target = NextTarget
      /\ search.pc = "none" /\ whole => NextTarget = Unnamed
      /\ search.pc = "refused" => ~whole
      /\ links.arrived > 0 /\ text[links.arrived][2] => search.pc = "refused"

(* public_job_id and await_resumed_poll_completion (engine.rs:1735): a job *)
(* with a textual or numeric id that is polled at a URL made from          *)
(* url_template has a handle, and the execution that resumes it polls,     *)
(* cancels and collects at the same URLs. Only a redirect of the first     *)
(* request can make the two differ, and only a redirect to another origin  *)
(* can make the resumption be refused.                                     *)
HandleResumesJob ==
  polled.pc # "answer" =>
  LET first   == polled.visits["first"]
      resumed == polled.visits["resumed"]
      made    == "template" \in job.set /\ "path" \notin job.set
      usable  == job.id.kind \in {"text", "number"} /\ ValidId(job.id.text)
  IN  /\ polled.pc \in {"poll", "left"} => (first.handle # Unnamed) = usable
      /\ made /\ first.url # Unnamed /\ first.handle # Unnamed /\ job.template.id =>
           first.url.id = first.handle
      /\ made /\ resumed.url # Unnamed
           /\ (job.served = FirstUrl \/ Absolute(job.template)) =>
           /\ resumed.url = first.url
           /\ polled.pc \in {"poll", "done"} =>
                resumed.cancel = first.cancel /\ resumed.handle = first.handle
           /\ resumed.result # Unnamed =>
                resumed.result = Render(job.result.template, first.url, first.id)
      /\ made /\ polled.pc = "refused" => job.served.origin = "away"

(* Both, of a behaviour that runs one of them.                             *)
FollowUpsAreFound == NextLinkIsFound /\ HandleResumesJob
=============================================================================
