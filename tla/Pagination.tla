------------------------------- MODULE Pagination -------------------------------
(* Pagination of generate: pages are requested in sequence until the source *)
(* says it has no more, or a limit is reached. By offset or page number the *)
(* service slices its rows; by cursor or link (in the body or in a header)  *)
(* each page names the next one, and the chain of pages may well loop.      *)
(*                                                                          *)
(* The rest of a page's request is its credentials and its idempotency key, *)
(* which only some requests may carry once the pages have left the origin.  *)
EXTENDS Integers, Sequences, FiniteSets, SequencesExt

CONSTANTS
  Paginations,   \* configurations: see Pagination
  Sources,       \* what the service holds: see Source
  NoPage         \* no next page

(* A page is its number; a row is its page and its place, or its number.   *)
PageOf(source) == DOMAIN source.rows

(* PaginationConfig, with the idempotency key of the request: none, in a   *)
(* header whose name says so, in another header, or in the query or body;  *)
(* retry_non_idempotent; and whether polling may leave the origin.         *)
Pagination ==
  [mode: {"offset", "page", "cursor", "link"}, pageSize: Nat \ {0},
   maxRows: Nat \ {0}, maxPages: Nat \ {0}, crossOrigin: BOOLEAN,
   key: {"none", "named header", "header", "body"}, retries: BOOLEAN,
   leaves: BOOLEAN]

(* Rows of each page, the page after each, those of another origin; and    *)
(* whether an offset request gets a full page when it asks for less.       *)
ASSUME PaginationAssumption ==
  /\ Paginations \subseteq Pagination
  /\ \A s \in Sources :
       /\ s.rows \in Seq(Nat) /\ s.rows # <<>>
       /\ s.next \in [PageOf(s) -> PageOf(s) \cup {NoPage}]
       /\ s.away \subseteq PageOf(s) \ {1}
       /\ s.generous \in BOOLEAN

VARIABLES
  paging,    \* the configuration
  source,    \* the service
  walk,      \* the loop: where it is, what it has seen and collected
  requests   \* history: the page requests sent

paginationVars == <<paging, source, walk, requests>>

Sliced == paging.mode \in {"offset", "page"}

PaginationInit ==
  /\ paging \in Paginations
  /\ source \in Sources
  /\ walk = [pc |-> "loop", page |-> 1, seen |-> {}, output |-> <<>>,
             finished |-> FALSE, dropped |-> FALSE, revoked |-> FALSE]
  /\ requests = <<>>

-----------------------------------------------------------------------------
HomePage(p) == p \notin source.away

(* CredentialScope, apply_idempotency, preserved_idempotency_header and    *)
(* idempotency_header_withheld for one page.                               *)
Allowed(p) == HomePage(p) /\ ~walk.revoked

Keyed(p) ==
  \/ paging.key \in {"named header", "body"}
  \/ paging.key = "header" /\ Allowed(p)

PageRequest(p) ==
  [page |-> p, creds |-> Allowed(p), keyed |-> Keyed(p),
   retries |-> paging.retries \/ (paging.key # "none" /\ Keyed(p))]

\* Faulty variant: the last page is shortened in page mode too.
LimitInEveryMode ==
  IF paging.maxRows - Len(walk.output) < paging.pageSize
  THEN paging.maxRows - Len(walk.output) ELSE paging.pageSize

Limit ==
  IF paging.mode = "offset" /\ paging.maxRows - Len(walk.output) < paging.pageSize
  THEN paging.maxRows - Len(walk.output) ELSE paging.pageSize

(* The rows of the answer: the slice asked for, or those of the page.      *)
TotalRows == source.rows[1]

SliceStart ==
  Len(requests) * (IF paging.mode = "page" THEN Limit ELSE paging.pageSize)

SliceEnd ==
  LET size == IF source.generous THEN paging.pageSize ELSE Limit
  IN  IF SliceStart + size < TotalRows THEN SliceStart + size ELSE TotalRows

PageRows ==
  IF Sliced THEN [i \in 1..(SliceEnd - SliceStart) |-> SliceStart + i]
  ELSE [i \in 1..source.rows[walk.page] |-> <<walk.page, i>>]

(* append_limited.                                                         *)
Room == paging.maxRows - Len(walk.output)

\* Faulty variant: the rows of a page go before those of the earlier pages.
CollectedInFront(rows) ==
  [walk EXCEPT !.output = SubSeq(rows, 1, IF Len(rows) < Room THEN Len(rows) ELSE Room) \o @,
               !.dropped = @ \/ Len(rows) > Room]

Collected(rows) ==
  [walk EXCEPT !.output = @ \o SubSeq(rows, 1, IF Len(rows) < Room THEN Len(rows) ELSE Room),
               !.dropped = @ \/ Len(rows) > Room]

More ==
  /\ walk.pc = "loop"
  /\ Len(walk.output) < paging.maxRows
  /\ Sliced \/ Len(requests) < paging.maxPages

Requested(p) == requests' = Append(requests, PageRequest(p))

\* Faulty variant: a page of another origin does not narrow the walk.
RevokedNever(p) == {walk.revoked}

(* A follow-up of the page may leave the origin, and revokes for good.     *)
Revoked(p) ==
  {walk.revoked \/ ~HomePage(p)} \cup (IF paging.leaves THEN {TRUE} ELSE {})

-----------------------------------------------------------------------------
(* Offset and page: a short page is the last one.                          *)
FetchSlice ==
  /\ More /\ Sliced
  /\ LET next == Collected(PageRows)
         done == Len(PageRows) < Limit
     IN  walk' = [next EXCEPT !.finished = done,
                              !.pc = IF done THEN "stop" ELSE "loop"]
  /\ Requested(1)
  /\ UNCHANGED <<paging, source>>

(* Cursor and link: the chain ends where no next page is named, or one     *)
(* that was already followed. A link is checked against the URL the page   *)
(* was finally served from.                                                *)
LinkAllowed(final, p) ==
  paging.mode = "cursor" \/ paging.crossOrigin \/ final = HomePage(p)

FetchPage ==
  LET p    == walk.page
      next == source.next[p]
  IN  /\ More /\ ~Sliced
      /\ \E revoked \in Revoked(p), final \in {HomePage(p), HomePage(p) /\ ~paging.leaves} :
           LET after == [Collected(PageRows) EXCEPT !.revoked = revoked]
           IN  walk' =
             IF next # NoPage /\ ~LinkAllowed(final, next)
             THEN [after EXCEPT !.pc = "failed"]
             ELSE IF next = NoPage \/ next \in walk.seen
             THEN [after EXCEPT !.pc = "stop", !.finished = TRUE]
             ELSE [after EXCEPT !.page = next, !.seen = @ \cup {next}]
      /\ Requested(p)
      /\ UNCHANGED <<paging, source>>

(* A page that fails, or cannot be read, fails the whole.                  *)
PageFails ==
  /\ More
  /\ walk' = [walk EXCEPT !.pc = "failed"]
  /\ Requested(walk.page)
  /\ UNCHANGED <<paging, source>>

(* The loop leaves at a limit; the result is partial unless the source     *)
(* ended and no row was dropped.                                           *)
Deliver ==
  /\ walk.pc = "stop" \/ (walk.pc = "loop" /\ ~More)
  /\ walk' = [walk EXCEPT
       !.pc = IF walk.dropped \/ ~walk.finished THEN "limited" ELSE "complete"]
  /\ UNCHANGED <<paging, source, requests>>

PaginationNext == FetchSlice \/ FetchPage \/ PageFails \/ Deliver

PaginationSpec == PaginationInit /\ [][PaginationNext]_paginationVars

-----------------------------------------------------------------------------
(* The pages the chain reaches: those that are in every set with the first *)
(* page in it and the page after each of its pages.                        *)
Closed(S) == 1 \in S /\ \A p \in S : source.next[p] \in S \cup {NoPage}
Reach     == {p \in PageOf(source) : \A S \in SUBSET PageOf(source) : Closed(S) => p \in S}

RowsOf(p)  == {<<p, i>> : i \in 1..source.rows[p]}
AllRows    == IF Sliced THEN 1..TotalRows ELSE UNION {RowsOf(p) : p \in Reach}
Asked      == {requests[i].page : i \in DOMAIN requests}
LastPage   == requests[Len(requests)].page
ReadTwice  == LastPage = 1 /\ Len(requests) > 1

(* The rows of the first n requests, as the service answered them.         *)
Joined[n \in 0..Len(requests)] ==
  IF n = 0 THEN <<>>
  ELSE Joined[n - 1] \o [i \in 1..source.rows[requests[n].page] |-> <<requests[n].page, i>>]

(* The pages asked for are the chain, link after link. Only the first page *)
(* is asked for a second time, when a link leads back to it, and then the  *)
(* walk goes no further.                                                   *)
FollowsChain ==
  \A n \in DOMAIN requests :
    /\ requests[n].page = IF n = 1 THEN 1 ELSE source.next[requests[n - 1].page]
    /\ \A m \in 1..(n - 1) :
         requests[m].page = requests[n].page => requests[n].page = 1 /\ n = Len(requests)

(* paginated: the rows are those of the pages asked for, each page's in    *)
(* order and each page after the one that named it, up to max_rows; by     *)
(* offset or page number, the first ones of the source, in order. A result *)
(* without a limit error has all the rows of every page that the chain     *)
(* reaches, even when it loops; the only rows that are in it twice are     *)
(* those of the first page, at the end, when a link leads back to it. With *)
(* the error a limit was reached and something was left out, but when a    *)
(* source sliced into full pages has exactly max_rows rows, or when what   *)
(* was left out is the second reading of the first page                    *)
(* (docs/limiti.md:78).                                                    *)
PagesAreComplete ==
  LET output == walk.output
      rows   == ToSet(output)
      joined == Joined[Len(requests)]
  IN  /\ Sliced => output = [i \in DOMAIN output |-> i]
      /\ ~Sliced => FollowsChain
      /\ ~Sliced /\ walk.pc # "failed" =>
           output = SubSeq(joined, 1, IF Len(joined) < paging.maxRows
                                      THEN Len(joined) ELSE paging.maxRows)
      /\ walk.pc = "complete" => rows = AllRows
      /\ walk.pc = "limited" =>
           /\ rows \subseteq AllRows
           /\ Len(output) = paging.maxRows \/ Len(requests) = paging.maxPages
           /\ \/ rows # AllRows
              \/ Sliced /\ TotalRows = paging.maxRows
              \/ ~Sliced /\ (Reach # Asked \/ source.next[LastPage] = 1 \/ ReadTwice)

(* request_page: no page request carries the caller's credentials to       *)
(* another origin or after a page was requested there, and none repeats a  *)
(* request the caller did not ask to repeat without the idempotency key    *)
(* that makes it safe, although the key is what turned retries on.         *)
PagesAreProtected ==
  \A i \in DOMAIN requests :
    /\ requests[i].creds =>
         \A j \in 1..i : HomePage(requests[j].page)
    /\ requests[i].retries => paging.retries \/ requests[i].keyed
=============================================================================
