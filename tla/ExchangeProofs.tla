------------------------------ MODULE ExchangeProofs ------------------------------
(***************************************************************************)
(* Theorems about what makes the requests of an execution and reads their  *)
(* answers, for every configuration and every service.                     *)
(*                                                                         *)
(* Pagination: as long as the walk may go on and is not revoked, every     *)
(* page it asked for is of the first one's origin (HomeSoFar). A slice     *)
(* begins where the rows so far end (Slices); along a chain the pages      *)
(* asked for are pages of the chain, the one to come was not asked for     *)
(* unless it is the first (Chain), and the rows are theirs (Rows), joined  *)
(* in the order of the requests (InOrderOfPages): a walk that ends has     *)
(* asked for a set of pages that its chain does not leave, so for all.     *)
(*                                                                         *)
(* FollowUps, of a job: what the execution that started it and the one     *)
(* that resumes it know of it, at each place (FirstVisit, ResumedVisit).   *)
(* Preparation: what is settled about each parameter when it is resolved   *)
(* and when it is placed, and about the key (PrepInv). Transforms: a row   *)
(* holds values of JSON (RowInv), and of any of them an operation on       *)
(* integers gives the exact integer or fails (IntegersExact), and one on   *)
(* floats is rounded once (FloatsExact).                                   *)
(***************************************************************************)
EXTENDS Pagination, FollowUps, Preparation, Transforms, WellFoundedInduction, TLAPS

-----------------------------------------------------------------------------
(* The walk over the pages                                                 *)

\* The walk has its fields, and no other.
Shaped ==
  /\ walk = [pc |-> walk.pc, page |-> walk.page, seen |-> walk.seen, output |-> walk.output,
             finished |-> walk.finished, dropped |-> walk.dropped, revoked |-> walk.revoked]
  /\ walk.revoked \in BOOLEAN

Home(i)   == HomePage(requests[i].page)
HomeSoFar ==
  walk.pc # "failed" /\ ~walk.revoked => \A i \in 1..Len(requests) : Home(i)

WalkInv ==
  /\ Shaped
  /\ \E S : requests \in Seq(S)
  /\ 1 \notin source.away
  /\ HomeSoFar
  /\ PagesAreProtected

-----------------------------------------------------------------------------

\* No page was requested.
LEMMA WalkStarts == PaginationInit => WalkInv
<1> SUFFICES ASSUME PaginationInit PROVE WalkInv
  OBVIOUS
<1>1. Shaped /\ requests \in Seq({})
  BY DEF PaginationInit, Shaped
<1>2. 1 \notin source.away
  BY PaginationAssumption DEF PaginationInit
<1>3. HomeSoFar /\ PagesAreProtected
  BY DEF PaginationInit, HomeSoFar, PagesAreProtected
<1> QED BY <1>1, <1>2, <1>3 DEF WalkInv

\* A page is asked for, and the walk goes on with it known or ends.
LEMMA RequestStep ==
  ASSUME WalkInv, NEW p, Requested(p), walk.pc = "loop", UNCHANGED <<paging, source>>,
         Shaped',
         walk'.pc # "failed" /\ ~walk'.revoked => ~walk.revoked /\ HomePage(p)
  PROVE  WalkInv'
<1> DEFINE r == PageRequest(p)
           n == Len(requests) + 1
<1>1. PICK S : requests \in Seq(S)
  BY DEF WalkInv
<1>2. /\ requests \in Seq(S \cup {r}) /\ r \in S \cup {r}
  BY <1>1
<1>3. requests' = Append(requests, r)
  BY DEF Requested
<1>4. /\ r.page = p
      /\ r.creds => HomePage(p) /\ ~walk.revoked
      /\ r.retries => paging.retries \/ r.keyed
  BY DEF PageRequest, Allowed
<1> HIDE DEF r
<1>5. /\ requests' \in Seq(S \cup {r}) /\ Len(requests') = n /\ Len(requests) \in Nat
      /\ requests'[n] = r
      /\ \A i \in 1..Len(requests) : requests'[i] = requests[i]
      /\ DOMAIN requests' = 1..n /\ DOMAIN requests = 1..Len(requests)
  BY <1>2, <1>3
<1>6. /\ \A q : HomePage(q)' = HomePage(q)
      /\ paging' = paging
  BY DEF HomePage
<1>7. ~walk.revoked => \A i \in 1..Len(requests) : Home(i)
  BY DEF WalkInv, HomeSoFar
<1>8. \A i \in 1..n : i \in 1..Len(requests) \/ i = n
  BY <1>5
<1>9. \A i \in 1..Len(requests) : Home(i)' = Home(i)
  BY <1>5, <1>6 DEF Home
<1>10. HomeSoFar'
  <2> SUFFICES ASSUME walk'.pc # "failed", ~walk'.revoked, NEW i \in 1..n PROVE Home(i)'
    BY <1>5 DEF HomeSoFar
  <2>1. CASE i \in 1..Len(requests)
    BY <1>7, <1>9, <2>1
  <2>2. CASE i = n
    BY <1>4, <1>5, <1>6, <2>2 DEF Home
  <2> QED BY <1>8, <2>1, <2>2
<1>11. PagesAreProtected'
  <2> SUFFICES ASSUME NEW i \in 1..n
               PROVE  /\ requests'[i].creds => \A j \in 1..i : HomePage(requests'[j].page)
                      /\ requests'[i].retries => paging.retries \/ requests'[i].keyed
    BY <1>5, <1>6 DEF PagesAreProtected
  <2>1. CASE i \in 1..Len(requests)
    <3>1. \A j \in 1..i : j \in 1..Len(requests)
      BY <1>5, <2>1
    <3>2. /\ requests[i].creds => \A j \in 1..i : HomePage(requests[j].page)
          /\ requests[i].retries => paging.retries \/ requests[i].keyed
      BY <1>5, <2>1 DEF WalkInv, PagesAreProtected
    <3> QED BY <1>5, <2>1, <3>1, <3>2
  <2>2. CASE i = n
    <3>1. r.creds => \A j \in 1..n : HomePage(requests'[j].page)
      BY <1>4, <1>5, <1>7, <1>8 DEF Home
    <3> QED BY <1>4, <1>5, <2>2, <3>1
  <2> QED BY <1>8, <2>1, <2>2
<1>12. 1 \notin source'.away
  BY DEF WalkInv
<1> QED BY <1>5, <1>10, <1>11, <1>12 DEF WalkInv

\* Collecting the rows of a page leaves the rest of the walk.
LEMMA CollectedShape ==
  ASSUME Shaped, NEW rows
  PROVE  LET next == Collected(rows)
         IN  /\ next.pc = walk.pc /\ next.page = walk.page /\ next.seen = walk.seen
             /\ next.finished = walk.finished /\ next.revoked = walk.revoked
             /\ next = [pc |-> next.pc, page |-> next.page, seen |-> next.seen,
                        output |-> next.output, finished |-> next.finished,
                        dropped |-> next.dropped, revoked |-> next.revoked]
<1> DEFINE out  == walk.output \o SubSeq(rows, 1, IF Len(rows) < Room THEN Len(rows) ELSE Room)
           drop == walk.dropped \/ Len(rows) > Room
<1>1. Collected(rows) = [walk EXCEPT !.output = out, !.dropped = drop]
  BY DEF Collected
<1> HIDE DEF out, drop
<1>2. Collected(rows) = [pc |-> walk.pc, page |-> walk.page, seen |-> walk.seen, output |-> out,
                         finished |-> walk.finished, dropped |-> drop, revoked |-> walk.revoked]
  BY <1>1 DEF Shaped
<1> QED BY <1>2

\* Every step keeps the invariant: one case for each action.
LEMMA WalkStep == WalkInv /\ [PaginationNext]_paginationVars => WalkInv'
<1> SUFFICES ASSUME WalkInv, [PaginationNext]_paginationVars PROVE WalkInv'
  OBVIOUS
<1>0. Shaped
  BY DEF WalkInv
<1>1. CASE UNCHANGED paginationVars
  BY <1>1 DEF paginationVars, WalkInv, Shaped, HomeSoFar, Home, PagesAreProtected, HomePage
<1>2. CASE FetchSlice
  <2> DEFINE next == Collected(PageRows)
             done == Len(PageRows) < Limit
             place == IF done THEN "stop" ELSE "loop"
  <2>1. /\ walk.pc = "loop" /\ Requested(1) /\ UNCHANGED <<paging, source>>
        /\ walk' = [next EXCEPT !.finished = done, !.pc = place]
    BY <1>2 DEF FetchSlice, More
  <2>2. /\ next.revoked = walk.revoked
        /\ next = [pc |-> next.pc, page |-> next.page, seen |-> next.seen,
                   output |-> next.output, finished |-> next.finished,
                   dropped |-> next.dropped, revoked |-> next.revoked]
    BY <1>0, CollectedShape
  <2> HIDE DEF next, done, place
  <2>3. Shaped' /\ walk'.revoked = walk.revoked
    BY <1>0, <2>1, <2>2 DEF Shaped
  <2>4. HomePage(1)
    BY DEF WalkInv, HomePage
  <2> QED BY <2>1, <2>3, <2>4, RequestStep
<1>3. CASE FetchPage
  <2> DEFINE p == walk.page
             next == source.next[p]
             rows == Collected(PageRows)
  <2>1. /\ walk.pc = "loop" /\ Requested(p) /\ UNCHANGED <<paging, source>>
    BY <1>3 DEF FetchPage, More
  <2>2. PICK revoked \in Revoked(p), final \in BOOLEAN :
          LET after == [rows EXCEPT !.revoked = revoked]
          IN  walk' =
             IF next # NoPage /\ ~LinkAllowed(final, next)
             THEN [after EXCEPT !.pc = "failed"]
             ELSE IF next = NoPage \/ next \in walk.seen
             THEN [after EXCEPT !.pc = "stop", !.finished = TRUE]
             ELSE [after EXCEPT !.page = next, !.seen = @ \cup {next}]
    <3>1. {HomePage(p), HomePage(p) /\ ~paging.leaves} \subseteq BOOLEAN
      BY DEF HomePage
    <3> QED BY <1>3, <3>1 DEF FetchPage
  <2>3. rows = [pc |-> rows.pc, page |-> rows.page, seen |-> rows.seen,
                output |-> rows.output, finished |-> rows.finished,
                dropped |-> rows.dropped, revoked |-> rows.revoked]
    BY <1>0, CollectedShape
  <2>4. revoked \in BOOLEAN /\ (~revoked => ~walk.revoked /\ HomePage(p))
    BY DEF Revoked
  <2> HIDE DEF rows, next, p
  <2>5. Shaped' /\ walk'.revoked = revoked
    BY <2>2, <2>3, <2>4 DEF Shaped
  <2> QED BY <2>1, <2>4, <2>5, RequestStep
<1>4. CASE PageFails
  <2>1. /\ walk.pc = "loop" /\ Requested(walk.page) /\ UNCHANGED <<paging, source>>
        /\ walk' = [walk EXCEPT !.pc = "failed"]
    BY <1>4 DEF PageFails, More
  <2>2. Shaped' /\ walk'.pc = "failed"
    BY <1>0, <2>1 DEF Shaped
  <2> QED BY <2>1, <2>2, RequestStep
<1>5. CASE Deliver
  <2> DEFINE place == IF walk.dropped \/ ~walk.finished THEN "limited" ELSE "complete"
  <2>1. /\ UNCHANGED <<paging, source, requests>> /\ walk.pc # "failed"
        /\ walk' = [walk EXCEPT !.pc = place]
    BY <1>5 DEF Deliver
  <2> HIDE DEF place
  <2>2. Shaped' /\ walk'.revoked = walk.revoked
    BY <1>0, <2>1 DEF Shaped
  <2> QED BY <2>1, <2>2 DEF WalkInv, HomeSoFar, Home, PagesAreProtected, HomePage
<1> QED BY <1>1, <1>2, <1>3, <1>4, <1>5 DEF PaginationNext

\* No page request carries the caller's credentials away from the first page's
\* origin, or once a page or a follow-up went there; none is repeated without
\* the caller's word or the key that makes it safe (request_page).
THEOREM PagesStayProtected == PaginationSpec => []PagesAreProtected
<1>1. WalkInv => PagesAreProtected
  BY DEF WalkInv
<1> QED BY <1>1, WalkStarts, WalkStep, PTL DEF PaginationSpec

-----------------------------------------------------------------------------
(* What was collected                                                      *)

WalkTypes ==
  /\ paging \in Paginations /\ source \in Sources
  /\ walk.pc \in {"loop", "stop", "failed", "limited", "complete"}
  /\ walk.page \in PageOf(source) /\ walk.seen \subseteq PageOf(source)
  /\ walk.finished \in BOOLEAN /\ walk.dropped \in BOOLEAN
  /\ \E S : walk.output \in Seq(S)
  /\ \E S : requests \in Seq(S)
  /\ Asked \subseteq PageOf(source)

Limits ==
  /\ Len(walk.output) <= paging.maxRows
  /\ walk.dropped => Len(walk.output) = paging.maxRows
  /\ walk.pc = "loop" => ~walk.finished
  /\ walk.pc = "stop" => walk.finished
  /\ requests = <<>> => walk.output = <<>> /\ ~walk.dropped /\ walk.pc = "loop"
  /\ walk.pc = "loop" /\ ~Sliced => Len(requests) <= paging.maxPages

\* By offset or page number each slice begins where the rows so far end.
Slices ==
  /\ \A i \in 1..Len(walk.output) : walk.output[i] = i
  /\ Len(walk.output) <= TotalRows
  /\ walk.pc = "loop" =>
       Len(walk.output) = Len(requests) * paging.pageSize \/ Len(walk.output) = paging.maxRows
  /\ walk.pc = "stop" => walk.dropped \/ Len(walk.output) = TotalRows

Collects(x) == \E i \in 1..Len(walk.output) : walk.output[i] = x
IsRow(x, p) == \E k \in 1..source.rows[p] : x = <<p, k>>

\* The rows are those of the pages that were asked for, and as long as no row was dropped
\* they are all of them.
Rows ==
  /\ \A i \in 1..Len(walk.output) : \E p \in Asked : IsRow(walk.output[i], p)
  /\ walk.pc \in {"loop", "stop"} /\ ~walk.dropped =>
       \A p \in Asked : \A k \in 1..source.rows[p] : Collects(<<p, k>>)
  /\ walk.pc \in {"loop", "stop"} /\ walk.dropped =>
       ReadTwice \/ \E k \in 1..source.rows[LastPage] : ~Collects(<<LastPage, k>>)

\* The pages asked for are of the chain, and so is the one the walk goes on with: it
\* was not asked for yet, unless it is the first.
Chain ==
  /\ Asked \subseteq Reach
  /\ walk.pc = "loop" =>
       /\ walk.page \in Reach
       /\ walk.page \in Asked => walk.page = 1
       /\ walk.seen \subseteq Asked \cup {walk.page}
       /\ Asked \cup {walk.page} \subseteq walk.seen \cup {1}
       /\ 1 \in Asked \cup {walk.page}
       /\ \A p \in Asked : source.next[p] \in Asked \cup {walk.page}
       /\ walk.page = IF requests = <<>> THEN 1 ELSE source.next[LastPage]
       /\ requests # <<>> => walk.page \in walk.seen
       /\ \A n, m \in 1..Len(requests) : requests[n].page = requests[m].page => n = m
  /\ walk.pc = "stop" =>
       /\ 1 \in Asked
       /\ \A p \in Asked : source.next[p] \in Asked \cup {NoPage}

\* A function that joins the rows of the pages asked for, and the front of its last value.
RowsInOrder(p) == [i \in 1..source.rows[p] |-> <<p, i>>]
Joins(f) ==
  f = [n \in 0..Len(requests) |->
         IF n = 0 THEN <<>> ELSE f[n - 1] \o RowsInOrder(requests[n].page)]
Foremost(rows) == SubSeq(rows, 1, IF Len(rows) < paging.maxRows THEN Len(rows) ELSE paging.maxRows)

\* There is such a function, and whichever it is, the rows are the front of what it joins.
InOrderOfPages ==
  /\ \E f : Joins(f)
  /\ \A f : Joins(f) =>
       /\ \E S : f[Len(requests)] \in Seq(S)
       /\ walk.pc # "failed" => walk.output = Foremost(f[Len(requests)])

PageInv ==
  /\ Shaped /\ WalkTypes /\ Limits
  /\ Sliced => Slices
  /\ ~Sliced => Rows /\ Chain /\ FollowsChain /\ InOrderOfPages
  /\ PagesAreComplete

\* The configuration and the service.
LEMMA Configured ==
  ASSUME WalkTypes
  PROVE  /\ paging.pageSize \in Nat \ {0} /\ paging.maxRows \in Nat \ {0}
         /\ paging.maxPages \in Nat \ {0}
         /\ source.rows \in Seq(Nat) /\ 1 \in PageOf(source) /\ TotalRows \in Nat
         /\ \A p \in PageOf(source) : /\ source.rows[p] \in Nat
                                      /\ source.next[p] \in PageOf(source) \cup {NoPage}
         /\ source.generous \in BOOLEAN
         /\ Len(walk.output) \in Nat /\ DOMAIN walk.output = 1..Len(walk.output)
         /\ Len(requests) \in Nat /\ DOMAIN requests = 1..Len(requests)
         /\ paging.mode \in {"offset", "page", "cursor", "link"}
<1>1. paging \in Pagination
  BY PaginationAssumption DEF WalkTypes
<1>2. /\ source.rows \in Seq(Nat) /\ source.rows # <<>>
      /\ source.next \in [PageOf(source) -> PageOf(source) \cup {NoPage}]
      /\ source.generous \in BOOLEAN
  BY PaginationAssumption DEF WalkTypes
<1>3. DOMAIN source.rows = 1..Len(source.rows) /\ Len(source.rows) \in Nat \ {0}
  BY <1>2
<1>4. 1 \in PageOf(source) /\ \A p \in PageOf(source) : source.rows[p] \in Nat
  BY <1>2, <1>3 DEF PageOf
<1>5. /\ Len(walk.output) \in Nat /\ DOMAIN walk.output = 1..Len(walk.output)
      /\ Len(requests) \in Nat /\ DOMAIN requests = 1..Len(requests)
  BY DEF WalkTypes
<1> QED BY <1>1, <1>2, <1>4, <1>5 DEF Pagination, TotalRows

\* A request that is sent is the last one.
LEMMA Asking ==
  ASSUME WalkTypes, NEW p, Requested(p)
  PROVE  /\ \E S : requests' \in Seq(S)
         /\ Len(requests') = Len(requests) + 1 /\ requests' # <<>>
         /\ Asked' = Asked \cup {p}
         /\ LastPage' = p
<1> DEFINE r == PageRequest(p)
           n == Len(requests)
<1>1. PICK S : requests \in Seq(S)
  BY DEF WalkTypes
<1>2. requests \in Seq(S \cup {r}) /\ r \in S \cup {r}
  BY <1>1
<1>3. requests' = Append(requests, r) /\ r.page = p
  BY DEF Requested, PageRequest
<1> HIDE DEF r
<1>4. /\ requests' \in Seq(S \cup {r}) /\ Len(requests') = n + 1 /\ n \in Nat
      /\ requests'[n + 1] = r
      /\ \A i \in 1..n : requests'[i] = requests[i]
      /\ DOMAIN requests' = 1..(n + 1) /\ DOMAIN requests = 1..n
  BY <1>2, <1>3
<1>5. \A i \in 1..(n + 1) : i \in 1..n \/ i = n + 1
  BY <1>4
<1>6. \A i \in 1..n : i \in 1..(n + 1)
  BY <1>4
<1>7. n + 1 \in 1..(n + 1) /\ requests' # <<>>
  BY <1>4
<1>8. Asked' = Asked \cup {p}
  BY <1>3, <1>4, <1>5, <1>6, <1>7 DEF Asked
<1> QED BY <1>3, <1>4, <1>7, <1>8 DEF LastPage

\* The requests are the earlier ones and the new one.
LEMMA RequestAppended ==
  ASSUME WalkTypes, NEW p, Requested(p)
  PROVE  /\ Len(requests') = Len(requests) + 1 /\ DOMAIN requests' = 1..(Len(requests) + 1)
         /\ requests'[Len(requests) + 1].page = p
         /\ \A i \in 1..Len(requests) : requests'[i] = requests[i]
<1> DEFINE r == PageRequest(p)
<1>1. PICK S : requests \in Seq(S)
  BY DEF WalkTypes
<1>2. requests \in Seq(S \cup {r}) /\ r \in S \cup {r}
  BY <1>1
<1>3. requests' = Append(requests, r) /\ r.page = p
  BY DEF Requested, PageRequest
<1> HIDE DEF r
<1> QED BY <1>2, <1>3

\* The rows of a page come after the earlier ones, as many as there is room for.
LEMMA Collecting ==
  ASSUME Shaped, WalkTypes, NEW S, NEW rows \in Seq(S), Len(walk.output) < paging.maxRows
  PROVE  LET next == Collected(rows)
             n    == Len(walk.output)
         IN  \E c \in Nat :
               /\ c = (IF Len(rows) < Room THEN Len(rows) ELSE Room)
               /\ c <= Len(rows) /\ n + c <= paging.maxRows
               /\ (c # Len(rows) => n + c = paging.maxRows)
               /\ \E T : next.output \in Seq(T)
               /\ Len(next.output) = n + c
               /\ \A i \in 1..n : next.output[i] = walk.output[i]
               /\ \A i \in 1..c : next.output[n + i] = rows[i]
               /\ next.dropped = (walk.dropped \/ c # Len(rows))
<1> DEFINE n == Len(walk.output)
           c == IF Len(rows) < Room THEN Len(rows) ELSE Room
           part == SubSeq(rows, 1, c)
           out  == walk.output \o part
           drop == walk.dropped \/ Len(rows) > Room
<1>1. /\ n \in Nat /\ paging.maxRows \in Nat /\ Room = paging.maxRows - n /\ Len(rows) \in Nat
  BY Configured DEF Room
<1>2. /\ c \in Nat /\ c <= Len(rows) /\ n + c <= paging.maxRows
      /\ (c # Len(rows) => n + c = paging.maxRows)
      /\ (Len(rows) > Room <=> c # Len(rows))
  BY <1>1
<1>3. Collected(rows) = [walk EXCEPT !.output = out, !.dropped = drop]
  BY DEF Collected
<1>4. PICK U : walk.output \in Seq(U)
  BY DEF WalkTypes
<1> HIDE DEF c
<1>5. part \in Seq(S) /\ Len(part) = c /\ \A i \in 1..c : part[i] = rows[i]
  BY <1>1, <1>2
<1> HIDE DEF part
<1>6. /\ out \in Seq(U \cup S) /\ Len(out) = n + c
      /\ \A i \in 1..n : out[i] = walk.output[i]
      /\ \A i \in 1..c : out[n + i] = part[i]
  <2>1. walk.output \in Seq(U \cup S) /\ part \in Seq(U \cup S)
    BY <1>4, <1>5
  <2> QED BY <1>2, <1>5, <2>1
<1> HIDE DEF out, drop
<1>7. Collected(rows).output = out /\ Collected(rows).dropped = drop
  <2>1. Collected(rows) = [pc |-> walk.pc, page |-> walk.page, seen |-> walk.seen, output |-> out,
                           finished |-> walk.finished, dropped |-> drop, revoked |-> walk.revoked]
    BY <1>3 DEF Shaped
  <2> QED BY <2>1
<1>8. drop = (walk.dropped \/ c # Len(rows))
  BY <1>2 DEF drop
<1> QED BY <1>2, <1>5, <1>6, <1>7, <1>8 DEF c

\* The chain goes on from each of its pages.
LEMMA ReachIsClosed ==
  ASSUME WalkTypes
  PROVE  /\ 1 \in Reach
         /\ \A p \in Reach : source.next[p] \in Reach \cup {NoPage}
         /\ \A S \in SUBSET PageOf(source) : Closed(S) => Reach \subseteq S
<1>1. 1 \in Reach
  BY Configured DEF Reach, Closed
<1>2. ASSUME NEW p \in Reach, source.next[p] # NoPage PROVE source.next[p] \in Reach
  <2>1. source.next[p] \in PageOf(source)
    BY <1>2, Configured DEF Reach
  <2>2. ASSUME NEW S \in SUBSET PageOf(source), Closed(S) PROVE source.next[p] \in S
    BY <1>2, <2>2 DEF Reach, Closed
  <2> QED BY <2>1, <2>2 DEF Reach
<1> QED BY <1>1, <1>2 DEF Reach

\* The definition of Joined is such a function.
LEMMA JoinedJoins == (\E f : Joins(f)) => Joins(Joined)
  BY DEF Joins, Joined, RowsInOrder

\* Until the result is delivered, what was collected is all there is to say.
LEMMA NotDelivered ==
  /\ WalkTypes /\ walk.pc \notin {"complete", "limited"}
  /\ Sliced => Slices
  /\ ~Sliced => FollowsChain /\ InOrderOfPages
  => PagesAreComplete
<1> SUFFICES ASSUME WalkTypes, Sliced => Slices, ~Sliced => FollowsChain /\ InOrderOfPages,
                    walk.pc \notin {"complete", "limited"}
             PROVE  PagesAreComplete
  OBVIOUS
<1> DEFINE output == walk.output
           n == Len(output)
<1>1. DOMAIN output = 1..n /\ n \in Nat /\ \E S : output \in Seq(S)
  BY Configured DEF WalkTypes
<1>2. Sliced => output = [i \in DOMAIN output |-> i]
  BY <1>1 DEF Slices
<1>3. ~Sliced /\ walk.pc # "failed" => output = Foremost(Joined[Len(requests)])
  BY JoinedJoins DEF InOrderOfPages
<1> QED BY <1>2, <1>3 DEF PagesAreComplete, Foremost

\* A step that does not deliver keeps the invariant when it keeps its parts.
LEMMA KeepsParts ==
  ASSUME Shaped', WalkTypes', Limits', UNCHANGED <<paging, source>>,
         Sliced => Slices', ~Sliced => Rows' /\ Chain' /\ FollowsChain' /\ InOrderOfPages',
         walk'.pc \notin {"complete", "limited"}
  PROVE  PageInv'
<1>1. Sliced' = Sliced
  BY DEF Sliced
<1>2. (/\ WalkTypes /\ walk.pc \notin {"complete", "limited"}
       /\ Sliced => Slices
       /\ ~Sliced => FollowsChain /\ InOrderOfPages)' => PagesAreComplete'
  BY NotDelivered, PTL
<1>3. PagesAreComplete'
  BY <1>1, <1>2
<1> QED BY <1>1, <1>3 DEF PageInv

\* A page that is asked for is the next of the chain, and new unless it is the first.
LEMMA ChainFollowed ==
  ASSUME WalkTypes, Chain, FollowsChain, walk.pc = "loop", Requested(walk.page), UNCHANGED source
  PROVE  FollowsChain'
<1> DEFINE n == Len(requests)
           p == walk.page
<1>1. /\ n \in Nat /\ DOMAIN requests = 1..n /\ DOMAIN requests' = 1..(n + 1) /\ Len(requests') = n + 1
      /\ requests'[n + 1].page = p
      /\ \A i \in 1..n : requests'[i] = requests[i]
  BY RequestAppended, Configured
<1>2. /\ p = IF requests = <<>> THEN 1 ELSE source.next[LastPage]
      /\ p \in Asked => p = 1
      /\ \A i, j \in 1..n : requests[i].page = requests[j].page => i = j
  BY DEF Chain
<1>3. p = IF n + 1 = 1 THEN 1 ELSE source.next[requests[n].page]
  <2>1. requests = <<>> <=> n = 0
    <3>1. PICK S : requests \in Seq(S)
      BY DEF WalkTypes
    <3> QED BY <3>1
  <2> QED BY <1>1, <1>2, <2>1 DEF LastPage
<1> HIDE DEF n, p
<1>4. ASSUME NEW i \in 1..(n + 1)
      PROVE  requests'[i].page = IF i = 1 THEN 1 ELSE source.next[requests'[i - 1].page]
  <2>1. CASE i = n + 1
    <3>1. i # 1 => n \in 1..n /\ i - 1 = n
      BY <1>1, <2>1
    <3> QED BY <1>1, <1>3, <2>1, <3>1
  <2>2. CASE i # n + 1
    <3>1. i \in 1..n /\ (i # 1 => i - 1 \in 1..n)
      BY <1>1, <2>2
    <3> QED BY <1>1, <3>1 DEF FollowsChain
  <2> QED BY <2>1, <2>2
<1>5. ASSUME NEW i \in 1..(n + 1), NEW j \in 1..(i - 1), requests'[j].page = requests'[i].page
      PROVE  requests'[i].page = 1 /\ i = n + 1
  <2>1. j \in 1..n /\ i # j
    BY <1>1
  <2>2. CASE i = n + 1
    <3>1. p \in Asked
      BY <1>1, <1>5, <2>1, <2>2 DEF Asked
    <3> QED BY <1>1, <1>2, <2>2, <3>1
  <2>3. CASE i # n + 1
    <3>1. i \in 1..n
      BY <1>1, <2>3
    <3> QED BY <1>1, <1>2, <1>5, <2>1, <3>1
  <2> QED BY <2>2, <2>3
<1> QED BY <1>1, <1>4, <1>5 DEF FollowsChain

\* The rows of a page that is asked for are joined to the earlier ones, the last.
LEMMA JoinsOneMore ==
  ASSUME WalkTypes, InOrderOfPages, NEW p \in PageOf(source), Requested(p), UNCHANGED source
  PROVE  /\ \E f : Joins(f)'
         /\ \A g : Joins(g)' => \E f : /\ Joins(f)
                                    /\ g[Len(requests')] = f[Len(requests)] \o RowsInOrder(p)
<1> DEFINE n == Len(requests)
<1>1. /\ n \in Nat /\ Len(requests') = n + 1 /\ requests'[n + 1].page = p
      /\ \A i \in 1..n : requests'[i] = requests[i]
  BY RequestAppended, Configured
<1>2. \A q : RowsInOrder(q)' = RowsInOrder(q)
  BY DEF RowsInOrder
<1>3. \E f : Joins(f)'
  <2>1. PICK f : Joins(f)
    BY DEF InOrderOfPages
  <2> DEFINE g == [i \in 0..(n + 1) |-> IF i = n + 1 THEN f[n] \o RowsInOrder(p) ELSE f[i]]
  <2>2. ASSUME NEW i \in 0..(n + 1)
        PROVE  g[i] = IF i = 0 THEN <<>> ELSE g[i - 1] \o RowsInOrder(requests'[i].page)
    <3>1. CASE i = n + 1
      <4>1. i # 0 /\ i - 1 = n /\ n \in 0..(n + 1) /\ n # n + 1
        BY <1>1, <3>1
      <4> QED BY <1>1, <3>1, <4>1
    <3>2. CASE i # n + 1
      <4>1. i \in 0..n /\ (i # 0 => i \in 1..n /\ i - 1 \in 0..(n + 1) /\ i - 1 # n + 1)
        BY <1>1, <3>2
      <4>2. f[i] = IF i = 0 THEN <<>> ELSE f[i - 1] \o RowsInOrder(requests[i].page)
        BY <2>1, <4>1 DEF Joins
      <4> QED BY <1>1, <3>2, <4>1, <4>2
    <3> QED BY <3>1, <3>2
  <2>3. g = [i \in 0..(n + 1) |-> IF i = 0 THEN <<>> ELSE g[i - 1] \o RowsInOrder(requests'[i].page)]
    <3> DEFINE h == [i \in 0..(n + 1) |->
                       IF i = 0 THEN <<>> ELSE g[i - 1] \o RowsInOrder(requests'[i].page)]
    <3>1. DOMAIN g = 0..(n + 1)
      OBVIOUS
    <3> HIDE DEF g
    <3>2. \A i \in 0..(n + 1) : g[i] = h[i]
      BY <2>2
    <3>3. g = [i \in 0..(n + 1) |-> g[i]]
      BY <3>1 DEF g
    <3> QED BY <3>2, <3>3
  <2> HIDE DEF g
  <2>4. PICK h : h = [i \in 0..(n + 1) |-> IF i = 0 THEN <<>> ELSE h[i - 1] \o RowsInOrder(requests'[i].page)]
    BY <2>3
  <2>5. Joins(h)'
    BY <1>1, <1>2, <2>4 DEF Joins
  <2> QED BY <2>5
<1>4. ASSUME NEW g, Joins(g)'
      PROVE  \E f : Joins(f) /\ g[n + 1] = f[n] \o RowsInOrder(p)
  <2> DEFINE f == [i \in 0..n |-> g[i]]
  <2>1. \A i \in 0..(n + 1) : g[i] = IF i = 0 THEN <<>> ELSE g[i - 1] \o RowsInOrder(requests'[i].page)
    BY <1>1, <1>2, <1>4 DEF Joins
  <2>2. \A i \in 0..n : i \in 0..(n + 1) /\ (i # 0 => i \in 1..n /\ i - 1 \in 0..n)
    BY <1>1
  <2>3. \A i \in 0..n : g[i] = IF i = 0 THEN <<>> ELSE f[i - 1] \o RowsInOrder(requests[i].page)
    BY <1>1, <2>1, <2>2
  <2>4. f = [i \in 0..n |-> IF i = 0 THEN <<>> ELSE f[i - 1] \o RowsInOrder(requests[i].page)]
    <3> DEFINE h == [i \in 0..n |-> IF i = 0 THEN <<>> ELSE f[i - 1] \o RowsInOrder(requests[i].page)]
    <3>1. \A i \in 0..n : g[i] = h[i]
      BY <2>3
    <3> QED BY <3>1
  <2>5. g[n + 1] = f[n] \o RowsInOrder(p)
    <3>1. n + 1 \in 0..(n + 1) /\ n + 1 # 0 /\ (n + 1) - 1 = n /\ n \in 0..n
      BY <1>1
    <3> QED BY <1>1, <2>1, <3>1
  <2> HIDE DEF f
  <2>6. Joins(f)
    BY <2>4 DEF Joins
  <2> QED BY <2>5, <2>6
<1> QED BY <1>1, <1>3, <1>4

\* The rows of a page are a sequence.
LEMMA RowsOfPage ==
  ASSUME WalkTypes, NEW p \in PageOf(source)
  PROVE  RowsInOrder(p) \in Seq({p} \X Nat)
<1>1. source.rows[p] \in Nat
  BY Configured
<1> DEFINE m == source.rows[p]
<1> HIDE DEF m
<1>2. [i \in 1..m |-> <<p, i>>] \in [1..m -> {p} \X Nat]
  OBVIOUS
<1>3. m \in Nat
  BY <1>1 DEF m
<1>4. [i \in 1..m |-> <<p, i>>] \in Seq({p} \X Nat)
  BY <1>2, <1>3
<1> QED BY <1>4 DEF RowsInOrder, m

\* What is joined is a sequence of rows.
LEMMA JoinedRows ==
  ASSUME WalkTypes, InOrderOfPages, NEW p \in PageOf(source), Requested(p), UNCHANGED source,
         NEW g, Joins(g)'
  PROVE  \E S : g[Len(requests')] \in Seq(S)
<1>1. PICK f : Joins(f) /\ g[Len(requests')] = f[Len(requests)] \o RowsInOrder(p)
  BY JoinsOneMore
<1>2. PICK S : f[Len(requests)] \in Seq(S)
  BY <1>1 DEF InOrderOfPages
<1>3. RowsInOrder(p) \in Seq({p} \X Nat)
  BY RowsOfPage
<1> DEFINE a == f[Len(requests)]
           b == RowsInOrder(p)
<1> HIDE DEF a, b
<1>4. a \in Seq(S \cup ({p} \X Nat)) /\ b \in Seq(S \cup ({p} \X Nat))
  BY <1>2, <1>3 DEF a, b
<1>5. a \o b \in Seq(S \cup ({p} \X Nat))
  BY <1>4
<1> QED BY <1>1, <1>5 DEF a, b

\* The front of two sequences, when the first is shorter than max_rows: all of the first
\* and as much of the second as there is room for.
LEMMA FrontOfTwo ==
  ASSUME NEW S, NEW a \in Seq(S), NEW b \in Seq(S), paging.maxRows \in Nat,
         Len(Foremost(a)) < paging.maxRows,
         NEW room, room = paging.maxRows - Len(Foremost(a))
  PROVE  Foremost(a \o b) = Foremost(a) \o SubSeq(b, 1, IF Len(b) < room THEN Len(b) ELSE room)
<1> DEFINE mx == paging.maxRows
           c  == IF Len(b) < room THEN Len(b) ELSE room
<1>1. Foremost(a) = a
  <2>1. CASE Len(a) < mx
    BY <2>1 DEF Foremost
  <2>2. CASE ~(Len(a) < mx)
    <3>1. Len(SubSeq(a, 1, mx)) = mx
      BY <2>2
    <3> QED BY <2>2, <3>1 DEF Foremost
  <2> QED BY <2>1, <2>2
<1>2. /\ Len(a) \in Nat /\ Len(b) \in Nat /\ Len(a) < mx /\ room = mx - Len(a)
      /\ Len(a \o b) = Len(a) + Len(b) /\ a \o b \in Seq(S)
  BY <1>1
<1>3. c \in Nat /\ c <= Len(b)
      /\ (IF Len(a \o b) < mx THEN Len(a \o b) ELSE mx) = Len(a) + c
  BY <1>2
<1> HIDE DEF c, mx
<1>4. Foremost(a \o b) = SubSeq(a \o b, 1, Len(a) + c)
  BY <1>3 DEF Foremost, mx
<1>5. SubSeq(a \o b, 1, Len(a) + c) = a \o SubSeq(b, 1, c)
  BY <1>2, <1>3
<1> QED BY <1>1, <1>4, <1>5 DEF c

\* The slice that is read begins where the rows end; a short one ends the rows.
LEMMA SliceRead ==
  ASSUME PageInv, Sliced, More
  PROVE  LET n    == Len(walk.output)
             k    == Len(requests)
             size == Len(PageRows)
         IN  /\ n = k * paging.pageSize
             /\ PageRows \in Seq(Nat) /\ size \in Nat
             /\ \A i \in 1..size : PageRows[i] = n + i
             /\ n + size <= TotalRows
             /\ size < Limit => n + size = TotalRows
             /\ size >= Limit => size = paging.pageSize \/ n + size >= paging.maxRows
<1> DEFINE n == Len(walk.output)
           k == Len(requests)
           s == paging.pageSize
           mx == paging.maxRows
           size == IF source.generous THEN s ELSE Limit
           m == SliceEnd - n
<1>1. /\ n \in Nat /\ k \in Nat /\ s \in Nat \ {0} /\ mx \in Nat \ {0} /\ TotalRows \in Nat
      /\ n < mx /\ source.generous \in BOOLEAN
  BY Configured DEF PageInv, More
<1>2. n = k * s /\ n <= TotalRows
  BY <1>1 DEF PageInv, Slices, More
<1>3. /\ Limit \in Nat /\ Limit <= s /\ (Limit # s => Limit = mx - n)
      /\ (paging.mode = "page" => Limit = s)
  BY <1>1 DEF Limit
<1>4. SliceStart = n
  BY <1>2, <1>3 DEF SliceStart
<1>5. size \in Nat /\ Limit <= size /\ size <= s
  BY <1>1, <1>3
<1> HIDE DEF size
<1>6. SliceEnd = IF n + size < TotalRows THEN n + size ELSE TotalRows
  BY <1>4 DEF SliceEnd, size
<1>7. m \in Nat /\ n + m <= TotalRows /\ m <= size /\ (m # size => n + m = TotalRows)
  <2>1. n <= TotalRows
    BY <1>2
  <2>2. SliceEnd \in Nat /\ n <= SliceEnd /\ SliceEnd <= TotalRows /\ SliceEnd <= n + size
    BY <1>1, <1>5, <1>6, <2>1
  <2>3. SliceEnd # n + size => SliceEnd = TotalRows
    BY <1>6
  <2> QED BY <1>1, <1>5, <2>2, <2>3
<1>8. PageRows = [i \in 1..m |-> n + i]
  BY <1>4 DEF PageRows
<1> HIDE DEF m
<1>9. /\ PageRows \in Seq(Nat) /\ Len(PageRows) = m
      /\ \A i \in 1..m : PageRows[i] = n + i
  <2> DEFINE f == [i \in 1..m |-> n + i]
  <2>1. f \in [1..m -> Nat]
    BY <1>1, <1>7
  <2>2. f \in Seq(Nat) /\ Len(f) = m
    BY <1>7, <2>1
  <2> QED BY <1>8, <2>2
<1>10. m < Limit => n + m = TotalRows
  BY <1>1, <1>3, <1>5, <1>7
<1>11. m >= Limit => m = s \/ n + m >= mx
  BY <1>1, <1>3, <1>5, <1>7
<1> QED BY <1>2, <1>7, <1>9, <1>10, <1>11

\* FetchSlice.
LEMMA SliceStep == ASSUME PageInv, FetchSlice PROVE PageInv'
<1> DEFINE n == Len(walk.output)
           k == Len(requests)
           s == paging.pageSize
           mx == paging.maxRows
           rows == PageRows
           m == Len(rows)
           next == Collected(rows)
           done == m < Limit
           place == IF done THEN "stop" ELSE "loop"
<1>1. /\ More /\ Sliced /\ Requested(1) /\ UNCHANGED <<paging, source>>
      /\ walk' = [next EXCEPT !.finished = done, !.pc = place]
  BY DEF FetchSlice
<1>2. Shaped /\ WalkTypes /\ Limits /\ Slices
  BY <1>1 DEF PageInv
<1>3. /\ n \in Nat /\ k \in Nat /\ s \in Nat \ {0} /\ mx \in Nat \ {0} /\ TotalRows \in Nat
      /\ n < mx /\ walk.pc = "loop" /\ 1 \in PageOf(source) /\ ~walk.dropped
  <2>1. n < mx /\ walk.pc = "loop"
    BY <1>1 DEF More
  <2>2. ~walk.dropped
    BY <1>2, <2>1, Configured DEF Limits
  <2> QED BY <1>2, <2>1, <2>2, Configured
<1>4. /\ n = k * s /\ rows \in Seq(Nat) /\ m \in Nat
      /\ \A i \in 1..m : rows[i] = n + i
      /\ n + m <= TotalRows
      /\ done => n + m = TotalRows
      /\ ~done => m = s \/ n + m >= mx
  <2>1. Limit \in Nat
    BY <1>3 DEF Limit
  <2>2. m \in Nat /\ (~done => m >= Limit)
    BY <1>1, <2>1, SliceRead
  <2> QED BY <1>1, <2>2, SliceRead
<1>5. /\ next.page = walk.page /\ next.seen = walk.seen /\ next.revoked = walk.revoked
      /\ next = [pc |-> next.pc, page |-> next.page, seen |-> next.seen,
                 output |-> next.output, finished |-> next.finished,
                 dropped |-> next.dropped, revoked |-> next.revoked]
  BY <1>2, CollectedShape
<1>6. PICK c \in Nat :
        /\ c <= m /\ n + c <= mx
        /\ (c # m => n + c = mx)
        /\ \E T : next.output \in Seq(T)
        /\ Len(next.output) = n + c
        /\ \A i \in 1..n : next.output[i] = walk.output[i]
        /\ \A i \in 1..c : next.output[n + i] = rows[i]
        /\ next.dropped = (walk.dropped \/ c # m)
  BY <1>2, <1>3, <1>4, Collecting
<1>7. /\ Len(requests') = k + 1 /\ requests' # <<>> /\ (\E S : requests' \in Seq(S))
      /\ Asked' = Asked \cup {1}
  BY <1>1, <1>2, Asking
<1>8. done \in BOOLEAN /\ place \in {"stop", "loop"} /\ (place = "stop" <=> done)
  BY <1>3, <1>4
<1> HIDE DEF next, done, place, m, rows
<1>9. /\ walk'.pc = place /\ walk'.page = walk.page /\ walk'.seen = walk.seen
      /\ walk'.output = next.output /\ walk'.finished = done /\ walk'.dropped = next.dropped
      /\ walk'.revoked = walk.revoked
      /\ Shaped'
  BY <1>1, <1>2, <1>5 DEF Shaped
<1>10. WalkTypes'
  <2>1. Asked' \subseteq PageOf(source)
    BY <1>2, <1>3, <1>7 DEF WalkTypes
  <2>2. PageOf(source)' = PageOf(source)
    BY <1>1 DEF PageOf
  <2>3. next.dropped \in BOOLEAN
    BY <1>6
  <2> QED BY <1>1, <1>2, <1>6, <1>7, <1>8, <1>9, <2>1, <2>2, <2>3 DEF WalkTypes, PageOf
<1>11. Limits'
  <2>1. /\ Len(walk'.output) <= paging.maxRows
        /\ walk'.dropped => Len(walk'.output) = paging.maxRows
    BY <1>3, <1>6, <1>9
  <2>2. Sliced'
    BY <1>1 DEF Sliced
  <2> QED BY <1>1, <1>7, <1>8, <1>9, <2>1, <2>2 DEF Limits
<1>12. Slices'
  <2>1. \A i \in 1..(n + c) : i \in 1..n \/ \E j \in 1..c : i = n + j
    <3> SUFFICES ASSUME NEW i \in 1..(n + c), i \notin 1..n PROVE \E j \in 1..c : i = n + j
      OBVIOUS
    <3>1. i - n \in 1..c /\ i = n + (i - n)
      BY <1>3
    <3> QED BY <3>1
  <2>2. \A i \in 1..n : walk.output[i] = i
    BY <1>2 DEF Slices
  <2>3. \A j \in 1..c : next.output[n + j] = n + j
    <3>1. \A j \in 1..c : j \in 1..m
      BY <1>4, <1>6
    <3> QED BY <1>4, <1>6, <3>1
  <2>4. \A i \in 1..(n + c) : next.output[i] = i
    BY <1>6, <2>1, <2>2, <2>3
  <2>5. \A a, b \in Nat : (a + 1) * b = a * b + b
    OBVIOUS
  <2>6. place = "loop" => n + c = (k + 1) * s \/ n + c = mx
    <3>1. (k + 1) * s = n + s
      BY <1>3, <1>4, <2>5
    <3>2. place = "loop" => m = s \/ n + m >= mx
      BY <1>4, <1>8
    <3>3. n \in Nat /\ m \in Nat /\ mx \in Nat /\ c <= m /\ n + c <= mx /\ (c # m => n + c = mx)
      BY <1>3, <1>4, <1>6
    <3>4. CASE m = s
      BY <3>1, <3>3, <3>4
    <3>5. CASE n + m >= mx
      BY <3>3, <3>5
    <3> QED BY <3>2, <3>4, <3>5
  <2>7. place = "stop" => next.dropped \/ n + c = TotalRows
    BY <1>4, <1>6, <1>8
  <2>8. n + c <= TotalRows
    BY <1>3, <1>4, <1>6
  <2>9. TotalRows' = TotalRows
    BY <1>1 DEF TotalRows
  <2> QED BY <1>1, <1>6, <1>7, <1>9, <2>4, <2>6, <2>7, <2>8, <2>9 DEF Slices
<1>13. walk'.pc \notin {"complete", "limited"}
  BY <1>8, <1>9
<1> QED BY <1>1, <1>9, <1>10, <1>11, <1>12, <1>13, KeepsParts

\* PageFails.
LEMMA FailStep == ASSUME PageInv, PageFails PROVE PageInv'
<1>1. /\ More /\ Requested(walk.page) /\ UNCHANGED <<paging, source>>
      /\ walk' = [walk EXCEPT !.pc = "failed"]
  BY DEF PageFails
<1>2. Shaped /\ WalkTypes /\ Limits /\ (Sliced => Slices) /\ (~Sliced => Rows /\ Chain)
  BY DEF PageInv
<1>3. /\ walk'.pc = "failed" /\ walk'.page = walk.page /\ walk'.seen = walk.seen
      /\ walk'.output = walk.output /\ walk'.finished = walk.finished
      /\ walk'.dropped = walk.dropped /\ Shaped'
  BY <1>1, <1>2 DEF Shaped
<1>4. /\ requests' # <<>> /\ (\E S : requests' \in Seq(S))
      /\ Asked' = Asked \cup {walk.page}
  BY <1>1, <1>2, Asking
<1>5. PageOf(source)' = PageOf(source)
  BY <1>1 DEF PageOf
<1>6. WalkTypes'
  BY <1>1, <1>2, <1>3, <1>4, <1>5 DEF WalkTypes, PageOf
<1>7. Limits'
  BY <1>1, <1>2, <1>3, <1>4 DEF Limits
<1>8. Sliced => Slices'
  BY <1>1, <1>2, <1>3 DEF Slices, TotalRows
<1>9. ~Sliced => Rows' /\ Chain' /\ FollowsChain' /\ InOrderOfPages'
  <2> SUFFICES ASSUME ~Sliced PROVE Rows' /\ Chain' /\ FollowsChain' /\ InOrderOfPages'
    OBVIOUS
  <2>1. /\ Rows /\ Chain /\ FollowsChain /\ InOrderOfPages
        /\ walk.pc = "loop" /\ walk.page \in Reach /\ walk.page \in PageOf(source)
    BY <1>1, <1>2 DEF PageInv, Chain, More, WalkTypes
  <2>2. Reach' = Reach
    BY <1>1 DEF Reach, PageOf, Closed
  <2>3. Chain'
    BY <1>3, <1>4, <2>1, <2>2 DEF Chain
  <2>4. Rows'
    BY <1>1, <1>3, <1>4, <2>1 DEF Rows, IsRow
  <2>5. FollowsChain'
    BY <1>1, <1>2, <2>1, ChainFollowed
  <2>6. InOrderOfPages'
    <3>1. ASSUME NEW g, Joins(g)' PROVE \E S : g[Len(requests')] \in Seq(S)
      BY <1>1, <1>2, <2>1, <3>1, JoinedRows
    <3> QED BY <1>1, <1>2, <1>3, <2>1, <3>1, JoinsOneMore DEF InOrderOfPages
  <2> QED BY <2>3, <2>4, <2>5, <2>6
<1> QED BY <1>1, <1>3, <1>6, <1>7, <1>8, <1>9, KeepsParts

\* FetchPage: the rows.
LEMMA PageRowsKept ==
  ASSUME Shaped, WalkTypes, Limits, Rows, Chain, ~Sliced, More, Requested(walk.page),
         UNCHANGED <<paging, source>>,
         walk'.output = Collected(PageRows).output, walk'.dropped = Collected(PageRows).dropped
  PROVE  /\ Rows'
         /\ \E T : walk'.output \in Seq(T)
         /\ Len(walk'.output) <= paging.maxRows /\ walk'.dropped \in BOOLEAN
         /\ walk'.dropped => Len(walk'.output) = paging.maxRows
<1> DEFINE n == Len(walk.output)
           p == walk.page
           m == source.rows[p]
           mx == paging.maxRows
           rows == [i \in 1..m |-> <<p, i>>]
           out  == walk'.output
<1>1. /\ n \in Nat /\ mx \in Nat \ {0} /\ n < mx /\ walk.pc = "loop" /\ ~walk.dropped
      /\ p \in PageOf(source) /\ m \in Nat
  <2>1. n < mx /\ walk.pc = "loop" /\ p \in PageOf(source)
    BY DEF More, WalkTypes
  <2> QED BY <2>1, Configured DEF Limits
<1>2. rows \in Seq(PageOf(source) \X Nat) /\ Len(rows) = m /\ rows = PageRows
  <2>1. rows \in [1..m -> PageOf(source) \X Nat]
    BY <1>1
  <2> QED BY <1>1, <2>1 DEF PageRows
<1>3. \A i \in 1..m : rows[i] = <<p, i>>
  OBVIOUS
<1> HIDE DEF rows
<1>4. PICK c \in Nat :
        /\ c <= m /\ n + c <= mx
        /\ (c # m => n + c = mx)
        /\ \E T : out \in Seq(T)
        /\ Len(out) = n + c
        /\ \A i \in 1..n : out[i] = walk.output[i]
        /\ \A i \in 1..c : out[n + i] = rows[i]
        /\ walk'.dropped = (walk.dropped \/ c # m)
  <2> DEFINE next == Collected(rows)
  <2>1. out = next.output /\ walk'.dropped = next.dropped
    BY <1>2
  <2>2. \E d \in Nat :
          /\ d = (IF Len(rows) < Room THEN Len(rows) ELSE Room)
          /\ d <= Len(rows) /\ n + d <= paging.maxRows
          /\ (d # Len(rows) => n + d = paging.maxRows)
          /\ \E T : next.output \in Seq(T)
          /\ Len(next.output) = n + d
          /\ \A i \in 1..n : next.output[i] = walk.output[i]
          /\ \A i \in 1..d : next.output[n + i] = rows[i]
          /\ next.dropped = (walk.dropped \/ d # Len(rows))
    BY <1>1, <1>2, Collecting
  <2> HIDE DEF next
  <2> QED BY <1>2, <2>1, <2>2
<1>5. /\ Len(requests') = Len(requests) + 1 /\ Len(requests) \in Nat
      /\ Asked' = Asked \cup {p} /\ LastPage' = p
  BY Asking, Configured
<1> HIDE DEF p, m, out
<1>6. \A i \in 1..(n + c) : i \in 1..n \/ \E j \in 1..c : i = n + j
  <2> SUFFICES ASSUME NEW i \in 1..(n + c), i \notin 1..n PROVE \E j \in 1..c : i = n + j
    OBVIOUS
  <2>1. i - n \in 1..c /\ i = n + (i - n)
    BY <1>1
  <2> QED BY <2>1
<1>7. \A j \in 1..c : n + j \in 1..(n + c) /\ j \in 1..m /\ out[n + j] = <<p, j>>
  BY <1>1, <1>3, <1>4
<1>8. \A i \in 1..n : i \in 1..(n + c)
  BY <1>1
<1>9. ASSUME NEW i \in 1..n, NEW j \in Nat, walk.output[i] = <<p, j>> PROVE p \in Asked /\ p = 1
  <2>1. PICK q \in Asked : IsRow(walk.output[i], q)
    BY DEF Rows
  <2>2. p = q
    BY <1>9, <2>1 DEF IsRow
  <2> QED BY <1>1, <2>1, <2>2 DEF Chain, p
<1>10. \A i \in 1..(n + c) : \E q \in Asked \cup {p} : IsRow(out[i], q)
  <2> TAKE i \in 1..(n + c)
  <2>1. CASE i \in 1..n
    BY <1>4, <2>1 DEF Rows
  <2>2. CASE \E j \in 1..c : i = n + j
    BY <1>7, <2>2 DEF IsRow, m
  <2> QED BY <1>6, <2>1, <2>2
<1>11. ASSUME ~walk'.dropped, NEW q \in Asked \cup {p}, NEW k \in 1..source.rows[q]
       PROVE  \E i \in 1..(n + c) : out[i] = <<q, k>>
  <2>1. CASE q \in Asked
    <3>1. Collects(<<q, k>>)
      BY <1>1, <2>1 DEF Rows
    <3> QED BY <1>4, <1>8, <3>1 DEF Collects
  <2>2. CASE q = p
    <3>1. c = m /\ k \in 1..c
      BY <1>4, <1>11, <2>2 DEF m
    <3> QED BY <1>7, <2>2, <3>1
  <2> QED BY <2>1, <2>2
<1>12. ASSUME walk'.dropped
       PROVE  \/ p = 1 /\ Len(requests') > 1
              \/ \E k \in 1..m : ~\E i \in 1..(n + c) : out[i] = <<p, k>>
  <2>1. c # m
    BY <1>1, <1>4, <1>12
  <2>2. c + 1 \in 1..m /\ c + 1 \in Nat
    BY <1>1, <1>4, <2>1
  <2> SUFFICES ASSUME NEW i \in 1..(n + c), out[i] = <<p, c + 1>>
               PROVE  p = 1 /\ Len(requests') > 1
    BY <2>2
  <2>3. CASE i \in 1..n
    <3>1. walk.output[i] = <<p, c + 1>>
      BY <1>4, <2>3
    <3>2. p \in Asked /\ p = 1
      BY <1>9, <2>2, <2>3, <3>1
    <3>3. \E j \in 1..Len(requests) : TRUE
      BY <3>2, Configured DEF Asked
    <3> QED BY <1>5, <3>2, <3>3
  <2>4. CASE \E j \in 1..c : i = n + j
    <3>1. PICK j \in 1..c : <<p, j>> = <<p, c + 1>>
      BY <1>7, <2>4
    <3>2. j = c + 1
      BY <3>1
    <3> QED BY <3>2
  <2> QED BY <1>6, <2>3, <2>4
<1>13. Rows'
  <2>1. source' = source
    OBVIOUS
  <2>2. ReadTwice' = (p = 1 /\ Len(requests') > 1)
    BY <1>5 DEF ReadTwice
  <2>3. walk'.output = out
    BY DEF out
  <2>4. \A i \in 1..Len(walk'.output) : \E q \in Asked' : IsRow(walk'.output[i], q)
    BY <1>4, <1>5, <1>10, <2>3
  <2>5. ~walk'.dropped =>
          \A q \in Asked' : \A k \in 1..source.rows[q] :
            \E i \in 1..Len(walk'.output) : walk'.output[i] = <<q, k>>
    BY <1>4, <1>5, <1>11, <2>3
  <2>6. walk'.dropped =>
          ReadTwice' \/ \E k \in 1..source.rows[LastPage'] :
                          ~\E i \in 1..Len(walk'.output) : walk'.output[i] = <<LastPage', k>>
    BY <1>4, <1>5, <1>12, <2>2, <2>3 DEF m
  <2> QED BY <2>1, <2>4, <2>5, <2>6 DEF Rows, IsRow, Collects
<1>14. walk'.dropped \in BOOLEAN
  BY <1>1, <1>4
<1> QED BY <1>1, <1>4, <1>13, <1>14 DEF out

\* FetchPage: the rows go on with those of the page.
LEMMA PageCollected ==
  ASSUME Shaped, WalkTypes, ~Sliced, Len(walk.output) < paging.maxRows,
         NEW a, \E S : a \in Seq(S), walk.output = Foremost(a)
  PROVE  Collected(PageRows).output = Foremost(a \o RowsInOrder(walk.page))
<1> DEFINE b == RowsInOrder(walk.page)
           c == IF Len(b) < Room THEN Len(b) ELSE Room
           out == walk.output \o SubSeq(b, 1, c)
           drop == walk.dropped \/ Len(b) > Room
<1>1. PageRows = b /\ walk.page \in PageOf(source)
  BY DEF PageRows, RowsInOrder, WalkTypes
<1>2. b \in Seq({walk.page} \X Nat)
  BY <1>1, RowsOfPage
<1>3. PICK S : a \in Seq(S)
  OBVIOUS
<1> HIDE DEF b
<1>4. a \in Seq(S \cup ({walk.page} \X Nat)) /\ b \in Seq(S \cup ({walk.page} \X Nat))
  BY <1>2, <1>3
<1>5. paging.maxRows \in Nat /\ Room = paging.maxRows - Len(Foremost(a))
  BY Configured DEF Room
<1>6. Foremost(a \o b) = out
  BY <1>4, <1>5, FrontOfTwo
<1>7. Collected(b) = [walk EXCEPT !.output = out, !.dropped = drop]
  BY DEF Collected
<1> HIDE DEF out, drop
<1>8. Collected(b) = [pc |-> walk.pc, page |-> walk.page, seen |-> walk.seen, output |-> out,
                      finished |-> walk.finished, dropped |-> drop, revoked |-> walk.revoked]
  BY <1>7 DEF Shaped
<1>9. Collected(b).output = out
  BY <1>8
<1> QED BY <1>1, <1>6, <1>9 DEF b

\* FetchPage: pages asked for once stay so when the new one is new.
LEMMA NewIsDistinct ==
  ASSUME WalkTypes, NEW p, Requested(p), p \notin Asked,
         \A i, j \in 1..Len(requests) : requests[i].page = requests[j].page => i = j
  PROVE  \A i, j \in 1..Len(requests') : requests'[i].page = requests'[j].page => i = j
<1> DEFINE n == Len(requests)
<1>1. /\ n \in Nat /\ Len(requests') = n + 1 /\ requests'[n + 1].page = p
      /\ \A i \in 1..n : requests'[i] = requests[i] /\ requests[i].page # p
  BY RequestAppended, Configured DEF Asked
<1>2. \A i \in 1..(n + 1) : i \in 1..n \/ i = n + 1
  BY <1>1
<1> QED BY <1>1, <1>2

\* FetchPage.
LEMMA PageStep == ASSUME PageInv, FetchPage PROVE PageInv'
<1> DEFINE p    == walk.page
           m    == source.next[p]
           next == Collected(PageRows)
<1>1. More /\ ~Sliced /\ Requested(p) /\ UNCHANGED <<paging, source>>
  BY DEF FetchPage
<1>2. /\ Shaped /\ WalkTypes /\ Limits /\ Rows /\ Chain
      /\ FollowsChain /\ InOrderOfPages
      /\ walk.pc = "loop" /\ Len(requests) < paging.maxPages /\ Len(walk.output) < paging.maxRows
  BY <1>1 DEF PageInv, More
<1>3. PICK revoked \in Revoked(p), final \in {HomePage(p), HomePage(p) /\ ~paging.leaves} :
        LET after == [next EXCEPT !.revoked = revoked]
        IN  walk' =
           IF m # NoPage /\ ~LinkAllowed(final, m)
           THEN [after EXCEPT !.pc = "failed"]
           ELSE IF m = NoPage \/ m \in walk.seen
           THEN [after EXCEPT !.pc = "stop", !.finished = TRUE]
           ELSE [after EXCEPT !.page = m, !.seen = @ \cup {m}]
  BY DEF FetchPage
<1>4. /\ next.pc = walk.pc /\ next.page = p /\ next.seen = walk.seen
      /\ next.finished = walk.finished
      /\ next = [pc |-> next.pc, page |-> next.page, seen |-> next.seen,
                 output |-> next.output, finished |-> next.finished,
                 dropped |-> next.dropped, revoked |-> next.revoked]
  BY <1>2, CollectedShape
<1>5. revoked \in BOOLEAN
  BY DEF Revoked, HomePage, WalkTypes
<1>6. p \in PageOf(source) /\ p \in Reach /\ m \in PageOf(source) \cup {NoPage}
  BY <1>2, Configured DEF WalkTypes, Chain
<1>7. /\ Len(requests') = Len(requests) + 1 /\ requests' # <<>> /\ (\E S : requests' \in Seq(S))
      /\ Asked' = Asked \cup {p} /\ LastPage' = p
  BY <1>1, <1>2, Asking
<1> HIDE DEF next, m
<1>8. /\ walk'.output = next.output /\ walk'.dropped = next.dropped
      /\ walk' = [pc |-> walk'.pc, page |-> walk'.page, seen |-> walk'.seen,
                  output |-> walk'.output, finished |-> walk'.finished,
                  dropped |-> walk'.dropped, revoked |-> walk'.revoked]
      /\ walk'.revoked = revoked
  BY <1>3, <1>4
<1>9. \/ /\ walk'.pc = "failed" /\ walk'.page = p /\ walk'.seen = walk.seen
         /\ walk'.finished = walk.finished
      \/ /\ walk'.pc = "stop" /\ walk'.page = p /\ walk'.seen = walk.seen
         /\ walk'.finished /\ walk'.finished \in BOOLEAN /\ (m = NoPage \/ m \in walk.seen)
      \/ /\ walk'.pc = "loop" /\ walk'.page = m /\ walk'.seen = walk.seen \cup {m}
         /\ walk'.finished = walk.finished /\ m # NoPage /\ m \notin walk.seen
  BY <1>2, <1>3, <1>4
<1>10. Shaped'
  BY <1>5, <1>8 DEF Shaped
<1>11. /\ Rows'
       /\ \E T : walk'.output \in Seq(T)
       /\ Len(walk'.output) <= paging.maxRows /\ walk'.dropped \in BOOLEAN
       /\ walk'.dropped => Len(walk'.output) = paging.maxRows
  BY <1>1, <1>2, <1>8, PageRowsKept DEF next
<1>12. WalkTypes'
  <2>1. Asked' \subseteq PageOf(source) /\ PageOf(source)' = PageOf(source)
    BY <1>1, <1>2, <1>6, <1>7 DEF WalkTypes, PageOf
  <2>2. /\ walk'.pc \in {"loop", "stop", "failed"} /\ walk'.page \in PageOf(source)
        /\ walk'.seen \subseteq PageOf(source) /\ walk'.finished \in BOOLEAN
    BY <1>2, <1>6, <1>9 DEF WalkTypes
  <2> QED BY <1>1, <1>2, <1>7, <1>11, <2>1, <2>2 DEF WalkTypes
<1>13. Limits'
  <2>1. Len(requests') <= paging.maxPages
    BY <1>2, <1>7, Configured
  <2>2. walk.finished = FALSE
    BY <1>2 DEF Limits, WalkTypes
  <2> QED BY <1>1, <1>7, <1>9, <1>11, <2>1, <2>2 DEF Limits
<1>14. Chain'
  <2>1. Reach' = Reach
    BY <1>1 DEF Reach, PageOf, Closed
  <2>2. Asked' \subseteq Reach
    BY <1>2, <1>6, <1>7 DEF Chain
  <2>3. /\ walk.seen \subseteq Asked \cup {p} /\ Asked \cup {p} \subseteq walk.seen \cup {1}
        /\ 1 \in Asked \cup {p}
        /\ \A q \in Asked : source.next[q] \in Asked \cup {p}
    BY <1>2 DEF Chain
  <2>4. CASE walk'.pc = "failed"
    BY <2>1, <2>2, <2>4 DEF Chain
  <2>5. CASE walk'.pc = "stop"
    <3>1. \A q \in Asked \cup {p} : source.next[q] \in Asked \cup {p, NoPage}
      BY <1>9, <2>3, <2>5 DEF m
    <3> QED BY <1>1, <1>7, <2>1, <2>2, <2>3, <2>5, <3>1 DEF Chain
  <2>6. CASE walk'.pc = "loop"
    <3>1. walk'.page = m /\ walk'.seen = walk.seen \cup {m} /\ m # NoPage /\ m \notin walk.seen
      BY <1>9, <2>6
    <3>2. m \in Reach
      BY <1>2, <1>6, <3>1, ReachIsClosed DEF m
    <3>3. \A q \in Asked \cup {p} : source.next[q] \in Asked \cup {p, m}
      BY <2>3 DEF m
    <3>4. m \in Asked \cup {p} => m = 1
      BY <2>3, <3>1
    <3>5. m = source.next[p]
      BY DEF m
    <3>6. p \notin Asked
      <4>1. p \in Asked => requests # <<>>
        BY <1>2 DEF Asked, WalkTypes
      <4> QED BY <1>2, <2>3, <3>1, <3>5, <4>1 DEF Chain
    <3>7. \A i, j \in 1..Len(requests') : requests'[i].page = requests'[j].page => i = j
      BY <1>2, <3>6, NewIsDistinct, <1>1 DEF Chain
    <3> QED BY <1>1, <1>7, <2>1, <2>2, <2>3, <2>6, <3>1, <3>2, <3>3, <3>4, <3>5, <3>7 DEF Chain
  <2> QED BY <1>9, <2>4, <2>5, <2>6
<1>15. walk'.pc \notin {"complete", "limited"}
  BY <1>9
<1>16. FollowsChain'
  BY <1>1, <1>2, ChainFollowed
<1>17. InOrderOfPages'
  <2>1. ASSUME NEW g, Joins(g)'
        PROVE  (\E S : g[Len(requests')] \in Seq(S)) /\ walk'.output = Foremost(g[Len(requests')])
    <3>1. \E S : g[Len(requests')] \in Seq(S)
      BY <1>1, <1>2, <1>6, <2>1, JoinedRows
    <3>2. PICK f : Joins(f) /\ g[Len(requests')] = f[Len(requests)] \o RowsInOrder(p)
      BY <1>1, <1>2, <1>6, <2>1, JoinsOneMore
    <3>3. walk.output = Foremost(f[Len(requests)]) /\ \E S : f[Len(requests)] \in Seq(S)
      BY <1>2, <3>2 DEF InOrderOfPages
    <3>4. walk'.output = Foremost(f[Len(requests)] \o RowsInOrder(p))
      BY <1>1, <1>2, <1>6, <1>8, <3>3, PageCollected DEF next
    <3> QED BY <3>1, <3>2, <3>4
  <2>2. \A g : Foremost(g)' = Foremost(g)
    BY <1>1 DEF Foremost
  <2> QED BY <1>1, <1>2, <1>6, <2>1, <2>2, JoinsOneMore DEF InOrderOfPages
<1> QED BY <1>1, <1>10, <1>11, <1>12, <1>13, <1>14, <1>15, <1>16, <1>17, KeepsParts

\* What the walk holds when it is over: everything, or what a limit left.
LEMMA DeliveredIsTrue ==
  ASSUME PageInv, walk.pc = "stop" \/ (walk.pc = "loop" /\ ~More)
  PROVE  LET rows == ToSet(walk.output)
         IN  /\ rows \subseteq AllRows
             /\ ~walk.dropped /\ walk.finished => rows = AllRows
             /\ walk.dropped \/ ~walk.finished =>
                  /\ Len(walk.output) = paging.maxRows \/ Len(requests) = paging.maxPages
                  /\ \/ rows # AllRows
                     \/ Sliced /\ TotalRows = paging.maxRows
                     \/ ~Sliced /\ (Reach # Asked \/ source.next[LastPage] = 1 \/ ReadTwice)
<1> DEFINE n == Len(walk.output)
           k == Len(requests)
           mx == paging.maxRows
           rows == ToSet(walk.output)
<1>1. WalkTypes /\ Limits /\ (Sliced => Slices) /\ (~Sliced => Rows /\ Chain)
  BY DEF PageInv
<1>2. /\ n \in Nat /\ k \in Nat /\ mx \in Nat \ {0} /\ paging.maxPages \in Nat \ {0}
      /\ TotalRows \in Nat /\ DOMAIN walk.output = 1..n /\ DOMAIN requests = 1..k
      /\ walk.finished \in BOOLEAN /\ walk.dropped \in BOOLEAN
      /\ (k = 0 => requests = <<>>)
  <2>1. k = 0 => requests = <<>>
    <3>1. PICK S : requests \in Seq(S)
      BY <1>1 DEF WalkTypes
    <3> QED BY <3>1
  <2> QED BY <1>1, <2>1, Configured DEF WalkTypes
<1>3. rows = {walk.output[i] : i \in 1..n}
  BY <1>2 DEF ToSet
<1>4. /\ walk.dropped => n = mx
      /\ walk.finished => walk.pc = "stop"
      /\ walk.pc = "stop" => walk.finished
  BY <1>1 DEF Limits
<1>5. ~walk.finished /\ n # mx =>
        walk.pc = "loop" /\ ~Sliced /\ k = paging.maxPages
  <2> SUFFICES ASSUME ~walk.finished, n # mx
               PROVE  walk.pc = "loop" /\ ~Sliced /\ k = paging.maxPages
    OBVIOUS
  <2>1. walk.pc = "loop" /\ ~More
    BY <1>4
  <2>2. n < mx
    BY <1>1, <1>2 DEF Limits
  <2>3. ~Sliced /\ ~(k < paging.maxPages)
    BY <2>1, <2>2 DEF More
  <2>4. k <= paging.maxPages
    BY <1>1, <2>1, <2>3 DEF Limits
  <2> QED BY <1>2, <2>1, <2>3, <2>4
<1>6. CASE Sliced
  <2>1. rows = 1..n /\ n <= TotalRows /\ AllRows = 1..TotalRows
    <3>1. \A i \in 1..n : walk.output[i] = i
      BY <1>1, <1>6 DEF Slices
    <3>2. rows = 1..n
      BY <1>3, <3>1
    <3> QED BY <1>1, <1>6, <3>2 DEF Slices, AllRows
  <2>2. rows \subseteq AllRows
    BY <1>2, <2>1
  <2>3. ~walk.dropped /\ walk.finished => n = TotalRows
    BY <1>1, <1>4, <1>6 DEF Slices
  <2>4. walk.dropped \/ ~walk.finished => n = mx
    BY <1>4, <1>5, <1>6
  <2>5. rows = AllRows => n = TotalRows
    <3> SUFFICES ASSUME rows = AllRows, n # TotalRows PROVE FALSE
      OBVIOUS
    <3>1. TotalRows \in 1..TotalRows /\ TotalRows \notin 1..n
      BY <1>2, <2>1
    <3> QED BY <2>1, <3>1
  <2> QED BY <1>6, <2>1, <2>2, <2>3, <2>4, <2>5
<1>7. CASE ~Sliced
  <2>0. Rows /\ Chain /\ AllRows = UNION {RowsOf(p) : p \in Reach}
    BY <1>1, <1>7 DEF AllRows
  <2>1. rows \subseteq AllRows
    <3> SUFFICES ASSUME NEW i \in 1..n PROVE walk.output[i] \in AllRows
      BY <1>3
    <3>1. PICK p \in Asked : IsRow(walk.output[i], p)
      BY <2>0 DEF Rows
    <3>2. p \in Reach /\ walk.output[i] \in RowsOf(p)
      BY <2>0, <3>1 DEF Chain, IsRow, RowsOf
    <3> QED BY <2>0, <3>2
  <2>2. \A x : Collects(x) <=> x \in rows
    BY <1>3 DEF Collects
  <2>3. ASSUME ~walk.dropped, walk.finished PROVE rows = AllRows
    <3>1. walk.pc = "stop"
      BY <1>4, <2>3
    <3>2. Asked \subseteq PageOf(source) /\ Closed(Asked)
      BY <1>1, <2>0, <3>1 DEF WalkTypes, Chain, Closed
    <3>3. Reach \subseteq Asked
      BY <1>1, <3>2, ReachIsClosed
    <3>4. ASSUME NEW p \in Reach, NEW j \in 1..source.rows[p] PROVE <<p, j>> \in rows
      BY <2>0, <2>2, <2>3, <3>1, <3>3 DEF Rows
    <3>5. AllRows \subseteq rows
      BY <2>0, <3>4 DEF RowsOf
    <3> QED BY <2>1, <3>5
  <2>4. ASSUME walk.dropped \/ ~walk.finished, rows = AllRows
        PROVE  Reach # Asked \/ source.next[LastPage] = 1 \/ ReadTwice
    <3>1. CASE walk.dropped
      <4>1. walk.pc \in {"loop", "stop"} /\ requests # <<>>
        BY <1>1, <3>1 DEF Limits
      <4>2. LastPage \in Asked
        <5>1. k \in DOMAIN requests
          BY <1>2, <4>1
        <5> QED BY <5>1 DEF Asked, LastPage
      <4>3. ASSUME NEW j \in 1..source.rows[LastPage] PROVE Collects(<<LastPage, j>>)
        <5>1. LastPage \in Reach /\ <<LastPage, j>> \in RowsOf(LastPage)
          BY <2>0, <4>2 DEF Chain, RowsOf
        <5> QED BY <2>0, <2>2, <2>4, <5>1
      <4> QED BY <2>0, <3>1, <4>1, <4>3 DEF Rows
    <3>2. CASE ~walk.dropped
      <4>1. walk.pc = "loop" /\ ~More
        BY <1>4, <2>4, <3>2
      <4>2. requests # <<>>
        <5> SUFFICES ASSUME requests = <<>> PROVE FALSE
          OBVIOUS
        <5>1. walk.output = <<>>
          BY <1>1 DEF Limits
        <5>2. n = 0 /\ k = 0
          BY <5>1
        <5> QED BY <1>2, <4>1, <5>2 DEF More
      <4>3. walk.page \in Reach /\ walk.page = source.next[LastPage]
            /\ (walk.page \in Asked => walk.page = 1)
        BY <2>0, <4>1, <4>2 DEF Chain
      <4> QED BY <4>3
    <3> QED BY <1>2, <3>1, <3>2
  <2>5. walk.dropped \/ ~walk.finished => n = mx \/ k = paging.maxPages
    BY <1>4, <1>5
  <2> QED BY <1>7, <2>1, <2>3, <2>4, <2>5
<1> QED BY <1>6, <1>7

\* Deliver.
LEMMA DeliverStep == ASSUME PageInv, Deliver PROVE PageInv'
<1> DEFINE place == IF walk.dropped \/ ~walk.finished THEN "limited" ELSE "complete"
<1>1. /\ walk.pc = "stop" \/ (walk.pc = "loop" /\ ~More)
      /\ walk' = [walk EXCEPT !.pc = place]
      /\ UNCHANGED <<paging, source, requests>>
  BY DEF Deliver
<1>2. Shaped /\ WalkTypes /\ Limits /\ (Sliced => Slices) /\ (~Sliced => Rows /\ Chain)
  BY DEF PageInv
<1>3. /\ place = "complete" => ~walk.dropped /\ walk.finished
      /\ place = "limited" => walk.dropped \/ ~walk.finished
      /\ place \in {"complete", "limited"}
  BY <1>2 DEF WalkTypes
<1> HIDE DEF place
<1>4. /\ walk'.pc = place /\ walk'.page = walk.page /\ walk'.seen = walk.seen
      /\ walk'.output = walk.output /\ walk'.finished = walk.finished
      /\ walk'.dropped = walk.dropped /\ Shaped'
  BY <1>1, <1>2 DEF Shaped
<1>5. PageOf(source)' = PageOf(source) /\ Asked' = Asked
  BY <1>1 DEF PageOf, Asked
<1>6. WalkTypes'
  BY <1>1, <1>2, <1>3, <1>4, <1>5 DEF WalkTypes, PageOf
<1>7. Limits'
  <2>1. requests # <<>>
    <3> SUFFICES ASSUME requests = <<>> PROVE FALSE
      OBVIOUS
    <3>1. walk.output = <<>> /\ walk.pc = "loop"
      BY <1>2 DEF Limits
    <3>2. Len(walk.output) = 0 /\ Len(requests) = 0
      BY <3>1
    <3>3. 0 < paging.maxRows /\ 0 < paging.maxPages
      BY <1>2, Configured
    <3> QED BY <1>1, <3>1, <3>2, <3>3 DEF More
  <2> QED BY <1>1, <1>2, <1>3, <1>4, <2>1 DEF Limits
<1>8. Sliced => Slices'
  BY <1>1, <1>2, <1>3, <1>4 DEF Slices, TotalRows
<1>9. Reach' = Reach /\ Sliced' = Sliced
  BY <1>1 DEF Reach, PageOf, Closed, Sliced
<1>10. ~Sliced => Rows' /\ Chain' /\ FollowsChain' /\ InOrderOfPages'
  <2>1. ~Sliced => Rows' /\ Chain'
    BY <1>1, <1>2, <1>3, <1>4, <1>5, <1>9 DEF Rows, IsRow, Chain
  <2>2. ~Sliced => FollowsChain' /\ InOrderOfPages'
    <3>1. \A f : (Joins(f)' <=> Joins(f)) /\ Foremost(f)' = Foremost(f)
      BY <1>1 DEF Joins, RowsInOrder, Foremost
    <3> QED BY <1>1, <1>4, <3>1 DEF PageInv, FollowsChain, InOrderOfPages
  <2> QED BY <2>1, <2>2
<1>11. PagesAreComplete'
  <2>1. /\ AllRows' = AllRows /\ TotalRows' = TotalRows /\ ReadTwice' = ReadTwice
        /\ LastPage' = LastPage
    BY <1>1, <1>9 DEF AllRows, TotalRows, ReadTwice, LastPage, RowsOf
  <2>2. /\ Sliced => walk.output = [i \in DOMAIN walk.output |-> i]
        /\ ~Sliced => FollowsChain
        /\ ~Sliced => walk.output = Foremost(Joined[Len(requests)])
    BY <1>1 DEF PageInv, PagesAreComplete, Foremost
  <2>3. ToSet(walk.output)' = ToSet(walk.output)
    BY <1>4
  <2>4. /\ place = "complete" => ToSet(walk.output) = AllRows
        /\ place = "limited" =>
             /\ ToSet(walk.output) \subseteq AllRows
             /\ Len(walk.output) = paging.maxRows \/ Len(requests) = paging.maxPages
             /\ \/ ToSet(walk.output) # AllRows
                \/ Sliced /\ TotalRows = paging.maxRows
                \/ ~Sliced /\ (Reach # Asked \/ source.next[LastPage] = 1 \/ ReadTwice)
    BY <1>1, <1>3, DeliveredIsTrue
  <2>5. Joined' = Joined
    BY <1>1 DEF Joined
  <2> QED BY <1>1, <1>4, <1>5, <1>9, <2>1, <2>2, <2>3, <2>4, <2>5
          DEF PagesAreComplete, FollowsChain, Foremost
<1> QED BY <1>4, <1>6, <1>7, <1>8, <1>9, <1>10, <1>11 DEF PageInv

\* Nothing was asked for.
LEMMA PagesStart == PaginationInit => PageInv
<1> SUFFICES ASSUME PaginationInit PROVE PageInv
  OBVIOUS
<1>1. /\ paging \in Paginations /\ source \in Sources /\ requests = <<>>
      /\ walk = [pc |-> "loop", page |-> 1, seen |-> {}, output |-> <<>>,
                 finished |-> FALSE, dropped |-> FALSE, revoked |-> FALSE]
      /\ Asked = {}
  BY DEF PaginationInit, Asked
<1>2. 1 \in PageOf(source)
  BY <1>1, PaginationAssumption DEF PageOf
<1>3. requests \in Seq({}) /\ walk.output \in Seq({})
  BY <1>1
<1>4. Shaped /\ WalkTypes
  BY <1>1, <1>2, <1>3 DEF Shaped, WalkTypes
<1>5. Limits /\ Slices
  <2>1. Len(walk.output) = 0 /\ Len(requests) = 0
    BY <1>1
  <2> QED BY <1>1, <1>4, <2>1, Configured DEF Limits, Slices
<1>6. Rows /\ Chain /\ FollowsChain /\ InOrderOfPages
  <2>1. Len(walk.output) = 0 /\ Len(requests) = 0 /\ DOMAIN requests = {}
    BY <1>1
  <2>2. Rows /\ Chain /\ FollowsChain
    BY <1>1, <1>4, <2>1, ReachIsClosed DEF Rows, Chain, FollowsChain
  <2>3. Joins([i \in 0..0 |-> <<>>])
    BY <2>1 DEF Joins
  <2>4. ASSUME NEW f, Joins(f) PROVE f[0] = <<>>
    BY <2>1, <2>4 DEF Joins
  <2>5. <<>> \in Seq({}) /\ Foremost(<<>>) = <<>>
    BY <1>4, Configured DEF Foremost
  <2> QED BY <1>1, <2>1, <2>2, <2>3, <2>4, <2>5 DEF InOrderOfPages
<1> QED BY <1>1, <1>4, <1>5, <1>6, NotDelivered DEF PageInv

\* Every step keeps what was collected: one case for each action.
LEMMA PagesGoOn == PageInv /\ [PaginationNext]_paginationVars => PageInv'
<1> SUFFICES ASSUME PageInv, [PaginationNext]_paginationVars PROVE PageInv'
  OBVIOUS
<1>1. CASE UNCHANGED paginationVars
  <2>1. UNCHANGED <<paging, source, walk, requests>>
    BY <1>1 DEF paginationVars
  <2>2. PageOf(source)' = PageOf(source) /\ Sliced' = Sliced
    BY <2>1 DEF PageOf, Sliced
  <2>3. Asked' = Asked /\ Reach' = Reach /\ ReadTwice' = ReadTwice /\ LastPage' = LastPage
    BY <2>1 DEF Asked, Reach, PageOf, Closed, ReadTwice, LastPage
  <2>4. (~Sliced => FollowsChain' /\ InOrderOfPages')
    <3>1. \A f : (Joins(f)' <=> Joins(f)) /\ Foremost(f)' = Foremost(f)
      BY <2>1 DEF Joins, RowsInOrder, Foremost
    <3> QED BY <2>1, <3>1 DEF PageInv, FollowsChain, InOrderOfPages
  <2>5. Shaped' /\ WalkTypes' /\ Limits' /\ (Sliced => Slices') /\ (~Sliced => Rows' /\ Chain')
    BY <2>1, <2>2, <2>3
    DEF PageInv, Shaped, WalkTypes, PageOf, Limits, Slices, TotalRows, Rows, IsRow, Collects, Chain
  <2>6. PagesAreComplete'
    <3>1. AllRows' = AllRows /\ TotalRows' = TotalRows /\ Joined' = Joined
      BY <2>1, <2>2, <2>3 DEF AllRows, TotalRows, RowsOf, Joined
    <3>2. ToSet(walk.output)' = ToSet(walk.output)
      BY <2>1
    <3>3. PagesAreComplete
      BY DEF PageInv
    <3> QED BY <2>1, <2>2, <2>3, <3>1, <3>2, <3>3 DEF PagesAreComplete, FollowsChain
  <2> QED BY <2>2, <2>4, <2>5, <2>6 DEF PageInv
<1> QED BY <1>1, SliceStep, PageStep, FailStep, DeliverStep DEF PaginationNext

\* The rows are those of the pages asked for, joined in the order of the chain and cut at
\* max_rows; only the first page is read twice, as the last one. A result without a limit
\* error has all the rows of every page the chain reaches, however it loops; with the
\* error some of them are left out and a limit was reached, but for the exact and the
\* second reading that PagesAreComplete names (paginated).
THEOREM PagesAllCome == PaginationSpec => []PagesAreComplete
<1>1. PageInv => PagesAreComplete
  BY DEF PageInv
<1> QED BY <1>1, PagesStart, PagesGoOn, PTL DEF PaginationSpec

-----------------------------------------------------------------------------
(* A job and the execution that resumes it                                 *)

First   == polled.visits["first"]
Resumed == polled.visits["resumed"]

Visiting == {"url", "id", "handle", "cancel", "result"}

\* The cancel request of a visit.
CancelOf(visit) ==
  IF job.cancel = Unnamed THEN Unnamed
  ELSE IF job.cancel.template = Unnamed THEN visit.url
  ELSE Render(job.cancel.template, visit.url, visit.id)

\* A visit that was registered.
Registered(visit) == visit.handle = Handle /\ visit.cancel = CancelOf(visit)

Going == {"register", "poll", "left", "done", "failed"}

\* The first execution found the job where its configuration says.
FirstVisit ==
  /\ First.url = PollUrl /\ First.id = JobId /\ Admitted(job.served, PollUrl)
  /\ First.url # Unnamed
  /\ First.handle \in {Unnamed, Handle}

\* The one that resumes it knows nothing but the handle.
ResumedVisit ==
  /\ First.handle # Unnamed /\ FirstVisit /\ Registered(First)
  /\ Resumed.id = First.handle
  /\ Resumed.url = ResumeUrl(First.handle)
  /\ polled.pc \in {"poll", "done"} => Registered(Resumed)
  /\ Resumed.result # Unnamed => Resumed.result = Render(job.result.template, Resumed.url, Resumed.id)

JobInv ==
  /\ job \in PolledJob
  /\ polled = [pc |-> polled.pc, run |-> polled.run, visits |-> polled.visits]
  /\ DOMAIN polled.visits = {"first", "resumed"}
  /\ \A r \in {"first", "resumed"} : DOMAIN polled.visits[r] = Visiting
  /\ polled.pc \in Going \cup {"answer", "refused"}
  /\ polled.run \in {"first", "resumed"}
  /\ polled.pc = "answer" => polled.run = "first" /\ First = NoVisit
  /\ polled.pc = "register" => polled.visits[polled.run].cancel = Unnamed
  /\ polled.pc = "refused" => polled.run = "resumed"
  /\ polled.run = "first" => Resumed = NoVisit /\ (First = NoVisit \/ FirstVisit)
  /\ polled.run = "first" /\ polled.pc \in {"register", "poll", "left"} => FirstVisit
  /\ polled.pc \in {"poll", "left"} => Registered(First)
  /\ polled.run = "resumed" /\ polled.pc \in Going => ResumedVisit
  /\ polled.pc = "left" => polled.run = "first"
  /\ polled.pc = "refused" =>
       /\ First.handle # Unnamed /\ FirstVisit /\ Registered(First) /\ Resumed = NoVisit
       /\ ~("template" \in job.set /\ Admitted(FirstUrl, ResumeUrl(First.handle)))

-----------------------------------------------------------------------------

\* What is said of a visit does not depend on the rest.
LEMMA SameJob ==
  /\ job' = job
  => /\ Handle' = Handle /\ PollUrl' = PollUrl /\ JobId' = JobId
     /\ \A visit : CancelOf(visit)' = CancelOf(visit)
     /\ \A handle : ResumeUrl(handle)' = ResumeUrl(handle)
     /\ \A base, url : Admitted(base, url)' = Admitted(base, url)
BY DEF Handle, PollUrl, JobId, CancelOf, ResumeUrl, Admitted

\* The handle of a job is a text that may be used as its id.
LEMMA HandleIsId ==
  ASSUME job \in PolledJob, Handle # Unnamed
  PROVE  JobId = Handle /\ ValidId(Handle) /\ job.id.kind \in {"text", "number"}
BY DEF Handle, JobId

\* The job starts with nothing known of it.
LEMMA PollingStarts == FollowUpInit => JobInv
<1> SUFFICES ASSUME FollowUpInit PROVE JobInv
  OBVIOUS
<1>1. job \in PolledJob
  BY FollowUpAssumption DEF FollowUpInit
<1>2. polled = [pc |-> "answer", run |-> "first", visits |-> [r \in {"first", "resumed"} |-> NoVisit]]
  BY DEF FollowUpInit, StartPolling
<1>3. DOMAIN NoVisit = Visiting
  BY DEF NoVisit, Visiting
<1> QED BY <1>1, <1>2, <1>3 DEF JobInv, First, Resumed, Going

\* Nothing but the place changes.
LEMMA BecameKeeps ==
  ASSUME JobInv, UNCHANGED job, NEW pc, Became(pc)
  PROVE  /\ polled' = [pc |-> pc, run |-> polled.run, visits |-> polled.visits]
         /\ First' = First /\ Resumed' = Resumed
         /\ FirstVisit' = FirstVisit /\ (Registered(First))' = Registered(First)
<1>1. polled' = [pc |-> pc, run |-> polled.run, visits |-> polled.visits]
  BY DEF Became, JobInv
<1>2. First' = First /\ Resumed' = Resumed
  BY <1>1 DEF First, Resumed
<1>3. FirstVisit' = FirstVisit
  BY <1>2, SameJob DEF FirstVisit
<1>4. (Registered(First))' = Registered(First)
  BY <1>2, SameJob DEF Registered
<1> QED BY <1>1, <1>2, <1>3, <1>4

\* A step that only goes on keeps the invariant, unless it goes where more is said.
LEMMA BecameStep ==
  ASSUME JobInv, UNCHANGED job, NEW pc, Became(pc),
         pc \in {"done", "failed", "left"},
         polled.pc # "refused", pc = "left" => polled.pc = "poll" /\ polled.run = "first",
         polled.run = "resumed" /\ pc = "done" => polled.pc = "poll"
  PROVE  JobInv'
<1>1. /\ polled' = [pc |-> pc, run |-> polled.run, visits |-> polled.visits]
      /\ First' = First /\ Resumed' = Resumed
      /\ FirstVisit' = FirstVisit /\ (Registered(First))' = Registered(First)
  BY BecameKeeps
<1>2. polled.run = "resumed" => ResumedVisit'
  <2>1. polled.run = "resumed" => ResumedVisit
    BY DEF JobInv, Going
  <2>2. \A handle : ResumeUrl(handle)' = ResumeUrl(handle)
    BY SameJob
  <2>3. (Registered(Resumed))' = Registered(Resumed)
    BY <1>1, SameJob DEF Registered
  <2>4. polled.run = "resumed" /\ pc = "done" => Registered(Resumed)
    BY <2>1 DEF ResumedVisit
  <2>5. pc # "left" \/ polled.run = "first"
    OBVIOUS
  <2> QED BY <1>1, <2>1, <2>2, <2>3, <2>4, <2>5 DEF ResumedVisit
<1> QED BY <1>1, <1>2 DEF JobInv, Going

\* A visit is written, and the other one stays.
LEMMA VisitedKeeps ==
  ASSUME JobInv, NEW pc, NEW visit, Visited(pc, visit)
  PROVE  /\ polled'.pc = pc /\ polled'.run = polled.run
         /\ polled' = [pc |-> polled'.pc, run |-> polled'.run, visits |-> polled'.visits]
         /\ DOMAIN polled'.visits = {"first", "resumed"}
         /\ polled.run = "first" => First' = visit /\ Resumed' = Resumed
         /\ polled.run = "resumed" => First' = First /\ Resumed' = visit
<1>1. polled = [pc |-> polled.pc, run |-> polled.run, visits |-> polled.visits]
  BY DEF JobInv
<1>2. DOMAIN polled.visits = {"first", "resumed"} /\ polled.run \in {"first", "resumed"}
  BY DEF JobInv
<1>3. polled' = [pc |-> pc, run |-> polled.run,
                 visits |-> [polled.visits EXCEPT ![polled.run] = visit]]
  BY <1>1 DEF Visited
<1> QED BY <1>2, <1>3 DEF First, Resumed

\* StartJob: the job is polled where its configuration says.
LEMMA StartStep == ASSUME JobInv, StartJob PROVE JobInv'
<1>1. UNCHANGED job /\ polled.pc = "answer" /\ polled.run = "first" /\ Visit = First
  BY DEF StartJob, JobInv, Visit, First
<1>2. CASE ~(PollUrl # Unnamed /\ Admitted(job.served, PollUrl))
  BY <1>1, <1>2, BecameStep DEF StartJob
<1>3. CASE PollUrl # Unnamed /\ Admitted(job.served, PollUrl)
  <2> DEFINE visit == [First EXCEPT !.url = PollUrl, !.id = JobId]
  <2>1. Visited("register", visit)
    BY <1>1, <1>3 DEF StartJob
  <2>2. /\ polled'.pc = "register" /\ polled'.run = "first"
        /\ polled' = [pc |-> polled'.pc, run |-> polled'.run, visits |-> polled'.visits]
        /\ DOMAIN polled'.visits = {"first", "resumed"}
        /\ First' = visit /\ Resumed' = Resumed
    BY <1>1, <2>1, VisitedKeeps
  <2>3. DOMAIN First = Visiting /\ DOMAIN Resumed = Visiting /\ Resumed = NoVisit
    BY <1>1 DEF JobInv, First, Resumed
  <2>4. First.handle \in {Unnamed, Handle}
    BY <1>1 DEF JobInv, FirstVisit, NoVisit
  <2>5. /\ visit.url = PollUrl /\ visit.id = JobId /\ visit.handle = First.handle /\ DOMAIN visit = Visiting
        /\ visit.cancel = Unnamed
    BY <1>1, <2>3 DEF Visiting, JobInv, NoVisit
  <2>6. FirstVisit'
    BY <1>1, <1>3, <2>2, <2>4, <2>5, SameJob DEF FirstVisit
  <2> QED BY <1>1, <2>2, <2>3, <2>5, <2>6 DEF JobInv, Going, First, Resumed
<1> QED BY <1>2, <1>3

\* RegisterJob: the handle and the cancel request are known from here on.
LEMMA RegisterStep == ASSUME JobInv, RegisterJob PROVE JobInv'
<1>1. UNCHANGED job /\ polled.pc = "register" /\ Visit = polled.visits[polled.run]
  BY DEF RegisterJob, Visit
<1> DEFINE visit == IF job.cancel = Unnamed THEN [Visit EXCEPT !.handle = Handle]
                    ELSE [Visit EXCEPT !.handle = Handle, !.cancel = CancelUrl]
<1>2. CASE job.cancel # Unnamed /\ ~CanCancel
  BY <1>1, <1>2, BecameStep DEF RegisterJob
<1>3. CASE ~(job.cancel # Unnamed /\ ~CanCancel)
  <2>1. Visited("poll", visit)
    BY <1>1, <1>3 DEF RegisterJob
  <2>2. DOMAIN Visit = Visiting /\ polled.run \in {"first", "resumed"}
    BY <1>1 DEF JobInv
  <2>3. Visit.cancel = Unnamed
    BY <1>1 DEF JobInv
  <2>4. /\ DOMAIN visit = Visiting /\ visit.url = Visit.url /\ visit.id = Visit.id
        /\ visit.result = Visit.result /\ visit.handle = Handle
        /\ visit.cancel = IF job.cancel = Unnamed THEN Visit.cancel ELSE CancelUrl
    BY <2>2 DEF Visiting
  <2>5. Registered(visit)
    BY <2>3, <2>4 DEF Registered, CancelOf, CancelUrl
  <2>6. /\ polled'.pc = "poll" /\ polled'.run = polled.run
        /\ polled' = [pc |-> polled'.pc, run |-> polled'.run, visits |-> polled'.visits]
        /\ DOMAIN polled'.visits = {"first", "resumed"}
        /\ polled.run = "first" => First' = visit /\ Resumed' = Resumed
        /\ polled.run = "resumed" => First' = First /\ Resumed' = visit
    BY <2>1, VisitedKeeps
  <2> HIDE DEF visit
  <2>7. DOMAIN First = Visiting /\ DOMAIN Resumed = Visiting
    BY DEF JobInv, First, Resumed
  <2>8. \A x : Registered(x)' <=> Registered(x)
    BY <1>1, SameJob DEF Registered
  <2>9. CASE polled.run = "first"
    <3>1. FirstVisit /\ Visit = First /\ Resumed = NoVisit
      BY <1>1, <2>9 DEF JobInv, First
    <3>2. FirstVisit'
      BY <1>1, <2>4, <2>6, <2>9, <3>1, SameJob DEF FirstVisit
    <3>3. (Registered(First))'
      BY <1>1, <2>5, <2>6, <2>9, SameJob DEF Registered
    <3> QED BY <1>1, <2>2, <2>4, <2>6, <2>7, <2>9, <3>1, <3>2, <3>3
            DEF JobInv, Going, First, Resumed
  <2>10. CASE polled.run = "resumed"
    <3>1. ResumedVisit /\ Visit = Resumed
      BY <1>1, <2>10 DEF JobInv, Going, Resumed
    <3>2. FirstVisit'
      BY <1>1, <2>6, <2>10, <3>1, SameJob DEF FirstVisit, ResumedVisit
    <3>3. (Registered(First))' /\ (Registered(Resumed))'
      BY <1>1, <2>5, <2>6, <2>10, <3>1, SameJob DEF Registered, ResumedVisit
    <3>4. ResumedVisit'
      BY <1>1, <2>4, <2>6, <2>10, <3>1, <3>2, <3>3, SameJob DEF ResumedVisit
    <3> QED BY <1>1, <2>2, <2>4, <2>6, <2>7, <2>10, <3>1, <3>2, <3>3, <3>4
            DEF JobInv, Going, First, Resumed
  <2> QED BY <2>2, <2>9, <2>10
<1> QED BY <1>2, <1>3

\* CompleteJob: the result request is made of the URL that was polled.
LEMMA CompleteStep == ASSUME JobInv, CompleteJob PROVE JobInv'
<1>1. UNCHANGED job /\ polled.pc = "poll" /\ Visit = polled.visits[polled.run]
  BY DEF CompleteJob, Visit
<1> DEFINE result == Render(job.result.template, Visit.url, Visit.id)
           visit == [Visit EXCEPT !.result = result]
<1>2. CASE job.result = Unnamed
  BY <1>1, <1>2, BecameStep DEF CompleteJob
<1>3. CASE job.result # Unnamed
  <2>1. Visited("done", visit)
    BY <1>1, <1>3 DEF CompleteJob
  <2>2. DOMAIN Visit = Visiting /\ polled.run \in {"first", "resumed"}
    BY <1>1 DEF JobInv
  <2>3. /\ DOMAIN visit = Visiting /\ visit.url = Visit.url /\ visit.id = Visit.id
        /\ visit.result = result /\ visit.handle = Visit.handle /\ visit.cancel = Visit.cancel
    BY <2>2 DEF Visiting
  <2>4. /\ polled'.pc = "done" /\ polled'.run = polled.run
        /\ polled' = [pc |-> polled'.pc, run |-> polled'.run, visits |-> polled'.visits]
        /\ DOMAIN polled'.visits = {"first", "resumed"}
        /\ polled.run = "first" => First' = visit /\ Resumed' = Resumed
        /\ polled.run = "resumed" => First' = First /\ Resumed' = visit
    BY <2>1, VisitedKeeps
  <2> HIDE DEF visit
  <2>5. DOMAIN First = Visiting /\ DOMAIN Resumed = Visiting
    BY DEF JobInv, First, Resumed
  <2>6. CASE polled.run = "first"
    <3>1. FirstVisit /\ Visit = First /\ Resumed = NoVisit
      BY <1>1, <2>6 DEF JobInv, First
    <3>2. FirstVisit'
      BY <1>1, <2>3, <2>4, <2>6, <3>1, SameJob DEF FirstVisit
    <3> QED BY <1>1, <2>2, <2>3, <2>4, <2>5, <2>6, <3>1, <3>2 DEF JobInv, Going, First, Resumed
  <2>7. CASE polled.run = "resumed"
    <3>1. ResumedVisit /\ Visit = Resumed /\ Registered(Resumed)
      BY <1>1, <2>7 DEF JobInv, Going, Resumed, ResumedVisit
    <3>2. FirstVisit'
      BY <1>1, <2>4, <2>7, <3>1, SameJob DEF FirstVisit, ResumedVisit
    <3>3. (Registered(First))' /\ (Registered(Resumed))'
      <4>1. CancelOf(visit) = CancelOf(Resumed)
        BY <2>3, <3>1 DEF CancelOf
      <4> QED BY <1>1, <2>3, <2>4, <2>7, <3>1, <4>1, SameJob DEF Registered, ResumedVisit
    <3>4. Resumed'.result = Render(job'.result.template, Resumed'.url, Resumed'.id)
      BY <1>1, <2>3, <2>4, <2>7, <3>1
    <3>5. ResumedVisit'
      BY <1>1, <2>3, <2>4, <2>7, <3>1, <3>2, <3>3, <3>4, SameJob DEF ResumedVisit
    <3> QED BY <1>1, <2>2, <2>3, <2>4, <2>5, <2>7, <3>1, <3>2, <3>3, <3>5
            DEF JobInv, Going, First, Resumed
  <2> QED BY <2>2, <2>6, <2>7
<1> QED BY <1>2, <1>3

\* ResumeJob: what a later execution begins with.
LEMMA ResumeStep == ASSUME JobInv, ResumeJob PROVE JobInv'
<1> DEFINE handle == First.handle
           url == ResumeUrl(handle)
<1>1. /\ UNCHANGED job /\ polled.pc = "left" /\ handle # Unnamed /\ polled.run = "first"
      /\ FirstVisit /\ Registered(First) /\ Resumed = NoVisit
  BY DEF ResumeJob, JobInv, First
<1>2. handle = Handle /\ ValidId(handle)
  BY <1>1, HandleIsId DEF FirstVisit, JobInv
<1>3. polled = [pc |-> polled.pc, run |-> polled.run, visits |-> polled.visits]
      /\ DOMAIN polled.visits = {"first", "resumed"}
      /\ DOMAIN First = Visiting
  BY DEF JobInv, First
<1>4. CASE "template" \in job.set /\ Admitted(FirstUrl, url)
  <2> DEFINE visit == [NoVisit EXCEPT !.url = url, !.id = handle]
  <2>1. polled' = [polled EXCEPT !.pc = "register", !.run = "resumed", !.visits["resumed"] = visit]
    BY <1>2, <1>4 DEF ResumeJob, First
  <2>2. /\ polled' = [pc |-> "register", run |-> "resumed",
                       visits |-> [polled.visits EXCEPT !["resumed"] = visit]]
    BY <1>3, <2>1
  <2>3. DOMAIN visit = Visiting /\ visit.url = url /\ visit.id = handle
        /\ visit.cancel = Unnamed /\ visit.result = Unnamed
    BY DEF NoVisit, Visiting
  <2> HIDE DEF visit
  <2>4. First' = First /\ Resumed' = visit
    BY <1>3, <2>2 DEF First, Resumed
  <2>5. FirstVisit' /\ (Registered(First))'
    BY <1>1, <2>4, SameJob DEF FirstVisit, Registered
  <2>6. ResumedVisit'
    BY <1>1, <2>2, <2>3, <2>4, <2>5, SameJob DEF ResumedVisit
  <2> QED BY <1>1, <1>3, <2>2, <2>3, <2>4, <2>5, <2>6 DEF JobInv, Going, First, Resumed
<1>5. CASE ~("template" \in job.set /\ Admitted(FirstUrl, url))
  <2>1. polled' = [polled EXCEPT !.pc = "refused", !.run = "resumed"]
    BY <1>2, <1>5 DEF ResumeJob, First
  <2>2. polled' = [pc |-> "refused", run |-> "resumed", visits |-> polled.visits]
    BY <1>3, <2>1
  <2>3. First' = First /\ Resumed' = Resumed
    BY <2>2 DEF First, Resumed
  <2>4. FirstVisit' /\ (Registered(First))'
    BY <1>1, <2>3, SameJob DEF FirstVisit, Registered
  <2>5. ~("template" \in job'.set /\ Admitted(FirstUrl, ResumeUrl(First.handle))')
    BY <1>1, <1>5, <2>3, SameJob
  <2> QED BY <1>1, <1>3, <2>2, <2>3, <2>4, <2>5 DEF JobInv, Going, First, Resumed
<1> QED BY <1>4, <1>5

\* One case for each action; the search of a link leaves the job alone.
LEMMA PollingStep == JobInv /\ [LinkNext \/ PollNext]_followUpVars => JobInv'
<1> SUFFICES ASSUME JobInv, [LinkNext \/ PollNext]_followUpVars PROVE JobInv'
  OBVIOUS
<1>1. CASE UNCHANGED <<job, polled>>
  <2>1. First' = First /\ Resumed' = Resumed
    BY <1>1 DEF First, Resumed
  <2>2. FirstVisit' = FirstVisit /\ (\A x : Registered(x)' = Registered(x))
    BY <1>1, <2>1, SameJob DEF FirstVisit, Registered
  <2>3. ResumedVisit' = ResumedVisit
    BY <1>1, <2>1, <2>2, SameJob DEF ResumedVisit, Registered
  <2>4. (Registered(First))' = Registered(First)
    BY <1>1, <2>1, SameJob DEF Registered
  <2>5. (Admitted(FirstUrl, ResumeUrl(First.handle)))' = Admitted(FirstUrl, ResumeUrl(First.handle))
    BY <1>1, <2>1, SameJob
  <2> QED BY <1>1, <2>1, <2>2, <2>3, <2>4, <2>5 DEF JobInv
<1>2. CASE AnswerEndsJob
  <2>1. PICK pc \in {"done", "failed"} : Became(pc) /\ UNCHANGED job /\ polled.pc = "answer"
    BY <1>2 DEF AnswerEndsJob
  <2> QED BY <2>1, BecameStep DEF JobInv
<1>3. CASE JobFails
  BY <1>3, BecameStep DEF JobFails
<1>4. CASE LeaveJob
  <2>1. PICK pc \in {"left", "failed"} :
          /\ Became(pc) /\ UNCHANGED job /\ polled.pc = "poll"
          /\ pc = "left" => polled.run = "first"
    BY <1>4 DEF LeaveJob
  <2> QED BY <2>1, BecameStep
<1> QED BY <1>1, <1>2, <1>3, <1>4, StartStep, RegisterStep, CompleteStep, ResumeStep
        DEF LinkNext, PollNext, followUpVars, NoHeader, SplitHeader, RefuseEntry, TakeEntry,
            PassEntry, NoEntry

\* What is known of the two executions makes them agree.
LEMMA JobsAgree == JobInv => HandleResumesJob
<1> SUFFICES ASSUME JobInv, polled.pc # "answer" PROVE HandleResumesJob
  BY DEF HandleResumesJob
<1> DEFINE made   == "template" \in job.set /\ "path" \notin job.set
           usable == job.id.kind \in {"text", "number"} /\ ValidId(job.id.text)
<1>1. job \in PolledJob
  BY DEF JobInv
<1>2. polled.pc \in {"poll", "left"} => (First.handle # Unnamed) = usable
  <2>1. polled.pc \in {"poll", "left"} => First.handle = Handle
    BY DEF JobInv, Registered
  <2>2. (Handle # Unnamed) = usable
    BY DEF Handle, ValidId
  <2> QED BY <2>1, <2>2
<1>3. First.url # Unnamed => FirstVisit
  BY DEF JobInv, Going, ResumedVisit, NoVisit
<1>4. ASSUME made, First.url # Unnamed
      PROVE  First.url = Render(job.template, job.served, JobId)
  BY <1>3, <1>4 DEF FirstVisit, PollUrl
<1>5. ASSUME First.url # Unnamed, First.handle # Unnamed
      PROVE  First.handle = Handle /\ JobId = Handle /\ First.id = Handle
  BY <1>1, <1>3, <1>5, HandleIsId DEF FirstVisit
<1>6. made /\ First.url # Unnamed /\ First.handle # Unnamed /\ job.template.id =>
        First.url.id = First.handle
  BY <1>4, <1>5 DEF Render
<1>7. ASSUME made, Resumed.url # Unnamed, job.served = FirstUrl \/ Absolute(job.template)
      PROVE  /\ Resumed.url = First.url
             /\ polled.pc \in {"poll", "done"} =>
                  Resumed.cancel = First.cancel /\ Resumed.handle = First.handle
             /\ Resumed.result # Unnamed =>
                  Resumed.result = Render(job.result.template, First.url, First.id)
  <2>1. ResumedVisit
    BY <1>7 DEF JobInv, Going, NoVisit
  <2>2. /\ FirstVisit /\ First.handle # Unnamed /\ First.url # Unnamed /\ Registered(First)
        /\ Resumed.id = First.handle /\ Resumed.url = Render(job.template, FirstUrl, First.handle)
    BY <2>1 DEF ResumedVisit, FirstVisit, ResumeUrl
  <2>3. First.handle = Handle /\ JobId = Handle /\ First.id = Handle
    BY <1>5, <2>2
  <2>4. First.url = Render(job.template, job.served, Handle)
    BY <1>4, <1>7, <2>2, <2>3
  <2>5. \A id : Render(job.template, job.served, id) = Render(job.template, FirstUrl, id)
    BY <1>7 DEF Render, Absolute
  <2>6. Resumed.url = First.url /\ Resumed.id = First.id
    BY <2>2, <2>3, <2>4, <2>5
  <2>7. CancelOf(Resumed) = CancelOf(First)
    BY <2>6 DEF CancelOf
  <2> QED BY <2>1, <2>2, <2>6, <2>7 DEF ResumedVisit, Registered
<1>8. ASSUME made, polled.pc = "refused" PROVE job.served.origin = "away"
  <2>1. /\ First.handle # Unnamed /\ FirstVisit
        /\ ~Admitted(FirstUrl, ResumeUrl(First.handle))
    BY <1>8 DEF JobInv
  <2>2. First.url = Render(job.template, job.served, JobId) /\ Admitted(job.served, First.url)
    BY <1>4, <1>8, <2>1 DEF FirstVisit
  <2>3. /\ ~job.crossOrigin
        /\ "home" # (IF Absolute(job.template) THEN job.template.at ELSE "home")
    BY <2>1 DEF Admitted, ResumeUrl, Render, FirstUrl
  <2>4. Absolute(job.template) /\ job.template.at = "away"
    BY <2>3 DEF Absolute
  <2>5. First.url.origin = "away"
    BY <2>2, <2>4 DEF Render
  <2> QED BY <2>2, <2>3, <2>5 DEF Admitted
<1> QED BY <1>2, <1>6, <1>7, <1>8 DEF HandleResumesJob, First, Resumed

\* A handle is reported for a job whenever its id may be used, and the execution that
\* resumes it polls, cancels and collects where the first one did; only a redirect of
\* the first request away from its origin makes it be refused (public_job_id,
\* await_resumed_poll_completion).
THEOREM HandlesResumeJobs == FollowUpSpec => []HandleResumesJob
BY PollingStarts, PollingStep, JobsAgree, PTL DEF FollowUpSpec

-----------------------------------------------------------------------------
(* The preparation of a request                                            *)

\* What is known of parameter n once it was resolved, and once it was placed.
ResolvedWell(n) == parameters[n] = Resolved(n) /\ ~Unresolved(n)

PlacedWell(n) ==
  IF parameters[n] = Nothing THEN sentAt[n] = Nothing
  ELSE sentAt[n] = PlaceOf(n) /\ ~Misplaced(n)

\* The key was added, and nothing else stands in its place.
KeyAdded ==
  /\ keyAt = IF Key = Nothing THEN Nothing ELSE Key.at
  /\ Key # Nothing => ~KeyConflicts
  /\ retries = (connection.retries \/ Key # Nothing)

After(place) ==
  CASE place = "resolve" -> {"place", "key", "query", "body", "prepared"}
    [] place = "place"   -> {"key", "query", "body", "prepared"}
    [] place = "key"     -> {"query", "body", "prepared"}

PrepInv ==
  /\ connection \in Connections
  /\ stage \in After("resolve") => \A n \in NamesSet : ResolvedWell(n)
  /\ stage = "place" =>
       /\ placed \in Nat /\ DOMAIN sentAt = NamesSet
       /\ \A i \in DOMAIN ParameterNames : i <= placed => PlacedWell(ParameterNames[i])
  /\ stage \in {"resolve", "place", "key"} => retries = connection.retries
  /\ stage = "resolve" => placed = 0 /\ DOMAIN sentAt = NamesSet
  /\ stage \in After("place") => \A n \in NamesSet : PlacedWell(n)
  /\ stage \in After("key") => KeyAdded
  /\ stage = "prepared" => ~BadBody /\ bodyAs = IF build_body THEN connection.bodyType ELSE "none"

\* The steps that change nothing that an invariant of the parameters speaks of.
LEMMA SameParameters ==
  /\ UNCHANGED <<connection, input, parameters, sentAt>>
  => /\ \A n \in NamesSet : ResolvedWell(n) => ResolvedWell(n)'
     /\ \A n \in NamesSet : PlacedWell(n) => PlacedWell(n)'
<1> SUFFICES ASSUME UNCHANGED <<connection, input, parameters, sentAt>>
             PROVE  /\ \A n \in NamesSet : ResolvedWell(n) => ResolvedWell(n)'
                    /\ \A n \in NamesSet : PlacedWell(n) => PlacedWell(n)'
  OBVIOUS
<1>1. \A n \in NamesSet : ResolvedWell(n) => ResolvedWell(n)'
  BY DEF ResolvedWell, Resolved, Unresolved, Specified, Given, Mapped
<1>2. \A n \in NamesSet : PlacedWell(n) => PlacedWell(n)'
  BY DEF PlacedWell, Misplaced, PlaceOf, Consumed, location, Specified, legacy_query_only
<1> QED BY <1>1, <1>2

\* The key is not looked at again.
LEMMA SameKey ==
  /\ UNCHANGED <<connection, parameters, sentAt, keyAt, retries>>
  => (KeyAdded => KeyAdded')
BY DEF KeyAdded, Key, KeyConflicts

\* One case for each action.
LEMMA PreparationStep == PrepInv /\ [PreparationNext]_preparationVars => PrepInv'
<1> SUFFICES ASSUME PrepInv, [PreparationNext]_preparationVars PROVE PrepInv'
  OBVIOUS
<1> USE DEF After
<1>1. CASE UNCHANGED preparationVars
  <2>1. /\ \A n \in NamesSet : ResolvedWell(n) => ResolvedWell(n)'
        /\ \A n \in NamesSet : PlacedWell(n) => PlacedWell(n)'
        /\ KeyAdded => KeyAdded'
    BY <1>1, SameParameters, SameKey DEF preparationVars
  <2>2. ParameterNames \in Seq(STRING) /\ NamesSet = {ParameterNames[i] : i \in DOMAIN ParameterNames}
    BY PreparationAssumption DEF NamesSet, Range
  <2>3. BadBody' = BadBody /\ build_body' = build_body
    BY <1>1 DEF preparationVars, BadBody, build_body, Contents, Rendered, Fields, legacy_query_only
  <2> QED BY <1>1, <2>1, <2>2, <2>3 DEF PrepInv, preparationVars
<1>2. CASE Refuse
  BY <1>2 DEF Refuse, PrepInv
<1>3. CASE ResolveParameters
  <2>1. \A n \in NamesSet : ResolvedWell(n)'
    BY <1>3 DEF ResolveParameters, ResolvedWell, Resolved, Unresolved, Specified, Given, Mapped
  <2> QED BY <1>3, <2>1, PreparationAssumption DEF ResolveParameters, PrepInv
<1>4. CASE PlaceParameter
  <2>1. PICK S : ParameterNames \in Seq(S)
    BY PreparationAssumption
  <2>2. NamesSet = {ParameterNames[i] : i \in DOMAIN ParameterNames}
    BY DEF NamesSet, Range
  <2>3. \A n \in NamesSet : ResolvedWell(n)'
    BY <1>4 DEF PlaceParameter, PrepInv, ResolvedWell, Resolved, Unresolved, Specified, Given, Mapped
  <2>4. ASSUME NEW i \in DOMAIN ParameterNames, i <= placed'
        PROVE  PlacedWell(ParameterNames[i])'
    <3> DEFINE n == ParameterNames[i]
    <3>1. n \in NamesSet /\ placed' = placed + 1 /\ placed \in Nat /\ i \in Nat
      BY <1>4, <2>1, <2>2 DEF PlaceParameter, PrepInv
    <3>2. /\ DOMAIN sentAt = NamesSet
          /\ sentAt' = [sentAt EXCEPT ![Here] =
               IF parameters[Here] = Nothing THEN Nothing ELSE PlaceOf(Here)]
          /\ parameters[Here] # Nothing => ~Misplaced(Here)
          /\ UNCHANGED <<connection, parameters>>
      BY <1>4 DEF PlaceParameter, PrepInv
    <3>3. PlaceOf(n)' = PlaceOf(n) /\ Misplaced(n)' = Misplaced(n)
      BY <3>2 DEF PlaceOf, Misplaced, Consumed, location, Specified, legacy_query_only
    <3>4. CASE n = Here
      BY <3>1, <3>2, <3>3, <3>4 DEF PlacedWell
    <3>5. CASE n # Here
      <4>1. i <= placed
        BY <2>4, <3>1, <3>5 DEF Here
      <4>2. PlacedWell(n)
        BY <1>4, <4>1 DEF PlaceParameter, PrepInv
      <4> QED BY <3>2, <3>3, <3>5, <4>2 DEF PlacedWell
    <3> QED BY <3>4, <3>5
  <2>5. /\ placed' \in Nat /\ DOMAIN sentAt' = NamesSet
        /\ stage' = IF placed' = Len(ParameterNames) THEN "key" ELSE "place"
        /\ retries' = connection'.retries /\ connection' \in Connections
    BY <1>4 DEF PlaceParameter, PrepInv
  <2>6. stage' = "key" => \A n \in NamesSet : PlacedWell(n)'
    BY <2>1, <2>2, <2>4, <2>5
  <2> QED BY <2>3, <2>4, <2>5, <2>6 DEF PrepInv
<1>5. CASE ApplyIdempotency
  <2>1. /\ \A n \in NamesSet : ResolvedWell(n) => ResolvedWell(n)'
        /\ \A n \in NamesSet : PlacedWell(n) => PlacedWell(n)'
    BY <1>5, SameParameters DEF ApplyIdempotency
  <2>2. KeyAdded'
    BY <1>5 DEF ApplyIdempotency, PrepInv, KeyAdded, Key, KeyConflicts
  <2> QED BY <1>5, <2>1, <2>2 DEF ApplyIdempotency, PrepInv
<1>6. CASE AppendQuery
  <2>1. /\ \A n \in NamesSet : ResolvedWell(n) => ResolvedWell(n)'
        /\ \A n \in NamesSet : PlacedWell(n) => PlacedWell(n)'
        /\ KeyAdded => KeyAdded'
    BY <1>6, SameParameters, SameKey DEF AppendQuery
  <2> QED BY <1>6, <2>1 DEF AppendQuery, PrepInv
<1>7. CASE BuildBody
  <2>1. /\ \A n \in NamesSet : ResolvedWell(n) => ResolvedWell(n)'
        /\ \A n \in NamesSet : PlacedWell(n) => PlacedWell(n)'
        /\ KeyAdded => KeyAdded'
    BY <1>7, SameParameters, SameKey DEF BuildBody
  <2>2. ~BadBody' /\ build_body' = build_body
    BY <1>7 DEF BuildBody, BadBody, build_body, Contents, Rendered, Fields, legacy_query_only
  <2> QED BY <1>7, <2>1, <2>2 DEF BuildBody, PrepInv
<1> QED BY <1>1, <1>2, <1>3, <1>4, <1>5, <1>6, <1>7
        DEF PreparationNext, RefuseParameters, RefusePlacement, RefuseConflict, RefuseQuery,
            RefuseBody

\* Nothing is resolved nor placed.
LEMMA PreparationBegins == PreparationInit => PrepInv
BY DEF PreparationInit, PreparationStart, PrepInv, After

\* A prepared request is as declared.
LEMMA PreparedIsDeclared == PrepInv => SentAsDeclared
<1> SUFFICES ASSUME PrepInv, stage = "prepared" PROVE SentAsDeclared
  BY DEF SentAsDeclared
<1>1. /\ connection \in Connections /\ KeyAdded /\ ~BadBody
      /\ bodyAs = IF build_body THEN connection.bodyType ELSE "none"
      /\ \A n \in NamesSet : ResolvedWell(n) /\ PlacedWell(n)
  BY DEF PrepInv, After
<1>2. /\ connection.bodyType \in {"json", "form", "multipart", "raw", "none"}
      /\ connection.retries \in BOOLEAN
      /\ Key # Nothing => Key.at \in {"query", "header", "body"}
      /\ Nothing \notin Places
  BY <1>1, PreparationAssumption DEF Key
<1>3. ASSUME NEW n \in NamesSet
      PROVE  LET v == parameters[n]
             IN  /\ v = Nothing => SentIn(n) = {}
                 /\ v # Nothing /\ connection.bodyType \notin {"raw", "none"} =>
                      SentIn(n) = {PlaceOf(n)}
                 /\ v # Nothing /\ PlaceOf(n) # "body" => PlaceOf(n) \in SentIn(n)
                 /\ v # Nothing /\ HasNull(v) => SentIn(n) \subseteq {"body"}
                 /\ HasNull(v) /\ SentIn(n) # {} => bodyAs = "json"
                 /\ Specified(n) # Nothing =>
                      /\ Specified(n).mode = "fixed" => v = Specified(n).value
                      /\ Specified(n).required => v # Nothing
  <2> DEFINE v == parameters[n]
  <2>1. /\ v = Nothing => sentAt[n] = Nothing
        /\ v # Nothing => sentAt[n] = PlaceOf(n)
        /\ v # Nothing /\ PlaceOf(n) # "body" => ~HasNull(v)
    BY <1>1 DEF PlacedWell, Misplaced
  <2>2. v # Nothing => PlaceOf(n) \in Places
    <3>1. Specified(n) # Nothing => Specified(n).location \in Places \cup {"auto"}
      BY <1>1, PreparationAssumption DEF Specified
    <3> QED BY <3>1 DEF PlaceOf, location, Places
  <2>3. n \in Contents =>
          /\ v # Nothing /\ build_body /\ connection.bodyType # "none"
          /\ connection.bodyType # "raw" => sentAt[n] = "body"
          /\ HasNull(v) => connection.bodyType = "json"
    <3>0. Nothing # "body"
      BY <1>2 DEF Places
    <3>1. n \in Contents /\ connection.bodyType # "json" => ~HasNull(v)
      BY <1>1 DEF BadBody
    <3>2. n \in Fields => v # Nothing /\ sentAt[n] = "body" /\ build_body
      <4>1. n \in Fields => sentAt[n] = "body"
        BY DEF Fields
      <4>2. n \in Fields => build_body
        BY DEF build_body
      <4> QED BY <2>1, <3>0, <4>1, <4>2
    <3>3. n \in Contents => n \in Fields \/ (connection.bodyType = "raw" /\ n \in Rendered)
      BY DEF Contents
    <3>4. n \in Contents => build_body /\ connection.bodyType # "none"
      BY <3>2 DEF Contents
    <3> QED BY <3>1, <3>2, <3>3, <3>4 DEF Rendered
  <2>4. sentAt[n] = "body" /\ connection.bodyType \notin {"raw", "none"} => n \in Contents
    BY DEF Contents, Fields, build_body
  <2>5. Specified(n) # Nothing =>
          /\ Specified(n).mode = "fixed" => v = Specified(n).value
          /\ Specified(n).required => v # Nothing
    BY <1>1 DEF ResolvedWell, Resolved, Unresolved
  <2>6. SentIn(n) = {p \in Places \ {"body"} : sentAt[n] = p}
                      \cup (IF n \in Contents THEN {"body"} ELSE {})
    BY DEF SentIn, Places
  <2> HIDE DEF v
  <2>7. v = Nothing => SentIn(n) = {}
    BY <1>2, <2>1, <2>3, <2>6
  <2>8. v # Nothing /\ connection.bodyType \notin {"raw", "none"} => SentIn(n) = {PlaceOf(n)}
    BY <2>1, <2>2, <2>3, <2>4, <2>6
  <2>9. v # Nothing /\ PlaceOf(n) # "body" => PlaceOf(n) \in SentIn(n)
    BY <2>1, <2>2, <2>6
  <2>10. v # Nothing /\ HasNull(v) => SentIn(n) \subseteq {"body"}
    BY <2>1, <2>6
  <2>11. HasNull(v) /\ SentIn(n) # {} => bodyAs = "json"
    <3>1. HasNull(v) /\ SentIn(n) # {} => v # Nothing
      BY <2>7
    <3>2. HasNull(v) /\ SentIn(n) # {} => n \in Contents
      BY <2>6, <2>10, <3>1
    <3> QED BY <1>1, <2>3, <3>2
  <2> QED BY <2>5, <2>7, <2>8, <2>9, <2>10, <2>11 DEF v
<1>4. keyAt = (IF Key = Nothing THEN Nothing ELSE Key.at)
  BY <1>1 DEF KeyAdded
<1>5. keyAt = "body" => bodyAs \in {"json", "form", "multipart"}
  <2>1. keyAt = "body" => Key # Nothing /\ Key.at = "body"
    BY <1>2, <1>4 DEF Places
  <2>2. keyAt = "body" => connection.bodyType \notin {"none", "raw"} /\ build_body
    BY <1>1, <2>1 DEF KeyAdded, KeyConflicts, build_body
  <2> QED BY <1>1, <1>2, <2>2
<1>6. \A n \in NamesSet :
        Key # Nothing /\ n = Key.name /\ sentAt[n] = keyAt => parameters[n] = "key"
  BY <1>1, <1>4 DEF KeyAdded, KeyConflicts
<1>7. retries = (connection.retries \/ keyAt # Nothing)
  <2>1. keyAt # Nothing <=> Key # Nothing
    BY <1>2, <1>4 DEF Places
  <2> QED BY <1>1, <2>1 DEF KeyAdded
<1> QED BY <1>3, <1>4, <1>5, <1>6, <1>7 DEF SentAsDeclared

\* Each parameter that has a value goes once to the place that is declared for it, no
\* null as text, a fixed value as it is; and the key once, as given (prepare_request).
THEOREM RequestsAreAsDeclared == PreparationSpec => []SentAsDeclared
BY PreparationBegins, PreparationStep, PreparedIsDeclared, PTL DEF PreparationSpec

-----------------------------------------------------------------------------
(* The transforms of a row                                                 *)

\* What is read of a value as a number, or why there is none.
Operand ==
  [t: {"int"}, n: -Int128..(Int128 - 1)] \cup [t: {"float"}, n: Floats]
  \cup {Failed("Unrepresentable"), Failed("NotNumeric")}

\* What a transform may answer.
Answer == Value \cup {NewText} \cup {Failed("Unrepresentable"), Failed("NotNumeric"),
                                     Failed("NotString"), Failed("NotText")}

RowInv == row \in [Columns -> Value]

\* A set of naturals has a least member.
LEMMA LeastOf ==
  ASSUME NEW T \in SUBSET Nat, T # {}
  PROVE  \E m \in T : \A k \in T : m <= k
<1> DEFINE R == OpToRel(<, Nat)
<1>1. IsWellFoundedOn(R, Nat)
  BY NatLessThanWellFounded
<1>2. ASSUME NEW x \in Nat, NEW y \in Nat, x < y PROVE <<x, y>> \in R
  BY <1>2 DEF OpToRel
<1> HIDE DEF R
<1>3. PICK m \in T : \A k \in T : ~(<<k, m>> \in R)
  BY <1>1, WFMin
<1>4. ASSUME NEW k \in T PROVE m <= k
  <2>1. m \in Nat /\ k \in Nat
    OBVIOUS
  <2>2. ~ (k < m)
    BY <1>2, <1>3, <2>1
  <2> QED BY <2>1, <2>2
<1> QED BY <1>4

\* There is a nearest float, and a float is the nearest to itself.
LEMMA Nearest ==
  ASSUME NEW num \in Int, NEW den \in Int
  PROVE  /\ NearestOf(num, den) \in Floats
         /\ num \in Floats => NearestOf(num, 1) = num
<1> DEFINE T == {Distance(f, num, den) : f \in Floats}
<1>1. ASSUME NEW f \in Floats PROVE Distance(f, num, den) \in Nat
  <2>1. f \in Int /\ f * den \in Int
    BY FloatsAssumption
  <2> DEFINE g == f * den
  <2> HIDE DEF g
  <2>2. g \in Int
    BY <2>1 DEF g
  <2>3. (IF g >= num THEN g - num ELSE num - g) \in Nat
    BY <2>2
  <2> QED BY <2>3 DEF g, Distance
<1>2. T \in SUBSET Nat /\ T # {}
  BY <1>1, FloatsAssumption
<1>3. PICK m \in T : \A k \in T : m <= k
  BY <1>2, LeastOf
<1>4. \E f \in Floats : \A g \in Floats : Distance(f, num, den) <= Distance(g, num, den)
  BY <1>3
<1>5. NearestOf(num, den) \in Floats
  BY <1>4 DEF NearestOf
<1>6. ASSUME num \in Floats PROVE NearestOf(num, 1) = num
  <2>1. \A f \in Floats : f \in Int /\ f * 1 = f
    BY FloatsAssumption
  <2>2. \A f \in Floats : Distance(f, num, 1) = IF f >= num THEN f - num ELSE num - f
    BY <2>1 DEF Distance
  <2>3. \A g \in Floats : Distance(num, num, 1) <= Distance(g, num, 1)
    BY <1>6, <2>1, <2>2
  <2>4. \A f \in Floats :
          (\A g \in Floats : Distance(f, num, 1) <= Distance(g, num, 1)) => f = num
    BY <1>6, <2>1, <2>2
  <2> QED BY <1>6, <2>3, <2>4 DEF NearestOf
<1> QED BY <1>5, <1>6

\* A float, or a failure.
LEMMA FloatAnswer ==
  ASSUME NEW num \in Int, NEW den \in Int
  PROVE  float_value(num, den) \in [t: {"float"}, n: Floats] \cup {Failed("Unrepresentable")}
<1>1. NearestOf(num, den) \in Floats /\ NearestOf(-num, -den) \in Floats
  BY Nearest
<1> QED BY <1>1 DEF float_value, Float

\* An integer of 64 bits, or a failure.
LEMMA IntegerAnswer ==
  ASSUME NEW n \in Int
  PROVE  IF n \in -Int64..(UInt64 - 1) THEN integer_value(n) = Integer(n)
         ELSE integer_value(n) = Failed("Unrepresentable")
BY WidthsAssumption DEF integer_value

\* A value is read as an operand.
LEMMA OperandOf ==
  ASSUME NEW v \in Value \cup {Absent}
  PROVE  numeric_operand(v) \in Operand
BY WidthsAssumption DEF Value, Absent, numeric_operand, Operand

\* How an operand becomes a float: as it is.
LEMMA ExactFloat ==
  ASSUME NEW x \in Operand, x.t # "failed", HasExactFloat(x)
  PROVE  AsFloat(x) = Quarters(x) /\ Quarters(x) \in Floats
<1>1. Quarters(x) \in Floats
  BY FloatsAssumption, WidthsAssumption DEF Operand, Failed, HasExactFloat, Quarters
<1>2. Quarters(x) \in Int
  BY <1>1, FloatsAssumption
<1> QED BY <1>1, <1>2, Nearest DEF AsFloat

\* Divisions that come out even.
LEMMA Even ==
  ASSUME NEW k \in Int, NEW d \in Int, d > 0
  PROVE  (k * d) \div d = k
<1> DEFINE n == k * d
           q == n \div d
           r == n % d
<1>1. n \in Int /\ q \in Int /\ r \in Int
  OBVIOUS
<1>2. n = d * q + r /\ 0 <= r /\ r < d
  <2> HIDE DEF n
  <2> QED BY <1>1
<1>3. r = d * (k - q)
  BY <1>1, <1>2
<1> HIDE DEF n, q, r
<1>4. CASE k - q >= 1
  <2>1. d * (k - q) >= d
    BY <1>1, <1>4
  <2> QED BY <1>1, <1>2, <1>3, <2>1
<1>5. CASE k - q <= -1
  <2>1. d * (k - q) <= -d
    BY <1>1, <1>5
  <2> QED BY <1>1, <1>2, <1>3, <2>1
<1>6. CASE k - q = 0
  BY <1>1, <1>6 DEF n, q
<1> QED BY <1>1, <1>4, <1>5, <1>6

\* A factor is no larger than a product with an integer.
LEMMA Factor ==
  ASSUME NEW k \in Int, NEW b \in Int, b # 0, NEW m \in Nat, -m <= k * b, k * b <= m
  PROVE  -m <= k /\ k <= m
<1>1. CASE b >= 1 /\ k >= 0
  <2>1. k * b >= k
    BY <1>1
  <2> QED BY <1>1, <2>1
<1>2. CASE b >= 1 /\ k < 0
  <2>1. k * b <= k
    BY <1>2
  <2> QED BY <1>2, <2>1
<1>3. CASE b <= -1 /\ k >= 0
  <2>1. k * b <= -k
    BY <1>3
  <2> QED BY <1>3, <2>1
<1>4. CASE b <= -1 /\ k < 0
  <2>1. k * b >= -k
    BY <1>4
  <2> QED BY <1>4, <2>1
<1> QED BY <1>1, <1>2, <1>3, <1>4

\* Integers are added and subtracted exactly, or are too wide.
LEMMA Sums ==
  ASSUME NEW c \in Int, NEW exact, exact = [num |-> 4 * c, den |-> 1]
  PROVE  WholePart(exact) = c /\ 4 * c * exact.den = exact.num
<1>1. WholePart(exact) = (1 * (4 * c)) \div (4 * 1 * 1)
  BY DEF WholePart
<1> QED BY <1>1

\* So are products.
LEMMA Products ==
  ASSUME NEW a \in Int, NEW b \in Int,
         NEW exact, exact = [num |-> (4 * a) * (4 * b), den |-> 4]
  PROVE  WholePart(exact) = a * b /\ 4 * (a * b) * exact.den = exact.num
<1> DEFINE m == a * b
<1>1. m \in Int /\ (4 * a) * (4 * b) = 16 * m
  OBVIOUS
<1> HIDE DEF m
<1>2. WholePart(exact) = (1 * (16 * m)) \div (4 * 1 * 4)
  BY <1>1 DEF WholePart
<1>3. WholePart(exact) = m /\ 4 * m * 4 = 16 * m
  BY <1>1, <1>2
<1> QED BY <1>1, <1>3 DEF m

\* A quotient is an integer when the remainder is nothing.
LEMMA Quotients ==
  ASSUME NEW a \in -Int128..(Int128 - 1), NEW b \in -Int128..(Int128 - 1), b # 0,
         NEW exact, exact = [num |-> 4 * (4 * a), den |-> 4 * b]
  PROVE  /\ WholePart(exact) \in Int
         /\ 4 * WholePart(exact) * exact.den = exact.num => WholePart(exact) * b = a
         /\ WholePart(exact) * b = a => 4 * WholePart(exact) * exact.den = exact.num
         /\ \A k \in Int : k * b = a => k = WholePart(exact)
         /\ WholePart(exact) * b = a => WholePart(exact) \in -Int128..Int128
<1> DEFINE sign  == IF 4 * b < 0 THEN -1 ELSE 1
           whole == WholePart(exact)
<1>0. whole = (sign * (4 * (4 * a))) \div (4 * sign * (4 * b))
  BY DEF WholePart
<1>1. a \in Int /\ b \in Int /\ sign \in {-1, 1} /\ -Int128 <= a /\ a <= Int128 /\ Int128 \in Nat
  BY WidthsAssumption
<1> DEFINE d == 16 * sign * b
<1>2. d \in Int /\ d > 0 /\ 4 * sign * (4 * b) = d /\ sign * (4 * (4 * a)) = 16 * sign * a
  <2>1. CASE b < 0
    BY <1>1, <2>1
  <2>2. CASE b > 0
    BY <1>1, <2>2
  <2> QED BY <1>1, <2>1, <2>2
<1> HIDE DEF whole
<1>3. whole = (16 * sign * a) \div d
  BY <1>0, <1>2
<1>4. whole \in Int
  <2>1. 16 * sign * a \in Int
    BY <1>1
  <2> HIDE DEF d
  <2> QED BY <1>2, <1>3, <2>1
<1>5. ASSUME NEW k \in Int, k * b = a PROVE k = whole
  <2>1. 16 * sign * a = k * d
    BY <1>1, <1>5
  <2> HIDE DEF d
  <2> QED BY <1>2, <1>3, <2>1, Even
<1>6. 4 * whole * (4 * b) = 4 * (4 * a) <=> whole * b = a
  <2> DEFINE w == whole * b
  <2>1. w \in Int /\ 4 * whole * (4 * b) = 16 * w
    BY <1>1, <1>4
  <2> HIDE DEF w
  <2>2. 16 * w = 4 * (4 * a) <=> w = a
    BY <1>1, <2>1
  <2> QED BY <2>1, <2>2 DEF w
<1>7. whole * b = a => whole \in -Int128..Int128
  BY <1>1, <1>4, Factor
<1> QED BY <1>4, <1>5, <1>6, <1>7 DEF whole

\* What the operation on two integers gives: the exact integer, if it is one and has
\* 128 bits, and it has at least 64.
LEMMA IntegersExact ==
  ASSUME NEW op \in Arithmetic, NEW v, NEW w,
         NEW a \in -Int128..(Int128 - 1), NEW b \in -Int128..(Int128 - 1),
         numeric_operand(v) = [t |-> "int", n |-> a], numeric_operand(w) = [t |-> "int", n |-> b],
         op = "divide" => b # 0
  PROVE  LET exact == ExactResult(op, v, w)
             whole == WholePart(exact)
             out   == IntegerOutcome(op, a, b)
         IN  /\ whole \in Int
             /\ 4 * whole * exact.den = exact.num =>
                  \/ out = Integer(whole)
                  \/ out = Failed("Unrepresentable") /\ whole \notin -Int64..(UInt64 - 1)
             /\ 4 * whole * exact.den # exact.num => out = Failed("Fractional")
<1> DEFINE exact == ExactResult(op, v, w)
           whole == WholePart(exact)
           out   == IntegerOutcome(op, a, b)
           Outcome ==
             /\ whole \in Int
             /\ 4 * whole * exact.den = exact.num =>
                  \/ out = Integer(whole)
                  \/ out = Failed("Unrepresentable") /\ whole \notin -Int64..(UInt64 - 1)
             /\ 4 * whole * exact.den # exact.num => out = Failed("Fractional")
<1> SUFFICES Outcome
  OBVIOUS
<1>1. /\ Quarters(numeric_operand(v)) = 4 * a /\ Quarters(numeric_operand(w)) = 4 * b
      /\ a \in Int /\ b \in Int
  BY WidthsAssumption DEF Quarters
<1>2. \A n \in Int : ~InI128(n) => n \notin -Int64..(UInt64 - 1)
  BY WidthsAssumption DEF InI128
<1>3. ASSUME NEW c \in Int, c = whole, 4 * c * exact.den = exact.num,
             out = IF InI128(c) THEN Integer(c) ELSE Failed("Unrepresentable")
      PROVE  Outcome
  <2> HIDE DEF exact, whole, out
  <2> QED BY <1>2, <1>3
<1>4. CASE op = "add"
  <2>1. exact = [num |-> 4 * a + 4 * b, den |-> 1]
    BY <1>1, <1>4 DEF ExactResult
  <2>2. 4 * a + 4 * b = 4 * (a + b) /\ a + b \in Int
    BY <1>1
  <2>3. a + b = whole /\ 4 * (a + b) * exact.den = exact.num
    BY <2>1, <2>2, Sums
  <2>4. out = IF InI128(a + b) THEN Integer(a + b) ELSE Failed("Unrepresentable")
    BY <1>4 DEF IntegerOutcome
  <2> HIDE DEF exact, whole, out
  <2> QED BY <1>3, <2>2, <2>3, <2>4
<1>5. CASE op = "subtract"
  <2>1. exact = [num |-> 4 * a - 4 * b, den |-> 1]
    BY <1>1, <1>5 DEF ExactResult
  <2>2. 4 * a - 4 * b = 4 * (a - b) /\ a - b \in Int
    BY <1>1
  <2>3. a - b = whole /\ 4 * (a - b) * exact.den = exact.num
    BY <2>1, <2>2, Sums
  <2>4. out = IF InI128(a - b) THEN Integer(a - b) ELSE Failed("Unrepresentable")
    BY <1>5 DEF IntegerOutcome
  <2> HIDE DEF exact, whole, out
  <2> QED BY <1>3, <2>2, <2>3, <2>4
<1>6. CASE op = "multiply"
  <2>1. exact = [num |-> (4 * a) * (4 * b), den |-> 4]
    BY <1>1, <1>6 DEF ExactResult
  <2>2. a * b \in Int
    BY <1>1
  <2>3. a * b = whole /\ 4 * (a * b) * exact.den = exact.num
    BY <1>1, <2>1, Products
  <2>4. out = IF InI128(a * b) THEN Integer(a * b) ELSE Failed("Unrepresentable")
    BY <1>6 DEF IntegerOutcome
  <2> HIDE DEF exact, whole, out
  <2> QED BY <1>3, <2>2, <2>3, <2>4
<1>7. CASE op = "divide"
  <2>1. exact = [num |-> 4 * (4 * a), den |-> 4 * b] /\ b # 0
    BY <1>1, <1>7 DEF ExactResult
  <2>2. /\ whole \in Int
        /\ 4 * whole * exact.den = exact.num => whole * b = a
        /\ whole * b = a => 4 * whole * exact.den = exact.num
        /\ \A k \in Int : k * b = a => k = whole
        /\ whole * b = a => whole \in -Int128..Int128
    BY <2>1, Quotients
  <2>3. out = IF a = -Int128 /\ b = -1 THEN Failed("Unrepresentable")
              ELSE IF \E k \in -Int128..Int128 : k * b = a
                   THEN Integer(CHOOSE k \in -Int128..Int128 : k * b = a)
                   ELSE Failed("Fractional")
    BY <1>7 DEF IntegerOutcome
  <2>4. -Int128..Int128 \subseteq Int
    BY WidthsAssumption
  <2> HIDE DEF exact, whole, out
  <2>5. CASE a = -Int128 /\ b = -1
    <3>1. Int128 \in Int /\ Int128 * b = a /\ Int128 \notin -Int64..(UInt64 - 1)
      BY <2>5, WidthsAssumption
    <3>2. whole = Int128
      BY <2>2, <3>1
    <3> QED BY <2>2, <2>3, <2>5, <3>1, <3>2
  <2>6. CASE ~(a = -Int128 /\ b = -1) /\ whole * b = a
    <3>1. \E k \in -Int128..Int128 : k * b = a
      BY <2>2, <2>6
    <3>2. (CHOOSE k \in -Int128..Int128 : k * b = a) = whole
      BY <2>2, <2>4, <3>1
    <3> QED BY <2>2, <2>3, <2>6, <3>1, <3>2
  <2>7. CASE ~(a = -Int128 /\ b = -1) /\ whole * b # a
    <3>1. ~\E k \in -Int128..Int128 : k * b = a
      BY <2>2, <2>4, <2>7
    <3> QED BY <2>2, <2>3, <2>7, <3>1
  <2> QED BY <2>5, <2>6, <2>7
<1> QED BY <1>4, <1>5, <1>6, <1>7 DEF Arithmetic

\* What the operation on two floats gives is the result rounded once.
LEMMA FloatsExact ==
  ASSUME NEW op \in Arithmetic, NEW v, NEW w
  PROVE  FloatOutcome(op, Quarters(numeric_operand(v)), Quarters(numeric_operand(w)))
           = float_value(ExactResult(op, v, w).num, ExactResult(op, v, w).den)
BY DEF Arithmetic, FloatOutcome, ExactResult

\* The operands of an exact result are integers.
LEMMA ResultTypes ==
  ASSUME NEW op \in Arithmetic, NEW v, NEW w,
         Quarters(numeric_operand(v)) \in Int, Quarters(numeric_operand(w)) \in Int
  PROVE  ExactResult(op, v, w).num \in Int /\ ExactResult(op, v, w).den \in Int
<1> DEFINE p == Quarters(numeric_operand(v))
           q == Quarters(numeric_operand(w))
<1>1. p \in Int /\ q \in Int /\ p + q \in Int /\ p - q \in Int /\ p * q \in Int /\ 4 * p \in Int
  OBVIOUS
<1>2. ExactResult(op, v, w) =
        CASE op = "add"      -> [num |-> p + q, den |-> 1]
          [] op = "subtract" -> [num |-> p - q, den |-> 1]
          [] op = "multiply" -> [num |-> p * q, den |-> 4]
          [] op = "divide"   -> [num |-> 4 * p, den |-> q]
  BY DEF ExactResult
<1> HIDE DEF p, q
<1> QED BY <1>1, <1>2 DEF Arithmetic

\* An operation on two numbers is exact, or fails.
LEMMA ArithmeticExact ==
  ASSUME NEW op \in Arithmetic, NEW v \in Value, NEW tr, tr.op = op, tr.value \in Value,
         IsNumber(v), ValidOperand(tr),
         transform_value(v, tr) = numeric_arithmetic(op, numeric_operand(v), numeric_operand(tr.value))
  PROVE  IsExact(v, tr) /\ transform_value(v, tr) \in Answer
<1> DEFINE w == tr.value
           left  == numeric_operand(v)
           right == numeric_operand(w)
           exact == ExactResult(op, v, w)
           whole == WholePart(exact)
           result == transform_value(v, tr)
           out == IntegerOutcome(op, left.n, right.n)
<1>1. /\ left \in Operand /\ left.t # "failed"
      /\ right \in Operand /\ right.t # "failed" /\ (op = "divide" => right.n # 0)
  BY OperandOf DEF ValidOperand, IsNumber, IsZero
<1>2. result = numeric_arithmetic(op, left, right)
  OBVIOUS
<1>3. IsInteger(v) <=> left.t = "int"
  BY DEF IsInteger
<1>4. IsInteger(w) <=> right.t = "int"
  BY DEF IsInteger
<1>5. IsExact(v, tr) <=>
        IF IsInteger(v) /\ IsInteger(w) /\ 4 * whole * exact.den = exact.num
        THEN IF whole \in -Int64..(UInt64 - 1) THEN result = Integer(whole)
                                               ELSE result.t = "failed"
        ELSE result.t = "failed" \/ result = float_value(exact.num, exact.den)
  BY DEF IsExact
<1>6. CASE left.t = "int" /\ right.t = "int" /\ out # Failed("Fractional")
  <2>1. /\ left = [t |-> "int", n |-> left.n] /\ right = [t |-> "int", n |-> right.n]
        /\ left.n \in -Int128..(Int128 - 1) /\ right.n \in -Int128..(Int128 - 1)
    BY <1>1, <1>6 DEF Operand, Failed
  <2>2. /\ whole \in Int
        /\ 4 * whole * exact.den = exact.num =>
             \/ out = Integer(whole)
             \/ out = Failed("Unrepresentable") /\ whole \notin -Int64..(UInt64 - 1)
        /\ 4 * whole * exact.den # exact.num => out = Failed("Fractional")
    BY <1>1, <2>1, IntegersExact
  <2>3. result = IF out.t = "int" THEN integer_value(out.n) ELSE out
    BY <1>2, <1>6 DEF numeric_arithmetic
  <2> HIDE DEF exact, whole, out, result, left, right
  <2>4. 4 * whole * exact.den = exact.num
    BY <1>6, <2>2
  <2>5. CASE out = Integer(whole)
    <3>1. result = integer_value(whole)
      BY <2>3, <2>5 DEF Integer
    <3>2. IF whole \in -Int64..(UInt64 - 1) THEN result = Integer(whole)
          ELSE result = Failed("Unrepresentable")
      BY <2>2, <3>1, IntegerAnswer
    <3>3. result \in Answer
      BY <3>2 DEF Answer, Value, Integer
    <3> QED BY <1>3, <1>4, <1>5, <1>6, <2>4, <3>2, <3>3 DEF Failed, result
  <2>6. CASE out = Failed("Unrepresentable") /\ whole \notin -Int64..(UInt64 - 1)
    <3>1. result = Failed("Unrepresentable")
      BY <2>3, <2>6 DEF Failed
    <3> QED BY <1>3, <1>4, <1>5, <1>6, <2>4, <2>6, <3>1 DEF Failed, Answer, result
  <2> QED BY <2>2, <2>4, <2>5, <2>6
<1>7. CASE ~(left.t = "int" /\ right.t = "int" /\ out # Failed("Fractional"))
  <2>1. ~(IsInteger(v) /\ IsInteger(w) /\ 4 * whole * exact.den = exact.num)
    <3>1. ASSUME left.t = "int", right.t = "int" PROVE 4 * whole * exact.den # exact.num
      <4>1. /\ left = [t |-> "int", n |-> left.n] /\ right = [t |-> "int", n |-> right.n]
            /\ left.n \in -Int128..(Int128 - 1) /\ right.n \in -Int128..(Int128 - 1)
        BY <1>1, <3>1 DEF Operand, Failed
      <4>2. 4 * whole * exact.den = exact.num =>
              \/ out = Integer(whole)
              \/ out = Failed("Unrepresentable") /\ whole \notin -Int64..(UInt64 - 1)
        BY <1>1, <4>1, IntegersExact
      <4>3. out = Failed("Fractional")
        BY <1>7, <3>1
      <4> HIDE DEF exact, whole, out, left, right
      <4> QED BY <4>2, <4>3 DEF Failed, Integer
    <3> QED BY <1>3, <1>4, <3>1
  <2>2. CASE HasExactFloat(left) /\ HasExactFloat(right)
    <3>1. /\ AsFloat(left) = Quarters(left) /\ AsFloat(right) = Quarters(right)
          /\ Quarters(left) \in Int /\ Quarters(right) \in Int
      BY <1>1, <2>2, ExactFloat, FloatsAssumption
    <3>2. result = FloatOutcome(op, AsFloat(left), AsFloat(right))
      BY <1>1, <1>2, <1>7, <2>2 DEF numeric_arithmetic
    <3>3. result = float_value(exact.num, exact.den)
      BY <3>1, <3>2, FloatsExact
    <3>4. exact.num \in Int /\ exact.den \in Int
      BY <3>1, ResultTypes
    <3> HIDE DEF exact, whole, out, result
    <3>5. result \in [t: {"float"}, n: Floats] \cup {Failed("Unrepresentable")}
      BY <3>3, <3>4, FloatAnswer
    <3>6. result \in Answer
      BY <3>5 DEF Answer, Value
    <3> QED BY <1>5, <2>1, <3>3, <3>6 DEF result
  <2>3. CASE ~(HasExactFloat(left) /\ HasExactFloat(right))
    <3>1. result = Failed("Unrepresentable")
      BY <1>1, <1>2, <1>7, <2>3 DEF numeric_arithmetic
    <3> HIDE DEF exact, whole, out, result
    <3> QED BY <1>5, <2>1, <3>1 DEF Failed, Answer, result
  <2> QED BY <2>2, <2>3
<1> QED BY <1>6, <1>7

\* A rounding of a number: integers stay, if they have 64 bits.
LEMMA RoundingOf ==
  ASSUME NEW x \in Operand, NEW decimals \in 0..MaxDecimals
  PROVE  /\ RoundedTo(x, decimals) \in Answer
         /\ x.t = "int" => RoundedTo(x, decimals) = integer_value(x.n)
<1>1. CASE x.t = "failed"
  BY <1>1 DEF RoundedTo, Operand, Failed, Answer
<1>2. CASE x.t = "int"
  <2>1. RoundedTo(x, decimals) = integer_value(x.n) /\ x.n \in Int
    BY <1>2, WidthsAssumption DEF RoundedTo, Operand, Failed
  <2> QED BY <2>1, IntegerAnswer DEF Answer, Value, Integer
<1>3. CASE x.t = "float"
  <2> DEFINE scale  == Scale[decimals]
             scaled == float_value(x.n * scale, 1)
  <2>1. x.n \in Int /\ scale \in Int /\ x.n * scale \in Int
    <3>1. x.n \in Floats
      BY <1>3 DEF Operand, Failed
    <3>2. x.n \in Int
      BY <3>1, FloatsAssumption
    <3>3. scale \in Nat
      BY WidthsAssumption
    <3> HIDE DEF scale
    <3> QED BY <3>2, <3>3
  <2>2. scaled \in [t: {"float"}, n: Floats] \cup {Failed("Unrepresentable")}
    BY <2>1, FloatAnswer
  <2>3. RoundedTo(x, decimals) = IF scaled.t = "failed" THEN scaled
                                 ELSE float_value(RoundedUnit(scaled.n), scale)
    BY <1>3 DEF RoundedTo
  <2> HIDE DEF scale, scaled
  <2>4. CASE scaled = Failed("Unrepresentable")
    BY <1>3, <2>3, <2>4 DEF Failed, Answer
  <2>5. CASE scaled \in [t: {"float"}, n: Floats]
    <3>1. scaled.n \in Int
      BY <2>5, FloatsAssumption
    <3>2. RoundedUnit(scaled.n) \in Int
      BY <3>1 DEF RoundedUnit
    <3>3. float_value(RoundedUnit(scaled.n), scale)
            \in [t: {"float"}, n: Floats] \cup {Failed("Unrepresentable")}
      BY <2>1, <3>2, FloatAnswer
    <3> QED BY <1>3, <2>3, <2>5, <3>3 DEF Answer, Value
  <2> QED BY <2>2, <2>4, <2>5
<1> QED BY <1>1, <1>2, <1>3 DEF Operand, Failed

\* A shift of a temperature.
LEMMA ShiftOf ==
  ASSUME NEW x \in Operand, NEW by \in Int
  PROVE  Shifted(x, by) \in Answer
<1>1. CASE x.t = "failed"
  BY <1>1 DEF Shifted, Operand, Failed, Answer
<1>2. CASE x.t # "failed" /\ HasExactFloat(x)
  <2>1. AsFloat(x) \in Int
    BY <1>2, ExactFloat, FloatsAssumption
  <2>2. float_value(AsFloat(x) + by, 1) \in [t: {"float"}, n: Floats] \cup {Failed("Unrepresentable")}
    BY <2>1, FloatAnswer
  <2> QED BY <1>2, <2>2 DEF Shifted, Answer, Value
<1>3. CASE x.t # "failed" /\ ~HasExactFloat(x)
  BY <1>3 DEF Shifted, Answer
<1> QED BY <1>1, <1>2, <1>3

\* What a valid transform answers, of any value of a row.
LEMMA AnswerOf ==
  ASSUME NEW v \in Value, NEW tr, tr.value \in Value \cup {Absent}, ValidTransform(tr)
  PROVE  /\ transform_value(v, tr) \in Answer
         /\ v = Null /\ tr.op # "default_if_null" => transform_value(v, tr) = Null
         /\ tr.op \in Arithmetic /\ v # Null =>
              IF IsNumber(v) THEN IsExact(v, tr) ELSE transform_value(v, tr).t = "failed"
         /\ tr.op = "round" /\ IsInteger(v) =>
              transform_value(v, tr) \in {integer_value(numeric_operand(v).n)}
<1> DEFINE result == transform_value(v, tr)
<1>1. v.t = "null" <=> v = Null
  BY DEF Value, Null
<1>2. numeric_operand(v) \in Operand
  BY OperandOf
<1>3. v = Null => ~IsInteger(v)
  BY DEF Null, IsInteger, numeric_operand, Failed
<1>4. CASE tr.op = "default_if_null"
  <2>1. result = (IF v.t = "null" THEN tr.value ELSE v) /\ tr.value # Absent
    BY <1>4 DEF transform_value, ValidTransform, Arithmetic
  <2> QED BY <1>4, <2>1 DEF Answer, Arithmetic
<1>5. CASE v = Null /\ tr.op # "default_if_null"
  <2>1. result = Null
    BY <1>1, <1>5 DEF transform_value
  <2>2. Null \in Value
    BY <1>5
  <2> QED BY <1>3, <1>5, <2>1, <2>2 DEF Answer
<1>6. CASE v # Null /\ tr.op \in Arithmetic
  <2>1. ValidOperand(tr)
    BY <1>6 DEF ValidTransform, Arithmetic
  <2>2. tr.value \in Value
    BY <2>1 DEF ValidOperand, IsNumber, numeric_operand, Absent, Failed
  <2>3. result = numeric_arithmetic(tr.op, numeric_operand(v), numeric_operand(tr.value))
    BY <1>1, <1>6, <2>1 DEF transform_value, Arithmetic, ValidOperand
  <2>4. CASE IsNumber(v)
    <3>1. IsExact(v, tr) /\ result \in Answer
      BY <1>6, <2>1, <2>2, <2>3, <2>4, ArithmeticExact
    <3> QED BY <1>6, <2>4, <3>1 DEF Arithmetic
  <2>5. CASE ~IsNumber(v)
    <3>1. result = numeric_operand(v) /\ numeric_operand(v).t = "failed"
      BY <2>3, <2>5 DEF numeric_arithmetic, IsNumber
    <3>2. result \in Answer
      BY <1>2, <3>1 DEF Operand, Answer
    <3> QED BY <1>6, <2>5, <3>1, <3>2 DEF Arithmetic
  <2> QED BY <2>4, <2>5
<1>7. CASE v # Null /\ tr.op = "round"
  <2>1. tr.value.n \in 0..MaxDecimals
    BY <1>7, WidthsAssumption DEF ValidTransform, Absent, Arithmetic
  <2>2. result = RoundedTo(numeric_operand(v), tr.value.n)
    BY <1>1, <1>7 DEF transform_value, Arithmetic
  <2> HIDE DEF result
  <2>3. /\ result \in Answer
        /\ numeric_operand(v).t = "int" => result = integer_value(numeric_operand(v).n)
    BY <1>2, <2>1, <2>2, RoundingOf
  <2> QED BY <1>7, <2>3 DEF IsInteger, Arithmetic, result
<1>8. CASE v # Null /\ tr.op \in {"kelvin_to_celsius", "celsius_to_kelvin"}
  <2>1. result \in {Shifted(numeric_operand(v), -Kelvin), Shifted(numeric_operand(v), Kelvin)}
    BY <1>1, <1>8 DEF transform_value, Arithmetic
  <2>2. Kelvin \in Int /\ -Kelvin \in Int
    BY WidthsAssumption
  <2>3. result \in Answer
    BY <1>2, <2>1, <2>2, ShiftOf
  <2> QED BY <1>8, <2>3 DEF Arithmetic
<1>9. CASE v # Null /\ tr.op \in {"uppercase", "lowercase", "prefix", "suffix", "replace"}
  <2>1. result \in {v, Failed("NotString"), NewText, Failed("NotText")}
    BY <1>1, <1>9 DEF transform_value, Arithmetic
  <2> QED BY <1>9, <2>1 DEF Answer, Arithmetic
<1> QED BY <1>4, <1>5, <1>6, <1>7, <1>8, <1>9 DEF ValidTransform

\* No answer is the one that validation excludes, and one that is neither a failure nor
\* a new text is a value.
LEMMA Answers ==
  ASSUME NEW a \in Answer
  PROVE  a # Failed("Unreached") /\ (a.t # "failed" /\ a # NewText => a \in Value)
<1>1. a \in Value => a.t # "failed"
  BY DEF Value
<1> QED BY <1>1 DEF Answer, Failed, NewText

\* A row holds values, whatever transforms it.
LEMMA RowStep == RowInv /\ [TransformNext]_transformVars => RowInv'
<1> SUFFICES ASSUME RowInv, [TransformNext]_transformVars PROVE RowInv'
  OBVIOUS
<1>1. CASE UNCHANGED row
  BY <1>1 DEF RowInv
<1>2. CASE MapRow
  BY <1>2, ValuesAssumption DEF MapRow, RowInv, Columns
<1>3. ASSUME NEW tr \in Transforms, ApplyTransform(tr) PROVE RowInv'
  <2>1. /\ tr.value \in Value \cup {Absent} /\ ValidTransform(tr)
        /\ tr.source \in Columns /\ tr.column \in Columns
    BY <1>3, ValuesAssumption DEF ApplyTransform
  <2>2. row[tr.source] \in Value /\ row[tr.column] \in Value
    BY <2>1 DEF RowInv
  <2>3. Applied(tr) \in Answer
    <3>1. transform_value(row[tr.source], tr) \in Answer
      BY <2>1, <2>2, AnswerOf
    <3> QED BY <2>2, <3>1 DEF Applied, Answer
  <2>4. CASE Applied(tr).t = "failed"
    BY <1>1, <1>3, <2>4 DEF ApplyTransform
  <2>5. CASE Applied(tr).t # "failed"
    <3>1. PICK v \in IF Applied(tr) = NewText THEN Texts ELSE {Applied(tr)} :
            row' = [row EXCEPT ![tr.column] = v]
      BY <1>3, <2>5 DEF ApplyTransform
    <3>2. v \in Value
      BY <2>3, <2>5, <3>1, Answers, ValuesAssumption
    <3> QED BY <3>1, <3>2 DEF RowInv
  <2> QED BY <2>4, <2>5
<1> QED BY <1>1, <1>2, <1>3 DEF TransformNext, RefuseTransforms, transformVars

\* No transform alters a number without saying so, loses a null or a text that holds
\* one, or meets what validation excludes: for every width, floats and transforms
\* (transform_value, validate_transforms).
THEOREM RowsStayExact == TransformSpec => []TransformsAreExact
<1>1. TransformInit => RowInv
  <2>1. Null \in Value
    BY DEF Null, Value
  <2> QED BY <2>1 DEF TransformInit, RowInv
<1>2. RowInv => TransformsAreExact
  <2> SUFFICES ASSUME RowInv, NEW tr \in Transforms, ValidTransform(tr)
               PROVE  LET v == row[tr.source]
                          result == transform_value(v, tr)
                      IN  /\ result # Failed("Unreached")
                          /\ v = Null /\ tr.op # "default_if_null" => result = Null
                          /\ tr.op \in Arithmetic /\ v # Null =>
                               IF IsNumber(v) THEN IsExact(v, tr) ELSE result.t = "failed"
                          /\ tr.op = "round" /\ IsInteger(v) =>
                               result \in {integer_value(numeric_operand(v).n)}
    BY DEF TransformsAreExact
  <2>1. tr.value \in Value \cup {Absent} /\ row[tr.source] \in Value
    BY ValuesAssumption DEF RowInv
  <2> QED BY <2>1, AnswerOf, Answers
<1> QED BY <1>1, <1>2, RowStep, PTL DEF TransformSpec
=============================================================================
