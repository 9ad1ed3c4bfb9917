------------------------------ MODULE MCExecutions ------------------------------
(* Small instances, for TLC, of the parts that share no state: one         *)
(* execution with its jobs and what the hosts tell of it, pagination, a    *)
(* batch and the command line. A behaviour runs one of them, and leaves    *)
(* the others where they began.                                            *)
EXTENDS Surface, Pagination, Batch, CommandLine

VARIABLE part

(* Executions: two records at once, with and without a limit on the wait and *)
(* polling elsewhere; one after the other, up to the first failure; and a  *)
(* job that is resumed.                                                    *)
Run(n, width, continue, triggers, away, fetch, attempts, maxWait, resume) ==
  [records |-> n, concurrency |-> width, continue |-> continue, triggers |-> triggers,
   crossOrigin |-> away, fetch |-> fetch, attempts |-> attempts, maxWait |-> maxWait,
   resume |-> resume]
FourPolicies ==
  {Run(2, 2, TRUE, {"cancellation"}, TRUE, FALSE, 1, FALSE, FALSE),
   Run(2, 2, TRUE, {"deadline", "poll timeout"}, FALSE, FALSE, 1, TRUE, FALSE),
   Run(2, 1, FALSE, {"cancellation"}, FALSE, TRUE, 2, FALSE, FALSE),
   Run(1, 1, FALSE, {"cancellation", "poll timeout"}, TRUE, TRUE, 2, FALSE, TRUE)}

(* Walks: pages smaller and larger than the rows and the limit; chains of  *)
(* three pages, with every choice of the page after each.                  *)
Walk(mode, size, rows, pages, away, key, retries, leaves) ==
  [mode |-> mode, pageSize |-> size, maxRows |-> rows, maxPages |-> pages,
   crossOrigin |-> away, key |-> key, retries |-> retries, leaves |-> leaves]
SomePaginations ==
  {Walk(m, s, r, 9, FALSE, "none", FALSE, FALSE) :
     m \in {"offset", "page"}, s \in 1..3, r \in 1..4}
  \cup {Walk("cursor", 1, r, n, FALSE, k, FALSE, FALSE) :
     r \in {2, 4, 9}, n \in {2, 9}, k \in {"named header", "header"}}
  \cup {Walk("link", 1, r, 9, x, "header", FALSE, l) :
     r \in {3, 9}, x \in BOOLEAN, l \in BOOLEAN}
  \cup {Walk("link", 1, 9, 3, TRUE, "body", TRUE, TRUE)}
SomeSources ==
  {[rows |-> <<n>>, next |-> <<NoPage>>, away |-> {}, generous |-> g] :
     n \in 0..5, g \in BOOLEAN}
  \cup {[rows |-> <<2, 1, 0>>, next |-> f, away |-> a, generous |-> FALSE] :
     f \in [1..3 -> 1..3 \cup {NoPage}], a \in {{}, {2}, {3}}}

(* Batches: every choice of the records that resolve among up to five.     *)
SomeBatches ==
  {[valid |-> v, size |-> s, continue |-> c] :
     v \in UNION {[1..n -> BOOLEAN] : n \in 0..5}, s \in 1..3, c \in BOOLEAN}

One(S) == CHOOSE x \in S : TRUE

ExecutionsInit ==
  /\ part \in {"execution", "pagination", "batch", "command"}
  /\ IF part = "execution" THEN TRUE ELSE policy = One(Policies)
  /\ IF part = "pagination" THEN TRUE
     ELSE paging = One(Paginations) /\ source = One(Sources)
  /\ IF part = "batch" THEN TRUE ELSE batch = One(Batches)
  /\ ExecutionInit /\ PaginationInit /\ BatchInit /\ CommandInit

ExecutionTurn == part = "execution" /\ UNCHANGED <<part, paginationVars, batchVars, commandVars>>
PaginationTurn == part = "pagination" /\ UNCHANGED <<part, executionVars, batchVars, commandVars>>
BatchTurn == part = "batch" /\ UNCHANGED <<part, executionVars, paginationVars, commandVars>>
CommandTurn == part = "command" /\ UNCHANGED <<part, executionVars, paginationVars, batchVars>>

ExecutionStep ==
  \/ \E r \in Inputs : ExecutionTurn /\ Start(r)
  \/ \E r \in Inputs : ExecutionTurn /\ Resume(r)
  \/ \E r \in Inputs : ExecutionTurn /\ Send(r)
  \/ \E r \in Inputs : ExecutionTurn /\ Refuse(r)
  \/ \E r \in Inputs : ExecutionTurn /\ AnswerFails(r)
  \/ \E r \in Inputs : ExecutionTurn /\ SubmitCompletes(r)
  \/ \E r \in Inputs : ExecutionTurn /\ SubmitPends(r)
  \/ \E r \in Inputs : ExecutionTurn /\ Poll(r)
  \/ \E r \in Inputs : ExecutionTurn /\ PollPends(r)
  \/ \E r \in Inputs : ExecutionTurn /\ PollCompletes(r)
  \/ \E r \in Inputs : ExecutionTurn /\ JobFails(r)
  \/ \E r \in Inputs : ExecutionTurn /\ ResultArrives(r)
  \/ \E r \in Inputs : ExecutionTurn /\ GiveUp(r)
  \/ \E r \in Inputs : ExecutionTurn /\ SendOwnCancel(r)
  \/ \E r \in Inputs : ExecutionTurn /\ OwnCancelEnds(r)
  \/ \E r \in Inputs : ExecutionTurn /\ OwnCancelTimesOut(r)
  \/ \E t \in {"cancellation", "deadline"} : ExecutionTurn /\ Stop(t)
  \/ \E u \in Urls : ExecutionTurn /\ SendCancel(u)
  \/ \E u \in Urls : ExecutionTurn /\ CancelEnds(u)
  \/ ExecutionTurn /\ BudgetEnds
  \/ ExecutionTurn /\ Finish
  \/ ExecutionTurn /\ FinishStopped

PaginationStep ==
  \/ PaginationTurn /\ FetchSlice
  \/ PaginationTurn /\ FetchPage
  \/ PaginationTurn /\ PageFails
  \/ PaginationTurn /\ Deliver

BatchStep ==
  \/ BatchTurn /\ SkipChunk
  \/ BatchTurn /\ RefuseChunk
  \/ BatchTurn /\ SendChunk
  \/ BatchTurn /\ ReceiveChunk
  \/ BatchTurn /\ LoseChunk

CommandStep ==
  \/ CommandTurn /\ ParseArguments
  \/ CommandTurn /\ StartRuntime
  \/ CommandTurn /\ InstallHandler
  \/ CommandTurn /\ CancelPreparation
  \/ CommandTurn /\ RunOperation
  \/ CommandTurn /\ Emit
  \/ CommandTurn /\ PrepareEnds
  \/ CommandTurn /\ SendRequest
  \/ CommandTurn /\ Panic
  \/ CommandTurn /\ Kill
  \/ CommandTurn /\ Signal
  \/ CommandTurn /\ TakeFirst
  \/ CommandTurn /\ TellReader

ExecutionsNext ==
  \/ ExecutionStep
  \/ PaginationStep
  \/ BatchStep
  \/ CommandStep

ExecutionsFairness ==
  \/ part = "execution" /\ ExecutionFairness
  \/ part = "command" /\ CommandFairness
  \/ part \in {"pagination", "batch"}

ExecutionsSpec ==
  /\ ExecutionsInit
  /\ [][ExecutionsNext]_<<part, executionVars, paginationVars, batchVars, commandVars>>
  /\ ExecutionsFairness

(* The runs that refute a statement have the execution alone.              *)
ExecutionAlone ==
  /\ ExecutionsInit /\ part = "execution"
  /\ [][ExecutionStep]_<<part, executionVars, paginationVars, batchVars, commandVars>>

(* ExecutionReturns, of the part that runs.                                *)
EveryExecutionReturns == part = "execution" => ExecutionReturns
=============================================================================
