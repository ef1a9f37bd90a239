----------------------------- MODULE AsyncTask ------------------------------
(***************************************************************************)
(* Asynchronous media tasks (video, Suno): a submitted task is charged,    *)
(* then polled until the upstream has finished it, and its charge is       *)
(* settled or refunded when it ends.                                       *)
(*                                                                         *)
(* A polling pass reads all unfinished rows at its start and then works    *)
(* through them; the rows of a pass do not influence each other, so a      *)
(* worker stands for the handling of ONE row of a pass (or of one fetch by *)
(* a user).  Passes overlap when a runner has lost its lease and has not   *)
(* noticed yet.  Every database statement is one step.                     *)
(*                                                                         *)
(* Of a row's progress the model keeps whether it is "100%", for that is   *)
(* what the queries for unfinished rows look at.  An upstream may report   *)
(* it, or for Suno a fail reason which has the same effect, with a status  *)
(* that is not final (FullReplies).  SUBMITTED counts as QUEUED.           *)
(***************************************************************************)
EXTENDS Integers, FiniteSets

CONSTANTS
    Tasks,       \* the tasks
    Workers,     \* concurrent handlings of a row
    Suno,        \* tasks of the Suno platform; the others are video tasks
    Realtime,    \* video tasks of Gemini and Vertex channels
    Orphans,     \* tasks whose channel may be deleted, or without upstream id
    Legacy,      \* tasks submitted before legacyTaskCutoff
    FullReplies, \* tasks whose upstream may report progress 100% or a fail
                 \* reason with a status that is not final
    Quotas,      \* quotas a task is charged on submission
    PerCall,     \* values of BillingContext.PerCallBilling that occur
    Actual,      \* quota the upstream's usage amounts to; 0 when unknown
    NoTask,      \* no task
    MaxFaults,   \* bound on failing statements and upstream error messages
    MaxCrashes,  \* bound on workers that die
    MaxFetches   \* bound on fetches by users

ASSUME TaskAssumption ==
    /\ Suno \subseteq Tasks /\ Orphans \subseteq Tasks /\ Legacy \subseteq Tasks
    /\ Realtime \subseteq Tasks \ Suno /\ FullReplies \subseteq Tasks
    /\ NoTask \notin Tasks
ASSUME NumAssumption ==
    /\ Quotas \subseteq Nat /\ Actual \in [Tasks -> Nat]
    /\ PerCall \subseteq BOOLEAN
    /\ MaxFaults \in Nat /\ MaxCrashes \in Nat /\ MaxFetches \in Nat

VARIABLES
    row,       \* the tasks table: status, quota, per-call billing
    full,      \* the tasks whose row has progress 100%
    paid,      \* what funding source and token have been charged for a task
    upstream,  \* the status the upstream reports
    pc,        \* the next statement of a worker
    my,        \* its copy of the row: task, status read, status fetched,
               \* whether the progress fetched is 100%
    moves,     \* how often the funding source was adjusted after submission
    broken,    \* tasks for which a billing statement failed or a worker died
    faults, crashes, fetches

vars == <<row, full, paid, upstream, pc, my, moves, broken, faults, crashes, fetches>>
table == <<row, full>>
bill == <<paid, moves, broken>>
bounds == <<faults, crashes, fetches>>

Waiting == {"NOT_START", "QUEUED", "IN_PROGRESS"}
Ended == {"SUCCESS", "FAILURE"}
UpStatuses == {"QUEUED", "IN_PROGRESS"} \cup Ended
NoRow == [status |-> "NONE", quota |-> 0, perCall |-> FALSE]
NoCopy == [task |-> NoTask, from |-> "NONE", got |-> "NONE", full |-> FALSE]

Billing == {"refFunding", "refToken", "adjFunding", "adjToken"}

\* Types: rows, charges and workers' copies; in particular every status written to
\* a row is one of model.TaskStatus (updateVideoSingleTask refuses the others).
TypeOK ==
    /\ row \in [Tasks -> [status : {"NONE"} \cup Waiting \cup Ended,
                          quota : Nat, perCall : BOOLEAN]]
    /\ full \subseteq Tasks
    /\ paid \in [Tasks -> [funding : Int, token : Int]]
    /\ upstream \in [Tasks -> UpStatuses]
    /\ pc \in [Workers -> {"idle", "sweep", "poll", "update", "save", "rtFetch",
                           "rtUpdate"} \cup Billing]
    /\ my \in [Workers -> [task : Tasks \cup {NoTask},
                           from : {"NONE"} \cup Waiting \cup Ended,
                           got : {"NONE"} \cup Waiting \cup Ended,
                           full : BOOLEAN]]
    /\ moves \in [Tasks -> Nat]
    /\ broken \subseteq Tasks
    /\ faults \in 0 .. MaxFaults
    /\ crashes \in 0 .. MaxCrashes
    /\ fetches \in 0 .. MaxFetches

Init ==
    /\ row = [t \in Tasks |-> NoRow]
    /\ full = {}
    /\ paid = [t \in Tasks |-> [funding |-> 0, token |-> 0]]
    /\ upstream = [t \in Tasks |-> "QUEUED"]
    /\ pc = [w \in Workers |-> "idle"]
    /\ my = [w \in Workers |-> NoCopy]
    /\ moves = [t \in Tasks |-> 0]
    /\ broken = {}
    /\ faults = 0 /\ crashes = 0 /\ fetches = 0

-----------------------------------------------------------------------------
Fault == faults < MaxFaults /\ faults' = faults + 1 /\ UNCHANGED <<crashes, fetches>>
NoFault == UNCHANGED bounds

Goto(w, l) == pc' = [pc EXCEPT ![w] = l]
Return(w) == Goto(w, "idle") /\ my' = [my EXCEPT ![w] = NoCopy]
Step(w, l) == IF l = "idle" THEN Return(w) ELSE Goto(w, l) /\ UNCHANGED my

SetStatus(t, s) == row' = [row EXCEPT ![t].status = s]
SetProgress(t, all) == full' = IF all THEN full \cup {t} ELSE full \ {t}
Break(t) == broken' = broken \cup {t}

-----------------------------------------------------------------------------
(* Submission and the upstream.                                            *)

\* RelayTask: once the upstream has accepted the task, settle the billing
\* session, then insert the row.  An error of either is logged and ignored:
\* the row may carry another quota than was charged, or be missing (after a
\* crash too).  A submission that is not accepted leaves no row; its billing
\* session is refunded (module BillingSession).
Submit(t) ==
    /\ row[t].status = "NONE" /\ t \notin broken
    /\ \E q \in Quotas, b \in PerCall :
        LET new == [status |-> "NOT_START", quota |-> q, perCall |-> b] IN
        \/ /\ row' = [row EXCEPT ![t] = new]
           /\ paid' = [paid EXCEPT ![t] = [funding |-> q, token |-> q]]
           /\ NoFault /\ UNCHANGED broken
        \/ /\ \E pre \in Quotas :
                paid' = [paid EXCEPT ![t] = [funding |-> pre, token |-> pre]]
           /\ row' = [row EXCEPT ![t] = new]
           /\ Fault /\ Break(t)
        \/ /\ paid' = [paid EXCEPT ![t] = [funding |-> q, token |-> q]]
           /\ Fault /\ Break(t) /\ UNCHANGED row
    /\ UNCHANGED <<full, upstream, pc, my, moves>>

\* The upstream works on the task; a final status stays.
UpstreamMoves(t) ==
    /\ row[t].status # "NONE"
    /\ \/ upstream[t] = "QUEUED"
          /\ upstream' = [upstream EXCEPT ![t] = "IN_PROGRESS"]
       \/ /\ upstream[t] = "IN_PROGRESS"
          /\ \E s \in Ended : upstream' = [upstream EXCEPT ![t] = s]
    /\ UNCHANGED <<table, pc, my, bill, bounds>>

-----------------------------------------------------------------------------
(* Reading rows: sweepTimedOutTasks, RunTaskPollingOnce.                   *)

ReadRow(w, t, l) ==
    /\ pc[w] = "idle"
    /\ my' = [my EXCEPT ![w] = [task |-> t, from |-> row[t].status, got |-> "NONE",
                            full |-> t \in full]]
    /\ Goto(w, l)
    /\ UNCHANGED <<table, upstream, bill>>

\* GetTimedOutUnfinishedTasks, GetAllUnFinishSyncTasks: the progress counts
\* as well as the status.  Any unfinished task may have reached its timeout.
SweepNever(t) == FALSE  \* mutant: the sweep finds nothing
TimedOut(t) == t \notin full /\ row[t].status \in Waiting
Unfinished(t) == t \notin full /\ row[t].status \in Waiting
HasUnfinishedSyncTasks == \E t \in Tasks : Unfinished(t)
SweepRead(w, t) == TimedOut(t) /\ ReadRow(w, t, "sweep") /\ NoFault
PollRead(w, t) == Unfinished(t) /\ ReadRow(w, t, "poll") /\ NoFault

\* What UpdateWithStatus(from) compares.
WinsAlways(w) == TRUE  \* mutant: no compare-and-set
Wins(w) == row[my[w].task].status = my[w].from

\* sweepTimedOutTasks: only the winner of the compare-and-set refunds.
Sweep(w) ==
    LET t == my[w].task IN
    /\ pc[w] = "sweep"
    /\ \/ /\ Wins(w) /\ SetStatus(t, "FAILURE") /\ SetProgress(t, TRUE) /\ NoFault
          /\ Step(w, IF t \notin Legacy /\ row[t].quota # 0
                     THEN "refFunding" ELSE "idle")
       \/ ~ Wins(w) /\ Return(w) /\ NoFault /\ UNCHANGED table
       \/ Fault /\ Return(w) /\ UNCHANGED table
    /\ UNCHANGED <<upstream, bill>>

-----------------------------------------------------------------------------
(* Polling one task.                                                       *)

\* The pass is cancelled, or the request fails, or its answer is not
\* understood or says 429: the row is left for the next pass.
Abandon(w) ==
    /\ pc[w] = "poll"
    /\ Return(w)
    /\ UNCHANGED <<table, upstream, bill, bounds>>

\* TaskBulkUpdateByID for tasks without a channel or an upstream id: the row
\* is failed whatever its status is by now.
BulkFail(w) ==
    /\ pc[w] = "poll"
    /\ my[w].task \in Orphans
    /\ \/ SetStatus(my[w].task, "FAILURE") /\ SetProgress(my[w].task, TRUE) /\ NoFault
       \/ Fault /\ UNCHANGED table
    /\ Return(w)
    /\ UNCHANGED <<upstream, bill>>

\* Whether the progress of a reply is 100% though its status is not final.
FullEarly(t) == IF t \in FullReplies THEN BOOLEAN ELSE {FALSE}

\* FetchTask for a video task: a status of the four, anything else is
\* abandoned.  A progress in the reply goes before that of the status.  An
\* error message counts as a failure of the task.
Reported(t) == upstream[t]
FetchVideo(w) ==
    LET t == my[w].task IN
    /\ pc[w] = "poll" /\ t \notin Suno
    /\ \/ /\ \E early \in FullEarly(t) :
                my' = [my EXCEPT ![w].got = Reported(t),
                                 ![w].full = early \/ Reported(t) \in Ended]
          /\ NoFault
       \/ my' = [my EXCEPT ![w].got = "FAILURE", ![w].full = TRUE] /\ Fault
    /\ Goto(w, "update")
    /\ UNCHANGED <<table, upstream, bill>>

\* settleTaskBillingOnComplete: whether the charge is adjusted at all.  Suno
\* tasks keep theirs.
Adjusts(t) ==
    /\ t \notin Suno /\ ~ row[t].perCall
    /\ Actual[t] > 0 /\ Actual[t] # row[t].quota
AfterEnd(t, s) ==
    IF s = "FAILURE" /\ row[t].quota # 0 THEN "refFunding"
    ELSE IF s = "SUCCESS" /\ Adjusts(t) THEN "adjFunding" ELSE "idle"

\* updateVideoSingleTask: the update is a compare-and-set on the status that
\* was read, and only its winner bills a task that ended.
UpdateVideo(w) ==
    LET t == my[w].task IN
    /\ pc[w] = "update"
    /\ \/ /\ Wins(w) /\ SetStatus(t, my[w].got) /\ SetProgress(t, my[w].full)
          /\ NoFault
          /\ Step(w, IF my[w].got \in Ended THEN AfterEnd(t, my[w].got) ELSE "idle")
       \/ ~ Wins(w) /\ Return(w) /\ NoFault /\ UNCHANGED table
       \/ Fault /\ Return(w) /\ UNCHANGED table
    /\ UNCHANGED <<upstream, bill>>

\* updateSunoTasks: a task that failed, or whose reply has a fail reason
\* whatever its status is, is refunded first and its row saved then, with
\* progress 100%.  A reply without a status leaves the status that was read.
\* (taskNeedsUpdate may also find nothing new; that is Abandon.)
RefundsSuno(t, s, reason) == (reason \/ s = "FAILURE") /\ row[t].quota # 0
FetchSuno(w) ==
    LET t == my[w].task IN
    /\ pc[w] = "poll" /\ t \in Suno
    /\ \E s \in {upstream[t], my[w].from}, reason \in FullEarly(t) :
        /\ my' = [my EXCEPT ![w].got = s, ![w].full = reason \/ s \in Ended]
        /\ Goto(w, IF RefundsSuno(t, s, reason) THEN "refFunding" ELSE "save")
    /\ UNCHANGED <<table, upstream, bill, bounds>>

\* Task.Update saves the whole row, whatever it holds by now.
SaveSuno(w) ==
    /\ pc[w] = "save"
    /\ \/ /\ SetStatus(my[w].task, my[w].got) /\ SetProgress(my[w].task, my[w].full)
          /\ NoFault /\ UNCHANGED broken
       \/ Fault /\ Break(my[w].task) /\ UNCHANGED table
    /\ Return(w)
    /\ UNCHANGED <<upstream, paid, moves>>

-----------------------------------------------------------------------------
(* Billing: RefundTaskQuota and RecalculateTaskQuota.                      *)

\* Where a refund returns to: the polling of a Suno task saves the row.
\* (The sweep has no fetched status.)
AfterRefund(w) == IF my[w].got # "NONE" /\ my[w].task \in Suno THEN "save" ELSE "idle"

\* taskAdjustFunding(delta); on an error the token is not touched either.
AdjustTaskFunding(w, delta, next, onError) ==
    LET t == my[w].task IN
    /\ \/ /\ paid' = [paid EXCEPT ![t].funding = @ + delta]
          /\ moves' = [moves EXCEPT ![t] = @ + 1]
          /\ Step(w, next) /\ NoFault /\ UNCHANGED broken
       \/ Fault /\ Break(t) /\ Step(w, onError) /\ UNCHANGED <<paid, moves>>
    /\ UNCHANGED <<table, upstream>>

\* taskAdjustTokenQuota(delta); an error is only logged.
AdjustTaskToken(w, delta, next) ==
    LET t == my[w].task IN
    /\ \/ /\ paid' = [paid EXCEPT ![t].token = @ + delta]
          /\ NoFault /\ UNCHANGED broken
       \/ Fault /\ Break(t) /\ UNCHANGED paid
    /\ Step(w, next)
    /\ UNCHANGED <<table, upstream, moves>>

Quota(w) == row[my[w].task].quota
FullActual(w) == Actual[my[w].task]  \* mutant: the charge is not deducted
QuotaDelta(w) == Actual[my[w].task] - Quota(w)

RefundFunding(w) ==
    /\ pc[w] = "refFunding"
    /\ AdjustTaskFunding(w, -Quota(w), "refToken", AfterRefund(w))
RefundToken(w) ==
    /\ pc[w] = "refToken"
    /\ AdjustTaskToken(w, -Quota(w), AfterRefund(w))
RecalculateFunding(w) ==
    /\ pc[w] = "adjFunding"
    /\ AdjustTaskFunding(w, QuotaDelta(w), "adjToken", "idle")
RecalculateToken(w) ==
    /\ pc[w] = "adjToken"
    /\ AdjustTaskToken(w, QuotaDelta(w), "idle")

-----------------------------------------------------------------------------
(* A user fetches a Gemini or Vertex task: tryRealtimeFetch.               *)

RealtimeRead(w, t) ==
    /\ t \in Realtime /\ row[t].status # "NONE"
    /\ fetches < MaxFetches /\ fetches' = fetches + 1
    /\ ReadRow(w, t, "rtFetch")
    /\ UNCHANGED <<faults, crashes>>

RealtimeFetch(w) ==
    /\ pc[w] = "rtFetch"
    /\ \/ LET s == upstream[my[w].task] IN
          /\ my' = [my EXCEPT ![w].got = s, ![w].full = s \in Ended]
          /\ Goto(w, "rtUpdate")
       \/ Return(w)
    /\ UNCHANGED <<table, upstream, bill, bounds>>

\* A compare-and-set like that of the polling, but nobody looks at its result
\* and nothing is billed.
RealtimeUpdate(w) ==
    /\ pc[w] = "rtUpdate"
    /\ \/ /\ Wins(w) /\ NoFault
          /\ SetStatus(my[w].task, my[w].got) /\ SetProgress(my[w].task, my[w].full)
       \/ ~ Wins(w) /\ NoFault /\ UNCHANGED table
       \/ Fault /\ UNCHANGED table
    /\ Return(w)
    /\ UNCHANGED <<upstream, bill>>

-----------------------------------------------------------------------------
\* The process dies.  There is no record of billing that was still to do.
Crash(w) ==
    /\ pc[w] # "idle" /\ crashes < MaxCrashes
    /\ crashes' = crashes + 1
    /\ IF pc[w] \in Billing \cup {"save"} THEN Break(my[w].task)
                                          ELSE UNCHANGED broken
    /\ Return(w)
    /\ UNCHANGED <<table, upstream, paid, moves, faults, fetches>>

WorkerStep(w) ==
    \/ Sweep(w) \/ Abandon(w) \/ BulkFail(w)
    \/ FetchVideo(w) \/ UpdateVideo(w) \/ FetchSuno(w) \/ SaveSuno(w)
    \/ RefundFunding(w) \/ RefundToken(w)
    \/ RecalculateFunding(w) \/ RecalculateToken(w)
    \/ RealtimeFetch(w) \/ RealtimeUpdate(w)

Next ==
    \/ \E t \in Tasks : Submit(t) \/ UpstreamMoves(t)
    \/ \E w \in Workers :
        \/ WorkerStep(w) \/ Crash(w)
        \/ \E t \in Tasks : SweepRead(w, t) \/ PollRead(w, t) \/ RealtimeRead(w, t)

Spec == Init /\ [][Next]_vars

\* A worker goes on, and as long as a task is unfinished passes are run, one
\* of which finds it timed out.  Nothing is asked of the upstream.
Fairness ==
    /\ \A w \in Workers : WF_vars(WorkerStep(w))
    /\ \A t \in Tasks : SF_vars(\E w \in Workers : SweepRead(w, t))

FairSpec == Spec /\ Fairness

-----------------------------------------------------------------------------
(* Properties.                                                             *)

Handled(t) == \E w \in Workers : my[w].task = t /\ pc[w] \in Billing \cup {"save"}

\* What a task that ended must have cost.
Due(t) ==
    CASE row[t].status = "FAILURE" -> 0
      [] row[t].status = "SUCCESS" /\ Adjusts(t) -> Actual[t]
      [] OTHER -> row[t].quota

\* UpdateWithStatus before RefundTaskQuota and RecalculateTaskQuota: however
\* passes, sweeps and failures overlap, a task is billed once after submission.
OneBill == \A t \in Tasks : moves[t] <= 1

\* A task costs its quota while it is unfinished, nothing when it has failed
\* and the actual quota when it has succeeded, on the funding source and on
\* the token, as soon as nobody is billing it; unless a billing statement
\* failed or a worker died while billing.
BilledExactly ==
    \A t \in Tasks \ Legacy :
        row[t].status # "NONE" /\ ~ Handled(t) /\ t \notin broken =>
            paid[t].funding = Due(t) /\ paid[t].token = Due(t)

\* A task that ended stays as it ended: no worker with an old copy of the row
\* brings it back or turns it round.
EndIsFinal ==
    [][\A t \in Tasks : row[t].status \in Ended => row'[t].status = row[t].status]_vars

\* sweepTimedOutTasks: no task that the queries for unfinished rows can find
\* stays unfinished for ever, whatever the upstream does, statements failing
\* and workers dying: it ends, or a reply gives its row progress 100%.
TaskEnds ==
    \A t \in Tasks : row[t].status \in Waiting ~> row[t].status \in Ended \/ t \in full

\* HasUnfinishedSyncTasks "reports whether at least one async (Suno/video)
\* task is still in progress".  (It is not so: see AsyncStuck.cfg.)
InProgressIsSeen ==
    (\E t \in Tasks : row[t].status \in Waiting) => HasUnfinishedSyncTasks

=============================================================================
