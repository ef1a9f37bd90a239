-------------------------- MODULE AsyncTask_proofs ---------------------------
(***************************************************************************)
(* Proofs about AsyncTask, for any number of tasks and workers, any        *)
(* quotas, any number of faults and crashes.                               *)
(***************************************************************************)
EXTENDS AsyncTask, TLAPS

-----------------------------------------------------------------------------
(* Type correctness.  A worker that is not idle works on a task.           *)

AtWork == \A w \in Workers : pc[w] # "idle" => my[w].task \in Tasks

TypeInv == TypeOK /\ AtWork

Statuses == {"NONE"} \cup Waiting \cup Ended
Copies == [task : Tasks \cup {NoTask}, from : Statuses, got : Statuses, full : BOOLEAN]
Rows == [status : Statuses, quota : Nat, perCall : BOOLEAN]
Labels == {"idle", "sweep", "poll", "update", "save", "rtFetch", "rtUpdate"} \cup Billing

RowOK == row \in [Tasks -> Rows]
PaidOK == paid \in [Tasks -> [funding : Int, token : Int]] /\ moves \in [Tasks -> Nat]
WorkOK == pc \in [Workers -> Labels] /\ my \in [Workers -> Copies] /\ AtWork
RestOK ==
    /\ full \subseteq Tasks
    /\ upstream \in [Tasks -> UpStatuses]
    /\ broken \subseteq Tasks
    /\ faults \in 0 .. MaxFaults
    /\ crashes \in 0 .. MaxCrashes
    /\ fetches \in 0 .. MaxFetches

LEMMA TypeGroups == TypeInv <=> RowOK /\ PaidOK /\ WorkOK /\ RestOK
  BY DEF TypeInv, TypeOK, RowOK, PaidOK, WorkOK, RestOK, Statuses, Copies, Rows, Labels

LEMMA InitTypeInv == Init => TypeInv
  BY TaskAssumption, NumAssumption
  DEF Init, TypeInv, TypeOK, AtWork, NoRow, NoCopy, UpStatuses, Waiting, Ended

\* The ways a worker moves on keep its locals well typed.
LEMMA ReturnType ==
  ASSUME WorkOK, NEW w \in Workers, Return(w)
  PROVE  WorkOK'
  BY DEF WorkOK, AtWork, Return, Goto, NoCopy, Copies, Statuses, Labels

LEMMA StepType ==
  ASSUME WorkOK, NEW w \in Workers, NEW l \in Labels, pc[w] # "idle", Step(w, l)
  PROVE  WorkOK'
<1>1. CASE l = "idle"
  BY <1>1, ReturnType DEF Step
<1>2. CASE l # "idle"
  BY <1>2 DEF WorkOK, AtWork, Step, Goto
<1> QED
  BY <1>1, <1>2

LEMMA ReadType ==
  ASSUME WorkOK, RowOK, NEW w \in Workers, NEW t \in Tasks, NEW l \in Labels,
         ReadRow(w, t, l)
  PROVE  WorkOK'
  BY DEF WorkOK, RowOK, Rows, AtWork, ReadRow, Goto, Copies, Statuses

LEMMA StatusType ==
  ASSUME RowOK, NEW t \in Tasks, NEW s \in Statuses, SetStatus(t, s)
  PROVE  RowOK'
  BY DEF RowOK, SetStatus, Rows

LEMMA CopyType ==
  ASSUME WorkOK, NEW w \in Workers
  PROVE  /\ my[w].got \in Statuses
         /\ pc[w] # "idle" => my[w].task \in Tasks
  BY DEF WorkOK, AtWork, Copies, Statuses, UpStatuses, Waiting, Ended

LEMMA NextRow == TypeInv /\ [Next]_vars => RowOK'
<1> SUFFICES ASSUME TypeInv, [Next]_vars PROVE RowOK'
  OBVIOUS
<1>0. RowOK /\ PaidOK /\ WorkOK /\ RestOK
  BY TypeGroups
<1>1. ASSUME NEW t \in Tasks, Submit(t) PROVE RowOK'
  <2>1. ASSUME NEW q \in Quotas, NEW b \in PerCall,
               row' = [row EXCEPT ![t] = [status |-> "NOT_START", quota |-> q, perCall |-> b]]
        PROVE RowOK'
    BY <2>1, <1>0, NumAssumption DEF RowOK, Rows, Statuses, Waiting
  <2> QED
    BY <2>1, <1>1, <1>0 DEF Submit, RowOK
<1>2. ASSUME NEW w \in Workers, WorkerStep(w) PROVE RowOK'
  <2>1. pc[w] # "idle" => my[w].task \in Tasks /\ my[w].got \in Statuses
    BY <1>0, CopyType
  <2>2. "FAILURE" \in Statuses
    BY DEF Statuses, Ended
  <2>3. CASE Sweep(w)
    BY <2>3, <2>1, <2>2, <1>0, StatusType DEF Sweep, RowOK, table
  <2>4. CASE BulkFail(w)
    BY <2>4, <2>1, <2>2, <1>0, StatusType DEF BulkFail, RowOK, table
  <2>5. CASE UpdateVideo(w)
    BY <2>5, <2>1, <2>2, <1>0, StatusType DEF UpdateVideo, RowOK, table
  <2>6. CASE SaveSuno(w)
    BY <2>6, <2>1, <2>2, <1>0, StatusType DEF SaveSuno, RowOK, table
  <2>7. CASE RealtimeUpdate(w)
    BY <2>7, <2>1, <2>2, <1>0, StatusType DEF RealtimeUpdate, RowOK, table
  <2>8. CASE UNCHANGED row
    BY <2>8, <1>0 DEF RowOK
  <2> QED
    BY <2>3, <2>4, <2>5, <2>6, <2>7, <2>8, <1>2
    DEF WorkerStep, Abandon, FetchVideo, FetchSuno, RefundFunding, RefundToken,
        RecalculateFunding, RecalculateToken, AdjustTaskFunding, AdjustTaskToken,
        RealtimeFetch, table
<1>3. CASE UNCHANGED row
  BY <1>3, <1>0 DEF RowOK
<1> QED
  BY <1>1, <1>2, <1>3
  DEF Next, UpstreamMoves, Crash, SweepRead, PollRead, RealtimeRead, ReadRow, vars, table

LEMMA NextPaid == TypeInv /\ [Next]_vars => PaidOK'
<1> SUFFICES ASSUME TypeInv, [Next]_vars PROVE PaidOK'
  OBVIOUS
<1>0. RowOK /\ PaidOK /\ WorkOK /\ RestOK
  BY TypeGroups
<1>1. ASSUME NEW t \in Tasks, Submit(t) PROVE PaidOK'
  <2>1. ASSUME NEW q \in Quotas, UNCHANGED moves,
               paid' = [paid EXCEPT ![t] = [funding |-> q, token |-> q]]
        PROVE PaidOK'
    BY <2>1, <1>0, NumAssumption DEF PaidOK
  <2> QED
    BY <2>1, <1>1 DEF Submit
<1>2. ASSUME NEW w \in Workers, WorkerStep(w) PROVE PaidOK'
  <2>1. ASSUME NEW d \in Int, NEW l, NEW e, AdjustTaskFunding(w, d, l, e) PROVE PaidOK'
    BY <2>1, <1>0 DEF AdjustTaskFunding, PaidOK
  <2>2. ASSUME NEW d \in Int, NEW l, AdjustTaskToken(w, d, l) PROVE PaidOK'
    BY <2>2, <1>0 DEF AdjustTaskToken, PaidOK
  <2>3. ASSUME pc[w] # "idle" PROVE Quota(w) \in Int /\ -Quota(w) \in Int /\ QuotaDelta(w) \in Int
    BY <2>3, <1>0, CopyType, NumAssumption DEF Quota, QuotaDelta, RowOK, Rows
  <2>4. CASE UNCHANGED <<paid, moves>>
    BY <2>4, <1>0 DEF PaidOK
  <2> QED
    BY <2>1, <2>2, <2>3, <2>4, <1>2
    DEF WorkerStep, Sweep, Abandon, BulkFail, FetchVideo, UpdateVideo, FetchSuno,
        SaveSuno, RefundFunding, RefundToken, RecalculateFunding, RecalculateToken,
        RealtimeFetch, RealtimeUpdate, bill
<1>3. CASE UNCHANGED <<paid, moves>>
  BY <1>3, <1>0 DEF PaidOK
<1> QED
  BY <1>1, <1>2, <1>3
  DEF Next, UpstreamMoves, Crash, SweepRead, PollRead, RealtimeRead, ReadRow, vars, bill

LEMMA NextWork == TypeInv /\ [Next]_vars => WorkOK'
<1> SUFFICES ASSUME TypeInv, [Next]_vars PROVE WorkOK'
  OBVIOUS
<1>0. RowOK /\ PaidOK /\ WorkOK /\ RestOK
  BY TypeGroups
<1>L. {"idle", "sweep", "poll", "update", "save", "rtFetch", "rtUpdate", "refFunding",
       "refToken", "adjFunding", "adjToken"} \subseteq Labels
  BY DEF Labels, Billing
<1>1. ASSUME NEW w \in Workers, WorkerStep(w) PROVE WorkOK'
  <2>1. ASSUME NEW g \in Statuses, NEW p \in BOOLEAN, NEW l \in Labels, pc[w] # "idle",
               my' = [my EXCEPT ![w].got = g, ![w].full = p], Goto(w, l)
        PROVE  WorkOK'
    BY <2>1, <1>0 DEF WorkOK, AtWork, Goto, Copies
  <2>2. pc[w] # "idle" => upstream[my[w].task] \in Statuses /\ my[w].from \in Statuses
    BY <1>0, CopyType DEF RestOK, WorkOK, Copies, Statuses, UpStatuses, Waiting
  <2>3. "FAILURE" \in Statuses
    BY DEF Statuses, Ended
  <2>4. CASE FetchVideo(w)
    BY <2>4, <2>1, <2>2, <2>3, <1>L DEF FetchVideo, Reported
  <2>5. CASE FetchSuno(w)
    <3>1. PICK g \in {upstream[my[w].task], my[w].from}, p \in FullEarly(my[w].task) :
            /\ my' = [my EXCEPT ![w].got = g, ![w].full = p \/ g \in Ended]
            /\ Goto(w, IF RefundsSuno(my[w].task, g, p) THEN "refFunding" ELSE "save")
      BY <2>5 DEF FetchSuno
    <3>2. (p \/ g \in Ended) \in BOOLEAN /\ g \in Statuses /\ pc[w] # "idle"
      BY <2>5, <2>2 DEF FetchSuno
    <3>3. ASSUME NEW l \in Labels, Goto(w, l) PROVE WorkOK'
      BY <3>1, <3>2, <3>3, <2>1
    <3> QED
      BY <3>1, <3>3, <1>L
  <2>6. CASE RealtimeFetch(w)
    <3>1. CASE Return(w)
      BY <3>1, <1>0, ReturnType
    <3>2. CASE /\ my' = [my EXCEPT ![w].got = upstream[my[w].task],
                                   ![w].full = upstream[my[w].task] \in Ended]
               /\ Goto(w, "rtUpdate")
      <4>1. (upstream[my[w].task] \in Ended) \in BOOLEAN
        OBVIOUS
      <4>2. pc[w] # "idle"
        BY <2>6 DEF RealtimeFetch
      <4> QED
        BY <4>1, <4>2, <3>2, <2>1, <2>2, <1>L
    <3> QED
      BY <3>1, <3>2, <2>6 DEF RealtimeFetch
  <2>7. CASE Sweep(w)
    BY <2>7, <1>0, <1>L, StepType, ReturnType DEF Sweep
  <2>8. CASE UpdateVideo(w)
    BY <2>8, <1>0, <1>L, StepType, ReturnType DEF UpdateVideo, AfterEnd
  <2>9. CASE Abandon(w) \/ BulkFail(w) \/ SaveSuno(w) \/ RealtimeUpdate(w)
    BY <2>9, <1>0, ReturnType DEF Abandon, BulkFail, SaveSuno, RealtimeUpdate
  <2>10. CASE RefundFunding(w) \/ RefundToken(w)
    BY <2>10, <1>0, <1>L, StepType
    DEF RefundFunding, RefundToken, AdjustTaskFunding, AdjustTaskToken, AfterRefund
  <2>11. CASE RecalculateFunding(w) \/ RecalculateToken(w)
    BY <2>11, <1>0, <1>L, StepType
    DEF RecalculateFunding, RecalculateToken, AdjustTaskFunding, AdjustTaskToken
  <2> QED
    BY <2>4, <2>5, <2>6, <2>7, <2>8, <2>9, <2>10, <2>11, <1>1 DEF WorkerStep
<1>2. ASSUME NEW w \in Workers, NEW t \in Tasks,
             SweepRead(w, t) \/ PollRead(w, t) \/ RealtimeRead(w, t)
      PROVE  WorkOK'
  BY <1>2, <1>0, <1>L, ReadType DEF SweepRead, PollRead, RealtimeRead
<1>3. ASSUME NEW w \in Workers, Crash(w) PROVE WorkOK'
  BY <1>3, <1>0, ReturnType DEF Crash
<1>4. CASE UNCHANGED <<pc, my>>
  BY <1>4, <1>0 DEF WorkOK, AtWork
<1> QED
  BY <1>1, <1>2, <1>3, <1>4 DEF Next, Submit, UpstreamMoves, vars

LEMMA NextRest == TypeInv /\ [Next]_vars => RestOK'
<1> SUFFICES ASSUME TypeInv, [Next]_vars PROVE RestOK'
  OBVIOUS
<1>0. RowOK /\ PaidOK /\ WorkOK /\ RestOK
  BY TypeGroups
<1> DEFINE Kept == Fault \/ NoFault
           Marked == UNCHANGED broken \/ \E t \in Tasks : Break(t)
           Shown == UNCHANGED full \/ \E t \in Tasks, p \in BOOLEAN : SetProgress(t, p)
<1>1. ASSUME UNCHANGED upstream, Kept, Marked, Shown PROVE RestOK'
  <2>1. (full \subseteq Tasks)'
    BY <1>1, <1>0 DEF RestOK, SetProgress
  <2> QED
    BY <2>1, <1>1, <1>0, NumAssumption DEF RestOK, Fault, NoFault, bounds, Break
<1>2. ASSUME NEW w \in Workers, WorkerStep(w) PROVE RestOK'
  <2>1. pc[w] # "idle" => my[w].task \in Tasks
    BY <1>0, CopyType
  <2>2. UNCHANGED upstream /\ Kept /\ Marked
    BY <2>1, <1>2
    DEF WorkerStep, Sweep, Abandon, BulkFail, FetchVideo, UpdateVideo, FetchSuno,
        SaveSuno, RefundFunding, RefundToken, RecalculateFunding, RecalculateToken,
        AdjustTaskFunding, AdjustTaskToken, RealtimeFetch, RealtimeUpdate, bill, NoFault
  <2>3. Shown
    <3>1. pc[w] # "idle" => my[w].full \in BOOLEAN
      BY <1>0 DEF WorkOK, Copies
    <3>2. CASE Sweep(w) \/ BulkFail(w) \/ UpdateVideo(w) \/ SaveSuno(w) \/ RealtimeUpdate(w)
      BY <3>1, <3>2, <2>1
      DEF Sweep, BulkFail, UpdateVideo, SaveSuno, RealtimeUpdate, table
    <3> QED
      BY <3>2, <1>2
      DEF WorkerStep, Abandon, FetchVideo, FetchSuno, RefundFunding, RefundToken,
          RecalculateFunding, RecalculateToken, AdjustTaskFunding, AdjustTaskToken,
          RealtimeFetch, table
  <2> QED
    BY <2>2, <2>3, <1>1
<1>3. ASSUME NEW t \in Tasks, Submit(t) PROVE RestOK'
  BY <1>3, <1>1 DEF Submit
<1>4. ASSUME NEW t \in Tasks, UpstreamMoves(t) PROVE RestOK'
  BY <1>4, <1>0 DEF UpstreamMoves, RestOK, UpStatuses, Ended, bill, bounds, table
<1>5. ASSUME NEW w \in Workers, Crash(w) PROVE RestOK'
  BY <1>5, <1>0, CopyType, NumAssumption DEF Crash, RestOK, Break, table
<1>6. ASSUME NEW w \in Workers, NEW t \in Tasks,
             SweepRead(w, t) \/ PollRead(w, t) \/ RealtimeRead(w, t)
      PROVE  RestOK'
  BY <1>6, <1>0, NumAssumption
  DEF SweepRead, PollRead, RealtimeRead, ReadRow, NoFault, RestOK, bill, bounds, table
<1>7. CASE UNCHANGED vars
  BY <1>7, <1>0 DEF RestOK, vars
<1> QED
  BY <1>2, <1>3, <1>4, <1>5, <1>6, <1>7 DEF Next

LEMMA NextTypeInv == TypeInv /\ [Next]_vars => TypeInv'
<1> SUFFICES ASSUME TypeInv, [Next]_vars PROVE TypeInv'
  OBVIOUS
<1>1. RowOK' /\ PaidOK' /\ WorkOK' /\ RestOK'
  BY NextRow, NextPaid, NextWork, NextRest
<1> QED
  BY <1>1
  DEF TypeInv, TypeOK, RowOK, PaidOK, WorkOK, RestOK, Statuses, Copies, Rows, Labels

\* The state of the polling, the rows, the charges and the workers' copies keep
\* their types in every behaviour.
THEOREM AsyncTypeCorrect == Spec => []TypeOK
<1>1. TypeInv /\ UNCHANGED vars => TypeInv'
  BY NextTypeInv
<1> QED
  BY InitTypeInv, NextTypeInv, PTL DEF Spec, TypeInv

-----------------------------------------------------------------------------
(* Without Suno tasks and fetches by users every end of a task is decided  *)
(* by a compare-and-set from an unfinished status, and its winner alone    *)
(* bills the task.                                                         *)

Guarded == Suno = {} /\ Realtime = {}

\* What a worker before its compare-and-set has read is unfinished.
CopyInv ==
    \A w \in Workers :
        /\ pc[w] \notin {"save", "rtFetch", "rtUpdate"}
        /\ pc[w] \in {"sweep", "poll", "update"} => my[w].from \in Waiting
        /\ pc[w] = "update" => my[w].got \in UpStatuses

Bills(w, t) == pc[w] \in Billing /\ my[w].task = t

\* A task is unbilled until it ends; one worker bills it, and has not adjusted
\* the funding source before it does.
BillInv(t) ==
    /\ row[t].status \notin Ended => moves[t] = 0
    /\ moves[t] <= 1
    /\ \A w \in Workers : Bills(w, t) =>
        /\ row[t].status \in Ended
        /\ pc[w] \in {"refFunding", "adjFunding"} => moves[t] = 0
        /\ \A v \in Workers : Bills(v, t) => v = w

LEMMA CopyInvNext ==
  ASSUME Guarded, TypeInv, CopyInv, [Next]_vars
  PROVE  CopyInv'
<1>0. RowOK /\ PaidOK /\ WorkOK /\ RestOK
  BY TypeGroups
<1>1. ASSUME NEW w \in Workers, NEW l, Step(w, l), l \in Billing \cup {"idle"} PROVE CopyInv'
  BY <1>1, <1>0 DEF CopyInv, Step, Return, Goto, WorkOK, Billing
<1>2. ASSUME NEW w \in Workers, Return(w) PROVE CopyInv'
  BY <1>2, <1>0 DEF CopyInv, Return, Goto, WorkOK
<1>3. ASSUME NEW w \in Workers, WorkerStep(w) PROVE CopyInv'
  <2>1. CASE FetchVideo(w)
    <3>1. upstream[my[w].task] \in UpStatuses /\ "FAILURE" \in UpStatuses
      BY <2>1, <1>0, CopyType DEF FetchVideo, RestOK, UpStatuses, Ended
    <3> QED
      BY <2>1, <3>1, <1>0 DEF FetchVideo, CopyInv, Goto, Reported, WorkOK, Copies
  <2>2. CASE Sweep(w)
    BY <2>2, <1>1, <1>2 DEF Sweep, Billing
  <2>3. CASE UpdateVideo(w)
    BY <2>3, <1>1, <1>2 DEF UpdateVideo, AfterEnd, Billing
  <2>4. CASE Abandon(w) \/ BulkFail(w)
    BY <2>4, <1>2 DEF Abandon, BulkFail
  <2>5. CASE RefundFunding(w) \/ RefundToken(w) \/ RecalculateFunding(w) \/ RecalculateToken(w)
    BY <2>5, <1>1
    DEF RefundFunding, RefundToken, RecalculateFunding, RecalculateToken,
        AdjustTaskFunding, AdjustTaskToken, AfterRefund, Guarded, Billing
  <2>6. ~ (FetchSuno(w) \/ SaveSuno(w) \/ RealtimeFetch(w) \/ RealtimeUpdate(w))
    BY DEF FetchSuno, SaveSuno, RealtimeFetch, RealtimeUpdate, CopyInv, Guarded
  <2> QED
    BY <2>1, <2>2, <2>3, <2>4, <2>5, <2>6, <1>3 DEF WorkerStep
<1>4. ASSUME NEW w \in Workers, NEW t \in Tasks, SweepRead(w, t) \/ PollRead(w, t)
      PROVE  CopyInv'
  BY <1>4, <1>0
  DEF SweepRead, PollRead, ReadRow, TimedOut, Unfinished, CopyInv, Goto, WorkOK
<1>5. ASSUME NEW w \in Workers, NEW t \in Tasks, RealtimeRead(w, t) PROVE FALSE
  BY <1>5 DEF RealtimeRead, Guarded
<1>6. ASSUME NEW w \in Workers, Crash(w) PROVE CopyInv'
  BY <1>6, <1>2 DEF Crash
<1>7. CASE UNCHANGED <<pc, my>>
  BY <1>7 DEF CopyInv
<1> QED
  BY <1>3, <1>4, <1>5, <1>6, <1>7 DEF Next, Submit, UpstreamMoves, vars

\* What a step of a worker leaves alone: the other workers, and its own task.
Local(w) ==
    /\ \A v \in Workers : v # w => pc'[v] = pc[v] /\ my'[v] = my[v]
    /\ pc'[w] # "idle" => my'[w].task = my[w].task

LEMMA LocalReturn ==
  ASSUME WorkOK, NEW w \in Workers, Return(w)
  PROVE  Local(w) /\ pc'[w] = "idle"
  BY DEF WorkOK, Return, Goto, Local

LEMMA LocalStep ==
  ASSUME WorkOK, NEW w \in Workers, NEW l, Step(w, l)
  PROVE  Local(w) /\ pc'[w] = l
<1>1. CASE l = "idle"
  BY <1>1, LocalReturn DEF Step
<1>2. CASE l # "idle"
  BY <1>2 DEF WorkOK, Step, Goto, Local
<1> QED
  BY <1>1, <1>2

LEMMA StatusSet ==
  ASSUME RowOK, NEW u \in Tasks, NEW s, SetStatus(u, s), NEW t \in Tasks
  PROVE  /\ t # u => row'[t] = row[t]
         /\ t = u => row'[t] = [row[t] EXCEPT !.status = s] /\ row'[t].status = s
  BY DEF SetStatus, RowOK, Rows

\* Nobody starts billing t.
LEMMA BillQuiet ==
  ASSUME NEW t \in Tasks, BillInv(t),
         \A v \in Workers : Bills(v, t)' => Bills(v, t) /\ pc'[v] = pc[v],
         row[t].status \in Ended => row'[t].status \in Ended,
         moves'[t] = moves[t]
  PROVE  BillInv(t)'
  BY DEF BillInv

\* The winner of the compare-and-set on t may start to bill it.
LEMMA BillWin ==
  ASSUME NEW t \in Tasks, NEW w \in Workers, BillInv(t), Local(w),
         row[t].status \notin Ended, row'[t].status \in Ended,
         moves'[t] = moves[t]
  PROVE  BillInv(t)'
<1>1. \A v \in Workers : ~ Bills(v, t)
  BY DEF BillInv
<1>2. \A v \in Workers : Bills(v, t)' => v = w
  BY <1>1 DEF Local, Bills
<1>3. moves'[t] = 0
  BY DEF BillInv
<1> QED
  BY <1>2, <1>3 DEF BillInv

\* The one worker that bills t adjusts the funding source.
LEMMA BillMove ==
  ASSUME NEW t \in Tasks, NEW w \in Workers, BillInv(t), Local(w), PaidOK,
         Bills(w, t), pc[w] \in {"refFunding", "adjFunding"},
         pc'[w] \notin {"refFunding", "adjFunding"},
         row'[t] = row[t], moves'[t] = moves[t] + 1
  PROVE  BillInv(t)'
<1>1. /\ row[t].status \in Ended /\ moves[t] = 0
      /\ \A v \in Workers : Bills(v, t) => v = w
  BY DEF BillInv
<1>2. \A v \in Workers : Bills(v, t)' => v = w
  BY <1>1 DEF Local, Bills
<1> QED
  BY <1>1, <1>2 DEF BillInv

LEMMA WorkerBill ==
  ASSUME Guarded, TypeInv, CopyInv, NEW w \in Workers, WorkerStep(w),
         NEW t \in Tasks, BillInv(t)
  PROVE  BillInv(t)'
<1>0. RowOK /\ PaidOK /\ WorkOK /\ RestOK
  BY TypeGroups
<1>1. ASSUME Local(w), pc'[w] \notin Billing \/ my[w].task # t,
             row[t].status \in Ended => row'[t].status \in Ended, moves'[t] = moves[t]
      PROVE  BillInv(t)'
  <2>1. \A v \in Workers : Bills(v, t)' => Bills(v, t) /\ pc'[v] = pc[v]
    BY <1>1 DEF Local, Bills, Billing
  <2> QED
    BY <1>1, <2>1, BillQuiet
<1>2. ASSUME Return(w), UNCHANGED row, UNCHANGED moves PROVE BillInv(t)'
  BY <1>0, <1>1, <1>2, LocalReturn DEF Billing
<1>3. ASSUME pc[w] \in {"sweep", "update"}, Wins(w), NEW s, NEW l, SetStatus(my[w].task, s), 
             Step(w, l), s \in Ended \/ l = "idle", UNCHANGED moves
      PROVE  BillInv(t)'
  <2>1. my[w].from \in Waiting /\ my[w].task \in Tasks
    BY <1>0, <1>3, CopyType DEF CopyInv
  <2>2. row[my[w].task].status \notin Ended
    BY <2>1, <1>3 DEF Wins, Waiting, Ended
  <2>3. Local(w) /\ pc'[w] = l
    BY <1>0, <1>3, LocalStep
  <2>4. CASE t # my[w].task
    BY <2>1, <2>3, <2>4, <1>0, <1>1, <1>3, StatusSet
  <2>5. CASE t = my[w].task /\ s \in Ended
    <3>0. SetStatus(t, s)
      BY <2>5, <1>3
    <3>1. row'[t].status \in Ended
      BY <3>0, <2>5, <1>0, StatusSet
    <3>2. moves'[t] = moves[t]
      BY <1>3
    <3> QED
      BY <3>1, <3>2, <2>2, <2>3, <2>5, BillWin
  <2>6. CASE t = my[w].task /\ l = "idle"
    BY <2>2, <2>3, <2>6, <1>1, <1>3 DEF Billing
  <2> QED
    BY <2>4, <2>5, <2>6, <1>3
<1>4. CASE Sweep(w)
  <2>1. "FAILURE" \in Ended
    BY DEF Ended
  <2> QED
    BY <1>4, <2>1, <1>2, <1>3 DEF Sweep, bill, table
<1>5. CASE UpdateVideo(w)
  BY <1>5, <1>2, <1>3 DEF UpdateVideo, bill, table
<1>6. CASE Abandon(w)
  BY <1>6, <1>2 DEF Abandon, bill, table
<1>7. CASE BulkFail(w)
  <2>1. my[w].task \in Tasks /\ Local(w) /\ pc'[w] = "idle" /\ UNCHANGED moves
    BY <1>7, <1>0, CopyType, LocalReturn DEF BulkFail, bill
  <2>2. row[t].status \in Ended => row'[t].status \in Ended
    BY <1>7, <2>1, <1>0, StatusSet, ZenonT(40) DEF BulkFail, Ended, table
  <2> QED
    BY <2>1, <2>2, <1>1 DEF Billing
<1>8. CASE FetchVideo(w)
  <2>1. Local(w) /\ pc'[w] = "update" /\ UNCHANGED row /\ UNCHANGED moves
    BY <1>8, <1>0 DEF FetchVideo, Goto, Local, bill, WorkOK, Copies, table
  <2> QED
    BY <2>1, <1>1 DEF Billing
<1>9. ASSUME NEW d, NEW l, AdjustTaskFunding(w, d, l, "idle"),
             pc[w] \in {"refFunding", "adjFunding"}, l \notin {"refFunding", "adjFunding"}
      PROVE  BillInv(t)'
  <2>1. my[w].task \in Tasks /\ UNCHANGED row
    BY <1>9, <1>0, CopyType DEF AdjustTaskFunding, table
  <2>2. CASE moves' = [moves EXCEPT ![my[w].task] = @ + 1] /\ Step(w, l)
    <3>1. Local(w) /\ pc'[w] = l
      BY <2>2, <1>0, LocalStep
    <3>2. CASE t = my[w].task
      <4>1. moves'[t] = moves[t] + 1
        BY <2>1, <2>2, <3>2, <1>0 DEF PaidOK
      <4>2. Bills(w, t)
        BY <1>9, <3>2 DEF Bills, Billing
      <4> QED
        BY <4>1, <4>2, <3>1, <2>1, <1>0, <1>9, BillMove
    <3>3. CASE t # my[w].task
      <4>1. moves'[t] = moves[t]
        BY <2>1, <2>2, <3>3, <1>0 DEF PaidOK
      <4> QED
        BY <4>1, <3>1, <3>3, <2>1, <1>1
    <3> QED
      BY <3>2, <3>3
  <2>3. CASE UNCHANGED moves /\ Step(w, "idle")
    BY <2>1, <2>3, <1>2 DEF Step
  <2> QED
    BY <1>9, <2>2, <2>3 DEF AdjustTaskFunding
<1>10. ASSUME NEW d, AdjustTaskToken(w, d, "idle") PROVE BillInv(t)'
  BY <1>10, <1>2 DEF AdjustTaskToken, Step, table
<1>11. AfterRefund(w) = "idle"
  BY DEF AfterRefund, Guarded
<1>12. CASE RefundFunding(w)
  BY <1>12, <1>11, <1>9 DEF RefundFunding
<1>13. CASE RecalculateFunding(w)
  BY <1>13, <1>9 DEF RecalculateFunding
<1>14. CASE RefundToken(w)
  BY <1>14, <1>11, <1>10 DEF RefundToken
<1>15. CASE RecalculateToken(w)
  BY <1>15, <1>10 DEF RecalculateToken
<1>16. ~ (FetchSuno(w) \/ SaveSuno(w) \/ RealtimeFetch(w) \/ RealtimeUpdate(w))
  BY DEF FetchSuno, SaveSuno, RealtimeFetch, RealtimeUpdate, CopyInv, Guarded
<1> QED
  BY <1>4, <1>5, <1>6, <1>7, <1>8, <1>12, <1>13, <1>14, <1>15, <1>16 DEF WorkerStep

\* A read starts no billing, nor do submission, a crash and the upstream.
LEMMA OthersBill ==
  ASSUME Guarded, TypeInv, CopyInv, [Next]_vars, NEW t \in Tasks, BillInv(t),
         \A w \in Workers : ~ WorkerStep(w)
  PROVE  BillInv(t)'
<1>0. RowOK /\ PaidOK /\ WorkOK /\ RestOK
  BY TypeGroups
<1>1. CASE UNCHANGED <<pc, my, moves>> /\ (row[t].status \in Ended => row'[t].status \in Ended)
  BY <1>1, BillQuiet DEF Bills
<1>2. ASSUME NEW u \in Tasks, Submit(u) PROVE BillInv(t)'
  <2>1. row[u].status = "NONE" /\ UNCHANGED <<pc, my, moves>>
    BY <1>2 DEF Submit
  <2>2. t # u => row'[t] = row[t]
    BY <1>2, <1>0 DEF Submit, RowOK
  <2> QED
    BY <2>1, <2>2, <1>1 DEF Ended
<1>3. ASSUME NEW w \in Workers, Return(w), UNCHANGED <<row, moves>> PROVE BillInv(t)'
  <2>1. Local(w) /\ pc'[w] = "idle"
    BY <1>3, <1>0, LocalReturn
  <2>2. \A v \in Workers : Bills(v, t)' => Bills(v, t) /\ pc'[v] = pc[v]
    BY <2>1 DEF Local, Bills, Billing
  <2> QED
    BY <2>2, <1>3, BillQuiet
<1>4. ASSUME NEW w \in Workers, NEW u \in Tasks, SweepRead(w, u) \/ PollRead(w, u)
      PROVE  BillInv(t)'
  <2>1. /\ pc' = [pc EXCEPT ![w] = "sweep"] \/ pc' = [pc EXCEPT ![w] = "poll"]
        /\ \A v \in Workers : v # w => my'[v] = my[v]
        /\ UNCHANGED <<row, moves>>
    BY <1>4, <1>0 DEF SweepRead, PollRead, ReadRow, Goto, bill, WorkOK, table
  <2>2. \A v \in Workers : Bills(v, t)' => Bills(v, t) /\ pc'[v] = pc[v]
    BY <2>1, <1>0 DEF Bills, Billing, WorkOK
  <2> QED
    BY <2>1, <2>2, BillQuiet
<1>5. ASSUME NEW w \in Workers, NEW u \in Tasks, RealtimeRead(w, u) PROVE FALSE
  BY <1>5 DEF RealtimeRead, Guarded
<1>6. ASSUME NEW w \in Workers, Crash(w) PROVE BillInv(t)'
  BY <1>6, <1>3 DEF Crash, table
<1>7. ASSUME NEW u \in Tasks, UpstreamMoves(u) PROVE BillInv(t)'
  BY <1>7, <1>1 DEF UpstreamMoves, bill, table
<1>8. CASE UNCHANGED vars
  BY <1>8, <1>1 DEF vars
<1> QED
  BY <1>2, <1>4, <1>5, <1>6, <1>7, <1>8 DEF Next

OnceInv == TypeInv /\ CopyInv /\ \A t \in Tasks : BillInv(t)

LEMMA InitOnce == Init => OnceInv
<1> SUFFICES ASSUME Init PROVE CopyInv /\ \A t \in Tasks : BillInv(t)
  BY InitTypeInv DEF OnceInv
<1> QED
  BY DEF Init, CopyInv, BillInv, Bills, Billing, Waiting, Ended

LEMMA NextOnce ==
  ASSUME Guarded, OnceInv, [Next]_vars
  PROVE  OnceInv'
<1>1. TypeInv' /\ CopyInv'
  BY NextTypeInv, CopyInvNext DEF OnceInv
<1>2. ASSUME NEW t \in Tasks PROVE BillInv(t)'
  BY WorkerBill, OthersBill DEF OnceInv
<1> QED
  BY <1>1, <1>2 DEF OnceInv

\* However many passes and sweeps overlap and however many statements fail or
\* workers die: the funding source of a video task is adjusted at most once
\* after its submission, because the status is compared and set before
\* RefundTaskQuota and RecalculateTaskQuota.
THEOREM AsyncOneBill ==
  ASSUME Suno = {}, Realtime = {}
  PROVE  Spec => []OneBill
<1>0. Guarded
  BY DEF Guarded
<1>1. OnceInv => OneBill
  BY DEF OnceInv, BillInv, OneBill
<1>2. OnceInv /\ [Next]_vars => OnceInv'
  BY <1>0, NextOnce
<1> QED
  BY <1>1, <1>2, InitOnce, PTL DEF Spec

-----------------------------------------------------------------------------
(* When no row is failed behind the back of the billing either, the end of *)
(* a task is final and the task costs exactly what is due.                 *)

Settled == Guarded /\ Orphans = {}

\* The steps that change a status at all.
LEMMA StatusSteps ==
  ASSUME Settled, OnceInv, [Next]_vars, NEW t \in Tasks, row'[t] # row[t]
  PROVE  \/ Submit(t)
         \/ \E w \in Workers :
              /\ my[w].task = t /\ Wins(w) /\ my[w].from \in Waiting
              /\ Sweep(w) \/ UpdateVideo(w)
<1>0. RowOK /\ PaidOK /\ WorkOK /\ RestOK /\ CopyInv
  BY TypeGroups DEF OnceInv
<1>1. ASSUME NEW u \in Tasks, Submit(u) PROVE u = t
  BY <1>1, <1>0 DEF Submit, RowOK
<1>2. ASSUME NEW w \in Workers, Sweep(w) \/ UpdateVideo(w)
      PROVE  my[w].task = t /\ Wins(w) /\ my[w].from \in Waiting
  <2>1. my[w].from \in Waiting /\ my[w].task \in Tasks
    BY <1>0, <1>2, CopyType DEF Sweep, UpdateVideo, CopyInv
  <2>2. Wins(w) /\ \E s : SetStatus(my[w].task, s)
    BY <1>2 DEF Sweep, UpdateVideo, table
  <2> QED
    BY <2>1, <2>2, <1>0, StatusSet
<1>3. ASSUME NEW w \in Workers, WorkerStep(w), ~ Sweep(w), ~ UpdateVideo(w) PROVE UNCHANGED row
  BY <1>3, <1>0
  DEF WorkerStep, Abandon, BulkFail, FetchVideo, FetchSuno, SaveSuno, RefundFunding,
      RefundToken, RecalculateFunding, RecalculateToken, AdjustTaskFunding,
      AdjustTaskToken, RealtimeFetch, RealtimeUpdate, CopyInv, Settled, table
<1> QED
  BY <1>1, <1>2, <1>3
  DEF Next, UpstreamMoves, Crash, SweepRead, PollRead, RealtimeRead, ReadRow, vars, table

LEMMA EndKept ==
  ASSUME Settled, OnceInv, [Next]_vars, NEW t \in Tasks, row[t].status \in Ended
  PROVE  row'[t].status = row[t].status
<1>1. ~ Submit(t)
  BY DEF Submit, Ended
<1>2. ASSUME NEW w \in Workers, my[w].task = t, Wins(w), my[w].from \in Waiting PROVE FALSE
  BY <1>2 DEF Wins, Waiting, Ended
<1> QED
  BY <1>1, <1>2, StatusSteps

\* A video task that succeeded or failed never gets another status, whatever
\* old copies of its row the workers still hold, as long as its channel exists.
THEOREM AsyncEndIsFinal ==
  ASSUME Suno = {}, Realtime = {}, Orphans = {}
  PROVE  Spec => EndIsFinal
<1>0. Settled /\ Guarded
  BY DEF Settled, Guarded
<1>1. OnceInv /\ [Next]_vars => OnceInv'
  BY <1>0, NextOnce
<1>2. OnceInv /\ [Next]_vars =>
        [\A t \in Tasks : row[t].status \in Ended => row'[t].status = row[t].status]_vars
  BY <1>0, EndKept
<1> QED
  BY <1>1, <1>2, InitOnce, PTL DEF Spec, EndIsFinal

-----------------------------------------------------------------------------
\* What a task has cost while it is billed, and when nobody bills it.
Cost(t, f, k) == paid[t].funding = f /\ paid[t].token = k

BeingBilled(t, w) ==
    \/ pc[w] = "refFunding" /\ row[t].status = "FAILURE" /\ Cost(t, row[t].quota, row[t].quota)
    \/ pc[w] = "refToken" /\ row[t].status = "FAILURE" /\ Cost(t, 0, row[t].quota)
    \/ /\ pc[w] = "adjFunding" /\ row[t].status = "SUCCESS" /\ Adjusts(t)
       /\ Cost(t, row[t].quota, row[t].quota)
    \/ /\ pc[w] = "adjToken" /\ row[t].status = "SUCCESS" /\ Adjusts(t)
       /\ Cost(t, Actual[t], row[t].quota)

ExactInv(t) ==
    t \notin Legacy /\ t \notin broken /\ row[t].status # "NONE" =>
        /\ (\A w \in Workers : ~ Bills(w, t)) => Cost(t, Due(t), Due(t))
        /\ \A w \in Workers : Bills(w, t) => BeingBilled(t, w)

\* Nothing about t changes.
LEMMA ExactQuiet ==
  ASSUME NEW t \in Tasks, ExactInv(t),
         \A v \in Workers : Bills(v, t)' => Bills(v, t) /\ pc'[v] = pc[v],
         \A v \in Workers : Bills(v, t) => Bills(v, t)' \/ t \in broken',
         row'[t] = row[t], paid'[t] = paid[t], t \in broken => t \in broken'
  PROVE  ExactInv(t)'
<1> SUFFICES ASSUME t \notin Legacy, t \notin broken', row'[t].status # "NONE"
             PROVE  /\ (\A w \in Workers : ~ Bills(w, t)') => Cost(t, Due(t), Due(t))'
                    /\ \A w \in Workers : Bills(w, t)' => BeingBilled(t, w)'
  BY DEF ExactInv
<1>1. Adjusts(t)' <=> Adjusts(t)
  BY DEF Adjusts
<1>2. Due(t)' = Due(t)
  BY DEF Due, Adjusts
<1>3. (\A w \in Workers : ~ Bills(w, t)') => Cost(t, Due(t), Due(t))'
  BY <1>2 DEF ExactInv, Cost
<1>4. ASSUME NEW w \in Workers, Bills(w, t)' PROVE BeingBilled(t, w)'
  BY <1>1, <1>4 DEF ExactInv, BeingBilled, Cost
<1> QED
  BY <1>3, <1>4

\* The winner of the compare-and-set: from now on it bills t, or t costs what
\* is due already.
LEMMA ExactWin ==
  ASSUME TypeInv, NEW t \in Tasks, NEW w \in Workers, BillInv(t), ExactInv(t), Local(w),
         my[w].task = t, row[t].status \in Waiting, NEW s \in Waiting \cup Ended,
         row'[t] = [row[t] EXCEPT !.status = s], paid'[t] = paid[t], broken' = broken,
         \/ pc'[w] = AfterEnd(t, s) /\ s \in Ended
         \/ pc'[w] = "idle" /\ s \in Waiting
         \/ pc'[w] = "idle" /\ t \in Legacy
  PROVE  ExactInv(t)'
<1> SUFFICES ASSUME t \notin Legacy, t \notin broken'
             PROVE  /\ (\A v \in Workers : ~ Bills(v, t)') => Cost(t, Due(t), Due(t))'
                    /\ \A v \in Workers : Bills(v, t)' => BeingBilled(t, v)'
  BY DEF ExactInv
<1>0. row[t] \in Rows
  BY TypeGroups DEF RowOK
<1>1. \A v \in Workers : ~ Bills(v, t)
  BY DEF BillInv, Waiting, Ended
<1>2. row'[t].status = s /\ row'[t].quota = row[t].quota /\ row'[t].perCall = row[t].perCall
  BY <1>0 DEF Rows
<1>3. Cost(t, row[t].quota, row[t].quota)'
  <2>1. Due(t) = row[t].quota
    BY DEF Due, Waiting
  <2>2. row[t].status # "NONE"
    BY DEF Waiting
  <2> QED
    BY <2>1, <2>2, <1>1, <1>2 DEF ExactInv, Cost
<1>4. Adjusts(t)' <=> Adjusts(t)
  BY <1>2 DEF Adjusts
<1>5. ASSUME NEW v \in Workers, Bills(v, t)' PROVE BeingBilled(t, v)'
  <2>1. v = w
    BY <1>1, <1>5 DEF Local, Bills
  <2>2. pc'[w] = AfterEnd(t, s) /\ pc'[w] # "idle"
    BY <2>1, <1>5 DEF Bills, Billing
  <2> QED
    BY <2>1, <2>2, <1>2, <1>3, <1>4 DEF AfterEnd, BeingBilled
<1>6. ASSUME \A v \in Workers : ~ Bills(v, t)' PROVE Cost(t, Due(t), Due(t))'
  <2>1. pc'[w] = "idle"
    BY <1>6 DEF Bills, Local, AfterEnd, Billing
  <2>2. Due(t)' = row[t].quota
    BY <2>1, <1>2, <1>4 DEF Due, AfterEnd, Waiting, Ended
  <2> QED
    BY <2>2, <1>2, <1>3 DEF Cost
<1> QED
  BY <1>5, <1>6

\* The worker that bills t goes on, with or without a failing statement.
LEMMA ExactBill ==
  ASSUME Guarded, TypeInv, NEW t \in Tasks, NEW w \in Workers, BillInv(t), ExactInv(t),
         my[w].task = t,
         \/ RefundFunding(w) \/ RefundToken(w)
         \/ RecalculateFunding(w) \/ RecalculateToken(w)
  PROVE  ExactInv(t)'
<1>0. RowOK /\ PaidOK /\ WorkOK /\ RestOK /\ AfterRefund(w) = "idle"
  BY TypeGroups DEF AfterRefund, Guarded
<1> SUFFICES ASSUME t \notin Legacy, t \notin broken', row'[t].status # "NONE"
             PROVE  /\ (\A v \in Workers : ~ Bills(v, t)') => Cost(t, Due(t), Due(t))'
                    /\ \A v \in Workers : Bills(v, t)' => BeingBilled(t, v)'
  BY DEF ExactInv
<1>1. UNCHANGED row /\ UNCHANGED broken
  BY DEF RefundFunding, RefundToken, RecalculateFunding, RecalculateToken,
         AdjustTaskFunding, AdjustTaskToken, Break, table
<1>2. Bills(w, t)
  BY DEF RefundFunding, RefundToken, RecalculateFunding, RecalculateToken, Bills, Billing
<1>3. BeingBilled(t, w)
  BY <1>1, <1>2 DEF ExactInv
<1>4. Adjusts(t)' <=> Adjusts(t)
  BY <1>1 DEF Adjusts
<1>5. ASSUME Local(w), NEW v \in Workers, Bills(v, t)' PROVE v = w
  BY <1>5, <1>2 DEF Local, BillInv, Bills
<1>6. paid[t] \in [funding : Int, token : Int] /\ row[t] \in Rows
  BY <1>0 DEF PaidOK, RowOK
<1>7. ASSUME pc'[w] = "idle", Local(w), Cost(t, Due(t), Due(t))' PROVE ExactInv(t)'
  BY <1>5, <1>7 DEF ExactInv, Bills, Billing
<1>8. ASSUME pc'[w] \in Billing, Local(w), BeingBilled(t, w)' PROVE ExactInv(t)'
  <2>1. Bills(w, t)'
    BY <1>8 DEF Bills, Local, Billing
  <2> QED
    BY <2>1, <1>5, <1>8 DEF ExactInv
<1>9. CASE RefundFunding(w)
  <2>1. /\ paid' = [paid EXCEPT ![t].funding = @ + (-row[t].quota)]
        /\ Local(w) /\ pc'[w] = "refToken"
    BY <1>9, <1>0, <1>1, LocalStep DEF RefundFunding, AdjustTaskFunding, Quota, Break
  <2>2. row[t].status = "FAILURE" /\ Cost(t, 0, row[t].quota)'
    BY <1>9, <2>1, <1>0, <1>1, <1>3, <1>6
    DEF RefundFunding, BeingBilled, Cost, PaidOK, Rows
  <2> QED
    BY <2>1, <2>2, <1>1, <1>8 DEF BeingBilled, Cost, Billing, ExactInv
<1>10. CASE RefundToken(w)
  <2>1. /\ paid' = [paid EXCEPT ![t].token = @ + (-row[t].quota)]
        /\ Local(w) /\ pc'[w] = "idle"
    BY <1>10, <1>0, <1>1, LocalStep DEF RefundToken, AdjustTaskToken, Quota, Break
  <2>2. row[t].status = "FAILURE" /\ Cost(t, 0, 0)'
    BY <1>10, <2>1, <1>0, <1>1, <1>3, <1>6
    DEF RefundToken, BeingBilled, Cost, PaidOK, Rows
  <2>3. Due(t)' = 0
    BY <2>2, <1>1 DEF Due
  <2> QED
    BY <2>1, <2>2, <2>3, <1>7 DEF Cost, ExactInv
<1>11. CASE RecalculateFunding(w)
  <2>1. /\ paid' = [paid EXCEPT ![t].funding = @ + (Actual[t] - row[t].quota)]
        /\ Local(w) /\ pc'[w] = "adjToken"
    BY <1>11, <1>0, <1>1, LocalStep
    DEF RecalculateFunding, AdjustTaskFunding, QuotaDelta, Quota, Break
  <2>2. row[t].status = "SUCCESS" /\ Adjusts(t) /\ Cost(t, Actual[t], row[t].quota)'
    BY <1>11, <2>1, <1>0, <1>1, <1>3, <1>6, NumAssumption
    DEF RecalculateFunding, BeingBilled, Cost, PaidOK, Rows
  <2> QED
    BY <2>1, <2>2, <1>1, <1>4, <1>8 DEF BeingBilled, Cost, Billing, ExactInv
<1>12. CASE RecalculateToken(w)
  <2>1. /\ paid' = [paid EXCEPT ![t].token = @ + (Actual[t] - row[t].quota)]
        /\ Local(w) /\ pc'[w] = "idle"
    BY <1>12, <1>0, <1>1, LocalStep
    DEF RecalculateToken, AdjustTaskToken, QuotaDelta, Quota, Break
  <2>2. row[t].status = "SUCCESS" /\ Adjusts(t) /\ Cost(t, Actual[t], Actual[t])'
    BY <1>12, <2>1, <1>0, <1>1, <1>3, <1>6, NumAssumption
    DEF RecalculateToken, BeingBilled, Cost, PaidOK, Rows
  <2>3. Due(t)' = Actual[t]
    BY <2>2, <1>1, <1>4 DEF Due
  <2> QED
    BY <2>1, <2>2, <2>3, <1>7 DEF Cost, ExactInv
<1> QED
  BY <1>9, <1>10, <1>11, <1>12 DEF ExactInv

LEMMA WorkerExact ==
  ASSUME Settled, OnceInv, NEW w \in Workers, WorkerStep(w), NEW t \in Tasks, ExactInv(t)
  PROVE  ExactInv(t)'
<1>0. RowOK /\ PaidOK /\ WorkOK /\ RestOK /\ CopyInv /\ BillInv(t) /\ TypeInv /\ Guarded
  BY TypeGroups DEF OnceInv, Settled
<1>1. ASSUME Local(w), row'[t] = row[t], paid'[t] = paid[t], t \in broken => t \in broken',
             (pc[w] \notin Billing /\ pc'[w] \notin Billing) \/ my[w].task # t
      PROVE  ExactInv(t)'
  <2>1. \A v \in Workers : Bills(v, t)' => Bills(v, t) /\ pc'[v] = pc[v]
    BY <1>1 DEF Local, Bills, Billing
  <2>2. \A v \in Workers : Bills(v, t) => Bills(v, t)' \/ t \in broken'
    BY <1>1 DEF Local, Bills, Billing
  <2> QED
    BY <1>1, <2>1, <2>2, ExactQuiet
<1>2. ASSUME Return(w), UNCHANGED <<row, paid, broken>>, pc[w] \notin Billing PROVE ExactInv(t)'
  BY <1>0, <1>1, <1>2, LocalReturn DEF Billing
<1>3. ASSUME pc[w] \in {"sweep", "update"}, Wins(w), NEW s \in Waiting \cup Ended, NEW l,
             SetStatus(my[w].task, s), Step(w, l), UNCHANGED <<paid, broken>>,
             \/ l = AfterEnd(my[w].task, s) /\ s \in Ended
             \/ l = "idle" /\ s \in Waiting
             \/ l = "idle" /\ my[w].task \in Legacy
      PROVE  ExactInv(t)'
  <2>1. my[w].from \in Waiting /\ my[w].task \in Tasks
    BY <1>0, <1>3, CopyType DEF CopyInv
  <2>2. Local(w) /\ pc'[w] = l
    BY <1>0, <1>3, LocalStep
  <2>3. CASE t # my[w].task
    BY <2>1, <2>2, <2>3, <1>0, <1>1, <1>3, StatusSet
  <2>4. CASE t = my[w].task
    <3>1. row[t].status \in Waiting /\ SetStatus(t, s)
      BY <2>1, <2>4, <1>3 DEF Wins
    <3>2. row'[t] = [row[t] EXCEPT !.status = s]
      BY <3>1, <1>0, StatusSet
    <3> QED
      BY <3>1, <3>2, <2>2, <2>4, <1>0, <1>3, ExactWin
  <2> QED
    BY <2>3, <2>4
<1>4. CASE Sweep(w)
  <2>1. CASE /\ Wins(w) /\ SetStatus(my[w].task, "FAILURE")
             /\ Step(w, IF my[w].task \notin Legacy /\ row[my[w].task].quota # 0
                        THEN "refFunding" ELSE "idle")
    <3>1. "FAILURE" \in Ended
      BY DEF Ended
    <3>2. \E l : /\ Step(w, l)
                 /\ \/ l = AfterEnd(my[w].task, "FAILURE")
                    \/ l = "idle" /\ my[w].task \in Legacy
      BY <2>1 DEF AfterEnd
    <3> QED
      BY <1>4, <2>1, <3>1, <3>2, <1>3 DEF Sweep, bill
  <2>2. CASE Return(w) /\ UNCHANGED row
    BY <1>4, <2>2, <1>2 DEF Sweep, bill, Billing
  <2> QED
    BY <1>4, <2>1, <2>2 DEF Sweep, table
<1>5. CASE UpdateVideo(w)
  <2>1. CASE /\ Wins(w) /\ SetStatus(my[w].task, my[w].got)
             /\ Step(w, IF my[w].got \in Ended THEN AfterEnd(my[w].task, my[w].got)
                        ELSE "idle")
    <3>1. my[w].got \in Waiting \cup Ended /\ (my[w].got \notin Ended => my[w].got \in Waiting)
      BY <1>5, <1>0 DEF UpdateVideo, CopyInv, UpStatuses, Waiting, Ended
    <3>2. \E l : /\ Step(w, l)
                 /\ \/ l = AfterEnd(my[w].task, my[w].got) /\ my[w].got \in Ended
                    \/ l = "idle" /\ my[w].got \in Waiting
      BY <2>1, <3>1
    <3> QED
      BY <1>5, <2>1, <3>1, <3>2, <1>3 DEF UpdateVideo, bill
  <2>2. CASE Return(w) /\ UNCHANGED row
    BY <1>5, <2>2, <1>2 DEF UpdateVideo, bill, Billing
  <2> QED
    BY <1>5, <2>1, <2>2 DEF UpdateVideo, table
<1>6. CASE Abandon(w)
  BY <1>6, <1>2 DEF Abandon, bill, Billing, table
<1>7. ~ BulkFail(w)
  BY DEF BulkFail, Settled
<1>8. CASE FetchVideo(w)
  <2>1. Local(w) /\ pc'[w] = "update" /\ UNCHANGED <<row, paid, broken>> /\ pc[w] = "poll"
    BY <1>8, <1>0 DEF FetchVideo, Goto, Local, bill, WorkOK, Copies, table
  <2> QED
    BY <2>1, <1>1 DEF Billing
<1>9. CASE RefundFunding(w) \/ RefundToken(w) \/ RecalculateFunding(w) \/ RecalculateToken(w)
  <2>1. CASE my[w].task = t
    BY <2>1, <1>0, <1>9, ExactBill
  <2>2. CASE my[w].task # t
    <3>1. /\ my[w].task \in Tasks /\ UNCHANGED row /\ broken \subseteq broken'
          /\ \E l : Step(w, l)
      BY <1>9, <1>0, CopyType
      DEF RefundFunding, RefundToken, RecalculateFunding, RecalculateToken,
          AdjustTaskFunding, AdjustTaskToken, Break, table
    <3>2. paid'[t] = paid[t]
      BY <1>9, <2>2, <3>1, <1>0
      DEF RefundFunding, RefundToken, RecalculateFunding, RecalculateToken,
          AdjustTaskFunding, AdjustTaskToken, PaidOK
    <3> QED
      BY <2>2, <3>1, <3>2, <1>0, <1>1, LocalStep
  <2> QED
    BY <2>1, <2>2
<1>10. ~ (FetchSuno(w) \/ SaveSuno(w) \/ RealtimeFetch(w) \/ RealtimeUpdate(w))
  BY <1>0 DEF FetchSuno, SaveSuno, RealtimeFetch, RealtimeUpdate, CopyInv, Guarded
<1> QED
  BY <1>4, <1>5, <1>6, <1>7, <1>8, <1>9, <1>10 DEF WorkerStep

LEMMA SubmitExact ==
  ASSUME TypeInv, NEW u \in Tasks, Submit(u), NEW t \in Tasks, BillInv(t), ExactInv(t)
  PROVE  ExactInv(t)'
<1>0. RowOK /\ PaidOK /\ UNCHANGED <<pc, my>> /\ broken \subseteq broken'
  BY TypeGroups DEF Submit, Break
<1>1. CASE t # u
  <2>1. row'[t] = row[t] /\ paid'[t] = paid[t]
    BY <1>0, <1>1 DEF Submit, RowOK, PaidOK
  <2> QED
    BY <2>1, <1>0, ExactQuiet DEF Bills
<1>2. CASE t = u
  <2>1. \A v \in Workers : ~ Bills(v, t) /\ ~ Bills(v, t)'
    BY <1>0, <1>2 DEF Submit, BillInv, Bills, Ended
  <2>2. CASE u \in broken'
    BY <1>2, <2>2 DEF ExactInv
  <2>3. CASE u \notin broken'
    <3>1. PICK q \in Quotas, b \in PerCall :
            /\ row'[t] = [status |-> "NOT_START", quota |-> q, perCall |-> b]
            /\ paid'[t] = [funding |-> q, token |-> q]
      BY <1>0, <1>2, <2>3 DEF Submit, Break, RowOK, PaidOK
    <3>2. Due(t)' = q
      BY <3>1 DEF Due
    <3> QED
      BY <2>1, <3>1, <3>2 DEF ExactInv, Cost
  <2> QED
    BY <2>2, <2>3
<1> QED
  BY <1>1, <1>2

LEMMA OthersExact ==
  ASSUME Settled, OnceInv, [Next]_vars, NEW t \in Tasks, ExactInv(t),
         \A w \in Workers : ~ WorkerStep(w)
  PROVE  ExactInv(t)'
<1>0. RowOK /\ PaidOK /\ WorkOK /\ RestOK /\ CopyInv /\ BillInv(t) /\ TypeInv /\ Guarded
  BY TypeGroups DEF OnceInv, Settled
<1>1. ASSUME NEW u \in Tasks, Submit(u) PROVE ExactInv(t)'
  BY <1>0, <1>1, SubmitExact
<1>2. ASSUME NEW w \in Workers, NEW u \in Tasks, SweepRead(w, u) \/ PollRead(w, u)
      PROVE  ExactInv(t)'
  <2>1. /\ pc[w] = "idle"
        /\ pc' = [pc EXCEPT ![w] = "sweep"] \/ pc' = [pc EXCEPT ![w] = "poll"]
        /\ \A v \in Workers : v # w => my'[v] = my[v]
        /\ UNCHANGED <<row, paid, broken>>
    BY <1>2, <1>0 DEF SweepRead, PollRead, ReadRow, Goto, bill, WorkOK, table
  <2>2. \A v \in Workers : Bills(v, t)' => Bills(v, t) /\ pc'[v] = pc[v]
    BY <2>1, <1>0 DEF Bills, Billing, WorkOK
  <2>3. \A v \in Workers : Bills(v, t) => Bills(v, t)'
    BY <2>1, <1>0 DEF Bills, Billing, WorkOK
  <2> QED
    BY <2>1, <2>2, <2>3, ExactQuiet
<1>3. ASSUME NEW w \in Workers, NEW u \in Tasks, RealtimeRead(w, u) PROVE FALSE
  BY <1>0, <1>3 DEF RealtimeRead, Guarded
<1>4. ASSUME NEW w \in Workers, Crash(w) PROVE ExactInv(t)'
  <2>1. /\ Local(w) /\ pc'[w] = "idle" /\ UNCHANGED <<row, paid>> /\ broken \subseteq broken'
        /\ pc[w] \in Billing => my[w].task \in broken'
    BY <1>0, <1>4, LocalReturn DEF Crash, Break, table
  <2>2. \A v \in Workers : Bills(v, t)' => Bills(v, t) /\ pc'[v] = pc[v]
    BY <2>1 DEF Local, Bills, Billing
  <2>3. \A v \in Workers : Bills(v, t) => Bills(v, t)' \/ t \in broken'
    BY <2>1 DEF Local, Bills
  <2> QED
    BY <2>1, <2>2, <2>3, ExactQuiet
<1>5. CASE UNCHANGED <<row, pc, my, paid, broken>>
  BY <1>5, ExactQuiet DEF Bills
<1> QED
  BY <1>1, <1>2, <1>3, <1>4, <1>5 DEF Next, UpstreamMoves, vars, bill, table

\* A video task costs its quota while it is unfinished, nothing when it has
\* failed and the actual quota when it has succeeded, on the funding source and
\* on the token, as soon as nobody is billing it and unless one of the billing
\* statements itself was lost: RefundTaskQuota and RecalculateTaskQuota are
\* called by exactly the one worker whose compare-and-set ended the task.
THEOREM AsyncBilledExactly ==
  ASSUME Suno = {}, Realtime = {}, Orphans = {}
  PROVE  Spec => []BilledExactly
<1> DEFINE IInv == OnceInv /\ \A t \in Tasks : ExactInv(t)
<1>0. Settled /\ Guarded
  BY DEF Settled, Guarded
<1>1. Init => IInv
  <2>1. Init => \A t \in Tasks : ExactInv(t)
    BY DEF Init, ExactInv, NoRow
  <2> QED
    BY <2>1, InitOnce
<1>2. IInv /\ [Next]_vars => IInv'
  <2> SUFFICES ASSUME IInv, [Next]_vars PROVE IInv'
    OBVIOUS
  <2>1. OnceInv'
    BY <1>0, NextOnce
  <2>2. ASSUME NEW t \in Tasks PROVE ExactInv(t)'
    BY <1>0, WorkerExact, OthersExact
  <2> QED
    BY <2>1, <2>2
<1>3. IInv => BilledExactly
  <2> SUFFICES ASSUME IInv, NEW t \in Tasks \ Legacy, row[t].status # "NONE",
                      ~ Handled(t), t \notin broken
               PROVE  paid[t].funding = Due(t) /\ paid[t].token = Due(t)
    BY DEF BilledExactly
  <2>1. \A w \in Workers : ~ Bills(w, t)
    BY DEF Handled, Bills
  <2> QED
    BY <2>1 DEF ExactInv, Cost
<1> QED
  BY <1>1, <1>2, <1>3, PTL DEF Spec
==============================================================================
