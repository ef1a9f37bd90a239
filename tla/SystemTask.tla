----------------------------- MODULE SystemTask -----------------------------
(***************************************************************************)
(* The lease-based runner of background system tasks, for one task type    *)
(* (types share nothing: the lock row and the active key are per type).    *)
(* Several nodes run the same loop against one database: expire stale      *)
(* locks, schedule, claim a pending task, run its handler under a lease    *)
(* that a heartbeat renews.  Every database statement is one step.         *)
(*                                                                         *)
(* Time is relative: `left` is locked_until minus the present, and `age`   *)
(* is how long ago a runner read the clock it still works with.  The code  *)
(* sets no limit to it; MaxPause bounds it for TLC, and `left` saturates    *)
(* below -MaxPause without changing any comparison.                        *)
(***************************************************************************)
EXTENDS Integers, FiniteSets

CONSTANTS
    Runners,     \* runner processes; a restarted process is a new runner
    MaxTasks,    \* bound on the tasks created
    TTL,         \* systemTaskLockTTL
    MaxPause,    \* bound on the age of the clock a pass works with
    MaxCrashes,  \* bound on crashes
    MaxFaults,   \* bound on failing statements
    Nobody       \* no runner

ASSUME BoundAssumption ==
    /\ MaxTasks \in Nat /\ TTL \in Nat /\ MaxPause \in Nat
    /\ MaxCrashes \in Nat /\ MaxFaults \in Nat
ASSUME NobodyAssumption == Nobody \notin Runners

VARIABLES
    \* database
    status,   \* system_tasks.status; "none" before the row exists
    active,   \* whether active_key is set (it carries a unique index)
    owner,    \* system_tasks.locked_by
    lock,     \* the row of system_task_locks
    \* runner processes
    pc,       \* the next statement of the runner's pass
    my,       \* its local variables: the task at hand, a lock row it read
    age,      \* age of the clock it read
    up,       \* runners that have not crashed
    \* handler goroutines, at most one per task
    handler,
    crashes, faults,
    \* history: tasks set running by a claimer whose own lease had run out
    late

vars == <<status, active, owner, lock, pc, my, age, up, handler, crashes, faults, late>>

Tasks == 1 .. MaxTasks
Statuses == {"none", "pending", "running", "succeeded", "failed"}
Floor == -(MaxPause + 1)
NoLock == [task |-> 0, by |-> Nobody, left |-> Floor]
LockRow == [task : Tasks \cup {0}, by : Runners \cup {Nobody}, left : Floor .. TTL]
NoLocals == [task |-> 0, old |-> 0, by |-> Nobody]

\* Types: task rows, lock row and runners; in particular a lease never lasts
\* longer than systemTaskLockTTL.
TypeOK ==
    /\ status \in [Tasks -> Statuses]
    /\ active \in [Tasks -> BOOLEAN]
    /\ owner \in [Tasks -> Runners \cup {Nobody}]
    /\ lock \in LockRow
    /\ pc \in [Runners -> {"idle", "expMark", "expDelete", "insert",
                           "lockRead", "takeover", "mark", "cas", "release"}]
    /\ my \in [Runners -> [task : Tasks \cup {0}, old : Tasks \cup {0},
                           by : Runners \cup {Nobody}]]
    /\ age \in [Runners -> 0 .. MaxPause]
    /\ up \subseteq Runners
    /\ handler \in [Tasks -> {"none", "running", "cancelled", "finished", "done"}]
    /\ crashes \in 0 .. MaxCrashes
    /\ faults \in 0 .. MaxFaults
    /\ late \subseteq Tasks

Init ==
    /\ status = [t \in Tasks |-> "none"]
    /\ active = [t \in Tasks |-> FALSE]
    /\ owner = [t \in Tasks |-> Nobody]
    /\ lock = NoLock
    /\ pc = [n \in Runners |-> "idle"]
    /\ my = [n \in Runners |-> NoLocals]
    /\ age = [n \in Runners |-> 0]
    /\ up = Runners
    /\ handler = [t \in Tasks |-> "none"]
    /\ crashes = 0
    /\ faults = 0
    /\ late = {}

-----------------------------------------------------------------------------
At(n, l) == n \in up /\ pc[n] = l
Goto(n, l) == pc' = [pc EXCEPT ![n] = l]
\* The pass is over: the locals are dead.
Return(n) ==
    /\ Goto(n, "idle")
    /\ my' = [my EXCEPT ![n] = NoLocals]
    /\ age' = [age EXCEPT ![n] = 0]
Fault == faults < MaxFaults /\ faults' = faults + 1
rows == <<status, active, owner>>
env == <<up, handler, crashes, late>>

Locked == lock.task # 0
\* locked_until < the clock the runner read; locked_until >= now.
ExpiredAlways(n) == Locked  \* mutant: live leases are taken over
ExpiredNever(n) == FALSE  \* mutant: expired locks stay
ExpiredFor(n) == Locked /\ lock.left < -age[n]
Live(t, n) == lock.task = t /\ lock.by = n /\ lock.left >= 0

-----------------------------------------------------------------------------
(* Creating tasks: the scheduler, StartLogCleanupTask, EnqueueSystemTask.  *)

\* CreateSystemTask: the unique active_key refuses a second active row; ids
\* increase.
NoActive == \A t \in Tasks : ~ active[t]
CreateSystemTask(t) ==
    /\ status[t] = "none" /\ \A u \in Tasks : u < t => status[u] # "none"
    /\ NoActive
    /\ status' = [status EXCEPT ![t] = "pending"]
    /\ active' = [active EXCEPT ![t] = TRUE]
    /\ UNCHANGED <<owner, lock, pc, my, age, env, faults>>

-----------------------------------------------------------------------------
(* ExpireStaleSystemTaskLocks.                                             *)

\* Read the expired lock; its fields are used by the next two statements.
ExpireRead(n) ==
    /\ At(n, "idle")
    /\ ExpiredFor(n)
    /\ my' = [my EXCEPT ![n] = [task |-> 0, old |-> lock.task, by |-> lock.by]]
    /\ Goto(n, "expMark")
    /\ UNCHANGED <<rows, lock, age, env, faults>>

\* MarkSystemTaskLeaseExpired: a running task becomes failed.
MarkAny(t) ==  \* mutant: whatever the status
    /\ status' = [status EXCEPT ![t] = "failed"]
    /\ active' = [active EXCEPT ![t] = FALSE]
MarkNothing(t) == UNCHANGED <<status, active>>  \* mutant
MarkLeaseExpired(t) ==
    IF status[t] = "running"
    THEN /\ status' = [status EXCEPT ![t] = "failed"]
         /\ active' = [active EXCEPT ![t] = FALSE]
    ELSE UNCHANGED <<status, active>>

ExpireMark(n) ==
    /\ At(n, "expMark")
    /\ \/ MarkLeaseExpired(my[n].old) /\ Goto(n, "expDelete")
          /\ UNCHANGED <<my, age, faults>>
       \/ Fault /\ Return(n) /\ UNCHANGED <<status, active>>
    /\ UNCHANGED <<owner, lock, env>>

\* Delete the lock if it is still the one that was read, and expired.
ExpireDelete(n) ==
    /\ At(n, "expDelete")
    /\ \/ /\ lock' = IF lock.task = my[n].old /\ lock.by = my[n].by /\ ExpiredFor(n)
                     THEN NoLock ELSE lock
          /\ UNCHANGED faults
       \/ Fault /\ UNCHANGED lock
    /\ Return(n)
    /\ UNCHANGED <<rows, env>>

-----------------------------------------------------------------------------
(* ClaimSystemTask.                                                        *)

\* Find and re-read a pending task.  The clock read here gives both `now` and
\* lockUntil = now + TTL.
ClaimRead(n) ==
    /\ At(n, "idle")
    /\ \E t \in Tasks :
        /\ status[t] = "pending"
        /\ my' = [my EXCEPT ![n] = [NoLocals EXCEPT !.task = t]]
    /\ Goto(n, "insert")
    /\ UNCHANGED <<rows, lock, age, env, faults>>

TakeLock(n) ==
    lock' = [task |-> my[n].task, by |-> n, left |-> TTL - age[n]]

\* acquireSystemTaskLock: insert the row; when the type has one, read it.
LockInsert(n) ==
    /\ At(n, "insert")
    /\ IF Locked THEN Goto(n, "lockRead") /\ UNCHANGED lock
                 ELSE Goto(n, "cas") /\ TakeLock(n)
    /\ UNCHANGED <<rows, my, age, env, faults>>

LockRead(n) ==
    /\ At(n, "lockRead")
    /\ \/ /\ ExpiredFor(n)
          /\ my' = [my EXCEPT ![n].old = lock.task]
          /\ Goto(n, "takeover") /\ UNCHANGED <<age, faults>>
       \/ ~ ExpiredFor(n) /\ Return(n) /\ UNCHANGED faults
       \/ Fault /\ Return(n)
    /\ UNCHANGED <<rows, lock, env>>

\* The conditional update of an expired row.  The task it belonged to is
\* marked expired next, unless it is the one being claimed.
LockTakeover(n) ==
    /\ At(n, "takeover")
    /\ \/ /\ ExpiredFor(n)
          /\ TakeLock(n)
          /\ Goto(n, IF my[n].old # my[n].task THEN "mark" ELSE "cas")
          /\ UNCHANGED <<my, age, faults>>
       \/ ~ ExpiredFor(n) /\ Return(n) /\ UNCHANGED <<lock, faults>>
       \/ Fault /\ Return(n) /\ UNCHANGED lock
    /\ UNCHANGED <<rows, env>>

ClaimMark(n) ==
    /\ At(n, "mark")
    /\ \/ MarkLeaseExpired(my[n].old) /\ Goto(n, "cas") /\ UNCHANGED faults
       \/ Fault /\ Goto(n, "release") /\ UNCHANGED <<status, active>>
    /\ UNCHANGED <<owner, lock, my, age, env>>

\* The compare-and-set from pending to running, which does not look at the
\* lock again; the handler is dispatched, unless reading the row back fails.
ClaimRun(n) ==
    LET t == my[n].task IN
    /\ At(n, "cas")
    /\ status[t] = "pending"
    /\ status' = [status EXCEPT ![t] = "running"]
    /\ owner' = [owner EXCEPT ![t] = n]
    /\ \/ handler' = [handler EXCEPT ![t] = "running"] /\ UNCHANGED faults
       \/ Fault /\ UNCHANGED handler
    /\ late' = IF Live(t, n) THEN late ELSE late \cup {t}
    /\ Return(n)
    /\ UNCHANGED <<active, lock, up, crashes>>

ClaimLost(n) ==
    /\ At(n, "cas")
    /\ \/ status[my[n].task] # "pending" /\ UNCHANGED faults
       \/ Fault
    /\ Goto(n, "release")
    /\ UNCHANGED <<rows, lock, my, age, env>>

\* ReleaseSystemTaskLock(task, runner); its error is ignored.
Released(t, n) == IF lock.task = t /\ lock.by = n THEN NoLock ELSE lock
ClaimRelease(n) ==
    /\ At(n, "release")
    /\ \/ lock' = Released(my[n].task, n) /\ UNCHANGED faults
       \/ Fault /\ UNCHANGED lock
    /\ Return(n)
    /\ UNCHANGED <<rows, env>>

-----------------------------------------------------------------------------
(* runWithLeaseHeartbeat and the handlers.                                 *)

\* The handler of t runs in the process of the runner that claimed t.
Runs(t, ls) == handler[t] \in ls /\ owner[t] \in up
SetHandler(t, l) == handler' = [handler EXCEPT ![t] = l]
locals == <<pc, my, age>>

\* RenewSystemTaskLock succeeds.
Renew(t) ==
    /\ Runs(t, {"running"})
    /\ Live(t, owner[t])
    /\ lock' = [lock EXCEPT !.left = TTL]
    /\ UNCHANGED <<rows, locals, env, faults>>

\* It fails: the context is cancelled and the heartbeat ends.
RenewFails(t) ==
    /\ Runs(t, {"running"})
    /\ \/ ~ Live(t, owner[t]) /\ UNCHANGED faults
       \/ Fault
    /\ SetHandler(t, "cancelled")
    /\ UNCHANGED <<rows, lock, locals, up, crashes, late>>

\* FinishSystemTask: the update needs the running row and the live lock.
Holds(t) == status[t] = "running" /\ Live(t, owner[t])
FinishSystemTask(t, s) ==
    /\ Runs(t, {"running", "cancelled"})
    /\ Holds(t)
    /\ status' = [status EXCEPT ![t] = s]
    /\ active' = [active EXCEPT ![t] = FALSE]
    /\ SetHandler(t, "finished")
    /\ UNCHANGED <<owner, lock, locals, up, crashes, faults, late>>

\* FinishSystemTask or UpdateSystemTaskState affects no row, or fails: the
\* handler returns and leaves everything as it is.
HandlerGivesUp(t) ==
    /\ Runs(t, {"running", "cancelled"})
    /\ \/ ~ Holds(t) /\ UNCHANGED faults
       \/ Fault
    /\ SetHandler(t, "done")
    /\ UNCHANGED <<rows, lock, locals, up, crashes, late>>

\* The release at the end of FinishSystemTask.
FinishRelease(t) ==
    /\ Runs(t, {"finished"})
    /\ \/ lock' = Released(t, owner[t]) /\ UNCHANGED faults
       \/ Fault /\ UNCHANGED lock
    /\ SetHandler(t, "done")
    /\ UNCHANGED <<rows, locals, up, crashes, late>>

-----------------------------------------------------------------------------
(* The environment.                                                        *)

\* A process dies, with its pass and its handlers.
Crash(n) ==
    /\ n \in up /\ crashes < MaxCrashes
    /\ up' = up \ {n}
    /\ crashes' = crashes + 1
    /\ handler' = [t \in Tasks |-> IF owner[t] = n /\ handler[t] # "none"
                                   THEN "done" ELSE handler[t]]
    /\ UNCHANGED <<rows, lock, locals, faults, late>>

Tick ==
    /\ \A n \in up : pc[n] # "idle" => age[n] < MaxPause
    /\ lock' = [lock EXCEPT !.left = IF @ > Floor THEN @ - 1 ELSE @]
    /\ age' = [n \in Runners |-> IF n \in up /\ pc[n] # "idle"
                                 THEN age[n] + 1 ELSE age[n]]
    /\ UNCHANGED <<rows, pc, my, env, faults>>

RunnerStep(n) ==
    \/ ExpireRead(n) \/ ExpireMark(n) \/ ExpireDelete(n)
    \/ ClaimRead(n) \/ LockInsert(n) \/ LockRead(n) \/ LockTakeover(n)
    \/ ClaimMark(n) \/ ClaimRun(n) \/ ClaimLost(n) \/ ClaimRelease(n)

HandlerEnds(t) ==
    \/ \E s \in {"succeeded", "failed"} : FinishSystemTask(t, s)
    \/ HandlerGivesUp(t)
    \/ FinishRelease(t)

HandlerStep(t) == HandlerEnds(t) \/ Renew(t) \/ RenewFails(t)

Next ==
    \/ \E n \in Runners : RunnerStep(n) \/ Crash(n)
    \/ \E t \in Tasks : CreateSystemTask(t) \/ HandlerStep(t)
    \/ Tick

Spec == Init /\ [][Next]_vars

\* Time passes; a runner that is up keeps running passes, and on every pass
\* both looks for expired locks and for pending tasks; a handler ends.
Fairness ==
    /\ WF_vars(Tick)
    /\ \A n \in Runners :
        /\ WF_vars(RunnerStep(n))
        /\ SF_vars(ExpireRead(n)) /\ SF_vars(ClaimRead(n))
    /\ \A t \in Tasks : WF_vars(HandlerEnds(t))

FairSpec == Spec /\ Fairness

-----------------------------------------------------------------------------
(* Properties.                                                             *)

\* The table as the rest of the program sees it: tasks of a type are created
\* one at a time, started once, and a task that ended stays as it ended, for
\* all interleavings of claims, takeovers, expiries, crashes and zombies.
Board == INSTANCE TaskBoard
BoardSpec == Board!Spec

\* A task that is running has the lock row of its runner, so that its end can
\* be detected when the runner is gone: ExpireStaleSystemTaskLocks and the
\* takeover only ever look at lock rows.  However old the clocks of other
\* passes are, none takes or deletes the row of a running task; the only task
\* without it is one whose own claimer set it running after its lease had run
\* out.
RunningHasLock ==
    \A t \in Tasks :
        status[t] = "running" /\ t \notin late => lock.task = t /\ lock.by = owner[t]

\* runWithLeaseHeartbeat: "an arbitrarily long handler stays alive as long as
\* the heartbeat succeeds".  No other actor fails a task whose lease is live.
LiveLeaseKeepsTask ==
    [][\A t \in Tasks :
          /\ status[t] = "running" /\ Runs(t, {"running"}) /\ Live(t, owner[t])
          /\ handler'[t] = handler[t]
          => status'[t] = "running"]_vars

\* The runner marks expired leases failed: whatever crashes, and however old
\* the clocks of other passes are, a task that is running ends, and its type is
\* free again, unless it was set running late.  (One task at a time runs, and
\* when it leaves the set it has ended.)
RunningTasks == {t \in Tasks \ late : status[t] = "running"}
RunningEnds == RunningTasks # {} ~> RunningTasks = {}

\* systemTaskRunnerIdleInterval: the runner polls to "mark expired leases
\* failed", so that every task that is running ends.  (It is not so: see
\* SystemTaskStuck.cfg.)
ExpiredLeaseFails ==
    \A t \in Tasks : status[t] = "running" ~> status[t] \in {"succeeded", "failed"}

\* A pending task does not wait for ever behind a lock nobody holds.
\* (One task at a time is pending.)
PendingTasks == {t \in Tasks : status[t] = "pending"}
PendingStarts == PendingTasks # {} ~> PendingTasks = {}

=============================================================================
