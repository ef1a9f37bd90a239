-------------------------- MODULE SystemTask_proofs --------------------------
(***************************************************************************)
(* Proofs about SystemTask, for any number of runners and tasks and any    *)
(* lease length: it implements TaskBoard, and a running task has its lock  *)
(* unless its claimer was late itself, however long passes are paused.     *)
(***************************************************************************)
EXTENDS SystemTask, TLAPS

-----------------------------------------------------------------------------
(* Type correctness and the active key.                                    *)

ActiveKey ==
    /\ \A t \in Tasks : active[t] <=> status[t] \in {"pending", "running"}
    /\ \A t, u \in Tasks : active[t] /\ active[u] => t = u

BInv == TypeOK /\ ActiveKey

LEMMA TaskNat == Tasks \subseteq Int /\ 0 \notin Tasks
  BY BoundAssumption DEF Tasks

LEMMA FloorInt == Floor \in Int /\ Floor <= -1 /\ Floor < -MaxPause
  BY BoundAssumption DEF Floor

LEMMA InitBInv == Init => BInv
  BY BoundAssumption, FloorInt
  DEF Init, BInv, TypeOK, ActiveKey, Statuses, NoLock, LockRow, NoLocals

LEMMA MarkType ==
  ASSUME TypeOK, NEW t, MarkLeaseExpired(t)
  PROVE  status' \in [Tasks -> Statuses] /\ active' \in [Tasks -> BOOLEAN]
<1>1. CASE status[t] = "running"
  BY <1>1 DEF TypeOK, MarkLeaseExpired, Statuses
<1>2. CASE status[t] # "running"
  BY <1>2 DEF TypeOK, MarkLeaseExpired
<1> QED
  BY <1>1, <1>2

\* The claimed task of a pass exists.
ClaimTask ==
    \A n \in Runners :
        pc[n] \in {"insert", "lockRead", "takeover", "mark", "cas", "release"}
            => my[n].task \in Tasks

LEMMA NextTypeOK == TypeOK /\ ClaimTask /\ [Next]_vars => TypeOK'
<1> SUFFICES ASSUME TypeOK, ClaimTask, [Next]_vars PROVE TypeOK'
  OBVIOUS
<1> USE BoundAssumption, FloorInt, TaskNat
<1> USE DEF TypeOK, Statuses, rows, env, locals, Goto, Return, NoLocals, At, Fault
<1>1. ASSUME NEW n \in Runners, RunnerStep(n) PROVE TypeOK'
  <2>1. CASE ExpireRead(n)
    BY <2>1 DEF ExpireRead, LockRow
  <2>2. CASE ExpireMark(n)
    <3>1. CASE MarkLeaseExpired(my[n].old) /\ Goto(n, "expDelete")
               /\ UNCHANGED <<my, age, faults>>
      BY <2>2, <3>1, MarkType DEF ExpireMark
    <3>2. CASE Fault /\ Return(n) /\ UNCHANGED <<status, active>>
      BY <2>2, <3>2 DEF ExpireMark
    <3> QED
      BY <2>2, <3>1, <3>2 DEF ExpireMark
  <2>3. CASE ExpireDelete(n)
    BY <2>3 DEF ExpireDelete, NoLock, LockRow
  <2>4. CASE ClaimRead(n)
    BY <2>4 DEF ClaimRead
  <2>5. CASE LockInsert(n)
    BY <2>5 DEF LockInsert, TakeLock, LockRow
  <2>6. CASE LockRead(n)
    <3>1. CASE /\ my' = [my EXCEPT ![n].old = lock.task]
               /\ Goto(n, "takeover") /\ UNCHANGED <<age, faults>>
      BY <2>6, <3>1 DEF LockRead, LockRow
    <3>2. CASE Return(n) /\ (Fault \/ UNCHANGED faults)
      BY <2>6, <3>2 DEF LockRead
    <3> QED
      BY <2>6, <3>1, <3>2 DEF LockRead
  <2>7. CASE LockTakeover(n)
    BY <2>7 DEF LockTakeover, TakeLock, LockRow
  <2>8. CASE ClaimMark(n)
    BY <2>8, MarkType DEF ClaimMark
  <2>9. CASE ClaimRun(n)
    <3>1. status' \in [Tasks -> Statuses] /\ owner' \in [Tasks -> Runners \cup {Nobody}]
      BY <2>9 DEF ClaimRun
    <3>2. handler' \in [Tasks -> {"none", "running", "cancelled", "finished", "done"}]
          /\ faults' \in 0 .. MaxFaults
      BY <2>9 DEF ClaimRun
    <3>3. late' \subseteq Tasks
      BY <2>9 DEF ClaimRun, ClaimTask
    <3> QED
      BY <2>9, <3>1, <3>2, <3>3 DEF ClaimRun
  <2>10. CASE ClaimLost(n)
    BY <2>10 DEF ClaimLost
  <2>11. CASE ClaimRelease(n)
    BY <2>11 DEF ClaimRelease, Released, NoLock, LockRow
  <2> QED
    BY <1>1, <2>1, <2>2, <2>3, <2>4, <2>5, <2>6, <2>7, <2>8, <2>9, <2>10, <2>11
    DEF RunnerStep
<1>2. ASSUME NEW n \in Runners, Crash(n) PROVE TypeOK'
  BY <1>2 DEF Crash
<1>3. ASSUME NEW t \in Tasks, CreateSystemTask(t) PROVE TypeOK'
  BY <1>3 DEF CreateSystemTask
<1>4. ASSUME NEW t \in Tasks, HandlerStep(t) PROVE TypeOK'
  <2>1. CASE \E s \in {"succeeded", "failed"} : FinishSystemTask(t, s)
    BY <2>1 DEF FinishSystemTask, SetHandler
  <2>2. CASE HandlerGivesUp(t)
    BY <2>2 DEF HandlerGivesUp, SetHandler
  <2>3. CASE FinishRelease(t)
    BY <2>3 DEF FinishRelease, SetHandler, Released, NoLock, LockRow
  <2>4. CASE Renew(t)
    BY <2>4 DEF Renew, LockRow
  <2>5. CASE RenewFails(t)
    BY <2>5 DEF RenewFails, SetHandler
  <2> QED
    BY <1>4, <2>1, <2>2, <2>3, <2>4, <2>5 DEF HandlerStep, HandlerEnds
<1>5. CASE Tick
  BY <1>5 DEF Tick, LockRow
<1>6. CASE UNCHANGED vars
  BY <1>6 DEF vars
<1> QED
  BY <1>1, <1>2, <1>3, <1>4, <1>5, <1>6 DEF Next

\* What a step does to the three task columns: nothing, or one of the
\* transitions of the board.  Everything else in this module's first part
\* follows from this classification.
RowStep ==
    \/ UNCHANGED rows
    \/ \E t \in Tasks : /\ NoActive /\ status[t] = "none"
                        /\ status' = [status EXCEPT ![t] = "pending"]
                        /\ active' = [active EXCEPT ![t] = TRUE]
                        /\ UNCHANGED owner
    \/ \E t \in Tasks, n \in Runners :
                        /\ status[t] = "pending"
                        /\ status' = [status EXCEPT ![t] = "running"]
                        /\ owner' = [owner EXCEPT ![t] = n]
                        /\ UNCHANGED active
    \/ \E t \in Tasks, s \in {"succeeded", "failed"} :
                        /\ status[t] = "running"
                        /\ status' = [status EXCEPT ![t] = s]
                        /\ active' = [active EXCEPT ![t] = FALSE]
                        /\ UNCHANGED owner

LEMMA MarkRows ==
  ASSUME TypeOK, NEW t \in Tasks \cup {0}, MarkLeaseExpired(t), UNCHANGED owner
  PROVE  RowStep
<1>1. CASE status[t] = "running" /\ t \in Tasks
  BY <1>1 DEF MarkLeaseExpired, RowStep
<1>2. CASE status[t] # "running"
  BY <1>2 DEF MarkLeaseExpired, RowStep, rows
<1>3. CASE t = 0 /\ status[t] = "running"
  <2>1. \A x \in Tasks : status'[x] = status[x] /\ active'[x] = active[x]
    BY <1>3, TaskNat DEF MarkLeaseExpired, TypeOK
  <2>2. status' = [x \in Tasks |-> status'[x]] /\ active' = [x \in Tasks |-> active'[x]]
    BY <1>3, TaskNat DEF MarkLeaseExpired, TypeOK
  <2>3. status = [x \in Tasks |-> status[x]] /\ active = [x \in Tasks |-> active[x]]
    BY DEF TypeOK
  <2> QED
    BY <2>1, <2>2, <2>3 DEF RowStep, rows
<1> QED
  BY <1>1, <1>2, <1>3

LEMMA RunRows ==
  ASSUME TypeOK, NEW n \in Runners, ClaimRun(n), my[n].task \in Tasks
  PROVE  RowStep
  BY DEF ClaimRun, RowStep

LEMMA NextRows == TypeOK /\ ClaimTask /\ [Next]_vars => RowStep
<1> SUFFICES ASSUME TypeOK, ClaimTask, [Next]_vars PROVE RowStep
  OBVIOUS
<1> USE DEF rows
<1>1. ASSUME NEW n \in Runners, RunnerStep(n) PROVE RowStep
  <2>1. CASE ExpireMark(n)
    <3>1. my[n].old \in Tasks \cup {0}
      BY DEF TypeOK
    <3>2. CASE UNCHANGED <<status, active>>
      BY <2>1, <3>2 DEF ExpireMark, RowStep
    <3>3. CASE MarkLeaseExpired(my[n].old)
      BY <2>1, <3>1, <3>3, MarkRows DEF ExpireMark
    <3> QED
      BY <2>1, <3>2, <3>3 DEF ExpireMark
  <2>2. CASE ClaimMark(n)
    <3>1. my[n].old \in Tasks \cup {0}
      BY DEF TypeOK
    <3>2. CASE UNCHANGED <<status, active>>
      BY <2>2, <3>2 DEF ClaimMark, RowStep
    <3>3. CASE MarkLeaseExpired(my[n].old)
      BY <2>2, <3>1, <3>3, MarkRows DEF ClaimMark
    <3> QED
      BY <2>2, <3>2, <3>3 DEF ClaimMark
  <2>3. CASE ClaimRun(n)
    <3>1. my[n].task \in Tasks
      BY <2>3 DEF ClaimRun, At, ClaimTask
    <3> QED
      BY <2>3, <3>1, RunRows
  <2>4. CASE ~ (ExpireMark(n) \/ ClaimMark(n) \/ ClaimRun(n))
    BY <1>1, <2>4
    DEF RunnerStep, RowStep, ExpireRead, ExpireDelete, ClaimRead, LockInsert,
        LockRead, LockTakeover, ClaimLost, ClaimRelease
  <2> QED
    BY <2>1, <2>2, <2>3, <2>4
<1>2. ASSUME NEW n \in Runners, Crash(n) PROVE RowStep
  BY <1>2 DEF Crash, RowStep
<1>3. ASSUME NEW t \in Tasks, CreateSystemTask(t) PROVE RowStep
  BY <1>3 DEF CreateSystemTask, RowStep
<1>4. ASSUME NEW t \in Tasks, HandlerStep(t) PROVE RowStep
  <2>1. CASE \E s \in {"succeeded", "failed"} : FinishSystemTask(t, s)
    BY <2>1 DEF FinishSystemTask, Holds, RowStep
  <2>2. CASE ~ \E s \in {"succeeded", "failed"} : FinishSystemTask(t, s)
    BY <1>4, <2>2 DEF HandlerStep, HandlerEnds, HandlerGivesUp, FinishRelease,
                      Renew, RenewFails, RowStep
  <2> QED
    BY <2>1, <2>2
<1>5. CASE Tick
  BY <1>5 DEF Tick, RowStep
<1>6. CASE UNCHANGED vars
  BY <1>6 DEF vars, RowStep
<1> QED
  BY <1>1, <1>2, <1>3, <1>4, <1>5, <1>6 DEF Next

LEMMA NextActiveKey == TypeOK /\ ActiveKey /\ RowStep => ActiveKey'
  BY DEF TypeOK, ActiveKey, RowStep, rows, NoActive

LEMMA NextClaimTask == TypeOK /\ ClaimTask /\ [Next]_vars => ClaimTask'
<1> SUFFICES ASSUME TypeOK, ClaimTask, [Next]_vars PROVE ClaimTask'
  OBVIOUS
<1> USE DEF ClaimTask, TypeOK, Goto, Return, At, env, locals, rows
<1>1. ASSUME NEW n \in Runners, RunnerStep(n) PROVE ClaimTask'
  <2>1. CASE ExpireRead(n) \/ ExpireMark(n) \/ ExpireDelete(n)
    BY <2>1 DEF ExpireRead, ExpireMark, ExpireDelete
  <2>2. CASE ClaimRead(n)
    BY <2>2 DEF ClaimRead
  <2>3. CASE LockInsert(n) \/ LockRead(n)
    BY <2>3 DEF LockInsert, LockRead
  <2>4. CASE LockTakeover(n) \/ ClaimMark(n)
    BY <2>4 DEF LockTakeover, ClaimMark
  <2>5. CASE ClaimRun(n) \/ ClaimLost(n) \/ ClaimRelease(n)
    BY <2>5 DEF ClaimRun, ClaimLost, ClaimRelease
  <2> QED
    BY <1>1, <2>1, <2>2, <2>3, <2>4, <2>5 DEF RunnerStep
<1>2. CASE UNCHANGED <<pc, my>>
  BY <1>2
<1> QED
  BY <1>1, <1>2 DEF Next, Crash, CreateSystemTask, HandlerStep, HandlerEnds,
     FinishSystemTask, HandlerGivesUp, FinishRelease, Renew, RenewFails, Tick, vars

\* CreateSystemTask, the claim and the expiry keep the types of all variables
\* for every number of runners and tasks and every lease length.
THEOREM SystemTaskTypeCorrect == Spec => []TypeOK
<1>1. Init => TypeOK /\ ClaimTask
  BY InitBInv DEF BInv, Init, ClaimTask
<1>2. TypeOK /\ ClaimTask /\ [Next]_vars => TypeOK' /\ ClaimTask'
  BY NextTypeOK, NextClaimTask
<1> QED
  BY <1>1, <1>2, PTL DEF Spec

\* The unique active_key: for every number of tasks and runners, a type never
\* has two active tasks, and active_key is set exactly while a task is active.
THEOREM SystemTaskActiveKey == Spec => []ActiveKey
<1> DEFINE I == TypeOK /\ ActiveKey /\ ClaimTask
<1>1. Init => I
  BY InitBInv DEF BInv, Init, ClaimTask
<1>2. I /\ [Next]_vars => I'
  BY NextTypeOK, NextRows, NextActiveKey, NextClaimTask
<1>3. I => ActiveKey
  OBVIOUS
<1> QED
  BY <1>1, <1>2, <1>3, PTL DEF Spec

\* The runner implements the task board: for every number of runners, tasks,
\* crashes and faults, tasks of a type are created one at a time, claimed once,
\* and never change after they have ended.
THEOREM SystemTaskImplementsBoard == Spec => BoardSpec
<1> DEFINE I == TypeOK /\ ActiveKey /\ ClaimTask
<1>1. Init => I
  BY InitBInv DEF BInv, Init, ClaimTask
<1>2. I /\ [Next]_vars => I'
  BY NextTypeOK, NextRows, NextActiveKey, NextClaimTask
<1>3. Init => Board!Init
  BY DEF Init, Board!Init
<1>4. I /\ [Next]_vars => [Board!Next]_<<status, owner>>
  <2> SUFFICES ASSUME I, [Next]_vars PROVE [Board!Next]_<<status, owner>>
    OBVIOUS
  <2>1. RowStep
    BY NextRows
  <2> QED
    BY <2>1 DEF RowStep, rows, ActiveKey, NoActive, Board!Next, Board!Create,
                Board!Start, Board!End, Board!Active
<1> QED
  BY <1>1, <1>2, <1>3, <1>4, PTL DEF Spec, BoardSpec, Board!Spec

-----------------------------------------------------------------------------
(* A running task has its lock.                                            *)
(*                                                                         *)
(* RunningHasLock is not inductive: what matters is what a paused pass may *)
(* still do to the lock.  The invariant says that a pass that has taken    *)
(* the lock finds it as it left it until its lease runs out (Owned), that  *)
(* nothing runs under the lock meanwhile (Exclusive), and that a pass      *)
(* about to take or delete the lock, however old its clock is, sees an     *)
(* expired one only if no task is running under it (Careful).  A task that *)
(* was set running late has no part in the lock.                           *)

Claiming == {"insert", "lockRead", "takeover", "mark", "cas", "release"}
Owning == {"mark", "cas", "release"}
Running(t) == status[t] = "running" /\ t \notin late
Owns(n) == pc[n] \in Owning /\ age[n] <= TTL

Unowned ==
    /\ \A t \in Tasks : status[t] \in {"none", "pending"} => owner[t] = Nobody
    /\ \A n \in Runners : pc[n] \in Claiming => owner[my[n].task] # n
Ended ==
    \A t \in Tasks : handler[t] = "finished" => status[t] \in {"succeeded", "failed"}
Owned ==
    \A n \in up : Owns(n) =>
        lock.task = my[n].task /\ lock.by = n /\ lock.left = TTL - age[n]
Exclusive ==
    \A n \in up : Owns(n) => \A t \in Tasks : ~ Running(t)
Careful ==
    \A n \in up, t \in Tasks :
        /\ Running(t)
        /\ \/ pc[n] \in {"insert", "lockRead", "takeover"}
           \/ pc[n] = "expDelete" /\ my[n].old = t
        => lock.left >= -age[n]

LeaseFacts ==
    Unowned /\ Ended /\ Owned /\ Exclusive /\ Careful /\ RunningHasLock
LeaseInv == TypeOK /\ ActiveKey /\ ClaimTask /\ LeaseFacts

LEMMA NextLeaseFacts ==
  ASSUME LeaseInv, [Next]_vars
  PROVE  LeaseFacts'
<1> USE BoundAssumption, NobodyAssumption, TaskNat, FloorInt
<1> USE DEF LeaseInv, LeaseFacts, TypeOK, ActiveKey, ClaimTask, Unowned, Ended, Owned,
        Exclusive, Careful, RunningHasLock, Claiming, Owning, Owns, Running,
        rows, env, locals, Goto, Return, At, NoLocals, LockRow
<1>1. ASSUME NEW n \in Runners, RunnerStep(n) PROVE LeaseFacts'
  <2>1. CASE ExpireRead(n)
    BY <2>1 DEF ExpireRead
  <2>2. CASE ExpireMark(n)
    BY <2>2 DEF ExpireMark, MarkLeaseExpired
  <2>3. CASE ExpireDelete(n)
    BY <2>3, SMTT(30) DEF ExpireDelete, ExpiredFor, NoLock
  <2>4. CASE ClaimRead(n)
    BY <2>4 DEF ClaimRead
  <2>5. CASE LockInsert(n)
    BY <2>5 DEF LockInsert, TakeLock, Locked
  <2>6. CASE LockRead(n)
    BY <2>6 DEF LockRead
  <2>7. CASE LockTakeover(n)
    BY <2>7 DEF LockTakeover, TakeLock, ExpiredFor, Locked
  <2>8. CASE ClaimMark(n)
    BY <2>8 DEF ClaimMark, MarkLeaseExpired
  <2>9. CASE ClaimRun(n)
    <3> DEFINE t == my[n].task
    <3>1. t \in Tasks /\ pc[n] = "cas" /\ status[t] = "pending" /\ lock' = lock /\ up' = up
          /\ pc' = [pc EXCEPT ![n] = "idle"] /\ owner' = [owner EXCEPT ![t] = n]
          /\ status' = [status EXCEPT ![t] = "running"]
      BY <2>9 DEF ClaimRun
    <3>2. \A m \in Runners : m # n => my'[m] = my[m] /\ age'[m] = age[m]
      BY <2>9 DEF ClaimRun
    <3>3. t \notin late' => Live(t, n)
      BY <2>9 DEF ClaimRun
    <3>4. \A u \in Tasks : Running(u)' => u = t /\ Live(t, n)
      <4> SUFFICES ASSUME NEW u \in Tasks, Running(u)' PROVE u = t /\ Live(t, n)
        OBVIOUS
      <4>1. CASE u = t
        BY <4>1, <3>3
      <4>2. CASE u # t
        <5>1. status[u] = "running"
          BY <4>2, <3>1
        <5> QED
          BY <5>1, <4>2, <3>1
      <4> QED
        BY <4>1, <4>2
    <3>5. Unowned'
      BY <3>1, <3>2
    <3>6. Ended'
      BY <2>9 DEF ClaimRun
    <3>7. Owned' /\ \A m \in up : Owns(m)' => m # n /\ Owns(m)
      BY <3>1, <3>2
    <3>8. Exclusive'
      BY <3>1, <3>4, <3>7 DEF Live
    <3>9. Careful'
      <4> SUFFICES ASSUME NEW m \in up', NEW u \in Tasks, Running(u)'
                   PROVE  lock'.left >= -age'[m]
        OBVIOUS
      <4>1. lock.left >= 0 /\ lock.left \in Int
        BY <3>4 DEF Live
      <4>2. age'[m] \in Nat
        BY <3>1, <2>9 DEF ClaimRun
      <4> QED
        BY <4>1, <4>2, <3>1
    <3>10. RunningHasLock'
      BY <3>1, <3>4 DEF Live
    <3> QED
      BY <3>5, <3>6, <3>7, <3>8, <3>9, <3>10
  <2>10. CASE ClaimLost(n)
    BY <2>10 DEF ClaimLost
  <2>11. CASE ClaimRelease(n)
    BY <2>11 DEF ClaimRelease, Released, NoLock
  <2> QED
    BY <1>1, <2>1, <2>2, <2>3, <2>4, <2>5, <2>6, <2>7, <2>8, <2>9, <2>10, <2>11 DEF RunnerStep
<1>2. ASSUME NEW n \in Runners, Crash(n) PROVE LeaseFacts'
  BY <1>2 DEF Crash
<1>3. ASSUME NEW t \in Tasks, CreateSystemTask(t) PROVE LeaseFacts'
  BY <1>3 DEF CreateSystemTask
<1>4. ASSUME NEW t \in Tasks, HandlerStep(t) PROVE LeaseFacts'
  <2>1. CASE \E s \in {"succeeded", "failed"} : FinishSystemTask(t, s)
    BY <2>1 DEF FinishSystemTask, Holds, SetHandler
  <2>2. CASE HandlerGivesUp(t)
    BY <2>2 DEF HandlerGivesUp, SetHandler
  <2>3. CASE FinishRelease(t)
    BY <2>3 DEF FinishRelease, Runs, Released, NoLock, SetHandler
  <2>4. CASE Renew(t)
    BY <2>4 DEF Renew, Runs, Live
  <2>5. CASE RenewFails(t)
    BY <2>5 DEF RenewFails, SetHandler
  <2> QED
    BY <1>4, <2>1, <2>2, <2>3, <2>4, <2>5 DEF HandlerStep, HandlerEnds
<1>5. CASE Tick
  BY <1>5 DEF Tick
<1>6. CASE UNCHANGED vars
  BY <1>6 DEF vars
<1> QED
  BY <1>1, <1>2, <1>3, <1>4, <1>5, <1>6 DEF Next

\* For every number of runners, tasks, crashes and faults, and for pauses of any
\* length, a running task has the lock row of its runner, so that
\* ExpireStaleSystemTaskLocks can find it, unless ClaimSystemTask set it running
\* after the claimer's own lease had run out.
THEOREM SystemTaskRunningHasLock == Spec => []RunningHasLock
<1>1. Init => LeaseInv
  BY InitBInv, TaskNat
  DEF Init, BInv, LeaseInv, LeaseFacts, ClaimTask, Unowned, Ended, Owned, Exclusive, Careful,
      RunningHasLock, Claiming, Owning, Owns, Running
<1>2. LeaseInv /\ [Next]_vars => LeaseInv'
  BY NextTypeOK, NextRows, NextActiveKey, NextClaimTask, NextLeaseFacts DEF LeaseInv, LeaseFacts
<1>3. LeaseInv => RunningHasLock
  BY DEF LeaseInv, LeaseFacts
<1> QED
  BY <1>1, <1>2, <1>3, PTL DEF Spec

=============================================================================
