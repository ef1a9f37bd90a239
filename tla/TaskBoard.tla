----------------------------- MODULE TaskBoard ------------------------------
(***************************************************************************)
(* What the system task table promises for one task type: tasks are        *)
(* created one at a time, each is started by one runner at most once, and  *)
(* a task that ended stays as it ended.                                    *)
(***************************************************************************)
CONSTANTS Tasks, Runners, Nobody

VARIABLES status, owner

Active == {"pending", "running"}

Init ==
    /\ status = [t \in Tasks |-> "none"]
    /\ owner = [t \in Tasks |-> Nobody]

Create(t) ==
    /\ status[t] = "none"
    /\ \A u \in Tasks : status[u] \notin Active
    /\ status' = [status EXCEPT ![t] = "pending"]
    /\ UNCHANGED owner

Start(t, n) ==
    /\ status[t] = "pending"
    /\ status' = [status EXCEPT ![t] = "running"]
    /\ owner' = [owner EXCEPT ![t] = n]

End(t, s) ==
    /\ status[t] = "running"
    /\ status' = [status EXCEPT ![t] = s]
    /\ UNCHANGED owner

Next ==
    \E t \in Tasks :
        \/ Create(t)
        \/ \E n \in Runners : Start(t, n)
        \/ \E s \in {"succeeded", "failed"} : End(t, s)

Spec == Init /\ [][Next]_<<status, owner>>
=============================================================================
