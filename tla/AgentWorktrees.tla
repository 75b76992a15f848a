--------------------------- MODULE AgentWorktrees ---------------------------
(***************************************************************************)
(* The operations by which an agent in a terminal has another agent work   *)
(* in a worktree of its own, merges what it did and removes the worktree   *)
(* (codux-runtime-live/src/agent_worktree).  Each request is a thread of   *)
(* its own; the operations are kept in memory under one mutex and saved as *)
(* one file after every change, which may fail.  A monitor follows each    *)
(* agent.  Requests are the ids of requests for one and the same task from *)
(* one terminal; those for other tasks share only the file.                *)
(*                                                                         *)
(* An operation is named by its attempt: every claim that is granted has a *)
(* new operation id, and a new worktree.                                   *)
(***************************************************************************)
EXTENDS Naturals

CONSTANTS
    Requests,
    Callers,        \* the threads that serve a request
    Nobody,         \* no caller
    MaxAttempts,    \* bound: claims granted
    MaxFaults       \* bound: failed saves and crashes

ASSUME WorktreesAssumption ==
    /\ Nobody \notin Callers
    /\ MaxAttempts \in Nat /\ MaxFaults \in Nat

VARIABLES
    op,             \* the operation of each request, in memory
    disk,           \* and as it was saved last
    attempts,       \* the number of claims granted
    call,           \* what each thread is doing
    deliverer,      \* who holds delivery_lock
    monitors,       \* the monitors that run
    there,          \* the worktrees that exist
    merged,         \* those whose work is in the source branch
    gone,           \* those that were removed
    faults

hostVars == <<there, merged, gone>>
storeVars == <<op, disk, attempts, faults>>
vars == <<op, disk, attempts, call, deliverer, monitors, there, merged, gone, faults>>

Attempts == 1..MaxAttempts
Unfinished == {"none", "pending", "running", "waiting"}

NoOp == [id |-> 0, state |-> "none", task |-> "none", delivery |-> "none"]
Ops == [id : 0..MaxAttempts,
        state : {"none", "creating", "starting", "ready", "failed"},
        task : Unfinished \cup {"completed", "failed"},
        delivery : {"none", "merged", "removed"}]

Idle == [step |-> "idle", request |-> Nobody, id |-> 0, wait |-> "ready"]
CreateSteps == {"claim", "worktree", "starting", "terminal", "ready", "monitor", "fail",
                "wait", "asleep"}
DeliverySteps == {"merge", "mergeHost", "mergeMark", "remove", "removeHost", "removeMark"}

Init ==
    /\ op = [r \in Requests |-> NoOp]
    /\ disk = op
    /\ attempts = 0
    /\ call = [c \in Callers |-> Idle]
    /\ deliverer = Nobody
    /\ monitors = {}
    /\ there = {} /\ merged = {} /\ gone = {}
    /\ faults = 0

----------------------------------------------------------------------------
\* The store.

\* operation_is_reusable.
Reusable(o) ==
    /\ o.id # 0
    /\ o.state # "failed" /\ o.task # "failed" /\ o.delivery # "removed"

\* OperationStore::persist: the file is written beside and renamed.
Saved == disk' = op' /\ UNCHANGED faults
NotSaved == faults < MaxFaults /\ faults' = faults + 1 /\ UNCHANGED disk

\* changed.notify_all, while caller c goes on to `next`.
Woken(calls) ==
    [d \in Callers |-> IF calls[d].step = "asleep" THEN [calls[d] EXCEPT !.step = "wait"]
                       ELSE calls[d]]

Goto(c, step) == [call EXCEPT ![c].step = step]
Return(c) == [call EXCEPT ![c] = Idle]
At(c, step) == call[c].step = step

\* A change of the operation of r that wakes the waiters, saved or not.
Update(r, o) == op' = [op EXCEPT ![r] = o]

----------------------------------------------------------------------------
\* create.

CallCreate(c, r, wait) ==
    /\ At(c, "idle")
    /\ call' = [call EXCEPT ![c] = [step |-> "claim", request |-> r, id |-> 0, wait |-> wait]]
    /\ UNCHANGED <<storeVars, deliverer, monitors, hostVars>>

\* Mutant: only the caller's own request is looked for.
ExistingOwn(r) == IF Reusable(op[r]) THEN {r} ELSE {}

\* claim: the caller's own operation first, then any for the same task.
Existing(r) ==
    IF Reusable(op[r]) THEN {r} ELSE {s \in Requests : Reusable(op[s])}

ClaimExisting(c) ==
    /\ At(c, "claim")
    /\ \E s \in Existing(call[c].request) :
          call' = [call EXCEPT ![c].step = "wait", ![c].request = s]
    /\ UNCHANGED <<storeVars, deliverer, monitors, hostVars>>

Claim(c) ==
    /\ At(c, "claim") /\ Existing(call[c].request) = {}
    /\ attempts < MaxAttempts
    /\ attempts' = attempts + 1
    /\ Update(call[c].request, [id |-> attempts + 1, state |-> "creating",
                                task |-> "none", delivery |-> "none"])
    /\ Saved
    /\ call' = Woken([Goto(c, "worktree") EXCEPT ![c].id = attempts + 1])
    /\ UNCHANGED <<deliverer, monitors, hostVars>>

\* The claim is taken back, and the request fails.
ClaimNotSaved(c) ==
    /\ At(c, "claim") /\ Existing(call[c].request) = {}
    /\ NotSaved
    /\ call' = Return(c)
    /\ UNCHANGED <<op, attempts, deliverer, monitors, hostVars>>

CreateWorktree(c) ==
    /\ At(c, "worktree")
    /\ there' = there \cup {call[c].id}
    /\ call' = Goto(c, "starting")
    /\ UNCHANGED <<storeVars, deliverer, monitors, merged, gone>>

MarkStarting(c) ==
    /\ At(c, "starting")
    /\ Update(call[c].request,
              [op[call[c].request] EXCEPT !.state = "starting", !.task = "pending"])
    /\ \/ Saved /\ call' = Woken(Goto(c, "terminal"))
       \/ NotSaved /\ call' = Woken(Goto(c, "fail"))
    /\ UNCHANGED <<attempts, deliverer, monitors, hostVars>>

CreateTerminal(c) ==
    /\ At(c, "terminal")
    /\ call' = Goto(c, "ready")
    /\ UNCHANGED <<storeVars, deliverer, monitors, hostVars>>

\* The worktree, its prompt file or its terminal cannot be made.
HostFails(c) ==
    /\ At(c, "worktree") \/ At(c, "terminal")
    /\ call' = Goto(c, "fail")
    /\ UNCHANGED <<storeVars, deliverer, monitors, hostVars>>

\* mark_ready, whose error is only logged.
MarkReady(c) ==
    /\ At(c, "ready")
    /\ Update(call[c].request, [op[call[c].request] EXCEPT !.state = "ready"])
    /\ Saved \/ NotSaved
    /\ call' = Woken(Goto(c, "monitor"))
    /\ UNCHANGED <<attempts, deliverer, monitors, hostVars>>

SpawnMonitor(c) ==
    /\ At(c, "monitor")
    /\ monitors' = monitors \cup
          {[request |-> call[c].request, id |-> call[c].id, started |-> FALSE]}
    /\ call' = IF call[c].wait = "completion" THEN Goto(c, "wait") ELSE Return(c)
    /\ UNCHANGED <<storeVars, deliverer, hostVars>>

\* finish_failed, whose save is not checked.
FinishFailed(c) ==
    /\ At(c, "fail")
    /\ Update(call[c].request, [op[call[c].request] EXCEPT !.state = "failed"])
    /\ Saved \/ NotSaved
    /\ call' = Woken(Return(c))
    /\ UNCHANGED <<attempts, deliverer, monitors, hostVars>>

\* wait_for_ready, wait_for_completion: look, and sleep until notified.
Finished(o, wait) ==
    \/ o.state = "failed"
    \/ wait = "ready" /\ o.state = "ready"
    \/ wait = "completion" /\ o.task \in {"completed", "failed"}

Wait(c) ==
    /\ At(c, "wait")
    /\ call' = IF Finished(op[call[c].request], call[c].wait) THEN Return(c)
               ELSE Goto(c, "asleep")
    /\ UNCHANGED <<storeVars, deliverer, monitors, hostVars>>

----------------------------------------------------------------------------
\* The monitor of an agent (task_monitor.rs).

\* Mutant: the waiters are notified only of what was saved, as in mark_delivery.
UpdateTaskWhenSaved(m, task) ==
    /\ Update(m.request, [op[m.request] EXCEPT !.task = task])
    /\ \/ Saved /\ call' = Woken(call)
       \/ NotSaved /\ UNCHANGED call
    /\ UNCHANGED <<attempts, deliverer, hostVars>>

\* update_task, by the id of the request; its error is only logged.
UpdateTask(m, task) ==
    /\ Update(m.request, [op[m.request] EXCEPT !.task = task])
    /\ Saved \/ NotSaved
    /\ call' = Woken(call)
    /\ UNCHANGED <<attempts, deliverer, hostVars>>

AgentWorks(m) ==
    /\ UpdateTask(m, "running")
    /\ monitors' = (monitors \ {m}) \cup {[m EXCEPT !.started = TRUE]}

AgentWaits(m) == m.started /\ UpdateTask(m, "waiting") /\ UNCHANGED monitors

AgentCompletes(m) ==
    m.started /\ UpdateTask(m, "completed") /\ monitors' = monitors \ {m}

\* Mutant: the monitor goes on after a failure.
AgentFailsAndStays(m) == UpdateTask(m, "failed") /\ UNCHANGED monitors

\* An error of the agent, the exit of its terminal or the end of the stream.
AgentFails(m) == UpdateTask(m, "failed") /\ monitors' = monitors \ {m}

MonitorStep(m) == AgentWorks(m) \/ AgentWaits(m) \/ AgentCompletes(m) \/ AgentFails(m)

----------------------------------------------------------------------------
\* merge and remove, one at a time.

CallDelivery(c, step, id) ==
    /\ At(c, "idle") /\ id \in 1..attempts
    /\ call' = [call EXCEPT
          ![c] = [step |-> step, request |-> Nobody, id |-> id, wait |-> "ready"]]
    /\ UNCHANGED <<storeVars, deliverer, monitors, hostVars>>

\* operation_for_delivery: the operations with this id.
Found(id) == {r \in Requests : op[r].id = id}

Mergeable(o) == o.state = "ready" /\ o.task = "completed" /\ o.delivery = "none"

\* Mutant: a completed task is enough.
RemovableWhenCompleted(o) == o.task = "completed" /\ o.delivery # "removed"

Removable(o) == o.delivery = "merged"

\* Takes delivery_lock and looks; what is done already, or may not be done
\* yet, returns at once.
Lookup(c, here, next, allowed) ==
    /\ At(c, here) /\ deliverer = Nobody
    /\ IF allowed
       THEN call' = Goto(c, next) /\ deliverer' = c
       ELSE call' = Return(c) /\ UNCHANGED deliverer
    /\ UNCHANGED <<storeVars, monitors, hostVars>>

LookupMerge(c) ==
    Lookup(c, "merge", "mergeHost", \E r \in Found(call[c].id) : Mergeable(op[r]))
LookupRemove(c) ==
    Lookup(c, "remove", "removeHost", \E r \in Found(call[c].id) : Removable(op[r]))

MergeHost(c) ==
    /\ At(c, "mergeHost")
    /\ merged' = merged \cup {call[c].id}
    /\ call' = Goto(c, "mergeMark")
    /\ UNCHANGED <<storeVars, deliverer, monitors, there, gone>>

RemoveHost(c) ==
    /\ At(c, "removeHost")
    /\ gone' = gone \cup {call[c].id}
    /\ there' = there \ {call[c].id}
    /\ call' = Goto(c, "removeMark")
    /\ UNCHANGED <<storeVars, deliverer, monitors, merged>>

\* The host reports an error, before or after it did the work: what follows
\* the merge or the removal in the host can fail on its own.
DeliveryFails(c) ==
    /\ \/ At(c, "mergeHost") /\ merged' \in {merged, merged \cup {call[c].id}}
          /\ UNCHANGED <<there, gone>>
       \/ At(c, "removeHost") /\ gone' \in {gone, gone \cup {call[c].id}}
          /\ there' = there \ gone' /\ UNCHANGED merged
    /\ deliverer' = Nobody
    /\ call' = Return(c)
    /\ UNCHANGED <<storeVars, monitors>>

\* mark_delivery: notifies only when the save succeeds.
Mark(c, here, delivery) ==
    /\ At(c, here)
    /\ \E r \in Found(call[c].id) : Update(r, [op[r] EXCEPT !.delivery = delivery])
    /\ \/ Saved /\ call' = Woken(Return(c))
       \/ NotSaved /\ call' = Return(c)
    /\ deliverer' = Nobody
    /\ UNCHANGED <<attempts, monitors, hostVars>>

MarkMerged(c) == Mark(c, "mergeMark", "merged")
MarkRemoved(c) == Mark(c, "removeMark", "removed")

----------------------------------------------------------------------------
\* Mutant: a task that waited for its user is not given up.
RecoveredWaiting(o) ==
    IF o.state \in {"creating", "starting"} THEN [o EXCEPT !.state = "failed"]
    ELSE IF o.state = "ready" /\ o.task \in Unfinished \ {"waiting"}
         THEN [o EXCEPT !.task = "failed"]
         ELSE o

\* The runtime stops; OperationStore::open fails what was under way.
Recovered(o) ==
    IF o.state \in {"creating", "starting"} THEN [o EXCEPT !.state = "failed"]
    ELSE IF o.state = "ready" /\ o.task \in Unfinished
         THEN [o EXCEPT !.task = "failed"]
         ELSE o

Crash ==
    /\ faults < MaxFaults /\ faults' = faults + 1
    /\ op' = [r \in Requests |-> Recovered(disk[r])]
    /\ disk' = op'
    /\ call' = [c \in Callers |-> Idle]
    /\ deliverer' = Nobody
    /\ monitors' = {}
    /\ UNCHANGED <<attempts, hostVars>>

----------------------------------------------------------------------------
CreateStep(c) ==
    \/ ClaimExisting(c) \/ Claim(c) \/ ClaimNotSaved(c) \/ CreateWorktree(c)
    \/ MarkStarting(c) \/ CreateTerminal(c) \/ HostFails(c) \/ MarkReady(c)
    \/ SpawnMonitor(c) \/ FinishFailed(c) \/ Wait(c)

DeliveryStep(c) ==
    \/ LookupMerge(c) \/ MergeHost(c) \/ MarkMerged(c)
    \/ LookupRemove(c) \/ RemoveHost(c) \/ MarkRemoved(c) \/ DeliveryFails(c)

Next ==
    \/ \E c \in Callers, r \in Requests, wait \in {"ready", "completion"} : CallCreate(c, r, wait)
    \/ \E c \in Callers, id \in Attempts :
          CallDelivery(c, "merge", id) \/ CallDelivery(c, "remove", id)
    \/ \E c \in Callers : CreateStep(c) \/ DeliveryStep(c)
    \/ \E m \in monitors : MonitorStep(m)
    \/ Crash

Spec == Init /\ [][Next]_vars

\* The threads run; an agent completes, fails or ends with its terminal.
Fairness ==
    /\ \A c \in Callers : WF_vars(CreateStep(c)) /\ WF_vars(DeliveryStep(c))
    /\ WF_vars(\E m \in monitors : AgentCompletes(m) \/ AgentFails(m))

FairSpec == Spec /\ Fairness

----------------------------------------------------------------------------
\* The state is well formed; the lock is held by a delivery under way, and no
\* thread sleeps on what is settled.
TypeOK ==
    /\ op \in [Requests -> Ops] /\ disk \in [Requests -> Ops]
    /\ attempts \in 0..MaxAttempts
    /\ \A c \in Callers :
          /\ call[c].step \in {"idle"} \cup CreateSteps \cup DeliverySteps
          /\ call[c].step \in {"mergeHost", "mergeMark", "removeHost", "removeMark"}
                <=> deliverer = c
    /\ deliverer \in Callers \cup {Nobody}
    /\ monitors \subseteq [request : Requests, id : Attempts, started : BOOLEAN]
    /\ there \subseteq Attempts /\ merged \subseteq Attempts /\ gone \subseteq Attempts

\* What is recorded of a delivery is true of the repository, in memory and in
\* the file, and a worktree goes only once its work was merged: over the
\* calls of several threads, failed saves and restarts in between.
DeliveryIsTrue ==
    /\ \A o \in {op[r] : r \in Requests} \cup {disk[r] : r \in Requests} :
          /\ o.delivery # "none" => o.id \in merged
          /\ o.delivery = "removed" => o.id \in gone
    /\ gone \subseteq merged

\* An operation that is not finished has a thread or a monitor at work on it,
\* so that those who wait for it do not wait for ever.
Working(o) == o.id # 0 /\ o.state # "failed" /\ o.task \in Unfinished

UnfinishedHasWorker ==
    \A r \in Requests : Working(op[r]) =>
        \/ \E c \in Callers : /\ call[c].step \in CreateSteps \ {"claim", "wait", "asleep"}
                              /\ call[c].request = r /\ call[c].id = op[r].id
        \/ \E m \in monitors : m.request = r /\ m.id = op[r].id

\* A monitor knows its operation only by the id of the request, which a later
\* operation may have: it still watches the operation that stands there.
MonitorWatchesOwn ==
    \A m \in monitors : op[m.request].id = m.id /\ op[m.request].state = "ready"

\* Who waits for an operation gets an answer.
WaiterReturns ==
    \A c \in Callers : call[c].step \in {"wait", "asleep"} ~> call[c].step = "idle"

----------------------------------------------------------------------------
\* The promise, of the operations in memory.
Phase(o) ==
    IF o.id = 0 THEN "none"
    ELSE IF o.delivery # "none" THEN o.delivery
    ELSE IF o.state = "failed" \/ o.task = "failed" THEN "failed"
    ELSE IF o.task = "completed" THEN "completed"
    ELSE "working"

Life == INSTANCE AgentWorktreeLife WITH phase <- [r \in Requests |-> Phase(op[r])]

\* The operations keep the promise.
KeepsPromise == Life!Spec
============================================================================
