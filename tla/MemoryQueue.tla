---------------------------- MODULE MemoryQueue ----------------------------
(***************************************************************************)
(* The queue of memory extraction tasks (crates/codux-memory/src/queue).   *)
(* It is a table in SQLite: every statement is atomic and nothing spans    *)
(* two of them.  A row stands for one version of a session's transcript.   *)
(* A worker is one pass over the queue: the automatic one of the desktop,  *)
(* "process now" and each memory.extract request of a remote controller    *)
(* run their own, and nothing keeps two from running at once.  A worker    *)
(* selects the oldest pending row, marks it running in a second statement, *)
(* asks the model for as long as that takes, and writes the outcome in a   *)
(* third.  A statement that finds the database locked for longer than the  *)
(* busy timeout fails.                                                     *)
(***************************************************************************)
EXTENDS Naturals

CONSTANTS
    Tasks,          \* source fingerprints
    Workers,        \* passes over the queue that may run at once
    NoTask          \* what an idle worker holds

ASSUME QueueAssumption == NoTask \notin Tasks

VARIABLES
    status,         \* memory_extraction_queue.status of each row
    older,          \* <<a, b>>: the enqueued_at of a is before that of b
    worker,         \* what each worker holds and whether it has marked it
    up,             \* the application is running
    locked          \* running rows left behind by a statement that failed

queueVars == <<status, older, locked>>
vars == <<queueVars, worker, up>>

Statuses == {"absent", "pending", "running", "done", "failed", "cleared"}

Holdings == [task : Tasks \cup {NoTask}, step : {"idle", "picked", "working"}]
Idle == [task |-> NoTask, step |-> "idle"]

Rows == {t \in Tasks : status[t] # "absent"}

Init ==
    /\ status = [t \in Tasks |-> "absent"]
    /\ older = {}
    /\ worker = [w \in Workers |-> Idle]
    /\ up = TRUE
    /\ locked = {}

----------------------------------------------------------------------------

\* A statement that writes statuses.
SetStatuses(new) ==
    /\ status' = new
    /\ locked' = {t \in locked : new[t] = "running"}

SetStatus(t, new) == SetStatuses([status EXCEPT ![t] = new])

\* enqueued_at of a row becomes the current time.
Stamped(t) == {p \in older : p[1] # t} \cup ((Rows \ {t}) \X {t})

\* enqueue_extraction_if_needed: a fingerprint has one row, whatever its status.
Enqueue(t) ==
    /\ up
    /\ status[t] = "absent"
    /\ SetStatus(t, "pending")
    /\ older' = Stamped(t)
    /\ UNCHANGED <<worker, up>>

\* retry_failed_extraction_task, by the user.
RetryAny(t) ==
    /\ up
    /\ status[t] \in {"failed", "cleared"}
    /\ SetStatus(t, "pending")
    /\ older' = Stamped(t)
    /\ UNCHANGED <<worker, up>>
Retry(t) ==
    /\ up
    /\ status[t] = "failed"
    /\ SetStatus(t, "pending")
    /\ older' = Stamped(t)
    /\ UNCHANGED <<worker, up>>

\* clear_extraction_task, for a pending row or a failed one.
Clear(t) ==
    /\ up
    /\ status[t] \in {"pending", "failed"}
    /\ SetStatus(t, "cleared")
    /\ UNCHANGED <<older, worker, up>>

\* clear_extraction_failures.
ClearFailures ==
    /\ up
    /\ SetStatuses([t \in Tasks |-> IF status[t] = "failed" THEN "cleared" ELSE status[t]])
    /\ UNCHANGED <<older, worker, up>>

\* cancel_extraction_queue: the rows only, no worker is told.
Cancel ==
    /\ up
    /\ SetStatuses([t \in Tasks |->
          IF status[t] \in {"pending", "running"} THEN "failed" ELSE status[t]])
    /\ UNCHANGED <<older, worker, up>>

----------------------------------------------------------------------------
\* process_next_memory_extraction_task.

NewestPending(t) == status[t] = "pending" /\ \A u \in Tasks : status[u] = "pending" => <<t, u>> \notin older
OldestPending(t) == status[t] = "pending" /\ \A u \in Tasks : status[u] = "pending" => <<u, t>> \notin older

Pick(w) ==
    /\ up
    /\ worker[w] = Idle
    /\ \E t \in Tasks :
          /\ OldestPending(t)
          /\ worker' = [worker EXCEPT ![w] = [task |-> t, step |-> "picked"]]
    /\ UNCHANGED <<queueVars, up>>

Holds(w, step) == worker[w].step = step

Rests(w) == worker' = [worker EXCEPT ![w] = Idle]

\* No provider is available, or the row could not be marked.
GiveUp(w) ==
    /\ Holds(w, "picked")
    /\ Rests(w)
    /\ UNCHANGED <<queueVars, up>>

\* The update does not ask whether the row is still pending.
MarkRunning(w) ==
    /\ Holds(w, "picked")
    /\ SetStatus(worker[w].task, "running")
    /\ worker' = [worker EXCEPT ![w].step = "working"]
    /\ UNCHANGED <<older, up>>

\* The extraction is over.  The update does not look at the row either.
WriteOutcome(w, outcome) ==
    /\ Holds(w, "working")
    /\ SetStatus(worker[w].task, outcome)
    /\ Rests(w)
    /\ UNCHANGED <<older, up>>

\* requeue_extraction_task: the memories could not be written for a lock.
Requeue(w) == WriteOutcome(w, "pending")

\* That update fails for a lock itself, and the error ends the pass.
OutcomeLocked(w) ==
    /\ Holds(w, "working")
    /\ locked' = locked \cup ({worker[w].task} \cap {t \in Tasks : status[t] = "running"})
    /\ Rests(w)
    /\ UNCHANGED <<status, older, up>>

----------------------------------------------------------------------------

\* The application ends, by itself or not, with whatever its workers held.
Crash ==
    /\ up
    /\ up' = FALSE
    /\ worker' = [w \in Workers |-> Idle]
    /\ UNCHANGED queueVars

\* The desktop starts: recover_interrupted_extraction_tasks, whose error is
\* ignored, so a lock leaves the rows as they are.
RecoverNone == status
Recovered == [t \in Tasks |-> IF status[t] = "running" THEN "pending" ELSE status[t]]

Start ==
    /\ ~up
    /\ up' = TRUE
    /\ \/ SetStatuses(Recovered)
       \/ locked' = {t \in Tasks : status[t] = "running"} /\ UNCHANGED status
    /\ UNCHANGED <<older, worker>>

WorkerStep(w) ==
    \/ Pick(w)
    \/ GiveUp(w)
    \/ MarkRunning(w)
    \/ WriteOutcome(w, "done")
    \/ WriteOutcome(w, "failed")
    \/ Requeue(w)
    \/ OutcomeLocked(w)

Next ==
    \/ \E t \in Tasks : Enqueue(t) \/ Retry(t) \/ Clear(t)
    \/ ClearFailures
    \/ Cancel
    \/ \E w \in Workers : WorkerStep(w)
    \/ Crash
    \/ Start

Spec == Init /\ [][Next]_vars

\* The timer of the desktop starts a pass whenever rows are pending; a pass ends
\* (every call of the provider has a timeout); no row is without a provider
\* every time it is tried; the user starts the application again.
Marks(w, t) == worker[w].task = t /\ MarkRunning(w)

Fairness ==
    /\ WF_vars(Start)
    /\ \A w \in Workers :
          /\ WF_vars(WorkerStep(w))
          /\ \A t \in Tasks : SF_vars(Marks(w, t))

FairSpec == Spec /\ Fairness

----------------------------------------------------------------------------

TypeOK ==
    /\ status \in [Tasks -> Statuses]
    /\ older \subseteq Rows \X Rows
    /\ \A t, u \in Tasks : <<t, u>> \in older => <<u, t>> \notin older
    /\ worker \in [Workers -> Holdings]
    /\ \A w \in Workers : worker[w] = Idle \/ (worker[w].task \in Rows /\ worker[w].step # "idle")
    /\ up \in BOOLEAN
    /\ locked \subseteq Tasks

\* A row that says running is being worked on: only a crash, until the next
\* start, or a statement that was locked out leaves one behind, however
\* workers, cancellations and retries overlap on the row.
RunningHasWorker ==
    \A t \in Tasks :
        status[t] = "running" /\ up
          => t \in locked \/ \E w \in Workers : worker[w] = [task |-> t, step |-> "working"]

\* What is done or cleared stays so, except under a worker that had picked the
\* same row before: two workers, or a worker and the user, on one row.
SettledStaysSettled ==
    [][\A t \in Tasks : status[t] \in {"done", "cleared"} /\ status'[t] # status[t]
          => \E w \in Workers : worker[w].task = t]_vars

\* Once the application stays up and no more rows are requeued for a lock, every
\* pending row is extracted, fails, is cleared, or is left behind by a lock: the
\* others do not hold it up for ever, even if the user retries them again and
\* again and two workers take one row.
TaskSettles ==
    <>[]up /\ <>[][~\E w \in Workers : Requeue(w)]_vars
      => \A t \in Tasks :
            status[t] = "pending"
              ~> status[t] \in {"done", "failed", "cleared"} \/ t \in locked

\* process.rs: after a lock "requeue so the next pass retries it": no row stays
\* running when nobody works on it.
LockedRowIsRetried ==
    <>[]up => \A t \in Tasks : status[t] = "running" ~> status[t] # "running"
============================================================================
