------------------------- MODULE MemoryQueueProofs -------------------------
(***************************************************************************)
(* For any number of rows and workers, a running row has a worker unless a *)
(* statement was locked out (RunningHasWorker), and a settled row comes    *)
(* back only under a worker that had picked it (SettledStaysSettled).  The *)
(* first is inductive with the types: whoever stops working on a row       *)
(* writes its status in the same step or is noted in locked.               *)
(*                                                                         *)
(* MemoryEnqueue takes steps of the queue only, so this holds of it too.   *)
(* For any number of scans, what they mark as seen is extracted            *)
(* (SeenIsExtracted): the invariant says of every version a scan has       *)
(* enqueued, and of the one marked as seen, that the row is done only if   *)
(* an extraction has read that far, and that whoever works on the row has  *)
(* read that far as well.                                                  *)
(***************************************************************************)
EXTENDS MemoryEnqueue, TLAPS

Inv == TypeOK /\ RunningHasWorker

LEMMA IdleHolding == Idle \in Holdings
  BY DEF Idle, Holdings

LEMMA InitInv == Init => Inv
  BY QueueAssumption, IdleHolding DEF Init, Inv, TypeOK, RunningHasWorker, Rows, Statuses

\* A statement that writes statuses keeps the types if it removes no row.
LEMMA StatusesType ==
  ASSUME TypeOK, NEW new \in [Tasks -> Statuses], SetStatuses(new),
         \A t \in Rows : new[t] # "absent"
  PROVE  /\ status' \in [Tasks -> Statuses]
         /\ Rows \subseteq Rows'
         /\ locked' \subseteq Tasks
  BY DEF TypeOK, SetStatuses, Rows

\* A row that is stamped comes after every other row.
LEMMA StampedOrder ==
  ASSUME TypeOK, NEW t \in Tasks, older' = Stamped(t),
         Rows \subseteq Rows', t \in Rows'
  PROVE  /\ older' \subseteq Rows' \X Rows'
         /\ \A a, b \in Tasks : <<a, b>> \in older' => <<b, a>> \notin older'
  <1>1. older' \subseteq Rows' \X Rows'
    BY DEF TypeOK, Stamped
  <1>2. ASSUME NEW a \in Tasks, NEW b \in Tasks, <<a, b>> \in older', <<b, a>> \in older'
        PROVE  FALSE
    <2>1. CASE a = t
      BY <1>2, <2>1 DEF TypeOK, Stamped
    <2>2. CASE b = t
      BY <1>2, <2>2 DEF TypeOK, Stamped
    <2>3. CASE a # t /\ b # t
      BY <1>2, <2>3 DEF TypeOK, Stamped
    <2> QED
      BY <2>1, <2>2, <2>3
  <1> QED
    BY <1>1, <1>2

LEMMA StepInv == Inv /\ [Next]_vars => Inv'
  <1> SUFFICES ASSUME Inv, [Next]_vars
               PROVE  Inv'
    OBVIOUS
  <1> USE QueueAssumption
  <1>0. TypeOK /\ RunningHasWorker
    BY DEF Inv
  <1>1. ASSUME NEW t \in Tasks, Enqueue(t) \/ Retry(t)
        PROVE  Inv'
    <2>1. SetStatuses([status EXCEPT ![t] = "pending"]) /\ older' = Stamped(t)
          /\ UNCHANGED <<worker, up>>
      BY <1>1 DEF Enqueue, Retry, SetStatus
    <2>2. [status EXCEPT ![t] = "pending"] \in [Tasks -> Statuses]
      BY <1>0 DEF TypeOK, Statuses
    <2>3. status' = [status EXCEPT ![t] = "pending"]
      BY <2>1 DEF SetStatuses
    <2>4. status' \in [Tasks -> Statuses] /\ Rows \subseteq Rows' /\ locked' \subseteq Tasks
      BY <1>0, <2>1, <2>2, StatusesType DEF TypeOK, Rows
    <2>5. t \in Rows'
      BY <1>0, <2>3 DEF TypeOK, Rows
    <2>6. TypeOK'
      BY <1>0, <2>1, <2>4, <2>5, StampedOrder DEF TypeOK
    <2>7. RunningHasWorker'
      BY <1>0, <2>1, <2>3 DEF TypeOK, RunningHasWorker, SetStatuses
    <2> QED
      BY <2>6, <2>7 DEF Inv
  <1>2. ASSUME NEW new \in [Tasks -> Statuses], SetStatuses(new),
               UNCHANGED <<older, worker>>, up',
               \A t \in Rows : new[t] # "absent",
               \A t \in Tasks : new[t] = "running" => up /\ status[t] = "running"
        PROVE  Inv'
    <2>1. status' \in [Tasks -> Statuses] /\ Rows \subseteq Rows' /\ locked' \subseteq Tasks
      BY <1>0, <1>2, StatusesType
    <2>2. TypeOK'
      BY <1>0, <1>2, <2>1 DEF TypeOK
    <2>3. RunningHasWorker'
      BY <1>0, <1>2 DEF RunningHasWorker, SetStatuses
    <2> QED
      BY <2>2, <2>3 DEF Inv
  <1>3. ASSUME NEW t \in Tasks, Clear(t)
        PROVE  Inv'
    <2>1. [status EXCEPT ![t] = "cleared"] \in [Tasks -> Statuses]
      BY <1>0 DEF TypeOK, Statuses
    <2> QED
      BY <1>0, <1>2, <1>3, <2>1 DEF Clear, SetStatus, TypeOK, Rows
  <1>4. CASE ClearFailures
    <2> DEFINE new == [u \in Tasks |-> IF status[u] = "failed" THEN "cleared" ELSE status[u]]
    <2>1. new \in [Tasks -> Statuses]
      BY <1>0 DEF TypeOK, Statuses
    <2> QED
      BY <1>0, <1>2, <1>4, <2>1 DEF ClearFailures, TypeOK, Rows
  <1>5. CASE Cancel
    <2> DEFINE new == [u \in Tasks |->
                         IF status[u] \in {"pending", "running"} THEN "failed" ELSE status[u]]
    <2>1. new \in [Tasks -> Statuses]
      BY <1>0 DEF TypeOK, Statuses
    <2> QED
      BY <1>0, <1>2, <1>5, <2>1 DEF Cancel, TypeOK, Rows
  <1>6. ASSUME NEW w \in Workers, Pick(w)
        PROVE  Inv'
    <2>1. PICK t \in Tasks : /\ status[t] = "pending"
                             /\ worker' = [worker EXCEPT ![w] = [task |-> t, step |-> "picked"]]
      BY <1>6 DEF Pick, OldestPending
    <2>2. TypeOK'
      <3>1. [task |-> t, step |-> "picked"] \in Holdings
        BY DEF Holdings
      <3> QED
        BY <1>0, <1>6, <2>1, <3>1 DEF Pick, TypeOK, Rows, queueVars
    <2>3. RunningHasWorker'
      BY <1>0, <1>6, <2>1 DEF Pick, RunningHasWorker, queueVars, Idle
    <2> QED
      BY <2>2, <2>3 DEF Inv
  <1>7. ASSUME NEW w \in Workers, GiveUp(w)
        PROVE  Inv'
    <2>1. TypeOK'
      BY <1>0, <1>7, IdleHolding DEF GiveUp, Rests, TypeOK, Rows, queueVars
    <2>2. RunningHasWorker'
      BY <1>0, <1>7 DEF GiveUp, Holds, Rests, RunningHasWorker, queueVars
    <2> QED
      BY <2>1, <2>2 DEF Inv
  <1>8. ASSUME NEW w \in Workers, Holds(w, "picked") \/ Holds(w, "working")
        PROVE  worker[w] # Idle /\ worker[w].task \in Rows
    BY <1>0, <1>8 DEF Holds, Idle, TypeOK
  <1>9. ASSUME NEW w \in Workers, MarkRunning(w)
        PROVE  Inv'
    <2> DEFINE t == worker[w].task
    <2>1. t \in Rows /\ worker[w] # Idle
      BY <1>8, <1>9 DEF MarkRunning
    <2>2. [status EXCEPT ![t] = "running"] \in [Tasks -> Statuses]
      BY <1>0 DEF TypeOK, Statuses
    <2>3. status' = [status EXCEPT ![t] = "running"]
      BY <1>9 DEF MarkRunning, SetStatus, SetStatuses
    <2>4. status' \in [Tasks -> Statuses] /\ Rows \subseteq Rows' /\ locked' \subseteq Tasks
      BY <1>0, <1>9, <2>2, StatusesType DEF MarkRunning, SetStatus, TypeOK, Rows
    <2>5. worker' = [worker EXCEPT ![w].step = "working"]
      BY <1>9 DEF MarkRunning
    <2>6. ASSUME NEW v \in Workers
          PROVE  worker'[v] = Idle \/ (worker'[v].task \in Rows' /\ worker'[v].step # "idle")
      <3>1. CASE v = w
        BY <1>0, <2>1, <2>4, <2>5, <3>1 DEF TypeOK, Holdings
      <3>2. CASE v # w
        BY <1>0, <2>4, <2>5, <3>2 DEF TypeOK
      <3> QED
        BY <3>1, <3>2
    <2>7. TypeOK'
      <3>1. [worker[w] EXCEPT !.step = "working"] \in Holdings
        BY <1>0 DEF TypeOK, Holdings
      <3>2. worker' \in [Workers -> Holdings]
        BY <1>0, <2>5, <3>1 DEF TypeOK
      <3> QED
        BY <1>0, <1>9, <2>4, <2>6, <3>2 DEF MarkRunning, TypeOK
    <2>8. RunningHasWorker'
      <3>1. worker'[w] = [task |-> t, step |-> "working"]
        BY <1>0, <2>5 DEF TypeOK, Holdings
      <3>2. locked' = {u \in locked : status'[u] = "running"}
        BY <1>9 DEF MarkRunning, SetStatus, SetStatuses
      <3>3. ASSUME NEW u \in Tasks, u # t, status'[u] = "running", up'
            PROVE  u \in locked' \/ \E v \in Workers : worker'[v] = [task |-> u, step |-> "working"]
        <4>1. status[u] = "running" /\ up
          BY <1>0, <1>9, <2>3, <3>3 DEF MarkRunning, TypeOK
        <4>2. CASE u \in locked
          BY <3>2, <3>3, <4>2
        <4>3. ASSUME NEW v \in Workers, worker[v] = [task |-> u, step |-> "working"]
              PROVE  worker'[v] = worker[v]
          BY <1>0, <1>9, <2>5, <3>3, <4>3 DEF TypeOK
        <4> QED
          BY <1>0, <4>1, <4>2, <4>3 DEF RunningHasWorker
      <3> QED
        BY <3>1, <3>3 DEF RunningHasWorker
    <2> QED
      BY <2>7, <2>8 DEF Inv
  <1>10. ASSUME NEW w \in Workers, NEW outcome \in {"done", "failed", "pending"},
                WriteOutcome(w, outcome)
         PROVE  Inv'
    <2> DEFINE t == worker[w].task
    <2>1. t \in Rows /\ worker[w] # Idle
      BY <1>8, <1>10 DEF WriteOutcome
    <2>2. [status EXCEPT ![t] = outcome] \in [Tasks -> Statuses]
      BY <1>0 DEF TypeOK, Statuses
    <2>3. status' = [status EXCEPT ![t] = outcome]
      BY <1>10 DEF WriteOutcome, SetStatus, SetStatuses
    <2>4. status' \in [Tasks -> Statuses] /\ Rows \subseteq Rows' /\ locked' \subseteq Tasks
      BY <1>0, <1>10, <2>2, StatusesType DEF WriteOutcome, SetStatus, TypeOK, Rows
    <2>5. TypeOK'
      BY <1>0, <1>10, <2>4, IdleHolding DEF WriteOutcome, Rests, TypeOK
    <2>6. RunningHasWorker'
      BY <1>0, <1>10, <2>1, <2>3
        DEF WriteOutcome, Rests, RunningHasWorker, SetStatus, SetStatuses, TypeOK
    <2> QED
      BY <2>5, <2>6 DEF Inv
  <1>11. ASSUME NEW w \in Workers, OutcomeLocked(w)
         PROVE  Inv'
    <2>1. TypeOK'
      BY <1>0, <1>11, IdleHolding DEF OutcomeLocked, Rests, TypeOK, Rows
    <2>2. RunningHasWorker'
      BY <1>0, <1>11 DEF OutcomeLocked, Rests, RunningHasWorker, TypeOK
    <2> QED
      BY <2>1, <2>2 DEF Inv
  <1>12. CASE Crash
    BY <1>0, <1>12, IdleHolding DEF Crash, Inv, TypeOK, RunningHasWorker, Rows, queueVars
  <1>13. CASE Start
    <2>1. CASE SetStatuses(Recovered)
      <3>1. Recovered \in [Tasks -> Statuses]
        BY <1>0 DEF TypeOK, Statuses, Recovered
      <3> QED
        BY <1>0, <1>2, <1>13, <2>1, <3>1 DEF Start, TypeOK, Rows, Recovered
    <2>2. CASE locked' = {t \in Tasks : status[t] = "running"} /\ UNCHANGED status
      BY <1>0, <1>13, <2>2 DEF Start, Inv, TypeOK, RunningHasWorker, Rows
    <2> QED
      BY <1>13, <2>1, <2>2 DEF Start
  <1>14. CASE UNCHANGED vars
    BY <1>0, <1>14 DEF vars, queueVars, Inv, TypeOK, RunningHasWorker, Rows
  <1> QED
    BY <1>1, <1>3, <1>4, <1>5, <1>6, <1>7, <1>9, <1>10, <1>11, <1>12, <1>13, <1>14
      DEF Next, WorkerStep, Requeue

THEOREM QueueInvariant == Spec => []Inv
  BY InitInv, StepInv, PTL DEF Spec

\* The rows, their order and what the workers hold are well formed.
THEOREM QueueTypeCorrect == Spec => []TypeOK
  BY QueueInvariant, PTL DEF Inv

\* A running row is worked on, unless a statement was locked out.
THEOREM QueueRunningHasWorker == Spec => []RunningHasWorker
  BY QueueInvariant, PTL DEF Inv

\* A done or cleared row comes back only under a worker that had picked it.
THEOREM QueueSettledStays == Spec => SettledStaysSettled
  <1>1. ASSUME TypeOK, Next, NEW t \in Tasks,
               status[t] \in {"done", "cleared"}, status'[t] # status[t]
        PROVE  \E w \in Workers : worker[w].task = t
    <2>1. ASSUME NEW u \in Tasks, Enqueue(u) \/ Retry(u) \/ Clear(u)
          PROVE  FALSE
      BY <1>1, <2>1 DEF Enqueue, Retry, Clear, SetStatus, SetStatuses, TypeOK
    <2>2. ~ClearFailures /\ ~Cancel /\ ~Crash
      BY <1>1 DEF ClearFailures, Cancel, Crash, SetStatuses, TypeOK, queueVars
    <2>3. ~Start
      BY <1>1 DEF Start, SetStatuses, Recovered, TypeOK
    <2>4. ASSUME NEW w \in Workers, WorkerStep(w)
          PROVE  worker[w].task = t
      BY <1>1, <2>4
        DEF WorkerStep, Pick, GiveUp, MarkRunning, WriteOutcome, Requeue, OutcomeLocked,
            SetStatus, SetStatuses, TypeOK, queueVars
    <2> QED
      BY <1>1, <2>1, <2>2, <2>3, <2>4 DEF Next
  <1>2. TypeOK /\ [Next]_vars
          => [\A t \in Tasks : status[t] \in {"done", "cleared"} /\ status'[t] # status[t]
                 => \E w \in Workers : worker[w].task = t]_vars
    BY <1>1
  <1> QED
    BY <1>2, QueueTypeCorrect, PTL DEF Spec, SettledStaysSettled
----------------------------------------------------------------------------
\* Where the rows come from.

\* An extraction of row t that is done has read the first n lines, and so has
\* whoever is working on it.
Covers(t, n) ==
    /\ t \in Rows
    /\ status[t] = "done" => n <= extracted
    /\ \A w \in Workers : worker[w].task = t /\ read[w] # 0 => n <= read[w]

MarksSeen(snapshot) ==
    snapshot.lines >= signalAt => Covers(snapshot.source, snapshot.lines)

\* What a scan has read so far.
ScanOK(s) ==
    /\ scan[s].source <= length /\ scan[s].lines <= length
    /\ scan[s].step \notin {"away", "checked"} => scan[s].source \in Tasks
    /\ scan[s].step \in {"counted", "allowed"} =>
          scan[s].lines \in Tasks /\ scan[s].source <= scan[s].lines
    /\ scan[s].step = "quiet" => scan[s].text < signalAt
    /\ scan[s].step = "seen" => MarksSeen(scan[s])

EInv ==
    /\ TypeOK /\ EnqueueTypeOK
    /\ \A t \in Rows : t <= length /\ (status[t] = "done" => t <= extracted)
    /\ \A w \in Workers : read[w] # 0 => worker[w].step = "working" /\ worker[w].task <= read[w]
    /\ \A s \in Scans : ScanOK(s)
    /\ seen.lines <= length /\ (skipped \/ MarksSeen(seen))

\* What holds of every step that covers are kept by.
Advances ==
    /\ Rows \subseteq Rows'
    /\ length' \in Tasks /\ length <= length' /\ signalAt' = signalAt
    /\ extracted' \in Tasks \cup {0} /\ extracted <= extracted'
    /\ \A t \in Tasks : status'[t] = "done" /\ status[t] # "done" =>
          \E w \in Workers : worker[w].task = t /\ read[w] # 0 /\ read[w] <= extracted'
    /\ \A w \in Workers : read'[w] # 0 =>
          /\ worker'[w].step = "working" /\ worker'[w].task = worker[w].task
          /\ (read[w] # 0 /\ read'[w] = read[w]) \/ read'[w] = length

LEMMA LinesAreNat == \A n \in Tasks \cup {0} : n \in Nat
  BY EnqueueAssumption DEF EnqueueAssumption

LEMMA CoversKept ==
  ASSUME EInv, TypeOK', EnqueueTypeOK', Advances,
         NEW t \in Tasks, NEW n \in Nat, n <= length, Covers(t, n)
  PROVE  Covers(t, n)'
  <1> USE LinesAreNat
  <1>1. t \in Rows'
    BY DEF Covers, Advances
  <1>2. ASSUME status'[t] = "done"
        PROVE  n <= extracted'
    <2>1. CASE status[t] = "done"
      BY <2>1 DEF Covers, Advances, EInv, EnqueueTypeOK
    <2>2. CASE status[t] # "done"
      <3>1. PICK w \in Workers : worker[w].task = t /\ read[w] # 0 /\ read[w] <= extracted'
        BY <1>2, <2>2 DEF Advances
      <3>2. n <= read[w] /\ read[w] \in Nat /\ extracted' \in Nat
        <4>1. n <= read[w]
          BY <3>1 DEF Covers
        <4>2. read[w] \in Tasks \cup {0} /\ extracted' \in Tasks \cup {0}
          BY DEF EInv, EnqueueTypeOK, Advances
        <4> QED
          BY <4>1, <4>2
      <3> QED
        BY <3>1, <3>2
    <2> QED
      BY <2>1, <2>2
  <1>3. ASSUME NEW w \in Workers, worker'[w].task = t, read'[w] # 0
        PROVE  n <= read'[w]
    BY <1>3 DEF Covers, Advances
  <1> QED
    BY <1>1, <1>2, <1>3 DEF Covers

LEMMA EnqueueInitInv == EnqueueInit => EInv
  <1> SUFFICES ASSUME EnqueueInit PROVE EInv
    OBVIOUS
  <1>1. TypeOK /\ Rows = {}
    BY InitInv DEF EnqueueInit, Inv, Init, Rows
  <1>2. 1 \in Tasks
    BY EnqueueAssumption DEF EnqueueAssumption
  <1>3. EnqueueTypeOK
    BY <1>2 DEF EnqueueInit, EnqueueTypeOK, ScanStates, ScanSteps, Away, Unseen
  <1>4. signalAt \in Nat \ {0}
    BY EnqueueAssumption DEF EnqueueInit, EnqueueAssumption
  <1> QED
    BY <1>1, <1>3, <1>4 DEF EnqueueInit, EInv, ScanOK, MarksSeen, Away, Unseen

LEMMA EInvKept ==
  ASSUME EInv, TypeOK', EnqueueTypeOK', Advances,
         \A t \in Rows' \ Rows : t <= length' /\ status'[t] # "done",
         \A s \in Scans : scan'[s] = scan[s] \/ ScanOK(s)',
         \/ seen' = seen /\ skipped' = skipped
         \/ seen'.lines <= length' /\ (skipped' \/ MarksSeen(seen)')
  PROVE  EInv'
  <1> USE LinesAreNat
  <1>0. /\ length \in Tasks /\ length \in Nat /\ length' \in Nat
        /\ extracted \in Nat /\ extracted' \in Nat
        /\ length <= length' /\ extracted <= extracted'
    BY DEF EInv, EnqueueTypeOK, Advances
  <1>1. ASSUME NEW t \in Rows'
        PROVE  t <= length' /\ (status'[t] = "done" => t <= extracted')
    <2>1. t \in Nat
      BY DEF Rows
    <2>2. CASE t \notin Rows
      BY <2>2
    <2>3. CASE t \in Rows /\ status[t] = "done"
      BY <2>1, <2>3, <1>0 DEF EInv
    <2>4. CASE t \in Rows /\ status[t] # "done"
      <3>1. t <= length'
        BY <2>1, <2>4, <1>0 DEF EInv
      <3>2. ASSUME status'[t] = "done"
            PROVE  t <= extracted'
        <4>1. PICK w \in Workers : worker[w].task = t /\ read[w] # 0 /\ read[w] <= extracted'
          BY <3>2, <2>4 DEF Advances, Rows
        <4>2. worker[w].task <= read[w] /\ read[w] \in Nat
          BY <4>1 DEF EInv, EnqueueTypeOK
        <4> QED
          BY <2>1, <4>1, <4>2, <1>0
      <3> QED
        BY <3>1, <3>2
    <2> QED
      BY <2>2, <2>3, <2>4
  <1>2. ASSUME NEW w \in Workers, read'[w] # 0
        PROVE  worker'[w].step = "working" /\ worker'[w].task <= read'[w]
    <2>1. CASE read[w] # 0 /\ read'[w] = read[w]
      BY <1>2, <2>1 DEF Advances, EInv
    <2>2. CASE read'[w] = length
      <3>1. /\ worker'[w].step = "working" /\ worker'[w].task = worker[w].task
            /\ worker[w] \in Holdings /\ (worker[w] = Idle \/ worker[w].task \in Rows)
        BY <1>2 DEF Advances, EInv, TypeOK
      <3>2. worker[w].task <= length
        BY <3>1, <1>0, EnqueueAssumption DEF EInv, Idle, EnqueueAssumption
      <3> QED
        BY <2>2, <3>1, <3>2
    <2> QED
      BY <1>2, <2>1, <2>2 DEF Advances
  <1>3. ASSUME NEW n \in Tasks \cup {0}, NEW t \in Tasks \cup {0}, n <= length,
               n >= signalAt => Covers(t, n)
        PROVE  n >= signalAt' => Covers(t, n)'
    <2>1. signalAt' = signalAt
      BY DEF Advances
    <2>2. Covers(t, n) => Covers(t, n)'
      BY <1>3, CoversKept DEF Covers, Rows
    <2> QED
      BY <1>3, <2>1, <2>2
  <1>4. ASSUME NEW s \in Scans
        PROVE  ScanOK(s)'
    <2>1. /\ ScanOK(s)
          /\ scan[s].lines \in Tasks \cup {0} /\ scan[s].source \in Tasks \cup {0}
          /\ scan[s].lines \in Nat /\ scan[s].source \in Nat
      BY LinesAreNat DEF EInv, EnqueueTypeOK, ScanStates
    <2>2. CASE scan'[s] = scan[s]
      <3>1. scan[s].step = "seen" => MarksSeen(scan[s])'
        BY <2>1, <2>2, <1>3 DEF ScanOK, MarksSeen
      <3>2. scan[s].source <= length' /\ scan[s].lines <= length'
        BY <2>1, <1>0 DEF ScanOK
      <3>3. signalAt' = signalAt
        BY DEF Advances
      <3> QED
        BY <2>1, <2>2, <3>1, <3>2, <3>3 DEF ScanOK, MarksSeen
    <2> QED
      BY <2>2
  <1>5. seen'.lines <= length' /\ (skipped' \/ MarksSeen(seen)')
    <2>1. /\ seen.lines \in Tasks \cup {0} /\ seen.source \in Tasks \cup {0}
          /\ seen.lines \in Nat /\ seen.lines <= length /\ (skipped \/ MarksSeen(seen))
      BY DEF EInv, EnqueueTypeOK
    <2>2. CASE seen' = seen /\ skipped' = skipped
      <3>1. MarksSeen(seen) => MarksSeen(seen)'
        BY <2>1, <2>2, <1>3 DEF MarksSeen
      <3> QED
        BY <2>1, <2>2, <3>1, <1>0
    <2> QED
      BY <2>2
  <1> QED
    BY <1>1, <1>2, <1>4, <1>5 DEF EInv

Resting == {Away, [Away EXCEPT !.step = "checked"]}

\* A step that neither grows, reads, marks nor extracts anything.
LEMMA SourceStays ==
  ASSUME EInv, TypeOK', UNCHANGED <<length, signalAt, seen, extracted, skipped>>,
         \A t \in Tasks : status'[t] = "absent" <=> status[t] = "absent",
         \A t \in Tasks : status'[t] = "done" => status[t] = "done",
         read' \in [Workers -> Tasks \cup {0}],
         \A w \in Workers : read'[w] # 0 => read'[w] = read[w] /\ worker'[w] = worker[w],
         scan' \in [Scans -> Resting] \/ scan' = scan
           \/ \E s \in Scans : \E to \in Resting : Moves(s, to)
  PROVE  EInv'
  <1>1. EnqueueTypeOK'
    <2>1. scan' \in [Scans -> ScanStates]
      BY DEF EInv, EnqueueTypeOK, Away, Resting, Moves, ScanStates, ScanSteps
    <2> QED
      BY <2>1 DEF EInv, EnqueueTypeOK
  <1>2. Rows' = Rows
    BY DEF Rows
  <1>3. Advances
    <2>1. /\ length' \in Tasks /\ length' <= length /\ length <= length'
          /\ extracted' \in Tasks \cup {0} /\ extracted <= extracted'
      BY LinesAreNat DEF EInv, EnqueueTypeOK
    <2>2. \A w \in Workers : read'[w] # 0 => worker'[w].step = "working"
      BY DEF EInv
    <2> QED
      BY <1>2, <2>1, <2>2 DEF Advances
  <1>4. ASSUME NEW s \in Scans, scan'[s] \in Resting
        PROVE  ScanOK(s)'
    <2>1. length' \in Nat
      BY <1>1, LinesAreNat DEF EnqueueTypeOK
    <2> QED
      BY <1>4, <2>1 DEF ScanOK, Away, Resting
  <1>5. \A s \in Scans : scan'[s] = scan[s] \/ scan'[s] \in Resting
    BY DEF EInv, EnqueueTypeOK, Moves
  <1> QED
    BY <1>1, <1>2, <1>3, <1>4, <1>5, EInvKept

\* A scan that gets on reads no row's transcript and ends no extraction.
LEMMA ScanAdvances ==
  ASSUME EInv, UNCHANGED <<length, signalAt, extracted, worker, read>>,
         Rows \subseteq Rows',
         \A t \in Tasks : status'[t] = "done" => status[t] = "done"
  PROVE  Advances
  <1>1. /\ length' \in Tasks /\ length <= length'
        /\ extracted' \in Tasks \cup {0} /\ extracted <= extracted'
    BY LinesAreNat DEF EInv, EnqueueTypeOK
  <1>2. \A w \in Workers : read'[w] # 0 => worker'[w].step = "working"
    BY DEF EInv
  <1> QED
    BY <1>1, <1>2 DEF Advances

LEMMA ScanMoves ==
  ASSUME EInv, TypeOK', Advances, NEW s \in Scans, NEW to, Moves(s, to),
         UNCHANGED <<length, signalAt, extracted, worker, read>>, skipped' \in BOOLEAN,
         to \in ScanStates,
         \A t \in Rows' \ Rows : t <= length' /\ status'[t] # "done",
         ScanOK(s)',
         \/ seen' = seen /\ skipped' = skipped
         \/ /\ seen' \in [lines : Tasks \cup {0}, source : Tasks \cup {0}]
            /\ seen'.lines <= length' /\ (skipped' \/ MarksSeen(seen)')
  PROVE  EInv'
  <1>1. EnqueueTypeOK'
    BY DEF EInv, EnqueueTypeOK, Moves
  <1>2. \A u \in Scans : scan'[u] = scan[u] \/ u = s
    BY DEF EInv, EnqueueTypeOK, Moves
  <1> QED
    BY <1>1, <1>2, EInvKept

LEMMA ScanStepInv ==
  ASSUME EInv, TypeOK', NEW s \in Scans, ScanStep(s)
  PROVE  EInv'
  <1>1. /\ scan \in [Scans -> ScanStates] /\ scan[s] \in ScanStates /\ ScanOK(s)
        /\ read \in [Workers -> Tasks \cup {0}] /\ skipped \in BOOLEAN
        /\ length \in Tasks /\ length \in Nat /\ signalAt \in Nat /\ signalAt # 0
    BY LinesAreNat, EnqueueAssumption DEF EInv, EnqueueTypeOK, EnqueueAssumption
  <1>2. /\ scan[s].source \in Nat /\ scan[s].lines \in Nat /\ scan[s].text \in Nat
        /\ scan[s].source <= length /\ scan[s].lines <= length
    BY <1>1, LinesAreNat DEF ScanOK, ScanStates
  <1>3. ASSUME NEW to \in ScanStates, Moves(s, to), ScanOK(s)',
               UNCHANGED <<vars, length, signalAt, seen, read, extracted, skipped>>
        PROVE  EInv'
    <2>1. Advances /\ Rows' = Rows
      BY <1>3, ScanAdvances DEF vars, queueVars, Rows
    <2> QED
      BY <1>1, <1>3, <2>1, ScanMoves DEF vars, queueVars
  <1>4. ASSUME NEW to \in ScanStates, Moves(s, to)
        PROVE  scan'[s] = to
    BY <1>1, <1>4 DEF Moves
  <1>5. CASE CheckActive(s) \/ ScanEnds(s)
    <2>1. \E to \in Resting : Moves(s, to)
      BY <1>5 DEF CheckActive, ScanEnds, Leaves, Resting
    <2> QED
      BY <1>1, <1>5, <2>1, SourceStays
        DEF CheckActive, ScanEnds, vars, queueVars
  <1>6. CASE ReadSource(s)
    <2> DEFINE to == [Away EXCEPT !.step = "sourced", !.source = length]
    <2>1. to.step = "sourced" /\ to.source = length /\ to.lines = 0
      BY DEF Away
    <2>2. Moves(s, to) /\ UNCHANGED <<vars, length, signalAt, seen, read, extracted, skipped>>
      BY <1>6, <2>1 DEF ReadSource
    <2>3. to \in ScanStates
      BY <1>1 DEF Away, ScanStates, ScanSteps
    <2>4. ScanOK(s)'
      <3>1. scan'[s].step = "sourced" /\ scan'[s].source = length /\ scan'[s].lines = 0
        BY <1>4, <2>1, <2>2, <2>3
      <3>2. length' = length /\ length \in Tasks /\ length \in Nat
        BY <1>1, <2>2, EnqueueAssumption DEF EnqueueAssumption
      <3> QED
        BY <3>1, <3>2 DEF ScanOK
    <2> QED
      BY <1>3, <2>2, <2>3, <2>4
  <1>7. CASE ReadText(s)
    <2> DEFINE to == [scan[s] EXCEPT !.step = "texted", !.text = length]
    <2>1. Moves(s, to) /\ UNCHANGED <<vars, length, signalAt, seen, read, extracted, skipped>>
      BY <1>7 DEF ReadText
    <2>2. to \in ScanStates
      BY <1>1 DEF ScanStates, ScanSteps
    <2>3. /\ scan'[s].step = "texted" /\ scan'[s].source = scan[s].source
          /\ scan'[s].lines = scan[s].lines
      BY <1>1, <1>4, <2>1, <2>2 DEF ScanStates
    <2>4. scan[s].source \in Tasks
      BY <1>1, <1>7 DEF ReadText, Step, ScanOK
    <2>5. ScanOK(s)'
      BY <1>2, <2>1, <2>3, <2>4 DEF ScanOK
    <2> QED
      BY <1>3, <2>1, <2>2, <2>5
  <1>8. CASE CountLines(s)
    <2> DEFINE to == [scan[s] EXCEPT !.step = "counted", !.lines = length]
    <2>1. Moves(s, to) /\ UNCHANGED <<vars, length, signalAt, seen, read, extracted, skipped>>
      BY <1>8 DEF CountLines
    <2>2. to \in ScanStates
      BY <1>1 DEF ScanStates, ScanSteps
    <2>3. /\ scan'[s].step = "counted" /\ scan'[s].source = scan[s].source
          /\ scan'[s].lines = length
      BY <1>1, <1>4, <2>1, <2>2 DEF ScanStates
    <2>4. scan[s].source \in Tasks
      BY <1>1, <1>8 DEF CountLines, Step, ScanOK
    <2>5. ScanOK(s)'
      BY <1>1, <1>2, <2>1, <2>3, <2>4 DEF ScanOK
    <2> QED
      BY <1>3, <2>1, <2>2, <2>5
  <1>9. CASE Gate(s)
    <2>1. UNCHANGED <<vars, length, signalAt, seen, read, extracted, skipped>>
      BY <1>9 DEF Gate
    <2>2. /\ scan[s].source \in Tasks /\ scan[s].lines \in Tasks
          /\ scan[s].source <= scan[s].lines
      BY <1>1, <1>9 DEF Gate, Step, ScanOK
    <2>3. CASE Refuse(s)
      BY <1>1, <2>1, <2>3, SourceStays DEF Refuse, Leaves, Resting, vars, queueVars
    <2>4. CASE Quiet(s)
      <3> DEFINE to == [scan[s] EXCEPT !.step = "quiet"]
      <3>1. to \in ScanStates
        BY <1>1 DEF ScanStates, ScanSteps
      <3>2. /\ scan'[s].step = "quiet" /\ scan'[s].source = scan[s].source
            /\ scan'[s].lines = scan[s].lines /\ scan'[s].text = scan[s].text
        BY <1>1, <1>4, <2>4, <3>1 DEF Quiet, ScanStates
      <3>3. ScanOK(s)'
        BY <1>2, <2>1, <2>2, <2>4, <3>2 DEF Quiet, ScanOK
      <3> QED
        BY <1>3, <2>1, <2>4, <3>1, <3>3 DEF Quiet
    <2>5. CASE Allow(s)
      <3> DEFINE to == [scan[s] EXCEPT !.step = "allowed", !.text = 0]
      <3>1. to \in ScanStates
        BY <1>1 DEF ScanStates, ScanSteps
      <3>2. /\ scan'[s].step = "allowed" /\ scan'[s].source = scan[s].source
            /\ scan'[s].lines = scan[s].lines
        BY <1>1, <1>4, <2>5, <3>1 DEF Allow, ScanStates
      <3>3. ScanOK(s)'
        BY <1>2, <2>1, <2>2, <3>2 DEF ScanOK
      <3> QED
        BY <1>3, <2>1, <2>5, <3>1, <3>3 DEF Allow
    <2> QED
      BY <1>9, <2>3, <2>4, <2>5 DEF Gate
  <1>10. CASE EnqueueRow(s)
    <2>1. PICK t \in Tasks, n \in Tasks :
            scan[s].source = t /\ scan[s].lines = n /\ t <= n
      BY <1>1, <1>10 DEF EnqueueRow, Step, ScanOK
    <2>2. UNCHANGED <<length, signalAt, seen, read, extracted, skipped, worker>>
      BY <1>10 DEF EnqueueRow, Enqueue, vars
    <2>3. ASSUME NEW step \in {"seen", "beyond"},
                 Moves(s, [scan[s] EXCEPT !.step = step]),
                 step = "seen" => Covers(t, n)'
          PROVE  /\ [scan[s] EXCEPT !.step = step] \in ScanStates
                 /\ ScanOK(s)'
      <3> DEFINE to == [scan[s] EXCEPT !.step = step]
      <3>1. to \in ScanStates
        BY <1>1 DEF ScanStates, ScanSteps
      <3>2. scan'[s].step = step /\ scan'[s].source = t /\ scan'[s].lines = n
        BY <1>1, <1>4, <2>1, <2>3, <3>1 DEF ScanStates
      <3> QED
        BY <1>2, <2>1, <2>2, <2>3, <3>1, <3>2 DEF ScanOK, MarksSeen
    <2>4. CASE Enqueue(t) /\ Moves(s, [scan[s] EXCEPT !.step = "seen"])
      <3>1. status[t] = "absent" /\ status' = [status EXCEPT ![t] = "pending"]
        BY <2>4 DEF Enqueue, SetStatus, SetStatuses
      <3>2. Rows' = Rows \cup {t} /\ status'[t] = "pending"
        BY <2>1, <3>1 DEF Rows, EInv, TypeOK
      <3>3. \A u \in Tasks : status'[u] = "done" => status[u] = "done"
        BY <3>1 DEF EInv, TypeOK
      <3>4. Advances
        BY <2>2, <3>1, <3>2, <3>3, ScanAdvances
      <3>5. \A w \in Workers : worker[w].task # t
        BY <2>1, <3>1, QueueAssumption DEF EInv, TypeOK, Rows, Idle
      <3>6. Covers(t, n)'
        BY <2>2, <3>2, <3>5 DEF Covers
      <3>7. \A u \in Rows' \ Rows : u <= length' /\ status'[u] # "done"
        BY <1>2, <2>1, <2>2, <3>2, LinesAreNat
      <3> QED
        BY <1>1, <2>2, <2>3, <2>4, <3>4, <3>6, <3>7, ScanMoves
    <2>5. CASE status[t] # "absent" /\ UNCHANGED vars
      <3>1. Rows' = Rows /\ \A u \in Tasks : status'[u] = status[u]
        BY <2>5 DEF Rows, vars, queueVars
      <3>2. UNCHANGED <<vars, length, signalAt, seen, read, extracted, skipped>>
        BY <2>2, <2>5
      <3>3. CASE n > t
        <4>1. Moves(s, [scan[s] EXCEPT !.step = "beyond"])
          BY <1>10, <2>1, <2>5, <3>3 DEF EnqueueRow, Enqueue
        <4> QED
          BY <1>3, <2>3, <3>2, <4>1
      <3>4. CASE n = t
        <4>1. Moves(s, [scan[s] EXCEPT !.step = "seen"])
          BY <1>10, <2>1, <2>5, <3>4, LinesAreNat DEF EnqueueRow, Enqueue
        <4>2. t \in Rows /\ (status[t] = "done" => t <= extracted)
          BY <2>1, <2>5 DEF EInv, Rows
        <4>3. \A w \in Workers : worker[w].task = t /\ read[w] # 0 => t <= read[w]
          BY DEF EInv
        <4>4. Covers(t, n)'
          BY <2>2, <3>1, <3>4, <4>2, <4>3 DEF Covers
        <4> QED
          BY <1>3, <2>3, <3>2, <4>1, <4>4
      <3> QED
        BY <2>1, <3>3, <3>4, LinesAreNat
    <2> QED
      BY <1>10, <2>1, <2>4, <2>5 DEF EnqueueRow
  <1>11. CASE UpdateSource(s)
    <2>1. /\ Moves(s, Away)
          /\ seen' = [lines |-> scan[s].lines, source |-> scan[s].source]
          /\ UNCHANGED <<vars, length, signalAt, read, extracted>>
      BY <1>11 DEF UpdateSource, Leaves
    <2>2. Away \in ScanStates
      BY DEF Away, ScanStates, ScanSteps
    <2>3. Rows' = Rows /\ \A u \in Tasks : status'[u] = status[u]
      BY <2>1 DEF Rows, vars, queueVars
    <2>4. Advances
      BY <2>1, <2>3, ScanAdvances DEF vars
    <2>5. scan'[s] = Away
      BY <1>4, <2>1, <2>2
    <2>6. ScanOK(s)'
      BY <1>1, <2>1, <2>5 DEF ScanOK, Away
    <2>7. PICK t \in Tasks \cup {0}, n \in Tasks \cup {0} :
            scan[s].source = t /\ scan[s].lines = n
      BY <1>1 DEF ScanStates
    <2>8. seen' = [lines |-> n, source |-> t] /\ n <= length'
      BY <1>1, <1>2, <2>1, <2>7
    <2>9. Covers(t, n) => Covers(t, n)'
      BY <2>1, <2>3 DEF Covers, Rows, vars
    <2>10. skipped' \in BOOLEAN
      BY <1>11, Zenon DEF UpdateSource
    <2>11. skipped' \/ MarksSeen(seen)'
      <3>1. CASE scan[s].step = "seen"
        BY <1>1, <2>1, <2>7, <2>8, <2>9, <3>1 DEF MarksSeen, ScanOK
      <3>2. CASE scan[s].step = "beyond"
        BY <1>11, <3>2 DEF UpdateSource, Step
      <3>3. CASE scan[s].step = "quiet" /\ n > scan[s].text
        BY <1>11, <2>7, <3>3 DEF UpdateSource, Step
      <3>4. CASE scan[s].step = "quiet" /\ ~(n > scan[s].text)
        <4>1. ~(n >= signalAt)
          BY <1>1, <1>2, <2>7, <3>4 DEF ScanOK
        <4> QED
          BY <2>1, <2>8, <4>1 DEF MarksSeen
      <3> QED
        BY <1>11, <3>1, <3>2, <3>3, <3>4 DEF UpdateSource, Step
    <2> QED
      BY <1>1, <2>1, <2>2, <2>3, <2>4, <2>6, <2>8, <2>10, <2>11, ScanMoves DEF vars
  <1> QED
    BY <1>5, <1>6, <1>7, <1>8, <1>9, <1>10, <1>11 DEF ScanStep

\* The agent, the queue and its workers.
LEMMA OtherStepInv ==
  ASSUME EInv, TypeOK', EnqueueNext, \A s \in Scans : ~ScanStep(s)
  PROVE  EInv'
  <1>1. /\ read \in [Workers -> Tasks \cup {0}] /\ worker \in [Workers -> Holdings]
        /\ scan \in [Scans -> ScanStates]
        /\ length \in Tasks /\ length \in Nat /\ signalAt \in Tasks /\ signalAt \in Nat
        /\ extracted \in Tasks \cup {0} /\ extracted \in Nat /\ skipped \in BOOLEAN
    BY LinesAreNat DEF EInv, EnqueueTypeOK, TypeOK
  <1>2. \A w \in Workers : read[w] # 0 => worker[w].step = "working"
    BY DEF EInv
  <1>3. ASSUME NEW w \in Workers, Holds(w, "picked") \/ Holds(w, "working")
        PROVE  worker[w].task \in Rows
    BY <1>3 DEF Holds, EInv, TypeOK, Idle
  <1>4. CASE Grow
    <2>1. /\ length' \in Tasks /\ length' = length + 1
          /\ UNCHANGED <<vars, signalAt, seen, scan, read, extracted, skipped>>
      BY <1>4 DEF Grow
    <2>2. Rows' = Rows /\ \A t \in Tasks : status'[t] = status[t]
      BY <2>1 DEF Rows, vars, queueVars
    <2>3. EnqueueTypeOK'
      BY <2>1 DEF EInv, EnqueueTypeOK
    <2>4. Advances
      BY <1>1, <1>2, <2>1, <2>2 DEF Advances, vars
    <2> QED
      BY <2>1, <2>2, <2>3, <2>4, EInvKept
  <1>5. CASE UserStep
    <2>1. \A t \in Tasks : /\ status'[t] = "absent" <=> status[t] = "absent"
                           /\ status'[t] = "done" => status[t] = "done"
      BY <1>5 DEF UserStep, Retry, Clear, ClearFailures, Cancel, SetStatus, SetStatuses, EInv, TypeOK
    <2>2. UNCHANGED <<worker, sourceVars>>
      BY <1>5 DEF UserStep, Retry, Clear, ClearFailures, Cancel
    <2> QED
      BY <1>1, <2>1, <2>2, SourceStays DEF sourceVars
  <1>6. CASE Stop
    <2>1. scan' \in [Scans -> Resting] /\ read' \in [Workers -> Tasks \cup {0}]
          /\ \A w \in Workers : read'[w] = 0
      BY <1>6 DEF Stop, Resting
    <2> QED
      BY <1>6, <2>1, SourceStays DEF Stop, Crash, queueVars
  <1>7. CASE Start /\ UNCHANGED sourceVars
    <2>1. \A t \in Tasks : /\ status'[t] = "absent" <=> status[t] = "absent"
                           /\ status'[t] = "done" => status[t] = "done"
      BY <1>7 DEF Start, SetStatuses, Recovered
    <2> QED
      BY <1>1, <1>7, <2>1, SourceStays DEF Start, sourceVars
  <1>8. ASSUME NEW w \in Workers, WorkerTurn(w)
        PROVE  EInv'
    <2>1. CASE (Pick(w) \/ GiveUp(w) \/ MarkRunning(w)) /\ UNCHANGED sourceVars
      <3>1. worker[w].step # "working"
        BY <2>1 DEF Pick, GiveUp, MarkRunning, Holds, Idle
      <3>2. \A v \in Workers : read'[v] # 0 => read'[v] = read[v] /\ worker'[v] = worker[v]
        BY <1>1, <1>2, <2>1, <3>1 DEF Pick, GiveUp, MarkRunning, Rests, sourceVars
      <3>3. \A t \in Tasks : /\ status'[t] = "absent" <=> status[t] = "absent"
                             /\ status'[t] = "done" => status[t] = "done"
        BY <1>3, <2>1 DEF Pick, GiveUp, MarkRunning, SetStatus, SetStatuses, queueVars, EInv,
                          TypeOK, Rows
      <3> QED
        BY <1>1, <2>1, <3>2, <3>3, SourceStays DEF sourceVars
    <2>2. CASE ReadTranscript(w)
      <3>1. /\ Holds(w, "working") /\ read' = [read EXCEPT ![w] = length]
            /\ UNCHANGED <<vars, length, signalAt, seen, scan, extracted, skipped>>
        BY <2>2 DEF ReadTranscript
      <3>2. Rows' = Rows /\ \A t \in Tasks : status'[t] = status[t]
        BY <3>1 DEF Rows, vars, queueVars
      <3>3. EnqueueTypeOK'
        BY <1>1, <3>1 DEF EInv, EnqueueTypeOK
      <3>4. Advances
        BY <1>1, <1>2, <3>1, <3>2 DEF Advances, vars, Holds
      <3> QED
        BY <3>1, <3>2, <3>3, <3>4, EInvKept
    <2>3. CASE Extract(w) \/ ExtractLocked(w)
      <3>1. /\ read[w] # 0 /\ Holds(w, "working") /\ Rests(w)
            /\ read' = [read EXCEPT ![w] = 0]
            /\ UNCHANGED <<length, signalAt, seen, scan, skipped>>
        BY <2>3 DEF Extract, ExtractLocked, WriteOutcome, OutcomeLocked, Forgets
      <3>2. /\ extracted' \in Tasks \cup {0} /\ extracted <= extracted'
            /\ Extract(w) => read[w] <= extracted'
        <4>1. read[w] \in Tasks \cup {0} /\ read[w] \in Nat
          BY <1>1, LinesAreNat
        <4>2. /\ Longest(extracted, read[w]) \in {extracted, read[w]}
              /\ extracted <= Longest(extracted, read[w]) /\ read[w] <= Longest(extracted, read[w])
          BY <1>1, <4>1 DEF Longest
        <4>3. extracted' \in {extracted, Longest(extracted, read[w])}
          BY <2>3 DEF Extract, ExtractLocked
        <4>4. Extract(w) => extracted' = Longest(extracted, read[w])
          BY DEF Extract
        <4> QED
          BY <1>1, <4>1, <4>2, <4>3, <4>4
      <3>3. \A t \in Tasks : status'[t] = status[t]
              \/ (Extract(w) /\ worker[w].task = t /\ status'[t] = "done")
        BY <1>3, <2>3, <3>1 DEF Extract, ExtractLocked, WriteOutcome, OutcomeLocked,
                                SetStatus, SetStatuses, EInv, TypeOK, Rows
      <3>4. Rows' = Rows
        BY <1>3, <3>1, <3>3 DEF Rows
      <3>5. EnqueueTypeOK'
        BY <1>1, <3>1, <3>2 DEF EInv, EnqueueTypeOK
      <3>6. Advances
        <4>1. \A v \in Workers : read'[v] # 0 => read'[v] = read[v] /\ worker'[v] = worker[v]
          BY <1>1, <3>1 DEF Rests
        <4>2. length' \in Tasks /\ length <= length'
          BY <1>1, <3>1
        <4>3. \A t \in Tasks : status'[t] = "done" /\ status[t] # "done" =>
                worker[w].task = t /\ read[w] # 0 /\ read[w] <= extracted'
          BY <3>1, <3>2, <3>3
        <4>4. \A v \in Workers : read'[v] # 0 => worker'[v].step = "working"
          BY <1>2, <4>1
        <4> QED
          BY <3>1, <3>2, <3>4, <4>1, <4>2, <4>3, <4>4 DEF Advances
      <3> QED
        BY <3>1, <3>4, <3>5, <3>6, EInvKept
    <2>4. CASE OtherOutcome(w)
      <3>1. /\ Holds(w, "working") /\ Rests(w) /\ read' = [read EXCEPT ![w] = 0]
            /\ UNCHANGED <<length, signalAt, seen, scan, extracted, skipped>>
            /\ \E outcome \in {"failed", "pending"} : SetStatus(worker[w].task, outcome)
        BY <2>4 DEF OtherOutcome, WriteOutcome, Requeue, Forgets
      <3>2. \A v \in Workers : read'[v] # 0 => read'[v] = read[v] /\ worker'[v] = worker[v]
        BY <1>1, <3>1 DEF Rests
      <3>3. \A t \in Tasks : /\ status'[t] = "absent" <=> status[t] = "absent"
                             /\ status'[t] = "done" => status[t] = "done"
        BY <1>3, <3>1 DEF SetStatus, SetStatuses, EInv, TypeOK, Rows
      <3>4. read' \in [Workers -> Tasks \cup {0}]
        BY <1>1, <3>1
      <3> QED
        BY <3>1, <3>2, <3>3, <3>4, SourceStays
    <2> QED
      BY <1>8, <2>1, <2>2, <2>3, <2>4 DEF WorkerTurn
  <1> QED
    BY <1>4, <1>5, <1>6, <1>7, <1>8 DEF EnqueueNext

LEMMA StepIsQueueStep == EInv /\ [EnqueueNext]_allVars => [Next]_vars
  <1> SUFFICES ASSUME EInv, [EnqueueNext]_allVars PROVE [Next]_vars
    OBVIOUS
  <1>1. ASSUME NEW s \in Scans, ScanStep(s)
        PROVE  [Next]_vars
    BY <1>1 DEF ScanStep, CheckActive, ReadSource, ReadText, CountLines, Gate, Quiet, Allow, Refuse, EnqueueRow, UpdateSource, ScanEnds,
                Next, EInv, ScanOK, Step
  <1>2. ASSUME NEW w \in Workers, WorkerTurn(w)
        PROVE  [Next]_vars
    BY <1>2 DEF WorkerTurn, ReadTranscript, Extract, ExtractLocked, OtherOutcome, Next, WorkerStep
  <1>3. CASE Grow \/ UserStep \/ Stop \/ Start \/ UNCHANGED allVars
    BY <1>3 DEF Grow, UserStep, Stop, Next, allVars
  <1> QED
    BY <1>1, <1>2, <1>3 DEF EnqueueNext

THEOREM EnqueueInvariant == EnqueueSpec => [](Inv /\ EInv)
  <1>1. EnqueueInit => Inv /\ EInv
    BY InitInv, EnqueueInitInv DEF EnqueueInit
  <1>2. Inv /\ EInv /\ [EnqueueNext]_allVars => (Inv /\ EInv)'
    <2> SUFFICES ASSUME Inv, EInv, [EnqueueNext]_allVars PROVE (Inv /\ EInv)'
      OBVIOUS
    <2>1. Inv' /\ TypeOK'
      BY StepIsQueueStep, StepInv DEF Inv
    <2>2. CASE UNCHANGED allVars
      <3>1. read \in [Workers -> Tasks \cup {0}]
        BY DEF EInv, EnqueueTypeOK
      <3>2. EInv'
        BY <2>1, <2>2, <3>1, SourceStays DEF allVars, sourceVars, vars, queueVars
      <3> QED
        BY <2>1, <3>2
    <2>3. CASE EnqueueNext
      BY <2>1, <2>3, ScanStepInv, OtherStepInv
    <2> QED
      BY <2>1, <2>2, <2>3
  <1> QED
    BY <1>1, <1>2, PTL DEF EnqueueSpec

\* Scans, the agent and what the workers read take steps of the queue only, so
\* what is proved of the queue holds however its rows come to be.
THEOREM EnqueueIsQueue == EnqueueSpec => Spec
  <1>1. EnqueueInit => Init
    BY DEF EnqueueInit
  <1> QED
    BY <1>1, StepIsQueueStep, EnqueueInvariant, PTL DEF EnqueueSpec, Spec

\* What scans have marked as seen is extracted or its row says why it is not.
THEOREM EnqueueSeenIsExtracted == EnqueueSpec => []SeenIsExtracted
  <1>1. EInv => SeenIsExtracted
    <2> SUFFICES ASSUME EInv, seen.lines >= signalAt, seen.lines > extracted
                 PROVE  skipped \/ status[seen.source] \in {"pending", "running", "failed", "cleared"}
      BY DEF SeenIsExtracted
    <2>1. CASE skipped
      BY <2>1
    <2>2. CASE Covers(seen.source, seen.lines)
      <3>1. extracted \in Nat /\ seen.lines \in Nat
        BY LinesAreNat DEF EInv, EnqueueTypeOK
      <3>2. /\ seen.source \in Tasks /\ status[seen.source] # "absent"
            /\ status[seen.source] # "done" /\ status[seen.source] \in Statuses
        BY <2>2, <3>1 DEF Covers, Rows, EInv, TypeOK
      <3> QED
        BY <3>2 DEF Statuses
    <2> QED
      BY <2>1, <2>2 DEF EInv, MarksSeen
  <1> QED
    BY <1>1, EnqueueInvariant, PTL

============================================================================
