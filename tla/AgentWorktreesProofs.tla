----------------------- MODULE AgentWorktreesProofs -----------------------
(***************************************************************************)
(* For any number of requests, threads, attempts and faults, the worktree  *)
(* operations keep the abstract life of AgentWorktreeLife.  The invariant  *)
(* follows each operation through the hands that may change it: the thread *)
(* that makes it, then the monitor of its agent, then the one delivery     *)
(* that holds the lock.  No two of them ever have one operation, and what  *)
(* the file says is an earlier state of what memory says.                  *)
(***************************************************************************)
EXTENDS AgentWorktrees, TLAPS

CallRecords == [step : {"idle"} \cup CreateSteps \cup DeliverySteps,
                request : Requests \cup {Nobody}, id : 0..MaxAttempts,
                wait : {"ready", "completion"}]
Making == {"worktree", "starting", "terminal", "ready", "monitor", "fail"}
Delivering == {"mergeHost", "mergeMark", "removeHost", "removeMark"}

\* What an operation can look like, in memory or in the file.
Valid(o) ==
    \/ o = NoOp
    \/ /\ o.id # 0
       /\ \/ o.state = "creating" /\ o.task = "none" /\ o.delivery = "none"
          \/ o.state = "starting" /\ o.task = "pending" /\ o.delivery = "none"
          \/ o.state = "failed" /\ o.task \in {"none", "pending"} /\ o.delivery = "none"
          \/ /\ o.state = "ready" /\ o.delivery = "none"
             /\ o.task \in {"pending", "running", "waiting", "failed"}
          \/ o.state = "ready" /\ o.task = "completed"

\* The saved operation s is an earlier state of the operation o.
Earlier(s, o) ==
    /\ s.id = o.id
    /\ s.task = "completed" => o.task = "completed"
    /\ s.delivery = "merged" => o.delivery # "none"
    /\ s.delivery = "removed" => o.delivery = "removed"

StoreOK ==
    /\ \A r \in Requests : /\ Valid(op[r]) /\ Valid(disk[r]) /\ Earlier(disk[r], op[r])
                           /\ op[r].id <= attempts
    /\ \A r, s \in Requests : op[r].id = op[s].id /\ op[r].id # 0 => r = s

\* Where the maker of an operation has brought it.
MadeSoFar(step, o) ==
    /\ o.id # 0 /\ o.delivery = "none"
    /\ step \in {"worktree", "starting"} => o.state = "creating"
    /\ step \in {"terminal", "ready"} => o.state = "starting"
    /\ step = "monitor" => o.state = "ready" /\ o.task = "pending"
    /\ step = "fail" => o.state \in {"creating", "starting"}

MakersOK ==
    /\ \A c \in Callers : call[c].step \in Making =>
          /\ op[call[c].request].id = call[c].id
          /\ MadeSoFar(call[c].step, op[call[c].request])
    /\ \A c, d \in Callers :
          call[c].step \in Making /\ call[d].step \in Making /\ call[c].id = call[d].id => c = d

MonitorsOK ==
    /\ \A m \in monitors : /\ op[m.request].id = m.id /\ op[m.request].state = "ready"
                           /\ op[m.request].task \in {"pending", "running", "waiting"}
    /\ \A m, n \in monitors : m.request = n.request => m = n
    /\ \A m \in monitors, c \in Callers : call[c].step \in Making => call[c].id # m.id

DeliverersOK ==
    \A c \in Callers :
        /\ call[c].step \in {"mergeHost", "mergeMark"} =>
              \E r \in Requests : op[r].id = call[c].id /\ Mergeable(op[r])
        /\ call[c].step = "mergeMark" => call[c].id \in merged
        /\ call[c].step \in {"removeHost", "removeMark"} =>
              \E r \in Requests : op[r].id = call[c].id /\ Removable(op[r])
        /\ call[c].step = "removeMark" => call[c].id \in gone

CallsOK ==
    /\ call \in [Callers -> CallRecords]
    /\ \A c \in Callers :
          /\ call[c].id <= attempts
          /\ call[c].step \in CreateSteps => call[c].request \in Requests
          /\ call[c].step \in DeliverySteps => call[c].id # 0

IInv == /\ TypeOK /\ CallsOK /\ StoreOK /\ MakersOK /\ MonitorsOK /\ DeliverersOK
        /\ DeliveryIsTrue /\ UnfinishedHasWorker

----------------------------------------------------------------------------
\* Lemmas about the operators.

LEMMA IdleIsCall == Idle \in CallRecords
  BY WorktreesAssumption DEF Idle, CallRecords

LEMMA NoOpIsOp == NoOp \in Ops
  BY WorktreesAssumption DEF NoOp, Ops, Unfinished

\* What a thread does to its call, and the waking of those that sleep.
OnlyMoves(c, new) ==
    /\ call' = [d \in Callers |-> call'[d]]
    /\ call'[c] = new
    /\ \A d \in Callers \ {c} :
          \/ call'[d] = call[d]
          \/ call[d].step = "asleep" /\ call'[d] = [call[d] EXCEPT !.step = "wait"]

LEMMA GotoMoves ==
  ASSUME CallsOK, NEW c \in Callers, NEW step,
         call' = Goto(c, step)
  PROVE  OnlyMoves(c, [call[c] EXCEPT !.step = step])
  BY DEF CallsOK, Goto, OnlyMoves, CallRecords

LEMMA ReturnMoves ==
  ASSUME CallsOK, NEW c \in Callers, call' = Return(c)
  PROVE  OnlyMoves(c, Idle)
  BY DEF CallsOK, Return, OnlyMoves, CallRecords

LEMMA WokenGotoMoves ==
  ASSUME CallsOK, NEW c \in Callers, NEW step, step # "asleep",
         call' = Woken(Goto(c, step))
  PROVE  OnlyMoves(c, [call[c] EXCEPT !.step = step])
  BY DEF CallsOK, Goto, OnlyMoves, Woken, CallRecords

LEMMA WokenReturnMoves ==
  ASSUME CallsOK, NEW c \in Callers, call' = Woken(Return(c))
  PROVE  OnlyMoves(c, Idle)
  BY DEF CallsOK, Return, OnlyMoves, Woken, CallRecords, Idle

LEMMA WokenStays ==
  ASSUME CallsOK, call' = Woken(call), NEW c \in Callers
  PROVE  \/ call'[c] = call[c]
         \/ call[c].step = "asleep" /\ call'[c] = [call[c] EXCEPT !.step = "wait"]
  BY DEF CallsOK, Woken, CallRecords

\* Whoever else a step wakes was asleep and now waits.
LEMMA OthersWake ==
  ASSUME CallsOK, NEW c \in Callers, NEW new, OnlyMoves(c, new), NEW d \in Callers
  PROVE  \/ d = c
         \/ call'[d] = call[d]
         \/ /\ call[d].step = "asleep" /\ call'[d].step = "wait"
            /\ call'[d].request = call[d].request /\ call'[d].id = call[d].id
            /\ call'[d] \in CallRecords
  <1>1. call[d] \in CallRecords
    BY DEF CallsOK
  <1> QED
    BY <1>1 DEF OnlyMoves, CallRecords, CreateSteps

\* The calls stay well formed if the one that moves does.
LEMMA CallsStay ==
  ASSUME CallsOK, NEW c \in Callers, NEW new \in CallRecords, OnlyMoves(c, new),
         attempts' >= attempts, attempts \in Nat, attempts' \in Nat,
         new.id <= attempts',
         new.step \in CreateSteps => new.request \in Requests,
         new.step \in DeliverySteps => new.id # 0
  PROVE  CallsOK'
  <1>1. ASSUME NEW d \in Callers
        PROVE  /\ call'[d] \in CallRecords /\ call'[d].id <= attempts'
               /\ call'[d].step \in CreateSteps => call'[d].request \in Requests
               /\ call'[d].step \in DeliverySteps => call'[d].id # 0
    <2>1. \/ d = c
          \/ call'[d] = call[d]
          \/ /\ call[d].step = "asleep" /\ call'[d].step = "wait"
             /\ call'[d].request = call[d].request /\ call'[d].id = call[d].id
             /\ call'[d] \in CallRecords
      BY OthersWake
    <2>2. call'[c] = new
      BY DEF OnlyMoves
    <2>3. /\ call[d].id <= attempts /\ call[d].id \in Nat /\ call[d] \in CallRecords
          /\ call[d].step \in CreateSteps => call[d].request \in Requests
          /\ call[d].step \in DeliverySteps => call[d].id # 0
      BY WorktreesAssumption DEF CallsOK, CallRecords
    <2> QED
      BY <2>1, <2>2, <2>3 DEF CreateSteps, DeliverySteps
  <1> QED
    BY <1>1 DEF CallsOK, OnlyMoves

\* A thread that delivers nothing leaves the deliveries and their lock alone.
LEMMA DeliveryStays ==
  ASSUME IInv, NEW c \in Callers, NEW new \in CallRecords, OnlyMoves(c, new),
         call[c].step \notin Delivering, new.step \notin Delivering,
         UNCHANGED <<deliverer, merged, gone>>,
         \A r \in Requests :
            \/ op'[r] = op[r]
            \/ op'[r].delivery = "none" /\ ~Mergeable(op[r]) /\ ~Removable(op[r]),
         disk' = op' \/ disk' = disk
  PROVE  /\ DeliverersOK' /\ DeliveryIsTrue'
         /\ \A d \in Callers : call'[d].step \in Delivering <=> deliverer' = d
  <1>1. \A d \in Callers : \/ d = c
                           \/ call'[d] = call[d]
                           \/ call[d].step \notin Delivering /\ call'[d].step \notin Delivering
    <2> TAKE d \in Callers
    <2>1. \/ d = c
          \/ call'[d] = call[d]
          \/ call[d].step = "asleep" /\ call'[d].step = "wait"
      BY OthersWake DEF IInv
    <2> QED
      BY <2>1 DEF Delivering
  <1>2. \A d \in Callers : call[d].step \in Delivering <=> deliverer = d
    BY DEF IInv, TypeOK, Delivering
  <1>3. \A d \in Callers : call'[d].step \in Delivering <=> deliverer' = d
    BY <1>1, <1>2 DEF OnlyMoves
  <1>4. DeliverersOK'
    BY <1>1 DEF OnlyMoves, IInv, DeliverersOK, Delivering, Mergeable, Removable
  <1>5. DeliveryIsTrue'
    BY DEF IInv, DeliveryIsTrue
  <1> QED
    BY <1>3, <1>4, <1>5

\* A step that changes no operation, and hands none on, keeps the work done.
LEMMA WorkStays ==
  ASSUME IInv, NEW c \in Callers, NEW new, OnlyMoves(c, new),
         UNCHANGED <<op, disk, attempts, monitors>>,
         new.step \in Making <=> call[c].step \in Making,
         new.step \in Making => /\ new.request = call[c].request /\ new.id = call[c].id
                                /\ MadeSoFar(new.step, op[call[c].request])
  PROVE  StoreOK' /\ MakersOK' /\ MonitorsOK' /\ UnfinishedHasWorker'
  <1>1. \A d \in Callers : \/ d = c
                           \/ call'[d] = call[d]
                           \/ call[d].step \notin Making /\ call'[d].step \notin Making
    <2> TAKE d \in Callers
    <2>1. \/ d = c
          \/ call'[d] = call[d]
          \/ call[d].step = "asleep" /\ call'[d].step = "wait"
      BY OthersWake DEF IInv
    <2> QED
      BY <2>1 DEF Making
  <1>2. StoreOK'
    BY DEF IInv, StoreOK
  <1>3. MakersOK'
    BY <1>1 DEF OnlyMoves, IInv, MakersOK
  <1>4. MonitorsOK'
    BY <1>1 DEF OnlyMoves, IInv, MonitorsOK
  <1>5. UnfinishedHasWorker'
    <2>1. CreateSteps \ {"claim", "wait", "asleep"} = Making
      BY DEF CreateSteps, Making
    <2> QED
      BY <1>1, <2>1 DEF OnlyMoves, IInv, UnfinishedHasWorker, Working
  <1> QED
    BY <1>2, <1>3, <1>4, <1>5

\* The types of a state after a step, from those of its calls.
LEMMA TypesStay ==
  ASSUME CallsOK',
         \A d \in Callers : call'[d].step \in Delivering <=> deliverer' = d,
         op' \in [Requests -> Ops], disk' \in [Requests -> Ops],
         attempts' \in 0..MaxAttempts, deliverer' \in Callers \cup {Nobody},
         monitors' \subseteq [request : Requests, id : Attempts, started : BOOLEAN],
         there' \subseteq Attempts, merged' \subseteq Attempts, gone' \subseteq Attempts
  PROVE  TypeOK'
  <1>1. \A d \in Callers : call'[d].step \in {"idle"} \cup CreateSteps \cup DeliverySteps
    BY DEF CallsOK, CallRecords
  <1> QED
    BY <1>1 DEF TypeOK, Delivering

\* A step that touches neither an operation, nor a monitor, nor a delivery.
LEMMA QuietKeeps ==
  ASSUME IInv, NEW c \in Callers, NEW new \in CallRecords, OnlyMoves(c, new),
         UNCHANGED <<op, disk, attempts, deliverer, monitors, merged, gone>>,
         there' \subseteq Attempts,
         call[c].step \notin Delivering, new.step \notin Delivering,
         new.id <= attempts,
         new.step \in CreateSteps => new.request \in Requests,
         new.step \in DeliverySteps => new.id # 0,
         new.step \in Making <=> call[c].step \in Making,
         new.step \in Making => /\ new.request = call[c].request /\ new.id = call[c].id
                                /\ MadeSoFar(new.step, op[call[c].request])
  PROVE  IInv'
  <1>1. /\ attempts \in Nat /\ attempts' \in Nat /\ attempts' >= attempts
        /\ new.id <= attempts' /\ CallsOK
    BY WorktreesAssumption DEF IInv, TypeOK
  <1>2. CallsOK'
    BY <1>1, CallsStay
  <1>3. /\ DeliverersOK' /\ DeliveryIsTrue'
        /\ \A d \in Callers : call'[d].step \in Delivering <=> deliverer' = d
    BY DeliveryStays
  <1>4. StoreOK' /\ MakersOK' /\ MonitorsOK' /\ UnfinishedHasWorker'
    BY WorkStays
  <1>5. TypeOK'
    BY <1>2, <1>3, TypesStay DEF IInv, TypeOK
  <1> QED
    BY <1>2, <1>3, <1>4, <1>5 DEF IInv

----------------------------------------------------------------------------
\* The steps that change no operation.

LEMMA CallCreateKeeps ==
  ASSUME IInv, NEW c \in Callers, NEW r \in Requests, NEW wait \in {"ready", "completion"},
         CallCreate(c, r, wait)
  PROVE  IInv'
  <1> DEFINE new == [step |-> "claim", request |-> r, id |-> 0, wait |-> wait]
  <1>1. new \in CallRecords
    BY WorktreesAssumption DEF CallRecords, CreateSteps
  <1>2. OnlyMoves(c, new)
    BY DEF CallCreate, OnlyMoves, IInv, CallsOK
  <1>3. call[c].step = "idle" /\ new.id <= attempts
    BY WorktreesAssumption DEF CallCreate, At, IInv, TypeOK
  <1>4. /\ UNCHANGED <<op, disk, attempts, deliverer, monitors, merged, gone>>
        /\ there' \subseteq Attempts
    BY DEF CallCreate, storeVars, hostVars, IInv, TypeOK
  <1> HIDE DEF new
  <1> QED
    BY <1>1, <1>2, <1>3, <1>4, QuietKeeps DEF new, Making, Delivering, CreateSteps, DeliverySteps

LEMMA ClaimExistingKeeps ==
  ASSUME IInv, NEW c \in Callers, ClaimExisting(c)
  PROVE  IInv'
  <1>1. PICK s \in Requests : call' = [call EXCEPT ![c].step = "wait", ![c].request = s]
    BY DEF ClaimExisting, Existing, IInv, CallsOK, At, CreateSteps
  <1> DEFINE new == [call[c] EXCEPT !.step = "wait", !.request = s]
  <1>2. call[c] \in CallRecords /\ call[c].step = "claim" /\ call[c].id <= attempts
    BY DEF ClaimExisting, At, IInv, CallsOK
  <1>3. new \in CallRecords /\ new.step = "wait" /\ new.request = s /\ new.id = call[c].id
    BY <1>2 DEF CallRecords, CreateSteps
  <1>4. OnlyMoves(c, new)
    BY <1>1 DEF OnlyMoves, IInv, CallsOK
  <1>5. /\ UNCHANGED <<op, disk, attempts, deliverer, monitors, merged, gone>>
        /\ there' \subseteq Attempts
    BY DEF ClaimExisting, storeVars, hostVars, IInv, TypeOK
  <1> HIDE DEF new
  <1> QED
    BY <1>2, <1>3, <1>4, <1>5, QuietKeeps DEF Making, Delivering, CreateSteps, DeliverySteps

\* What is known of a call at any time.
LEMMA CallFacts ==
  ASSUME IInv, NEW c \in Callers
  PROVE  /\ call[c] \in CallRecords /\ call[c].id <= attempts
         /\ attempts \in 0..MaxAttempts /\ attempts \in Nat /\ CallsOK
         /\ call[c].step \in CreateSteps => call[c].request \in Requests
         /\ call[c].step \in DeliverySteps => call[c].id # 0
         /\ call[c].id # 0 => call[c].id \in Attempts
         /\ call[c].step \in Making =>
               /\ call[c].request \in Requests
               /\ op[call[c].request].id = call[c].id
               /\ MadeSoFar(call[c].step, op[call[c].request])
  BY WorktreesAssumption
  DEF IInv, TypeOK, CallsOK, CallRecords, MakersOK, Making, CreateSteps, Attempts

\* A thread that returns without a trace.
LEMMA ReturnKeeps ==
  ASSUME IInv, NEW c \in Callers, call' = Return(c),
         call[c].step \notin Delivering, call[c].step \notin Making,
         UNCHANGED <<op, disk, attempts, deliverer, monitors, there, merged, gone>>
  PROVE  IInv'
  <1>1. OnlyMoves(c, Idle)
    BY ReturnMoves DEF IInv
  <1>2. there' \subseteq Attempts /\ Idle \in CallRecords /\ Idle.id <= attempts
        /\ Idle.step = "idle"
    BY IdleIsCall, WorktreesAssumption DEF IInv, TypeOK, Idle
  <1> QED
    BY <1>1, <1>2, QuietKeeps DEF Making, Delivering, CreateSteps, DeliverySteps

LEMMA ClaimNotSavedKeeps ==
  ASSUME IInv, NEW c \in Callers, ClaimNotSaved(c)
  PROVE  IInv'
  BY ReturnKeeps DEF ClaimNotSaved, NotSaved, At, Making, Delivering, hostVars

\* A step of a maker that only brings it further.
LEMMA MakerMoves ==
  ASSUME IInv, NEW c \in Callers, NEW step \in Making, call' = Goto(c, step),
         call[c].step \in Making, MadeSoFar(step, op[call[c].request]),
         UNCHANGED <<op, disk, attempts, deliverer, monitors, merged, gone>>,
         there' \subseteq Attempts
  PROVE  IInv'
  <1> DEFINE new == [call[c] EXCEPT !.step = step]
  <1>1. OnlyMoves(c, new)
    BY GotoMoves DEF IInv
  <1>2. /\ new \in CallRecords /\ new.step = step /\ new.request = call[c].request
        /\ new.id = call[c].id /\ call[c].id <= attempts /\ call[c].request \in Requests
    BY CallFacts DEF CallRecords, CreateSteps, Making
  <1> HIDE DEF new
  <1> QED
    BY <1>1, <1>2, QuietKeeps DEF Making, Delivering, CreateSteps, DeliverySteps

LEMMA CreateWorktreeKeeps ==
  ASSUME IInv, NEW c \in Callers, CreateWorktree(c)
  PROVE  IInv'
  <1>1. call[c].step = "worktree" /\ call[c].id # 0
    BY CallFacts DEF CreateWorktree, At, Making, MadeSoFar
  <1>2. there' \subseteq Attempts
    BY <1>1, CallFacts DEF CreateWorktree, IInv, TypeOK
  <1>3. MadeSoFar("starting", op[call[c].request])
    BY <1>1, CallFacts DEF MadeSoFar, Making
  <1> QED
    BY <1>1, <1>2, <1>3, MakerMoves DEF CreateWorktree, storeVars, Making

LEMMA CreateTerminalKeeps ==
  ASSUME IInv, NEW c \in Callers, CreateTerminal(c)
  PROVE  IInv'
  <1>1. call[c].step = "terminal" /\ there' \subseteq Attempts
    BY DEF CreateTerminal, At, hostVars, IInv, TypeOK
  <1>2. MadeSoFar("ready", op[call[c].request])
    BY <1>1, CallFacts DEF MadeSoFar, Making
  <1> QED
    BY <1>1, <1>2, MakerMoves DEF CreateTerminal, storeVars, hostVars, Making

LEMMA HostFailsKeeps ==
  ASSUME IInv, NEW c \in Callers, HostFails(c)
  PROVE  IInv'
  <1>1. call[c].step \in {"worktree", "terminal"} /\ there' \subseteq Attempts
    BY DEF HostFails, At, hostVars, IInv, TypeOK
  <1>2. MadeSoFar("fail", op[call[c].request])
    BY <1>1, CallFacts DEF MadeSoFar, Making
  <1> QED
    BY <1>1, <1>2, MakerMoves DEF HostFails, storeVars, hostVars, Making

LEMMA WaitKeeps ==
  ASSUME IInv, NEW c \in Callers, Wait(c)
  PROVE  IInv'
  <1>1. call[c].step = "wait"
    BY DEF Wait, At
  <1>2. CASE call' = Return(c)
    BY <1>1, <1>2, ReturnKeeps DEF Wait, storeVars, hostVars, Making, Delivering
  <1>3. CASE call' = Goto(c, "asleep")
    <2> DEFINE new == [call[c] EXCEPT !.step = "asleep"]
    <2>1. OnlyMoves(c, new)
      BY <1>3, GotoMoves DEF IInv
    <2>2. /\ new \in CallRecords /\ new.step = "asleep" /\ new.request \in Requests
          /\ new.id <= attempts
      BY <1>1, CallFacts DEF CallRecords, CreateSteps
    <2>3. there' \subseteq Attempts
      BY DEF Wait, hostVars, IInv, TypeOK
    <2> HIDE DEF new
    <2> QED
      BY <1>1, <2>1, <2>2, <2>3, QuietKeeps
      DEF Wait, storeVars, hostVars, Making, Delivering, CreateSteps, DeliverySteps
  <1> QED
    BY <1>2, <1>3 DEF Wait

LEMMA CallDeliveryKeeps ==
  ASSUME IInv, NEW c \in Callers, NEW step \in {"merge", "remove"}, NEW id,
         CallDelivery(c, step, id)
  PROVE  IInv'
  <1> DEFINE new == [step |-> step, request |-> Nobody, id |-> id, wait |-> "ready"]
  <1>1. attempts \in Nat /\ attempts <= MaxAttempts
    BY WorktreesAssumption DEF IInv, TypeOK
  <1>2. /\ call[c].step = "idle" /\ id \in 1..attempts
        /\ UNCHANGED <<op, disk, attempts, deliverer, monitors, merged, gone>>
        /\ there' \subseteq Attempts
    BY DEF CallDelivery, At, storeVars, hostVars, IInv, TypeOK
  <1>3. /\ new \in CallRecords /\ new.step = step /\ new.id = id
        /\ new.id <= attempts /\ new.id # 0
    <2>1. id \in 0..MaxAttempts /\ id <= attempts /\ id # 0
      BY <1>1, <1>2, WorktreesAssumption
    <2> QED
      BY <2>1 DEF CallRecords, DeliverySteps
  <1>4. OnlyMoves(c, new)
    BY DEF CallDelivery, OnlyMoves, IInv, CallsOK
  <1> HIDE DEF new
  <1> QED
    BY <1>2, <1>3, <1>4, QuietKeeps DEF Making, Delivering, CreateSteps, DeliverySteps

----------------------------------------------------------------------------
\* Deliveries.

\* A step of the thread that takes, holds or lets go of the lock, which leaves
\* the operations alone.
LEMMA LockedKeeps ==
  ASSUME IInv, NEW c \in Callers, NEW new \in CallRecords, OnlyMoves(c, new),
         UNCHANGED <<op, disk, attempts, monitors>>,
         call[c].step \notin Making, new.step \notin CreateSteps,
         deliverer \in {c, Nobody}, deliverer' \in {c, Nobody},
         new.step \in Delivering <=> deliverer' = c,
         new.id <= attempts, new.step \in DeliverySteps => new.id # 0,
         there' \subseteq Attempts, merged' \subseteq Attempts, gone' \subseteq Attempts,
         merged \subseteq merged', gone \subseteq gone', gone' \subseteq merged',
         new.step \in {"mergeHost", "mergeMark"} =>
            \E r \in Requests : op[r].id = new.id /\ Mergeable(op[r]),
         new.step = "mergeMark" => new.id \in merged',
         new.step \in {"removeHost", "removeMark"} =>
            \E r \in Requests : op[r].id = new.id /\ Removable(op[r]),
         new.step = "removeMark" => new.id \in gone'
  PROVE  IInv'
  <1>1. CallsOK'
    BY CallFacts, CallsStay
  <1>2. StoreOK' /\ MakersOK' /\ MonitorsOK' /\ UnfinishedHasWorker'
    BY WorkStays DEF Making, CreateSteps
  <1>3. \A d \in Callers : d # c => call'[d].step \notin Delivering
    <2> SUFFICES ASSUME NEW d \in Callers, d # c PROVE call'[d].step \notin Delivering
      OBVIOUS
    <2>1. call[d].step \notin Delivering
      BY WorktreesAssumption DEF IInv, TypeOK, Delivering
    <2>2. call'[d] = call[d] \/ call'[d].step = "wait"
      BY OthersWake DEF IInv
    <2> QED
      BY <2>1, <2>2 DEF Delivering
  <1>4. call'[c] = new
    BY DEF OnlyMoves
  <1>5. \A d \in Callers : call'[d].step \in Delivering <=> deliverer' = d
    BY <1>3, <1>4, WorktreesAssumption
  <1>6. DeliverersOK'
    BY <1>3, <1>4 DEF DeliverersOK, Delivering
  <1>7. DeliveryIsTrue'
    BY DEF IInv, DeliveryIsTrue
  <1>8. TypeOK'
    BY <1>1, <1>5, TypesStay DEF IInv, TypeOK
  <1> QED
    BY <1>1, <1>2, <1>6, <1>7, <1>8 DEF IInv

LEMMA LookupMergeKeeps ==
  ASSUME IInv, NEW c \in Callers, LookupMerge(c)
  PROVE  IInv'
  <1>1. /\ call[c].step = "merge" /\ deliverer = Nobody /\ gone \subseteq merged
        /\ UNCHANGED <<op, disk, attempts, monitors, there, merged, gone>>
        /\ there \subseteq Attempts /\ merged \subseteq Attempts /\ gone \subseteq Attempts
    BY DEF LookupMerge, Lookup, At, storeVars, hostVars, IInv, TypeOK, DeliveryIsTrue
  <1>2. CASE call' = Return(c) /\ UNCHANGED deliverer
    BY <1>1, <1>2, ReturnKeeps DEF Making, Delivering
  <1>3. CASE /\ call' = Goto(c, "mergeHost") /\ deliverer' = c
             /\ \E r \in Found(call[c].id) : Mergeable(op[r])
    <2> DEFINE new == [call[c] EXCEPT !.step = "mergeHost"]
    <2>1. OnlyMoves(c, new)
      BY <1>3, GotoMoves DEF IInv
    <2>2. /\ new \in CallRecords /\ new.step = "mergeHost" /\ new.id = call[c].id
          /\ new.id <= attempts /\ new.id # 0
      BY <1>1, CallFacts DEF CallRecords, DeliverySteps
    <2>3. \E r \in Requests : op[r].id = new.id /\ Mergeable(op[r])
      BY <1>3, <2>2 DEF Found
    <2> HIDE DEF new
    <2> QED
      BY <1>1, <1>3, <2>1, <2>2, <2>3, LockedKeeps, WorktreesAssumption
      DEF Making, Delivering, CreateSteps
  <1> QED
    BY <1>2, <1>3 DEF LookupMerge, Lookup

LEMMA LookupRemoveKeeps ==
  ASSUME IInv, NEW c \in Callers, LookupRemove(c)
  PROVE  IInv'
  <1>1. /\ call[c].step = "remove" /\ deliverer = Nobody /\ gone \subseteq merged
        /\ UNCHANGED <<op, disk, attempts, monitors, there, merged, gone>>
        /\ there \subseteq Attempts /\ merged \subseteq Attempts /\ gone \subseteq Attempts
    BY DEF LookupRemove, Lookup, At, storeVars, hostVars, IInv, TypeOK, DeliveryIsTrue
  <1>2. CASE call' = Return(c) /\ UNCHANGED deliverer
    BY <1>1, <1>2, ReturnKeeps DEF Making, Delivering
  <1>3. CASE /\ call' = Goto(c, "removeHost") /\ deliverer' = c
             /\ \E r \in Found(call[c].id) : Removable(op[r])
    <2> DEFINE new == [call[c] EXCEPT !.step = "removeHost"]
    <2>1. OnlyMoves(c, new)
      BY <1>3, GotoMoves DEF IInv
    <2>2. /\ new \in CallRecords /\ new.step = "removeHost" /\ new.id = call[c].id
          /\ new.id <= attempts /\ new.id # 0
      BY <1>1, CallFacts DEF CallRecords, DeliverySteps
    <2>3. \E r \in Requests : op[r].id = new.id /\ Removable(op[r])
      BY <1>3, <2>2 DEF Found
    <2> HIDE DEF new
    <2> QED
      BY <1>1, <1>3, <2>1, <2>2, <2>3, LockedKeeps, WorktreesAssumption
      DEF Making, Delivering, CreateSteps
  <1> QED
    BY <1>2, <1>3 DEF LookupRemove, Lookup

\* What a thread that delivers knows of its operation.
LEMMA DelivererFacts ==
  ASSUME IInv, NEW c \in Callers, call[c].step \in Delivering
  PROVE  /\ deliverer = c /\ call[c].id \in Attempts /\ call[c].step \notin Making
         /\ call[c].step \in {"mergeHost", "mergeMark"} =>
               \E r \in Requests : op[r].id = call[c].id /\ Mergeable(op[r])
         /\ call[c].step \in {"removeHost", "removeMark"} =>
               \E r \in Requests : op[r].id = call[c].id /\ Removable(op[r])
         /\ call[c].step \in {"removeHost", "removeMark"} => call[c].id \in merged
  <1>1. deliverer = c /\ call[c].step \notin Making
    BY DEF IInv, TypeOK, Delivering, Making
  <1>2. call[c].id \in Attempts
    BY CallFacts DEF Delivering, DeliverySteps
  <1> QED
    BY <1>1, <1>2 DEF IInv, DeliverersOK, DeliveryIsTrue, Removable

LEMMA MergeHostKeeps ==
  ASSUME IInv, NEW c \in Callers, MergeHost(c)
  PROVE  IInv'
  <1> DEFINE new == [call[c] EXCEPT !.step = "mergeMark"]
  <1>1. call[c].step = "mergeHost" /\ merged' = merged \cup {call[c].id}
    BY DEF MergeHost, At
  <1>2. /\ deliverer = c /\ call[c].id \in Attempts
        /\ \E r \in Requests : op[r].id = call[c].id /\ Mergeable(op[r])
    BY <1>1, DelivererFacts DEF Delivering
  <1>3. OnlyMoves(c, new)
    BY GotoMoves DEF MergeHost, IInv
  <1>4. /\ new \in CallRecords /\ new.step = "mergeMark" /\ new.id = call[c].id
        /\ new.id <= attempts /\ new.id # 0
    BY <1>1, CallFacts DEF CallRecords, DeliverySteps
  <1>5. /\ there \subseteq Attempts /\ merged' \subseteq Attempts /\ gone \subseteq Attempts
        /\ gone \subseteq merged' /\ UNCHANGED <<op, disk, attempts, monitors, deliverer, there, gone>>
    BY <1>1, <1>2 DEF MergeHost, storeVars, IInv, TypeOK, DeliveryIsTrue
  <1> HIDE DEF new
  <1> QED
    BY <1>1, <1>2, <1>3, <1>4, <1>5, LockedKeeps DEF Making, Delivering, CreateSteps

LEMMA RemoveHostKeeps ==
  ASSUME IInv, NEW c \in Callers, RemoveHost(c)
  PROVE  IInv'
  <1> DEFINE new == [call[c] EXCEPT !.step = "removeMark"]
  <1>1. call[c].step = "removeHost" /\ gone' = gone \cup {call[c].id}
    BY DEF RemoveHost, At
  <1>2. /\ deliverer = c /\ call[c].id \in Attempts /\ call[c].id \in merged
        /\ \E r \in Requests : op[r].id = call[c].id /\ Removable(op[r])
    BY <1>1, DelivererFacts DEF Delivering
  <1>3. OnlyMoves(c, new)
    BY GotoMoves DEF RemoveHost, IInv
  <1>4. /\ new \in CallRecords /\ new.step = "removeMark" /\ new.id = call[c].id
        /\ new.id <= attempts /\ new.id # 0
    BY <1>1, CallFacts DEF CallRecords, DeliverySteps
  <1>5. /\ there' \subseteq Attempts /\ merged \subseteq Attempts /\ gone' \subseteq Attempts
        /\ gone' \subseteq merged /\ UNCHANGED <<op, disk, attempts, monitors, deliverer, merged>>
    BY <1>1, <1>2 DEF RemoveHost, storeVars, IInv, TypeOK, DeliveryIsTrue
  <1> HIDE DEF new
  <1> QED
    BY <1>1, <1>2, <1>3, <1>4, <1>5, LockedKeeps DEF Making, Delivering, CreateSteps

LEMMA DeliveryFailsKeeps ==
  ASSUME IInv, NEW c \in Callers, DeliveryFails(c)
  PROVE  IInv'
  <1>1. call[c].step \in {"mergeHost", "removeHost"} /\ deliverer' = Nobody
    BY DEF DeliveryFails, At
  <1>2. deliverer = c /\ call[c].id \in Attempts /\ call[c].step \notin Making
    BY <1>1, DelivererFacts DEF Delivering
  <1>3. /\ there' \subseteq Attempts /\ merged' \subseteq Attempts /\ gone' \subseteq Attempts
        /\ merged \subseteq merged' /\ gone \subseteq gone' /\ gone' \subseteq merged'
    <2>1. call[c].step = "removeHost" => call[c].id \in merged
      BY DelivererFacts DEF Delivering
    <2> QED
      BY <1>2, <2>1 DEF DeliveryFails, At, IInv, TypeOK, DeliveryIsTrue
  <1>4. OnlyMoves(c, Idle)
    BY ReturnMoves DEF DeliveryFails, IInv
  <1>5. Idle \in CallRecords /\ Idle.step = "idle" /\ Idle.id <= attempts
    BY IdleIsCall, WorktreesAssumption DEF Idle, IInv, TypeOK
  <1>6. UNCHANGED <<op, disk, attempts, monitors>>
    BY DEF DeliveryFails, storeVars
  <1> QED
    BY <1>1, <1>2, <1>3, <1>4, <1>5, <1>6, LockedKeeps, WorktreesAssumption
    DEF Delivering, CreateSteps, DeliverySteps

----------------------------------------------------------------------------
\* The steps that change an operation.

\* An operation that goes on keeps the store in order, saved or not.
LEMMA StoreStays ==
  ASSUME IInv, NEW r \in Requests, NEW o \in Ops, Valid(o), o.id = op[r].id,
         Earlier(disk[r], o), op' = [op EXCEPT ![r] = o],
         disk' = op' \/ disk' = disk, attempts' = attempts
  PROVE  StoreOK' /\ op' \in [Requests -> Ops] /\ disk' \in [Requests -> Ops]
  <1>1. op' \in [Requests -> Ops] /\ disk' \in [Requests -> Ops]
    BY DEF IInv, TypeOK
  <1>2. \A s \in Requests : op'[s].id = op[s].id /\ (s # r => op'[s] = op[s]) /\ op'[r] = o
    BY DEF IInv, TypeOK
  <1>3. ASSUME NEW s \in Requests
        PROVE  /\ Valid(op'[s]) /\ Valid(disk'[s]) /\ Earlier(disk'[s], op'[s])
               /\ op'[s].id <= attempts'
    <2>1. Valid(op'[s]) /\ Valid(disk[s]) /\ Earlier(disk[s], op'[s])
      BY <1>2 DEF IInv, StoreOK
    <2>2. Earlier(op'[s], op'[s])
      BY DEF Earlier
    <2>3. op'[s].id <= attempts'
      BY <1>2 DEF IInv, StoreOK
    <2> QED
      BY <2>1, <2>2, <2>3
  <1>4. \A s, t \in Requests : op'[s].id = op'[t].id /\ op'[s].id # 0 => s = t
    BY <1>2 DEF IInv, StoreOK
  <1> QED
    BY <1>1, <1>3, <1>4 DEF StoreOK

\* The maker of an operation is alone with it.
LEMMA MakerAlone ==
  ASSUME IInv, NEW c \in Callers, call[c].step \in Making
  PROVE  /\ \A d \in Callers : call[d].step \in Making /\ call[d].request = call[c].request
                                  => d = c
         /\ \A m \in monitors : m.request # call[c].request
         /\ ~Mergeable(op[call[c].request]) /\ ~Removable(op[call[c].request])
  <1>1. \A d \in Callers : call[d].step \in Making /\ call[d].request = call[c].request
                              => d = c
    BY DEF IInv, MakersOK
  <1>2. \A m \in monitors : m.request # call[c].request
    BY DEF IInv, MakersOK, MonitorsOK
  <1>3. ~Removable(op[call[c].request])
    BY CallFacts DEF MadeSoFar, Removable
  <1>4. ~Mergeable(op[call[c].request])
    BY CallFacts DEF MadeSoFar, Mergeable, Making
  <1> QED
    BY <1>1, <1>2, <1>3, <1>4

\* The maker changes its operation and goes on, or gives it up as failed.
LEMMA MakerUpdates ==
  ASSUME IInv, NEW c \in Callers, NEW new \in CallRecords, OnlyMoves(c, new),
         call[c].step \in Making,
         NEW o \in Ops, Valid(o), o.id = op[call[c].request].id, o.delivery = "none",
         Earlier(disk[call[c].request], o),
         op' = [op EXCEPT ![call[c].request] = o],
         disk' = op' \/ disk' = disk,
         UNCHANGED <<attempts, deliverer, monitors, there, merged, gone>>,
         \/ /\ new.step \in Making /\ new.request = call[c].request /\ new.id = call[c].id
            /\ MadeSoFar(new.step, o)
         \/ o.state = "failed" /\ new.step = "idle" /\ new.id = 0
  PROVE  IInv'
  <1> DEFINE r == call[c].request
  <1>1. r \in Requests /\ call[c].step \in CreateSteps \ {"wait", "asleep"}
    BY CallFacts DEF Making, CreateSteps
  <1>2. /\ StoreOK' /\ op' \in [Requests -> Ops] /\ disk' \in [Requests -> Ops]
        /\ op'[r] = o /\ \A s \in Requests \ {r} : op'[s] = op[s]
    BY <1>1, StoreStays DEF IInv, TypeOK
  <1>3. CallsOK'
    <2>1. new.id <= attempts /\ attempts \in Nat /\ CallsOK
      BY CallFacts
    <2> QED
      BY <1>1, <2>1, CallsStay DEF Making, DeliverySteps, CreateSteps
  <1>4. /\ DeliverersOK' /\ DeliveryIsTrue'
        /\ \A d \in Callers : call'[d].step \in Delivering <=> deliverer' = d
    <2>1. \A s \in Requests :
             \/ op'[s] = op[s]
             \/ op'[s].delivery = "none" /\ ~Mergeable(op[s]) /\ ~Removable(op[s])
      BY <1>1, <1>2, MakerAlone
    <2> QED
      BY <2>1, DeliveryStays DEF Making, Delivering
  <1>5. \A d \in Callers \ {c} : \/ call'[d] = call[d]
                                 \/ call[d].step \notin Making /\ call'[d].step \notin Making
    BY OthersWake DEF Making, IInv
  <1>6. call'[c] = new
    BY DEF OnlyMoves
  <1>7. \A d \in Callers \ {c} : call'[d].step \in Making =>
           /\ call'[d] = call[d] /\ call[d].request \in Requests \ {r}
           /\ call[d].id # call[c].id
    BY <1>5, MakerAlone, CallFacts DEF IInv, MakersOK
  <1>8. MakersOK'
    BY <1>1, <1>2, <1>6, <1>7, CallFacts DEF IInv, MakersOK, Making
  <1>9. MonitorsOK'
    <2>1. \A m \in monitors : m.request \in Requests \ {r} /\ m.id # call[c].id
      BY <1>1, MakerAlone DEF IInv, TypeOK, MonitorsOK
    <2> QED
      BY <1>2, <1>6, <1>7, <2>1 DEF IInv, MonitorsOK, Making
  <1>10. UnfinishedHasWorker'
    <2>1. CreateSteps \ {"claim", "wait", "asleep"} = Making
      BY DEF CreateSteps, Making
    <2>2. ASSUME NEW s \in Requests, Working(op'[s])
          PROVE  \/ \E d \in Callers : /\ call'[d].step \in Making
                                       /\ call'[d].request = s /\ call'[d].id = op'[s].id
                 \/ \E m \in monitors : m.request = s /\ m.id = op'[s].id
      <3>1. CASE s = r
        BY <1>2, <1>6, <2>2, <3>1, CallFacts DEF Working
      <3>2. CASE s # r
        <4>1. op'[s] = op[s]
          BY <1>2, <3>2
        <4>2. \/ \E d \in Callers : /\ call[d].step \in Making
                                    /\ call[d].request = s /\ call[d].id = op[s].id
              \/ \E m \in monitors : m.request = s /\ m.id = op[s].id
          BY <2>1, <2>2, <4>1 DEF IInv, UnfinishedHasWorker
        <4> QED
          BY <1>5, <3>2, <4>1, <4>2
      <3> QED
        BY <3>1, <3>2
    <2> QED
      BY <2>1, <2>2 DEF UnfinishedHasWorker
  <1>11. TypeOK'
    BY <1>2, <1>3, <1>4, TypesStay DEF IInv, TypeOK
  <1> QED
    BY <1>2, <1>3, <1>4, <1>8, <1>9, <1>10, <1>11 DEF IInv

\* What the file can say of an operation that its maker has in hand.
LEMMA MakerFacts ==
  ASSUME IInv, NEW c \in Callers, call[c].step \in Making
  PROVE  LET o == op[call[c].request] IN
         /\ call[c].request \in Requests /\ o \in Ops /\ Valid(o)
         /\ o.id = call[c].id /\ o.id # 0 /\ o.delivery = "none" /\ o.task # "completed"
         /\ disk[call[c].request].id = o.id
         /\ disk[call[c].request].task # "completed"
         /\ disk[call[c].request].delivery \notin {"merged", "removed"}
  <1> DEFINE o == op[call[c].request]
  <1>1. call[c].request \in Requests /\ o.id = call[c].id /\ MadeSoFar(call[c].step, o)
    BY CallFacts
  <1>2. o \in Ops /\ Valid(o) /\ Earlier(disk[call[c].request], o)
    BY <1>1 DEF IInv, TypeOK, StoreOK
  <1>3. o.task # "completed"
    BY <1>1, <1>2 DEF MadeSoFar, Making, Valid, NoOp
  <1> QED
    BY <1>1, <1>2, <1>3 DEF MadeSoFar, Earlier

LEMMA MarkStartingKeeps ==
  ASSUME IInv, NEW c \in Callers, MarkStarting(c)
  PROVE  IInv'
  <1> DEFINE r == call[c].request
             o == [op[r] EXCEPT !.state = "starting", !.task = "pending"]
  <1>1. call[c].step = "starting" /\ call[c].step \in Making
    BY DEF MarkStarting, At, Making
  <1>2. /\ o \in Ops /\ o.id = op[r].id /\ o.delivery = "none"
        /\ o.state = "starting" /\ o.task = "pending" /\ Valid(o) /\ Earlier(disk[r], o)
    BY <1>1, MakerFacts DEF Ops, Unfinished, Valid, Earlier
  <1>3. /\ op' = [op EXCEPT ![r] = o]
        /\ disk' = op' \/ disk' = disk
        /\ UNCHANGED <<attempts, deliverer, monitors, there, merged, gone>>
    BY DEF MarkStarting, Update, Saved, NotSaved, hostVars
  <1>4. PICK step \in {"terminal", "fail"} : call' = Woken(Goto(c, step))
    BY DEF MarkStarting
  <1> DEFINE new == [call[c] EXCEPT !.step = step]
  <1>5. OnlyMoves(c, new)
    BY <1>4, WokenGotoMoves DEF IInv
  <1>6. /\ new \in CallRecords /\ new.step \in Making /\ new.step \in {"terminal", "fail"}
        /\ new.request = r /\ new.id = call[c].id
    BY CallFacts DEF CallRecords, CreateSteps, Making
  <1>7. MadeSoFar(new.step, o)
    BY <1>1, <1>2, <1>6, MakerFacts DEF MadeSoFar
  <1> HIDE DEF new, o
  <1> QED
    BY <1>1, <1>2, <1>3, <1>5, <1>6, <1>7, MakerUpdates

LEMMA MarkReadyKeeps ==
  ASSUME IInv, NEW c \in Callers, MarkReady(c)
  PROVE  IInv'
  <1> DEFINE r == call[c].request
             o == [op[r] EXCEPT !.state = "ready"]
  <1>1. call[c].step = "ready" /\ call[c].step \in Making
    BY DEF MarkReady, At, Making
  <1>2. op[r].task = "pending"
    BY <1>1, MakerFacts, CallFacts DEF MadeSoFar, Valid, NoOp
  <1>3. /\ o \in Ops /\ o.id = op[r].id /\ o.delivery = "none"
        /\ o.state = "ready" /\ o.task = "pending" /\ Valid(o) /\ Earlier(disk[r], o)
    BY <1>1, <1>2, MakerFacts DEF Ops, Unfinished, Valid, Earlier
  <1>4. /\ op' = [op EXCEPT ![r] = o]
        /\ disk' = op' \/ disk' = disk
        /\ UNCHANGED <<attempts, deliverer, monitors, there, merged, gone>>
    BY DEF MarkReady, Update, Saved, NotSaved, hostVars
  <1> DEFINE new == [call[c] EXCEPT !.step = "monitor"]
  <1>5. OnlyMoves(c, new)
    BY WokenGotoMoves DEF MarkReady, IInv
  <1>6. /\ new \in CallRecords /\ new.step \in Making /\ new.step = "monitor"
        /\ new.request = r /\ new.id = call[c].id
    BY CallFacts DEF CallRecords, CreateSteps, Making
  <1>7. MadeSoFar(new.step, o)
    BY <1>1, <1>3, <1>6, MakerFacts DEF MadeSoFar
  <1> HIDE DEF new, o
  <1> QED
    BY <1>1, <1>3, <1>4, <1>5, <1>6, <1>7, MakerUpdates

LEMMA FinishFailedKeeps ==
  ASSUME IInv, NEW c \in Callers, FinishFailed(c)
  PROVE  IInv'
  <1> DEFINE r == call[c].request
             o == [op[r] EXCEPT !.state = "failed"]
  <1>1. call[c].step = "fail" /\ call[c].step \in Making
    BY DEF FinishFailed, At, Making
  <1>2. op[r].task \in {"none", "pending"}
    BY <1>1, MakerFacts, CallFacts DEF MadeSoFar, Valid, NoOp
  <1>3. /\ o \in Ops /\ o.id = op[r].id /\ o.delivery = "none"
        /\ o.state = "failed" /\ Valid(o) /\ Earlier(disk[r], o)
    BY <1>1, <1>2, MakerFacts DEF Ops, Valid, Earlier
  <1>4. /\ op' = [op EXCEPT ![r] = o]
        /\ disk' = op' \/ disk' = disk
        /\ UNCHANGED <<attempts, deliverer, monitors, there, merged, gone>>
    BY DEF FinishFailed, Update, Saved, NotSaved, hostVars
  <1>5. OnlyMoves(c, Idle)
    BY WokenReturnMoves DEF FinishFailed, IInv
  <1>6. Idle \in CallRecords /\ Idle.step = "idle" /\ Idle.id = 0
    BY IdleIsCall DEF Idle
  <1> HIDE DEF o
  <1> QED
    BY <1>1, <1>3, <1>4, <1>5, <1>6, MakerUpdates

LEMMA SpawnMonitorKeeps ==
  ASSUME IInv, NEW c \in Callers, SpawnMonitor(c)
  PROVE  IInv'
  <1> DEFINE r == call[c].request
             m == [request |-> r, id |-> call[c].id, started |-> FALSE]
  <1>1. call[c].step = "monitor" /\ call[c].step \in Making /\ call[c].step \notin Delivering
    BY DEF SpawnMonitor, At, Making, Delivering
  <1>2. /\ r \in Requests /\ op[r].id = call[c].id /\ call[c].id \in Attempts
        /\ op[r].state = "ready" /\ op[r].task = "pending"
    BY <1>1, CallFacts, MakerFacts DEF MadeSoFar
  <1>3. /\ monitors' = monitors \cup {m}
        /\ UNCHANGED <<op, disk, attempts, deliverer, there, merged, gone>>
    BY DEF SpawnMonitor, storeVars, hostVars
  <1>4. PICK new \in CallRecords : /\ OnlyMoves(c, new) /\ new.step \in {"wait", "idle"}
                                   /\ new.id <= attempts
                                   /\ new.step = "wait" => new.request = r
    <2>1. CASE call' = Goto(c, "wait")
      <3> DEFINE new == [call[c] EXCEPT !.step = "wait"]
      <3>1. OnlyMoves(c, new)
        BY <2>1, GotoMoves DEF IInv
      <3>2. new \in CallRecords /\ new.step = "wait" /\ new.id <= attempts /\ new.request = r
        BY CallFacts DEF CallRecords, CreateSteps
      <3> QED
        BY <3>1, <3>2
    <2>2. CASE call' = Return(c)
      <3>1. OnlyMoves(c, Idle)
        BY <2>2, ReturnMoves DEF IInv
      <3>2. Idle \in CallRecords /\ Idle.step = "idle" /\ Idle.id <= attempts
        BY IdleIsCall, CallFacts DEF Idle
      <3> QED
        BY <3>1, <3>2
    <2> QED
      BY <2>1, <2>2 DEF SpawnMonitor
  <1>5. CallsOK'
    BY <1>2, <1>3, <1>4, CallFacts, CallsStay DEF DeliverySteps, CreateSteps
  <1>6. /\ DeliverersOK' /\ DeliveryIsTrue'
        /\ \A d \in Callers : call'[d].step \in Delivering <=> deliverer' = d
    BY <1>1, <1>3, <1>4, DeliveryStays DEF Delivering
  <1>7. StoreOK'
    BY <1>3 DEF IInv, StoreOK
  <1>8. \A d \in Callers : \/ d = c /\ call'[d].step \notin Making
                           \/ d # c /\ call'[d] = call[d]
                           \/ d # c /\ call[d].step \notin Making /\ call'[d].step \notin Making
    <2> TAKE d \in Callers
    <2>1. \/ d = c
          \/ call'[d] = call[d]
          \/ call[d].step = "asleep" /\ call'[d].step = "wait"
      BY <1>4, OthersWake DEF IInv
    <2>2. call'[c] = new
      BY <1>4 DEF OnlyMoves
    <2> QED
      BY <1>4, <2>1, <2>2 DEF Making
  <1>9. MakersOK'
    BY <1>3, <1>8 DEF IInv, MakersOK
  <1>10. MonitorsOK'
    <2>1. \A n \in monitors : n.request # r
      BY <1>1, MakerAlone
    <2>2. \A d \in Callers : d # c /\ call[d].step \in Making => call[d].id # call[c].id
      BY <1>1 DEF IInv, MakersOK
    <2>3. m.request = r /\ m.id = call[c].id
      OBVIOUS
    <2>4. \A n \in monitors : /\ op[n.request].id = n.id /\ op[n.request].state = "ready"
                              /\ op[n.request].task \in {"pending", "running", "waiting"}
      BY DEF IInv, MonitorsOK
    <2>5. \A n \in monitors' : /\ op'[n.request].id = n.id /\ op'[n.request].state = "ready"
                               /\ op'[n.request].task \in {"pending", "running", "waiting"}
      BY <1>2, <1>3, <2>3, <2>4
    <2>6. \A n, o \in monitors' : n.request = o.request => n = o
      BY <1>3, <2>1, <2>3 DEF IInv, MonitorsOK
    <2>7. \A n \in monitors', d \in Callers : call'[d].step \in Making => call'[d].id # n.id
      BY <1>3, <1>8, <2>2 DEF IInv, MonitorsOK
    <2> QED
      BY <2>5, <2>6, <2>7 DEF MonitorsOK
  <1>11. UnfinishedHasWorker'
    <2>1. CreateSteps \ {"claim", "wait", "asleep"} = Making
      BY DEF CreateSteps, Making
    <2>2. ASSUME NEW s \in Requests, Working(op[s])
          PROVE  \/ \E d \in Callers : /\ call'[d].step \in Making
                                       /\ call'[d].request = s /\ call'[d].id = op[s].id
                 \/ \E n \in monitors' : n.request = s /\ n.id = op[s].id
      <3>1. CASE \E n \in monitors : n.request = s /\ n.id = op[s].id
        BY <1>3, <3>1
      <3>2. CASE \E d \in Callers : /\ call[d].step \in Making
                                    /\ call[d].request = s /\ call[d].id = op[s].id
        <4>1. PICK d \in Callers : /\ call[d].step \in Making
                                   /\ call[d].request = s /\ call[d].id = op[s].id
          BY <3>2
        <4>2. CASE d = c
          <5>1. m \in monitors' /\ m.request = s /\ m.id = op[s].id
            BY <1>3, <4>1, <4>2
          <5> QED
            BY <5>1
        <4>3. CASE d # c
          BY <1>8, <4>1, <4>3
        <4> QED
          BY <4>2, <4>3
      <3> QED
        BY <2>1, <2>2, <3>1, <3>2 DEF IInv, UnfinishedHasWorker
    <2>3. op' = op
      BY <1>3
    <2> QED
      BY <2>1, <2>2, <2>3 DEF UnfinishedHasWorker, Working
  <1>12. TypeOK'
    <2>1. m \in [request : Requests, id : Attempts, started : BOOLEAN]
      BY <1>2
    <2> QED
      BY <1>3, <1>5, <1>6, <2>1, TypesStay DEF IInv, TypeOK
  <1> QED
    BY <1>5, <1>6, <1>7, <1>9, <1>10, <1>11, <1>12 DEF IInv

\* Only its monitor has a hand in the operation of an agent.
LEMMA MonitorAlone ==
  ASSUME IInv, NEW m \in monitors
  PROVE  /\ m.request \in Requests /\ m.id \in Attempts /\ op[m.request].id = m.id
         /\ op[m.request] \in Ops /\ op[m.request].id # 0
         /\ op[m.request].state = "ready" /\ op[m.request].delivery = "none"
         /\ op[m.request].task \in {"pending", "running", "waiting"}
         /\ Valid(op[m.request]) /\ Earlier(disk[m.request], op[m.request])
         /\ \A c \in Callers : call[c].step \in Making => call[c].request # m.request
  <1>1. /\ m.request \in Requests /\ m.id \in Attempts /\ op[m.request].id = m.id
        /\ op[m.request].state = "ready"
        /\ op[m.request].task \in {"pending", "running", "waiting"}
    BY DEF IInv, TypeOK, MonitorsOK
  <1>2. /\ Valid(op[m.request]) /\ Earlier(disk[m.request], op[m.request])
        /\ op[m.request] \in Ops
    BY <1>1 DEF IInv, StoreOK, TypeOK
  <1>3. op[m.request].delivery = "none"
    BY <1>1, <1>2 DEF Valid, NoOp
  <1>4. \A c \in Callers : call[c].step \in Making => call[c].request # m.request
    BY <1>1, CallFacts DEF IInv, MonitorsOK
  <1> QED
    BY <1>1, <1>2, <1>3, <1>4 DEF Attempts

\* A monitor reports on its operation, and stays while the task goes on.
LEMMA MonitorUpdates ==
  ASSUME IInv, NEW m \in monitors, NEW task, UpdateTask(m, task),
         \/ /\ task \in {"running", "waiting"}
            /\ \E n : /\ n.request = m.request /\ n.id = m.id /\ n.started \in BOOLEAN
                      /\ n \in [request : Requests, id : Attempts, started : BOOLEAN]
                      /\ monitors' = (monitors \ {m}) \cup {n}
         \/ task \in {"completed", "failed"} /\ monitors' = monitors \ {m}
  PROVE  IInv'
  <1> DEFINE r == m.request
             o == [op[r] EXCEPT !.task = task]
  <1>1. /\ r \in Requests /\ m.id \in Attempts /\ o \in Ops /\ o.id = op[r].id
        /\ o.state = "ready" /\ o.delivery = "none" /\ o.task = task
        /\ op[r].id = m.id /\ Valid(o) /\ Earlier(disk[r], o)
        /\ ~Mergeable(op[r]) /\ ~Removable(op[r])
    BY MonitorAlone DEF Ops, Unfinished, Valid, Earlier, Mergeable, Removable
  <1>2. /\ op' = [op EXCEPT ![r] = o]
        /\ disk' = op' \/ disk' = disk
        /\ call' = Woken(call)
        /\ UNCHANGED <<attempts, deliverer, there, merged, gone>>
    BY DEF UpdateTask, Update, Saved, NotSaved, hostVars
  <1>3. /\ StoreOK' /\ op' \in [Requests -> Ops] /\ disk' \in [Requests -> Ops]
        /\ op'[r] = o /\ \A s \in Requests \ {r} : op'[s] = op[s]
    BY <1>1, <1>2, StoreStays DEF IInv, TypeOK
  <1>4. \A d \in Callers : \/ call'[d] = call[d]
                           \/ /\ call[d].step = "asleep" /\ call'[d].step = "wait"
                              /\ call'[d].request = call[d].request
                              /\ call'[d].id = call[d].id /\ call'[d] \in CallRecords
    <2> TAKE d \in Callers
    <2>1. \/ call'[d] = call[d]
          \/ call[d].step = "asleep" /\ call'[d] = [call[d] EXCEPT !.step = "wait"]
      BY <1>2, WokenStays DEF IInv
    <2>2. call[d] \in CallRecords
      BY CallFacts
    <2> QED
      BY <2>1, <2>2 DEF CallRecords, CreateSteps
  <1>5. CallsOK'
    <2>1. call' \in [Callers -> CallRecords]
      BY <1>2, <1>4 DEF Woken, IInv, CallsOK
    <2>2. \A d \in Callers : /\ call'[d].id <= attempts'
                             /\ call'[d].step \in CreateSteps => call'[d].request \in Requests
                             /\ call'[d].step \in DeliverySteps => call'[d].id # 0
      BY <1>2, <1>4, CallFacts DEF CreateSteps, DeliverySteps
    <2> QED
      BY <2>1, <2>2 DEF CallsOK
  <1>6. \A d \in Callers :
           \/ call'[d] = call[d]
           \/ /\ call[d].step \notin Making \cup Delivering
              /\ call'[d].step \notin Making \cup Delivering
    BY <1>4 DEF Making, Delivering
  <1>7. MakersOK'
    <2>1. ASSUME NEW d \in Callers, call'[d].step \in Making
          PROVE  /\ call'[d] = call[d] /\ call[d].request \in Requests \ {r}
                 /\ op'[call[d].request] = op[call[d].request]
      BY <1>3, <1>6, <2>1, MonitorAlone, CallFacts
    <2> QED
      BY <2>1 DEF IInv, MakersOK
  <1>8. MonitorsOK'
    <2>1. \A n \in monitors \ {m} : n.request \in Requests \ {r}
      BY DEF IInv, MonitorsOK, TypeOK
    <2>2. \A n \in monitors \ {m} :
             /\ op'[n.request].id = n.id /\ op'[n.request].state = "ready"
             /\ op'[n.request].task \in {"pending", "running", "waiting"}
      BY <1>3, <2>1 DEF IInv, MonitorsOK
    <2>3. \A n \in monitors, d \in Callers : call'[d].step \in Making => call'[d].id # n.id
      BY <1>6 DEF IInv, MonitorsOK
    <2>4. \A n, p \in monitors : n.request = p.request => n = p
      BY DEF IInv, MonitorsOK
    <2>5. CASE task \in {"completed", "failed"} /\ monitors' = monitors \ {m}
      BY <2>2, <2>3, <2>4, <2>5 DEF MonitorsOK
    <2>6. CASE task \in {"running", "waiting"}
      <3>1. PICK n : /\ n.request = r /\ n.id = m.id
                     /\ monitors' = (monitors \ {m}) \cup {n}
        BY <2>6
      <3>2. \A p, q \in monitors' : p.request = q.request => p = q
        BY <2>1, <2>4, <3>1
      <3>3. op'[n.request].id = n.id /\ op'[n.request].state = "ready"
                /\ op'[n.request].task \in {"pending", "running", "waiting"}
        BY <1>1, <1>3, <2>6, <3>1
      <3>4. \A p \in monitors', d \in Callers : call'[d].step \in Making => call'[d].id # p.id
        BY <2>3, <3>1
      <3>5. \A p \in monitors' :
               /\ op'[p.request].id = p.id /\ op'[p.request].state = "ready"
               /\ op'[p.request].task \in {"pending", "running", "waiting"}
        BY <2>2, <3>1, <3>3
      <3> QED
        BY <3>2, <3>4, <3>5 DEF MonitorsOK
    <2> QED
      BY <2>5, <2>6
  <1>9. DeliverersOK' /\ DeliveryIsTrue'
    <2>1. \A d \in Callers : call'[d].step \in Delivering => call'[d] = call[d]
      BY <1>6
    <2>2. \A s \in Requests : Mergeable(op[s]) \/ Removable(op[s]) => op'[s] = op[s]
      BY <1>1, <1>3
    <2>3. DeliverersOK'
      BY <1>2, <2>1, <2>2 DEF IInv, DeliverersOK, Delivering
    <2>4. \A s \in Requests : op'[s] = op[s] \/ op'[s].delivery = "none"
      BY <1>1, <1>3
    <2>5. disk' = op' \/ disk' = disk
      BY <1>2
    <2>6. merged' = merged /\ gone' = gone
      BY <1>2
    <2>7. DeliveryIsTrue'
      BY <2>4, <2>5, <2>6 DEF IInv, DeliveryIsTrue
    <2> QED
      BY <2>3, <2>7
  <1>10. UnfinishedHasWorker'
    <2>1. CreateSteps \ {"claim", "wait", "asleep"} = Making
      BY DEF CreateSteps, Making
    <2>2. ASSUME NEW s \in Requests, Working(op'[s])
          PROVE  \/ \E d \in Callers : /\ call'[d].step \in Making
                                       /\ call'[d].request = s /\ call'[d].id = op'[s].id
                 \/ \E n \in monitors' : n.request = s /\ n.id = op'[s].id
      <3>1. CASE s = r
        BY <1>1, <1>3, <2>2, <3>1 DEF Working, Unfinished
      <3>2. CASE s # r
        <4>1. op'[s] = op[s]
          BY <1>3, <3>2
        <4>2. \/ \E d \in Callers : /\ call[d].step \in Making
                                    /\ call[d].request = s /\ call[d].id = op[s].id
              \/ \E n \in monitors \ {m} : n.request = s /\ n.id = op[s].id
          BY <2>1, <2>2, <3>2, <4>1 DEF IInv, UnfinishedHasWorker
        <4>3. monitors \ {m} \subseteq monitors'
          OBVIOUS
        <4> QED
          BY <1>6, <4>1, <4>2, <4>3
      <3> QED
        BY <3>1, <3>2
    <2> QED
      BY <2>1, <2>2 DEF UnfinishedHasWorker
  <1>11. TypeOK'
    <2>1. monitors' \subseteq [request : Requests, id : Attempts, started : BOOLEAN]
      BY DEF IInv, TypeOK
    <2>2. \A d \in Callers : call'[d].step \in Delivering <=> deliverer' = d
      BY <1>2, <1>6 DEF IInv, TypeOK, Delivering
    <2> QED
      BY <1>2, <1>3, <1>5, <2>1, <2>2, TypesStay DEF IInv, TypeOK
  <1> QED
    BY <1>3, <1>5, <1>7, <1>8, <1>9, <1>10, <1>11 DEF IInv

LEMMA MonitorStepKeeps ==
  ASSUME IInv, NEW m \in monitors, MonitorStep(m)
  PROVE  IInv'
  <1>1. m \in [request : Requests, id : Attempts, started : BOOLEAN]
    BY DEF IInv, TypeOK
  <1>2. CASE AgentWorks(m)
    <2> DEFINE n == [m EXCEPT !.started = TRUE]
    <2>1. /\ n.request = m.request /\ n.id = m.id /\ n.started \in BOOLEAN
          /\ n \in [request : Requests, id : Attempts, started : BOOLEAN]
      BY <1>1
    <2>2. UpdateTask(m, "running") /\ monitors' = (monitors \ {m}) \cup {n}
      BY <1>2 DEF AgentWorks
    <2> HIDE DEF n
    <2> QED
      BY <2>1, <2>2, MonitorUpdates
  <1>3. CASE AgentWaits(m)
    <2>1. /\ UpdateTask(m, "waiting") /\ monitors' = (monitors \ {m}) \cup {m}
          /\ m.started \in BOOLEAN
      BY <1>1, <1>3 DEF AgentWaits
    <2> QED
      BY <1>1, <2>1, MonitorUpdates
  <1>4. CASE AgentCompletes(m)
    BY <1>4, MonitorUpdates DEF AgentCompletes
  <1>5. CASE AgentFails(m)
    BY <1>5, MonitorUpdates DEF AgentFails
  <1> QED
    BY <1>2, <1>3, <1>4, <1>5 DEF MonitorStep

\* The delivery that holds the lock records what it did.
LEMMA MarkKeeps ==
  ASSUME IInv, NEW c \in Callers, MarkMerged(c) \/ MarkRemoved(c)
  PROVE  IInv'
  <1>1. PICK here \in {"mergeMark", "removeMark"}, delivery \in {"merged", "removed"} :
           /\ Mark(c, here, delivery)
           /\ here = "mergeMark" <=> delivery = "merged"
    BY DEF MarkMerged, MarkRemoved
  <1>2. call[c].step = here /\ call[c].step \in Delivering /\ call[c].step \notin Making
    BY <1>1 DEF Mark, At, Delivering, Making
  <1>3. PICK r \in Requests : /\ op[r].id = call[c].id
                              /\ op' = [op EXCEPT ![r] = [op[r] EXCEPT !.delivery = delivery]]
    BY <1>1 DEF Mark, Found, Update
  <1> DEFINE o == [op[r] EXCEPT !.delivery = delivery]
  <1>4. /\ deliverer = c /\ call[c].id \in Attempts /\ call[c].id \in merged
        /\ delivery = "removed" => call[c].id \in gone
        /\ here = "mergeMark" => Mergeable(op[r])
        /\ here = "removeMark" => Removable(op[r])
    <2>1. \A s \in Requests : op[s].id = call[c].id => s = r
      BY <1>2, <1>3, DelivererFacts DEF IInv, StoreOK, Attempts
    <2> QED
      BY <1>1, <1>2, <1>3, <2>1, DelivererFacts DEF IInv, DeliverersOK
  <1>5. op[r] \in Ops /\ Valid(op[r]) /\ Earlier(disk[r], op[r]) /\ op[r].id # 0
    BY <1>3, <1>4 DEF IInv, TypeOK, StoreOK, Attempts
  <1>6. op[r].state = "ready" /\ op[r].task = "completed"
    BY <1>4, <1>5 DEF Mergeable, Removable, Valid, NoOp
  <1>7. /\ o \in Ops /\ o.id = op[r].id /\ o.delivery = delivery /\ o.state = "ready"
        /\ o.task = "completed" /\ Valid(o)
    BY <1>1, <1>5, <1>6 DEF Ops, Valid
  <1>8. Earlier(disk[r], o)
    BY <1>1, <1>4, <1>5, <1>7 DEF Earlier, Mergeable, Removable
  <1>9. /\ disk' = op' \/ disk' = disk
        /\ UNCHANGED <<attempts, monitors, there, merged, gone>>
        /\ deliverer' = Nobody
    BY <1>1 DEF Mark, Saved, NotSaved, hostVars
  <1>10. /\ StoreOK' /\ op' \in [Requests -> Ops] /\ disk' \in [Requests -> Ops]
         /\ op'[r] = o /\ \A s \in Requests \ {r} : op'[s] = op[s]
    BY <1>3, <1>7, <1>8, <1>9, StoreStays DEF IInv, TypeOK
  <1>11. OnlyMoves(c, Idle)
    BY <1>1, ReturnMoves, WokenReturnMoves DEF Mark, IInv
  <1>12. Idle \in CallRecords /\ Idle.step = "idle" /\ Idle.id = 0
    BY IdleIsCall DEF Idle
  <1>13. CallsOK'
    BY <1>9, <1>11, <1>12, CallFacts, CallsStay DEF DeliverySteps, CreateSteps
  <1>14. \A d \in Callers :
            \/ d = c /\ call'[d].step \notin Making \cup Delivering
            \/ /\ d # c /\ call[d].step \notin Delivering /\ call'[d].step \notin Delivering
               /\ \/ call'[d] = call[d]
                  \/ call[d].step \notin Making /\ call'[d].step \notin Making
    <2> TAKE d \in Callers
    <2>1. \/ d = c
          \/ call'[d] = call[d]
          \/ call[d].step = "asleep" /\ call'[d].step = "wait"
      BY <1>11, OthersWake DEF IInv
    <2>2. call'[c] = Idle
      BY <1>11 DEF OnlyMoves
    <2>3. d # c => call[d].step \notin Delivering
      BY <1>4 DEF IInv, TypeOK, Delivering
    <2> QED
      BY <1>12, <2>1, <2>2, <2>3 DEF Making, Delivering
  <1>15. MakersOK'
    <2>1. ASSUME NEW d \in Callers, call'[d].step \in Making
          PROVE  /\ call'[d] = call[d] /\ call[d].request \in Requests \ {r}
                 /\ op'[call[d].request] = op[call[d].request]
      BY <1>6, <1>10, <1>14, <2>1, MakerFacts
    <2> QED
      BY <2>1 DEF IInv, MakersOK
  <1>16. MonitorsOK'
    <2>1. \A m \in monitors : m.request \in Requests \ {r}
      BY <1>6, MonitorAlone
    <2>2. \A d \in Callers : call'[d].step \in Making => call'[d] = call[d]
      BY <1>14
    <2>3. \A m \in monitors : /\ op'[m.request].id = m.id /\ op'[m.request].state = "ready"
                              /\ op'[m.request].task \in {"pending", "running", "waiting"}
      BY <1>10, <2>1 DEF IInv, MonitorsOK
    <2> QED
      BY <1>9, <2>2, <2>3 DEF IInv, MonitorsOK
  <1>17. DeliverersOK'
    BY <1>14 DEF DeliverersOK, Delivering
  <1>18. DeliveryIsTrue'
    <2>1. \A s \in Requests : \/ op'[s] = op[s]
                              \/ /\ op'[s].id = call[c].id
                                 /\ op'[s].delivery = "removed" => call[c].id \in gone
      BY <1>3, <1>4, <1>7, <1>10
    <2> QED
      BY <1>4, <1>9, <2>1 DEF IInv, DeliveryIsTrue
  <1>19. UnfinishedHasWorker'
    <2>1. CreateSteps \ {"claim", "wait", "asleep"} = Making
      BY DEF CreateSteps, Making
    <2>2. ASSUME NEW s \in Requests, Working(op'[s])
          PROVE  \/ \E d \in Callers : /\ call'[d].step \in Making
                                       /\ call'[d].request = s /\ call'[d].id = op'[s].id
                 \/ \E n \in monitors' : n.request = s /\ n.id = op'[s].id
      <3>1. s # r
        BY <1>7, <1>10, <2>2 DEF Working, Unfinished
      <3>2. op'[s] = op[s]
        BY <1>10, <3>1
      <3>3. \/ \E d \in Callers : /\ call[d].step \in Making
                                  /\ call[d].request = s /\ call[d].id = op[s].id
            \/ \E n \in monitors : n.request = s /\ n.id = op[s].id
        BY <2>1, <2>2, <3>2 DEF IInv, UnfinishedHasWorker
      <3> QED
        BY <1>2, <1>9, <1>14, <3>2, <3>3
    <2> QED
      BY <2>1, <2>2 DEF UnfinishedHasWorker
  <1>20. TypeOK'
    <2>1. \A d \in Callers : call'[d].step \in Delivering <=> deliverer' = d
      BY <1>9, <1>14, WorktreesAssumption
    <2> QED
      BY <1>9, <1>10, <1>13, <2>1, TypesStay DEF IInv, TypeOK
  <1> QED
    BY <1>10, <1>13, <1>15, <1>16, <1>17, <1>18, <1>19, <1>20 DEF IInv

\* A new claim is granted only when nobody works on an operation any more.
LEMMA NothingInUse ==
  ASSUME IInv, NEW c \in Callers, At(c, "claim"), Existing(call[c].request) = {}
  PROVE  /\ \A s \in Requests : /\ ~Reusable(op[s]) /\ ~Working(op[s])
                                /\ ~Mergeable(op[s]) /\ ~Removable(op[s])
         /\ \A d \in Callers : call[d].step \notin Making
         /\ monitors = {}
  <1>1. \A s \in Requests : ~Reusable(op[s])
    BY DEF Existing
  <1>2. ASSUME NEW s \in Requests, Working(op[s]) \/ Mergeable(op[s]) \/ Removable(op[s])
        PROVE  Reusable(op[s])
    <2>1. Valid(op[s])
      BY DEF IInv, StoreOK
    <2> QED
      BY <1>2, <2>1
      DEF Working, Mergeable, Removable, Reusable, Valid, NoOp, Unfinished
  <1>3. ASSUME NEW d \in Callers, call[d].step \in Making
        PROVE  FALSE
    <2> DEFINE o == op[call[d].request]
    <2>1. /\ call[d].request \in Requests /\ Valid(o) /\ MadeSoFar(call[d].step, o)
      BY <1>3, MakerFacts, CallFacts
    <2>2. Reusable(o)
      BY <1>3, <2>1 DEF MadeSoFar, Reusable, Valid, NoOp, Making
    <2> QED
      BY <1>1, <2>1, <2>2
  <1>4. ASSUME NEW m \in monitors
        PROVE  FALSE
    <2>1. m.request \in Requests /\ Reusable(op[m.request])
      BY MonitorAlone DEF Reusable
    <2> QED
      BY <1>1, <2>1
  <1> QED
    BY <1>1, <1>2, <1>3, <1>4

LEMMA ClaimKeeps ==
  ASSUME IInv, NEW c \in Callers, Claim(c)
  PROVE  IInv'
  <1> DEFINE r == call[c].request
             o == [id |-> attempts + 1, state |-> "creating",
                   task |-> "none", delivery |-> "none"]
             new == [call[c] EXCEPT !.step = "worktree", !.id = attempts + 1]
  <1>1. /\ \A s \in Requests : /\ ~Reusable(op[s]) /\ ~Working(op[s])
                               /\ ~Mergeable(op[s]) /\ ~Removable(op[s])
        /\ \A d \in Callers : call[d].step \notin Making
        /\ monitors = {}
    BY NothingInUse DEF Claim
  <1>2. /\ call[c].step = "claim" /\ r \in Requests /\ call[c] \in CallRecords
        /\ attempts \in Nat /\ attempts + 1 \in Attempts /\ attempts' = attempts + 1
        /\ attempts' \in 0..MaxAttempts /\ CallsOK
    BY CallFacts, WorktreesAssumption DEF Claim, At, CreateSteps, Attempts
  <1>3. /\ o \in Ops /\ o.id = attempts + 1 /\ o.state = "creating" /\ o.task = "none"
        /\ o.delivery = "none" /\ Valid(o) /\ o.id # 0
    <2>1. attempts + 1 \in 0..MaxAttempts /\ attempts + 1 # 0
      BY <1>2, WorktreesAssumption DEF Attempts
    <2> QED
      BY <2>1 DEF Ops, Unfinished, Valid
  <1>4. /\ op' = [op EXCEPT ![r] = o]
        /\ disk' = op'
        /\ UNCHANGED <<deliverer, monitors, there, merged, gone>>
    BY DEF Claim, Update, Saved, hostVars
  <1>5. /\ op' \in [Requests -> Ops] /\ disk' \in [Requests -> Ops]
        /\ op'[r] = o /\ \A s \in Requests \ {r} : op'[s] = op[s]
    BY <1>2, <1>3, <1>4 DEF IInv, TypeOK
  <1>6. /\ new \in CallRecords /\ new.step = "worktree" /\ new.request = r
        /\ new.id = attempts + 1
    BY <1>2 DEF CallRecords, CreateSteps, Attempts
  <1>7. OnlyMoves(c, new)
    <2>1. call' = Woken([Goto(c, "worktree") EXCEPT ![c].id = attempts + 1])
      BY DEF Claim
    <2>2. [Goto(c, "worktree") EXCEPT ![c].id = attempts + 1] = [call EXCEPT ![c] = new]
      BY <1>2 DEF Goto, CallsOK, CallRecords
    <2>3. \A d \in Callers : [call EXCEPT ![c] = new][d] = IF d = c THEN new ELSE call[d]
      BY <1>2 DEF CallsOK
    <2>4. call' = [d \in Callers |-> call'[d]]
      BY <2>1 DEF Woken
    <2>5. \A d \in Callers \ {c} :
             \/ call'[d] = call[d]
             \/ call[d].step = "asleep" /\ call'[d] = [call[d] EXCEPT !.step = "wait"]
      BY <2>1, <2>2, <2>3 DEF Woken
    <2>6. call'[c] = new
      BY <1>6, <2>1, <2>2, <2>3 DEF Woken
    <2> HIDE DEF new
    <2> QED
      BY <2>4, <2>5, <2>6 DEF OnlyMoves
  <1> HIDE DEF new, o
  <1>8. CallsOK'
    <2>1. attempts' >= attempts /\ attempts' \in Nat /\ new.id <= attempts'
      BY <1>2, <1>6
    <2>2. /\ new.step \in CreateSteps => new.request \in Requests
          /\ new.step \in DeliverySteps => new.id # 0
      BY <1>2, <1>6
    <2> QED
      BY <1>2, <1>6, <1>7, <2>1, <2>2, CallsStay
  <1>9. \A d \in Callers :
           \/ d = c /\ call'[d] = new
           \/ /\ d # c /\ call'[d].step \notin Making
              /\ call'[d] = call[d] \/ call'[d].step \notin Delivering
    <2> TAKE d \in Callers
    <2>1. \/ d = c
          \/ call'[d] = call[d]
          \/ call[d].step = "asleep" /\ call'[d].step = "wait"
      BY <1>7, OthersWake DEF IInv
    <2>2. call'[c] = new
      BY <1>7 DEF OnlyMoves
    <2> QED
      BY <1>1, <2>1, <2>2 DEF Making, Delivering
  <1>10. /\ DeliverersOK' /\ DeliveryIsTrue'
         /\ \A d \in Callers : call'[d].step \in Delivering <=> deliverer' = d
    <2>1. call[c].step \notin Delivering /\ new.step \notin Delivering
      BY <1>2, <1>6 DEF Delivering
    <2>2. \A s \in Requests :
             \/ op'[s] = op[s]
             \/ op'[s].delivery = "none" /\ ~Mergeable(op[s]) /\ ~Removable(op[s])
      BY <1>1, <1>3, <1>5
    <2> QED
      BY <1>4, <1>6, <1>7, <2>1, <2>2, DeliveryStays
  <1>11. StoreOK'
    <2>1. \A s \in Requests : op[s].id \in Nat /\ op[s].id <= attempts /\ Valid(op[s])
      BY DEF IInv, StoreOK, TypeOK, Ops
    <2>2. ASSUME NEW s \in Requests
          PROVE  Valid(op'[s]) /\ Earlier(op'[s], op'[s]) /\ op'[s].id <= attempts'
      BY <1>2, <1>3, <1>5, <2>1 DEF Earlier
    <2>3. \A s, t \in Requests : op'[s].id = op'[t].id /\ op'[s].id # 0 => s = t
      BY <1>2, <1>3, <1>5, <2>1 DEF IInv, StoreOK
    <2> QED
      BY <1>4, <2>2, <2>3 DEF StoreOK
  <1>12. MakersOK'
    <2>1. MadeSoFar("worktree", o)
      BY <1>3 DEF MadeSoFar
    <2>2. ASSUME NEW d \in Callers, call'[d].step \in Making
          PROVE  d = c /\ call'[d] = new
      BY <1>9, <2>2
    <2> QED
      BY <1>3, <1>5, <1>6, <2>1, <2>2 DEF MakersOK
  <1>13. MonitorsOK'
    BY <1>1, <1>4 DEF MonitorsOK
  <1>14. UnfinishedHasWorker'
    <2>1. "worktree" \in CreateSteps \ {"claim", "wait", "asleep"}
      BY DEF CreateSteps
    <2>2. \A s \in Requests \ {r} : ~Working(op'[s])
      BY <1>1, <1>5
    <2>3. /\ call'[c].step = "worktree" /\ call'[c].request = r
          /\ call'[c].id = op'[r].id
      BY <1>3, <1>5, <1>6, <1>9
    <2> QED
      BY <2>1, <2>2, <2>3 DEF UnfinishedHasWorker
  <1>15. TypeOK'
    BY <1>2, <1>4, <1>5, <1>8, <1>10, TypesStay DEF IInv, TypeOK
  <1> QED
    BY <1>8, <1>10, <1>11, <1>12, <1>13, <1>14, <1>15 DEF IInv

LEMMA RecoveredFacts ==
  ASSUME NEW s \in Ops, Valid(s)
  PROVE  /\ Recovered(s) \in Ops /\ Valid(Recovered(s))
         /\ Recovered(s).id = s.id /\ Recovered(s).delivery = s.delivery
         /\ ~Working(Recovered(s))
  <1>1. CASE s.state \in {"creating", "starting"}
    BY <1>1 DEF Recovered, Valid, Ops, NoOp, Working
  <1>2. CASE s.state = "ready" /\ s.task \in Unfinished
    BY <1>2 DEF Recovered, Valid, Ops, NoOp, Working, Unfinished
  <1>3. CASE /\ s.state \notin {"creating", "starting"}
             /\ ~(s.state = "ready" /\ s.task \in Unfinished)
    BY <1>3 DEF Recovered, Valid, Ops, NoOp, Working
  <1> QED
    BY <1>1, <1>2, <1>3

LEMMA CrashKeeps ==
  ASSUME IInv, Crash
  PROVE  IInv'
  <1>1. /\ op' = [r \in Requests |-> Recovered(disk[r])]
        /\ disk' = op'
        /\ call' = [c \in Callers |-> Idle]
        /\ deliverer' = Nobody /\ monitors' = {}
        /\ UNCHANGED <<attempts, there, merged, gone>>
    BY DEF Crash, hostVars
  <1>2. \A r \in Requests :
           /\ op'[r] \in Ops /\ Valid(op'[r]) /\ op'[r].id = op[r].id
           /\ op'[r].id = disk[r].id /\ op'[r].delivery = disk[r].delivery
           /\ ~Working(op'[r])
    BY <1>1, RecoveredFacts DEF IInv, TypeOK, StoreOK, Earlier
  <1>3. \A c \in Callers : call'[c] = Idle
    BY <1>1
  <1>4. StoreOK'
    BY <1>1, <1>2 DEF IInv, StoreOK, Earlier
  <1>5. CallsOK'
    BY <1>1, <1>3, IdleIsCall, CallFacts, WorktreesAssumption
    DEF CallsOK, Idle, CreateSteps, DeliverySteps, IInv, TypeOK
  <1>6. MakersOK' /\ DeliverersOK' /\ MonitorsOK'
    BY <1>1, <1>3 DEF MakersOK, DeliverersOK, MonitorsOK, Making, Idle
  <1>7. DeliveryIsTrue'
    BY <1>1, <1>2 DEF IInv, DeliveryIsTrue
  <1>8. UnfinishedHasWorker'
    BY <1>2 DEF UnfinishedHasWorker
  <1>9. TypeOK'
    <2>1. op' \in [Requests -> Ops] /\ disk' \in [Requests -> Ops]
      BY <1>1, <1>2
    <2>2. \A d \in Callers : call'[d].step \in Delivering <=> deliverer' = d
      BY <1>1, <1>3, WorktreesAssumption DEF Idle, Delivering
    <2> QED
      BY <1>1, <1>5, <2>1, <2>2, TypesStay DEF IInv, TypeOK
  <1> QED
    BY <1>4, <1>5, <1>6, <1>7, <1>8, <1>9 DEF IInv

----------------------------------------------------------------------------
LEMMA InitHolds ==
  ASSUME Init
  PROVE  IInv
  <1>1. /\ op = [r \in Requests |-> NoOp] /\ disk = op /\ attempts = 0
        /\ call = [c \in Callers |-> Idle] /\ deliverer = Nobody /\ monitors = {}
        /\ there = {} /\ merged = {} /\ gone = {}
    BY DEF Init
  <1>2. \A c \in Callers : call[c] = Idle
    BY <1>1
  <1>3. \A r \in Requests : op[r] = NoOp /\ disk[r] = NoOp
    BY <1>1
  <1>4. TypeOK
    BY <1>1, <1>2, NoOpIsOp, WorktreesAssumption DEF TypeOK, Idle
  <1>5. CallsOK
    BY <1>1, <1>2, IdleIsCall DEF CallsOK, Idle, CreateSteps, DeliverySteps
  <1>6. StoreOK
    BY <1>1, <1>3 DEF StoreOK, Valid, Earlier, NoOp
  <1>7. MakersOK /\ MonitorsOK /\ DeliverersOK
    BY <1>1, <1>2 DEF MakersOK, MonitorsOK, DeliverersOK, Idle, Making
  <1>8. DeliveryIsTrue /\ UnfinishedHasWorker
    BY <1>1, <1>3 DEF DeliveryIsTrue, UnfinishedHasWorker, Working, NoOp
  <1> QED
    BY <1>4, <1>5, <1>6, <1>7, <1>8 DEF IInv

LEMMA StutterKeeps ==
  ASSUME IInv, UNCHANGED vars
  PROVE  IInv'
  <1> USE DEF vars, IInv
  <1>1. TypeOK' /\ CallsOK' /\ StoreOK'
    BY DEF TypeOK, CallsOK, StoreOK
  <1>2. MakersOK' /\ MonitorsOK' /\ DeliverersOK'
    BY DEF MakersOK, MonitorsOK, DeliverersOK
  <1>3. DeliveryIsTrue' /\ UnfinishedHasWorker'
    BY DEF DeliveryIsTrue, UnfinishedHasWorker
  <1> QED
    BY <1>1, <1>2, <1>3

LEMMA NextKeeps ==
  ASSUME IInv, Next
  PROVE  IInv'
  <1>1. ASSUME NEW c \in Callers, CreateStep(c)
        PROVE  IInv'
    BY <1>1, ClaimExistingKeeps, ClaimKeeps, ClaimNotSavedKeeps, CreateWorktreeKeeps,
       MarkStartingKeeps, CreateTerminalKeeps, HostFailsKeeps, MarkReadyKeeps,
       SpawnMonitorKeeps, FinishFailedKeeps, WaitKeeps DEF CreateStep
  <1>2. ASSUME NEW c \in Callers, DeliveryStep(c)
        PROVE  IInv'
    BY <1>2, LookupMergeKeeps, MergeHostKeeps, LookupRemoveKeeps, RemoveHostKeeps,
       MarkKeeps, DeliveryFailsKeeps DEF DeliveryStep
  <1> QED
    BY <1>1, <1>2, CallCreateKeeps, CallDeliveryKeeps, MonitorStepKeeps, CrashKeeps DEF Next

LEMMA Invariance == Spec => []IInv
  <1>1. IInv /\ [Next]_vars => IInv'
    BY NextKeeps, StutterKeeps
  <1> QED
    BY <1>1, InitHolds, PTL DEF Spec

\* The operations, in memory and in the file, the calls and the monitors are
\* well formed, and delivery_lock is held by exactly the delivery under way.
THEOREM WorktreesTypeCorrect == Spec => []TypeOK
  <1>1. IInv => TypeOK
    BY DEF IInv
  <1> QED
    BY <1>1, Invariance, PTL

\* mark_delivery records a merge or a removal only after the host did it, and
\* nothing that follows (a failed save, a restart) makes the record untrue.
THEOREM WorktreesDeliveryIsTrue == Spec => []DeliveryIsTrue
  <1>1. IInv => DeliveryIsTrue
    BY DEF IInv
  <1> QED
    BY <1>1, Invariance, PTL

\* From claim on, through create and the monitor's last report, an operation
\* that is not finished is in somebody's hands.
THEOREM WorktreesUnfinishedHasWorker == Spec => []UnfinishedHasWorker
  <1>1. IInv => UnfinishedHasWorker
    BY DEF IInv
  <1> QED
    BY <1>1, Invariance, PTL

\* update_task finds its operation by the id of the request: it is still the
\* operation that the monitor was started for.
THEOREM WorktreesMonitorWatchesOwn == Spec => []MonitorWatchesOwn
  <1>1. IInv => MonitorWatchesOwn
    BY DEF IInv, MonitorsOK, MonitorWatchesOwn
  <1> QED
    BY <1>1, Invariance, PTL

----------------------------------------------------------------------------
\* The refinement.  A step that changes one operation moves one phase.
PhaseOf == [r \in Requests |-> Phase(op[r])]

Moves(r, from, to) ==
    PhaseOf[r] = from /\ PhaseOf' = [PhaseOf EXCEPT ![r] = to]

LEMMA PhaseMoves ==
  ASSUME op \in [Requests -> Ops], NEW r \in Requests, NEW o, op' = [op EXCEPT ![r] = o]
  PROVE  /\ Moves(r, Phase(op[r]), Phase(o))
         /\ Phase(o) = Phase(op[r]) => PhaseOf' = PhaseOf
  BY DEF PhaseOf, Moves

\* One step of the abstract life, or none.
LifeStep == Life!Next \/ UNCHANGED PhaseOf

LEMMA SamePhases ==
  ASSUME op' = op
  PROVE  LifeStep
  BY DEF LifeStep, PhaseOf

LEMMA UnusedIsOver ==
  ASSUME NEW o \in Ops, Valid(o), ~Reusable(o)
  PROVE  Phase(o) \in {"none", "removed", "failed"}
  <1>1. CASE o.id = 0
    BY <1>1 DEF Phase
  <1>2. CASE o.delivery = "removed"
    BY <1>2 DEF Phase
  <1>3. CASE o.id # 0 /\ o.delivery # "removed"
    <2>1. o.state = "failed" \/ o.task = "failed"
      BY <1>3 DEF Reusable
    <2>2. o.delivery = "none"
      BY <1>3, <2>1 DEF Valid, NoOp
    <2> QED
      BY <2>1, <2>2 DEF Phase
  <1> QED
    BY <1>1, <1>2, <1>3

LEMMA ClaimBegins ==
  ASSUME IInv, NEW c \in Callers, Claim(c)
  PROVE  LifeStep
  <1> DEFINE r == call[c].request
             o == [id |-> attempts + 1, state |-> "creating",
                   task |-> "none", delivery |-> "none"]
  <1>1. r \in Requests /\ attempts \in Nat /\ op \in [Requests -> Ops]
    BY CallFacts DEF Claim, At, CreateSteps, IInv, TypeOK
  <1>2. op' = [op EXCEPT ![r] = o]
    BY DEF Claim, Update
  <1>3. Phase(o) = "working"
    BY <1>1 DEF Phase
  <1>4. \A s \in Requests : PhaseOf[s] \in {"none", "removed", "failed"}
    <2>1. \A s \in Requests : ~Reusable(op[s]) /\ Valid(op[s])
      BY NothingInUse DEF Claim, IInv, StoreOK
    <2>2. \A s \in Requests : op[s] \in Ops
      BY DEF IInv, TypeOK
    <2> QED
      BY <2>1, <2>2, UnusedIsOver DEF PhaseOf
  <1> HIDE DEF o
  <1>5. Moves(r, Phase(op[r]), "working")
    BY <1>1, <1>2, <1>3, PhaseMoves
  <1>6. Life!Begin(r)
    BY <1>1, <1>4, <1>5 DEF Life!Begin, Life!Move, Life!Over, PhaseOf, Moves
  <1> QED
    BY <1>1, <1>6 DEF LifeStep, Life!Next

LEMMA MakerLives ==
  ASSUME IInv, NEW c \in Callers, MarkStarting(c) \/ MarkReady(c) \/ FinishFailed(c)
  PROVE  LifeStep
  <1> DEFINE r == call[c].request
  <1>1. call[c].step \in Making
    BY DEF MarkStarting, MarkReady, FinishFailed, At, Making
  <1>2. /\ r \in Requests /\ op[r] \in Ops /\ Valid(op[r]) /\ op[r].id # 0
        /\ op[r].delivery = "none" /\ op[r].task # "completed" /\ op \in [Requests -> Ops]
    BY <1>1, MakerFacts DEF IInv, TypeOK
  <1>3. MadeSoFar(call[c].step, op[r])
    BY <1>1, CallFacts
  <1>4. CASE MarkStarting(c)
    <2> DEFINE o == [op[r] EXCEPT !.state = "starting", !.task = "pending"]
    <2>1. op' = [op EXCEPT ![r] = o] /\ call[c].step = "starting"
      BY <1>4 DEF MarkStarting, Update, At
    <2>2. Phase(o) = "working" /\ Phase(op[r]) = "working"
      BY <1>2, <1>3, <2>1 DEF Phase, Ops, Valid, NoOp, MadeSoFar
    <2> HIDE DEF o
    <2> QED
      BY <1>2, <2>1, <2>2, PhaseMoves DEF LifeStep
  <1>5. CASE MarkReady(c)
    <2> DEFINE o == [op[r] EXCEPT !.state = "ready"]
    <2>1. op' = [op EXCEPT ![r] = o] /\ call[c].step = "ready"
      BY <1>5 DEF MarkReady, Update, At
    <2>2. Phase(o) = "working" /\ Phase(op[r]) = "working"
      BY <1>2, <1>3, <2>1 DEF Phase, Ops, Valid, NoOp, MadeSoFar
    <2> HIDE DEF o
    <2> QED
      BY <1>2, <2>1, <2>2, PhaseMoves DEF LifeStep
  <1>6. CASE FinishFailed(c)
    <2> DEFINE o == [op[r] EXCEPT !.state = "failed"]
    <2>1. op' = [op EXCEPT ![r] = o] /\ call[c].step = "fail"
      BY <1>6 DEF FinishFailed, Update, At
    <2>2. Phase(o) = "failed" /\ Phase(op[r]) = "working"
      BY <1>2, <1>3, <2>1 DEF Phase, Ops, Valid, NoOp, MadeSoFar
    <2> HIDE DEF o
    <2>3. Moves(r, "working", "failed")
      BY <1>2, <2>1, <2>2, PhaseMoves
    <2>4. Life!Fail(r)
      BY <2>3 DEF Life!Fail, Life!Move, PhaseOf, Moves
    <2> QED
      BY <1>2, <2>4 DEF LifeStep, Life!Next
  <1> QED
    BY <1>4, <1>5, <1>6

LEMMA MonitorLives ==
  ASSUME IInv, NEW m \in monitors, MonitorStep(m)
  PROVE  LifeStep
  <1> DEFINE r == m.request
  <1>1. PICK task \in {"running", "waiting", "completed", "failed"} : UpdateTask(m, task)
    BY DEF MonitorStep, AgentWorks, AgentWaits, AgentCompletes, AgentFails
  <1> DEFINE o == [op[r] EXCEPT !.task = task]
  <1>2. /\ r \in Requests /\ op[r] \in Ops /\ op[r].id # 0 /\ op[r].delivery = "none"
        /\ op[r].state = "ready" /\ op[r].task \in {"pending", "running", "waiting"}
        /\ op \in [Requests -> Ops]
    BY MonitorAlone DEF IInv, TypeOK
  <1>3. op' = [op EXCEPT ![r] = o]
    BY <1>1 DEF UpdateTask, Update
  <1>4. /\ Phase(op[r]) = "working"
        /\ task \in {"running", "waiting"} => Phase(o) = "working"
        /\ task \in {"completed", "failed"} => Phase(o) = task
    BY <1>2 DEF Phase, Ops
  <1> HIDE DEF o
  <1>5. Moves(r, "working", Phase(o))
    BY <1>2, <1>3, <1>4, PhaseMoves
  <1>6. CASE task \in {"running", "waiting"}
    BY <1>2, <1>3, <1>4, <1>6, PhaseMoves DEF LifeStep
  <1>7. CASE task = "completed"
    <2>1. Life!Complete(r)
      BY <1>4, <1>5, <1>7 DEF Life!Complete, Life!Move, PhaseOf, Moves
    <2> QED
      BY <1>2, <2>1 DEF LifeStep, Life!Next
  <1>8. CASE task = "failed"
    <2>1. Life!Fail(r)
      BY <1>4, <1>5, <1>8 DEF Life!Fail, Life!Move, PhaseOf, Moves
    <2> QED
      BY <1>2, <2>1 DEF LifeStep, Life!Next
  <1> QED
    BY <1>6, <1>7, <1>8

\* mark_delivery, of the one operation with the id of the call.
LEMMA MarkLives ==
  ASSUME IInv, NEW c \in Callers, MarkMerged(c) \/ MarkRemoved(c)
  PROVE  LifeStep
  <1>1. PICK here \in {"mergeMark", "removeMark"}, delivery \in {"merged", "removed"} :
           /\ Mark(c, here, delivery)
           /\ here = "mergeMark" <=> delivery = "merged"
    BY DEF MarkMerged, MarkRemoved
  <1>2. PICK r \in Requests : /\ op[r].id = call[c].id
                              /\ op' = [op EXCEPT ![r] = [op[r] EXCEPT !.delivery = delivery]]
    BY <1>1 DEF Mark, Found, Update
  <1> DEFINE o == [op[r] EXCEPT !.delivery = delivery]
  <1>3. call[c].step = here /\ call[c].step \in Delivering /\ op \in [Requests -> Ops]
    BY <1>1 DEF Mark, At, Delivering, IInv, TypeOK
  <1>4. call[c].id # 0 /\ \A s \in Requests : op[s].id = call[c].id => s = r
    BY <1>2, <1>3, DelivererFacts DEF IInv, StoreOK, Attempts
  <1>5. IF delivery = "merged" THEN Mergeable(op[r]) ELSE Removable(op[r])
    BY <1>1, <1>2, <1>3, <1>4, DelivererFacts
  <1>6. /\ Phase(op[r]) = IF delivery = "merged" THEN "completed" ELSE "merged"
        /\ Phase(o) = delivery
    BY <1>1, <1>2, <1>3, <1>4, <1>5 DEF Phase, Ops, Mergeable, Removable
  <1> HIDE DEF o
  <1>7. Moves(r, Phase(op[r]), delivery)
    <2>1. op' = [op EXCEPT ![r] = o]
      BY <1>2 DEF o
    <2> QED
      BY <1>3, <1>6, <2>1, PhaseMoves
  <1>8. CASE delivery = "merged"
    <2>1. Life!Merge(r)
      BY <1>6, <1>7, <1>8 DEF Life!Merge, Life!Move, PhaseOf, Moves
    <2> QED
      BY <2>1 DEF LifeStep, Life!Next
  <1>9. CASE delivery = "removed"
    <2>1. Life!Remove(r)
      BY <1>6, <1>7, <1>9 DEF Life!Remove, Life!Move, PhaseOf, Moves
    <2> QED
      BY <2>1 DEF LifeStep, Life!Next
  <1> QED
    BY <1>8, <1>9

\* What a restart makes of the file is a phase to fall back to.
LEMMA CrashRestarts ==
  ASSUME IInv, Crash
  PROVE  LifeStep
  <1>1. op' = [r \in Requests |-> Recovered(disk[r])]
    BY DEF Crash
  <1>2. ASSUME NEW r \in Requests
        PROVE  /\ Phase(op'[r]) \in Life!Phases
               /\ Phase(op'[r]) \in Life!Fallback(Phase(op[r]))
    <2> DEFINE s == disk[r]
               o == op[r]
    <2>1. /\ s \in Ops /\ o \in Ops /\ Valid(s) /\ Valid(o) /\ Earlier(s, o)
          /\ op'[r] = Recovered(s)
      BY <1>1 DEF IInv, TypeOK, StoreOK
    <2> HIDE DEF s, o
    <2>2. CASE o.id = 0
      <3>1. Phase(Recovered(s)) = "none" /\ Phase(o) = "none"
        BY <2>1, <2>2 DEF Valid, NoOp, Earlier, Recovered, Phase, Unfinished
      <3> QED
        BY <2>1, <3>1 DEF Life!Fallback, Life!Phases, o
    <2>3. CASE o.id # 0
      <3>1. s.id # 0
        BY <2>1, <2>3 DEF Earlier
      <3>2. /\ s.delivery # "none" => Phase(Recovered(s)) = s.delivery
            /\ s.delivery = "none" /\ s.task = "completed" => Phase(Recovered(s)) = "completed"
            /\ s.delivery = "none" /\ s.task # "completed" => Phase(Recovered(s)) = "failed"
        BY <2>1, <3>1 DEF Valid, NoOp, Recovered, Phase, Unfinished, Ops
      <3>3. /\ o.delivery # "none" => Phase(o) = o.delivery
            /\ o.delivery = "none" /\ o.task = "completed" => Phase(o) = "completed"
            /\ o.delivery = "none" => Phase(o) \in {"completed", "failed", "working"}
        BY <2>1, <2>3 DEF Valid, NoOp, Phase, Ops
      <3>4. s.delivery # "none" => o.delivery # "none"
        BY <2>1 DEF Earlier, Ops
      <3>5. s.delivery \in {"none", "merged", "removed"} /\ o.delivery \in {"none", "merged", "removed"}
        BY <2>1 DEF Ops
      <3>6. /\ Phase(Recovered(s)) \in Life!Phases
            /\ Phase(Recovered(s)) \in Life!Fallback(Phase(o))
        BY <2>1, <3>2, <3>3, <3>4, <3>5 DEF Earlier, Life!Fallback, Life!Phases
      <3> QED
        BY <2>1, <3>6 DEF o
    <2> QED
      BY <2>2, <2>3
  <1>3. Life!Restart
    BY <1>2 DEF Life!Restart, PhaseOf
  <1> QED
    BY <1>3 DEF LifeStep, Life!Next

LEMMA EveryStepLives ==
  ASSUME IInv, [Next]_vars
  PROVE  LifeStep
  <1>1. CASE UNCHANGED vars
    BY <1>1, SamePhases DEF vars
  <1>2. ASSUME NEW c \in Callers, CreateStep(c)
        PROVE  LifeStep
    <2>1. CASE Claim(c)
      BY <2>1, ClaimBegins
    <2>2. CASE MarkStarting(c) \/ MarkReady(c) \/ FinishFailed(c)
      BY <2>2, MakerLives
    <2>3. CASE \/ ClaimExisting(c) \/ ClaimNotSaved(c) \/ CreateWorktree(c)
               \/ CreateTerminal(c) \/ HostFails(c) \/ SpawnMonitor(c) \/ Wait(c)
      BY <2>3, SamePhases
      DEF ClaimExisting, ClaimNotSaved, CreateWorktree, CreateTerminal, HostFails,
          SpawnMonitor, Wait, storeVars
    <2> QED
      BY <1>2, <2>1, <2>2, <2>3 DEF CreateStep
  <1>3. ASSUME NEW c \in Callers, DeliveryStep(c)
        PROVE  LifeStep
    <2>1. CASE MarkMerged(c) \/ MarkRemoved(c)
      BY <2>1, MarkLives
    <2>2. CASE \/ LookupMerge(c) \/ MergeHost(c) \/ LookupRemove(c) \/ RemoveHost(c)
               \/ DeliveryFails(c)
      BY <2>2, SamePhases
      DEF LookupMerge, LookupRemove, Lookup, MergeHost, RemoveHost, DeliveryFails, storeVars
    <2> QED
      BY <1>3, <2>1, <2>2 DEF DeliveryStep
  <1>4. ASSUME NEW c \in Callers, NEW r \in Requests, NEW wait, CallCreate(c, r, wait)
        PROVE  LifeStep
    BY <1>4, SamePhases DEF CallCreate, storeVars
  <1>5. ASSUME NEW c \in Callers, NEW step, NEW id, CallDelivery(c, step, id)
        PROVE  LifeStep
    BY <1>5, SamePhases DEF CallDelivery, storeVars
  <1> QED
    BY <1>1, <1>2, <1>3, <1>4, <1>5, MonitorLives, CrashRestarts DEF Next

LEMMA LifeBegins ==
  ASSUME Init
  PROVE  Life!Init
  BY DEF Init, Life!Init, Phase, NoOp

\* The operations of codux-runtime-live/src/agent_worktree implement the life
\* that AgentWorktreeLife promises, through concurrent requests for one task,
\* failed saves and restarts.
THEOREM WorktreesKeepPromise == Spec => KeepsPromise
  <1>1. IInv /\ [Next]_vars => [Life!Next]_PhaseOf
    BY EveryStepLives DEF LifeStep
  <1>2. Init => Life!Init
    BY LifeBegins
  <1> QED
    BY <1>1, <1>2, Invariance, PTL DEF Spec, KeepsPromise, Life!Spec, PhaseOf

=============================================================================
