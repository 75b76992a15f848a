--------------------------- MODULE ViewportProofs ---------------------------
(***************************************************************************)
(* Who drives a terminal, for any number of devices and handler tasks, any *)
(* grids and any length of the lease.  What holds of the ownership alone   *)
(* comes first; the lease and the handlers are built from the same steps,  *)
(* so what is proved of a step of the ownership is used for theirs.        *)
(* Of the views, the inductive invariant speaks of every state that is     *)
(* still about, not only of the accepted ones: none is ahead of the lease, *)
(* and no two have one generation without being equal.                     *)
(***************************************************************************)
EXTENDS ViewportViews, ViewportHandlers, TLAPS

----------------------------------------------------------------------------
\* The ownership.

LEMMA OwnershipInitType == OwnershipInit => OwnershipTypeOK
  <1> SUFFICES ASSUME OwnershipInit PROVE OwnershipTypeOK
    OBVIOUS
  <1>1. explicitOwner \in BOOLEAN
    BY Zenon DEF OwnershipInit
  <1> QED
    BY <1>1, OwnershipAssumption DEF OwnershipInit, OwnershipTypeOK, Owners

\* Every method keeps the types of the ownership.
LEMMA OwnershipStepType ==
  ASSUME OwnershipTypeOK, [OwnershipNext]_ownershipVars
  PROVE  OwnershipTypeOK'
  <1> USE OwnershipAssumption DEF OwnershipTypeOK, Owners
  <1>1. ASSUME NEW o \in Owners, NEW intent \in DesktopIntents \cup DeviceIntents,
               TakeOwnership(o, intent)
        PROVE  OwnershipTypeOK'
    BY <1>1 DEF TakeOwnership
  <1>2. ASSUME NEW o \in Owners, RenewOwnership(o)
        PROVE  OwnershipTypeOK'
    BY <1>2 DEF RenewOwnership
  <1>3. ASSUME NEW o \in Owners, PassOwnership(o)
        PROVE  OwnershipTypeOK'
    <2>1. explicitOwner' \in BOOLEAN
      BY <1>3, Zenon DEF PassOwnership
    <2> QED
      BY <1>3, <2>1 DEF PassOwnership
  <1>4. ASSUME NEW resolved \in Owners \cup {Nobody}, ReclaimOwnership(resolved)
        PROVE  OwnershipTypeOK'
    BY <1>4, <1>3 DEF ReclaimOwnership, NextOwner
  <1>5. ASSUME NEW d \in Devices, ReleaseOwnership(d)
        PROVE  OwnershipTypeOK'
    BY <1>5, <1>3 DEF ReleaseOwnership
  <1>6. CASE TickOwnership
    BY <1>6 DEF TickOwnership
  <1>7. CASE UNCHANGED ownershipVars
    BY <1>7 DEF ownershipVars
  <1> QED
    BY <1>1, <1>2, <1>4, <1>5, <1>6, <1>7 DEF OwnershipNext

\* The types of the ownership.
THEOREM OwnershipTypeCorrect == OwnershipSpec => []OwnershipTypeOK
  <1>1. OwnershipTypeOK /\ [OwnershipNext]_ownershipVars => OwnershipTypeOK'
    BY OwnershipStepType
  <1> QED
    BY <1>1, OwnershipInitType, PTL DEF OwnershipSpec

----------------------------------------------------------------------------

\* The desktop's explicit takeover is undone by a device's explicit claim only.
THEOREM OwnershipTakeoverHolds == OwnershipSpec => TakeoverHolds
  <1> DEFINE Undone == owner = Desktop /\ explicitOwner
                         /\ ~(owner' = Desktop /\ explicitOwner')
  <1>1. ASSUME OwnershipNext, Undone
        PROVE  \E d \in Devices : TakeOwnership(d, "force")
    <2>1. ASSUME NEW intent \in DesktopIntents, TakeOwnership(Desktop, intent)
          PROVE  FALSE
      BY <1>1, <2>1 DEF TakeOwnership, DesktopIntents
    <2>2. ASSUME NEW d \in Devices, TakeOwnership(d, "auto")
          PROVE  FALSE
      BY <1>1, <2>2, OwnershipAssumption DEF TakeOwnership, CanClaim
    <2>3. ASSUME NEW resolved \in Owners \cup {Nobody}, ReclaimOwnership(resolved)
          PROVE  FALSE
      BY <1>1, <2>3 DEF ReclaimOwnership, Expired
    <2>4. ASSUME NEW d \in Devices, ReleaseOwnership(d)
          PROVE  FALSE
      BY <1>1, <2>4, OwnershipAssumption DEF ReleaseOwnership
    <2>5. ASSUME NEW o \in Owners, RenewOwnership(o)
          PROVE  FALSE
      BY <1>1, <2>5 DEF RenewOwnership
    <2>6. ~TickOwnership
      BY <1>1 DEF TickOwnership
    <2> QED
      BY <1>1, <2>1, <2>2, <2>3, <2>4, <2>5, <2>6 DEF OwnershipNext, DeviceIntents
  <1>2. [OwnershipNext]_ownershipVars
          => [Undone => \E d \in Devices : TakeOwnership(d, "force")]_ownershipVars
    BY <1>1
  <1> QED
    BY <1>2, PTL DEF OwnershipSpec, TakeoverHolds

\* A device loses an unexpired lease only to an explicit claim or by giving it
\* back.
THEOREM OwnershipHeldUntilLapse == OwnershipSpec => HeldUntilLapse
  <1> DEFINE Lost == owner \in Devices /\ owner' # owner /\ ttl > 0
             Given == ReleaseOwnership(owner) \/ \E o \in Owners : TakeOwnership(o, "force")
  <1>1. ASSUME OwnershipNext, Lost
        PROVE  Given
    <2>1. ASSUME NEW o \in Owners, NEW intent \in {"passive", "auto"}, TakeOwnership(o, intent)
          PROVE  FALSE
      BY <1>1, <2>1, OwnershipAssumption DEF TakeOwnership, CanClaim
    <2>2. ASSUME NEW resolved \in Owners \cup {Nobody}, ReclaimOwnership(resolved)
          PROVE  FALSE
      BY <1>1, <2>2 DEF ReclaimOwnership, Expired
    <2>3. ASSUME NEW d \in Devices, ReleaseOwnership(d)
          PROVE  Given
      BY <2>3 DEF ReleaseOwnership
    <2>4. ASSUME TickOwnership \/ \E o \in Owners : RenewOwnership(o)
          PROVE  FALSE
      BY <1>1, <2>4 DEF TickOwnership, RenewOwnership
    <2> QED
      BY <1>1, <2>1, <2>2, <2>3, <2>4 DEF OwnershipNext, DesktopIntents, DeviceIntents, Owners
  <1>2. [OwnershipNext]_ownershipVars => [Lost => Given]_ownershipVars
    BY <1>1
  <1> QED
    BY <1>2, PTL DEF OwnershipSpec, HeldUntilLapse

----------------------------------------------------------------------------
\* The lease.

LEMMA LeaseInitOwns == LeaseInit => OwnershipInit
  BY DEF LeaseInit

\* Every method of the lease is a step of the ownership, or none of its.
LEMMA LeaseStepOwns ==
  ASSUME [LeaseNext]_leaseVars
  PROVE  [OwnershipNext]_ownershipVars
  <1>1. ASSUME NEW intent \in DesktopIntents, Claim(Desktop, intent)
        PROVE  OwnershipNext
    BY <1>1 DEF Claim, OwnershipNext
  <1>2. ASSUME NEW d \in Devices, NEW intent \in DeviceIntents, Claim(d, intent)
        PROVE  OwnershipNext
    BY <1>2 DEF Claim, OwnershipNext
  <1>3. ASSUME NEW o \in Owners, Touch(o)
        PROVE  OwnershipNext
    BY <1>3 DEF Touch, OwnershipNext
  <1>4. ASSUME NEW resolved \in Owners \cup {Nobody}, Reclaim(resolved)
        PROVE  OwnershipNext
    BY <1>4 DEF Reclaim, OwnershipNext
  <1>5. ASSUME NEW d \in Devices, Release(d)
        PROVE  OwnershipNext
    BY <1>5 DEF Release, OwnershipNext
  <1>6. ASSUME NEW o \in Owners, NEW g \in Grids, ResizeTo(o, g) \/ ResizeFails(o, g)
        PROVE  OwnershipNext
    BY <1>6, <1>3 DEF ResizeTo, ResizeFails, OwnershipNext
  <1>7. ASSUME NEW d \in Devices, NEW name \in Names \cup {NoName}, SetOwnerLabel(d, name)
        PROVE  UNCHANGED ownershipVars
    BY <1>7 DEF SetOwnerLabel
  <1>8. CASE Tick
    BY <1>8 DEF Tick, OwnershipNext
  <1>9. CASE UNCHANGED leaseVars
    BY <1>9 DEF leaseVars
  <1> QED
    BY <1>1, <1>2, <1>3, <1>4, <1>5, <1>6, <1>7, <1>8, <1>9 DEF LeaseNext

\* By its construction: the lease changes the ownership by its own steps only.
LEMMA LeaseKeepsOwnership == LeaseSpec => OwnershipSpec
  <1>1. [LeaseNext]_leaseVars => [OwnershipNext]_ownershipVars
    BY LeaseStepOwns
  <1> QED
    BY <1>1, LeaseInitOwns, PTL DEF LeaseSpec, OwnershipSpec

----------------------------------------------------------------------------

\* The grid a resize sets is one a session can have.
LEMMA ClampGridType == \A g \in Grids : ClampGrid(g) \in SessionGrids
  BY DEF SessionGrids

LEMMA InitType == LeaseInit => LeaseTypeOK
  BY LeaseInitOwns, OwnershipInitType, LeaseAssumption
  DEF LeaseInit, LeaseTypeOK, SessionGrids

\* Every method of the lease keeps the types.
LEMMA StepType == LeaseTypeOK /\ [LeaseNext]_leaseVars => LeaseTypeOK'
  <1> SUFFICES ASSUME LeaseTypeOK, [LeaseNext]_leaseVars
               PROVE  LeaseTypeOK'
    OBVIOUS
  <1>1. OwnershipTypeOK'
    BY LeaseStepOwns, OwnershipStepType DEF LeaseTypeOK
  <1>2. generation' \in Nat
    BY DEF LeaseTypeOK, LeaseNext, leaseVars, Claim, Touch, Reclaim, Release,
           ResizeTo, ResizeFails, SetOwnerLabel, Tick, Bump
  <1>3. grid' \in SessionGrids
    BY ClampGridType
    DEF LeaseTypeOK, LeaseNext, leaseVars, Claim, Touch, Reclaim, Release,
        ResizeTo, ResizeFails, SetOwnerLabel, Tick
  <1>4. ownerLabel' \in Names \cup {NoName}
    BY DEF LeaseTypeOK, LeaseNext, leaseVars, Claim, Touch, Reclaim, Release,
           ResizeTo, ResizeFails, SetOwnerLabel, Tick
  <1> QED
    BY <1>1, <1>2, <1>3, <1>4 DEF LeaseTypeOK

\* The type invariant of the lease.
THEOREM LeaseTypeCorrect == LeaseSpec => []LeaseTypeOK
  BY InitType, StepType, PTL DEF LeaseSpec

----------------------------------------------------------------------------

\* Whatever a step does to the owner or the grid, it does under a new
\* generation, and no step takes the generation back.
LEMMA StepFences ==
  ASSUME LeaseTypeOK, [LeaseNext]_leaseVars
  PROVE  /\ generation' >= generation
         /\ generation' = generation => owner' = owner /\ grid' = grid
  BY LeaseAssumption
  DEF LeaseTypeOK, LeaseNext, leaseVars, ownershipVars, Claim, Touch, Reclaim, Release,
      ResizeTo, ResizeFails, SetOwnerLabel, Tick, Bump, TakeOwnership,
      RenewOwnership, TickOwnership

\* The generation fences every change of owner or grid (the four methods of
\* session.rs that bump it are all that change them).
THEOREM LeaseFences == LeaseSpec => GenerationFences
  <1>1. LeaseTypeOK /\ [LeaseNext]_leaseVars
          => [/\ generation' >= generation
              /\ generation' = generation => owner' = owner /\ grid' = grid]_leaseVars
    BY StepFences
  <1> QED
    BY <1>1, LeaseTypeCorrect, PTL DEF LeaseSpec, GenerationFences

\* The desktop's explicit takeover holds under every method of the lease.
THEOREM LeaseTakeoverHolds == LeaseSpec => TakeoverHolds
  BY LeaseKeepsOwnership, OwnershipTakeoverHolds

\* An unexpired lease is given back or taken explicitly, whatever method runs.
THEOREM LeaseIsHeldUntilLapse == LeaseSpec => HeldUntilLapse
  BY LeaseKeepsOwnership, OwnershipHeldUntilLapse

----------------------------------------------------------------------------
\* The views.

Inv == TypeOK /\ NoneAhead /\ OneStatePerGeneration

LEMMA CurrentIsState == LeaseTypeOK => Current \in States
  BY DEF LeaseTypeOK, OwnershipTypeOK, Current, States

LEMMA UnknownIsNoState == Unknown \notin States
  BY OwnershipAssumption DEF Unknown, States, Owners

LEMMA SendType ==
  ASSUME NEW D \in SUBSET Devices, NEW state \in States
  PROVE  Send(D, state) \subseteq [to : Devices, state : States]
  BY DEF Send

LEMMA ViewsInit == Init => Inv
  <1> SUFFICES ASSUME Init PROVE Inv
    OBVIOUS
  <1>1. TypeOK
    BY InitType DEF Init, TypeOK
  <1>2. Known = {}
    BY DEF Init, Known
  <1> QED
    BY <1>1, <1>2 DEF Inv, NoneAhead, OneStatePerGeneration

\* Every action keeps the types.
LEMMA ViewsStepType == TypeOK /\ [Next]_vars => TypeOK'
  <1> SUFFICES ASSUME TypeOK, [Next]_vars
               PROVE  TypeOK'
    OBVIOUS
  <1> USE DEF TypeOK
  <1>1. Current \in States /\ (LeaseTypeOK' => Current' \in States)
    BY CurrentIsState DEF LeaseTypeOK, OwnershipTypeOK, Current, States
  <1>2. UNCHANGED leaseVars => LeaseTypeOK'
    BY StepType
  <1>3. CASE ChangeLease
    BY <1>1, <1>3, StepType DEF ChangeLease
  <1>4. ASSUME NEW state \in emitting, Emit(state)
        PROVE  TypeOK'
    BY <1>2, <1>4, SendType DEF Emit
  <1>5. ASSUME NEW d \in Devices, Subscribe(d)
        PROVE  TypeOK'
    BY <1>1, <1>2, <1>5, SendType DEF Subscribe
  <1>6. ASSUME NEW d \in Devices, Unsubscribe(d)
        PROVE  TypeOK'
    BY <1>2, <1>6 DEF Unsubscribe
  <1>7. ASSUME NEW d \in Devices, Reconnect(d)
        PROVE  TypeOK'
    BY <1>2, <1>7 DEF Reconnect
  <1>8. CASE Reassert
    <2>1. Send(ReassertTo, Current) \subseteq [to : Devices, state : States]
      BY <1>1, SendType DEF ReassertTo
    <2> QED
      BY <1>2, <1>8, <2>1 DEF Reassert
  <1>9. ASSUME NEW m \in sent, Deliver(m) \/ Lose(m)
        PROVE  TypeOK'
    BY <1>2, <1>9 DEF Deliver, Lose
  <1>10. CASE UNCHANGED vars
    BY <1>2, <1>10 DEF vars, viewVars
  <1> QED
    BY <1>3, <1>4, <1>5, <1>6, <1>7, <1>8, <1>9, <1>10 DEF Next

\* A step brings no state about but the current one.
LEMMA KnownStep == TypeOK /\ [Next]_vars => Known' \subseteq Known \cup {Current'}
  <1> SUFFICES ASSUME TypeOK, [Next]_vars
               PROVE  Known' \subseteq Known \cup {Current'}
    OBVIOUS
  <1> USE DEF TypeOK, Known
  <1>1. UNCHANGED leaseVars => Current' = Current
    BY DEF leaseVars, ownershipVars, Current
  <1>2. CASE ChangeLease
    BY <1>2 DEF ChangeLease
  <1>3. ASSUME NEW state \in emitting, Emit(state)
        PROVE  Known' \subseteq Known
    BY <1>3 DEF Emit, Send
  <1>4. ASSUME NEW d \in Devices, Subscribe(d)
        PROVE  Known' \subseteq Known \cup {Current'}
    BY <1>1, <1>4 DEF Subscribe, Send
  <1>5. ASSUME NEW d \in Devices, Unsubscribe(d) \/ Reconnect(d)
        PROVE  Known' \subseteq Known
    BY <1>5 DEF Unsubscribe, Reconnect
  <1>6. CASE Reassert
    BY <1>1, <1>6 DEF Reassert, ReassertTo, Send
  <1>7. ASSUME NEW m \in sent, Deliver(m) \/ Lose(m)
        PROVE  Known' \subseteq Known
    BY <1>7 DEF Deliver, Lose
  <1>8. CASE UNCHANGED vars
    BY <1>8 DEF vars, viewVars
  <1> QED
    BY <1>2, <1>3, <1>4, <1>5, <1>6, <1>7, <1>8 DEF Next

\* Every step either leaves the lease alone or is one of its methods.
LEMMA StepOfLease == [Next]_vars => [LeaseNext]_leaseVars
  BY DEF Next, vars, ChangeLease, Emit, Subscribe, Unsubscribe, Reconnect,
         Reassert, Deliver, Lose

LEMMA ViewsStep == Inv /\ [Next]_vars => Inv'
  <1> SUFFICES ASSUME Inv, [Next]_vars
               PROVE  Inv'
    OBVIOUS
  <1> USE DEF Inv
  <1>1. TypeOK'
    BY ViewsStepType
  <1>2. Known' \subseteq Known \cup {Current'}
    BY KnownStep
  <1>3. /\ generation \in Nat /\ generation' \in Nat
        /\ generation' >= generation
        /\ generation' = generation => Current' = Current
    <2>1. /\ generation' >= generation
          /\ generation' = generation => owner' = owner /\ grid' = grid
      BY StepOfLease, StepFences DEF TypeOK
    <2> QED
      BY <1>1, <2>1 DEF TypeOK, LeaseTypeOK, Current
  <1>4. Known \subseteq States
    BY DEF TypeOK, Known
  <1>5. Current'.generation = generation'
    BY DEF Current
  <1>6. NoneAhead'
    <2> SUFFICES ASSUME NEW s \in Known'
                 PROVE  /\ s.generation <= generation'
                        /\ s.generation = generation' => s = Current'
      BY DEF NoneAhead
    <2>1. CASE s = Current'
      BY <2>1, <1>3, <1>5
    <2>2. CASE s \in Known
      <3>1. s.generation \in Nat
        BY <2>2, <1>4 DEF States
      <3>2. /\ s.generation <= generation
            /\ s.generation = generation => s = Current
        BY <2>2 DEF NoneAhead
      <3> QED
        BY <1>3, <3>1, <3>2
    <2> QED
      BY <1>2, <2>1, <2>2
  <1>7. OneStatePerGeneration'
    <2> SUFFICES ASSUME NEW s \in Known', NEW t \in Known',
                        s.generation = t.generation
                 PROVE  s = t
      BY DEF OneStatePerGeneration
    <2>1. CASE s = Current' \/ t = Current'
      BY <2>1, <1>5, <1>6 DEF NoneAhead
    <2>2. CASE s \in Known /\ t \in Known
      BY <2>2 DEF OneStatePerGeneration
    <2> QED
      BY <1>2, <2>1, <2>2
  <1> QED
    BY <1>1, <1>6, <1>7

THEOREM ViewsInvariant == Spec => []Inv
  BY ViewsInit, ViewsStep, PTL DEF Spec

\* The types of the lease and of everything its viewers hold.
THEOREM ViewsTypeCorrect == Spec => []TypeOK
  BY ViewsInvariant, PTL DEF Inv

\* No two states of one generation differ, wherever they are.
THEOREM ViewsOneStatePerGeneration == Spec => []OneStatePerGeneration
  BY ViewsInvariant, PTL DEF Inv

\* Two devices never both believe they drive the terminal at one generation,
\* and a device that is up to date is right.
THEOREM ViewsOneDriver == Spec => []OneDriver
  <1>1. Inv => OneDriver
    <2> SUFFICES ASSUME Inv PROVE OneDriver
      OBVIOUS
    <2> USE DEF Inv
    <2>1. \A d \in Devices : view[d] # Unknown => view[d] \in Known
      BY DEF Known
    <2>2. ASSUME NEW d \in Devices, NEW e \in Devices,
                 view[d].owner = d, view[e].owner = e,
                 view[d].generation = view[e].generation
          PROVE  d = e
      <3>1. view[d] # Unknown /\ view[e] # Unknown
        BY <2>2, OwnershipAssumption DEF Unknown
      <3> QED
        BY <2>1, <2>2, <3>1 DEF OneStatePerGeneration
    <2>3. ASSUME NEW d \in Devices, view[d] # Unknown, view[d].generation = generation
          PROVE  view[d] = Current
      BY <2>1, <2>3 DEF NoneAhead
    <2> QED
      BY <2>2, <2>3 DEF OneDriver
  <1> QED
    BY <1>1, ViewsInvariant, PTL

\* A device leaves a state for an older one only by starting over.
THEOREM ViewsNeverStepBack == Spec => ViewNeverStepsBack
  <1> DEFINE Back(d) == view'[d].generation < view[d].generation
  <1>1. ASSUME TypeOK, Next, NEW d \in Devices, Back(d)
        PROVE  Reconnect(d)
    <2>1. view[d].generation \in Nat
      BY <1>1 DEF TypeOK, States, Unknown
    <2>2. view'[d] # view[d]
      BY <1>1, <2>1
    <2>3. ASSUME NEW m \in sent, Deliver(m)
          PROVE  FALSE
      <3>1. m.to \in Devices /\ m.state.generation \in Nat
        BY <1>1, <2>3 DEF TypeOK, States
      <3> QED
        BY <1>1, <2>1, <2>2, <2>3, <3>1 DEF Deliver, Accepts, TypeOK
    <2>4. ASSUME NEW e \in Devices, Reconnect(e)
          PROVE  e = d
      BY <1>1, <2>2, <2>4 DEF Reconnect, TypeOK
    <2> QED
      BY <1>1, <2>2, <2>3, <2>4
      DEF Next, ChangeLease, Emit, Subscribe, Unsubscribe, Reassert, Lose
  <1>2. TypeOK /\ [Next]_vars
          => [\A d \in Devices : Back(d) => Reconnect(d)]_vars
    BY <1>1
  <1> QED
    BY <1>2, ViewsTypeCorrect, PTL DEF Spec, ViewNeverStepsBack

----------------------------------------------------------------------------
\* The handlers.

\* Every handler has a step to take, and takes known ones.
LEMMA ProgramType == \A kind \in Kinds : Program[kind] \in Seq(Steps) \ {<<>>}
  <1>1. Kinds = {"subscribe", "baseline", "input", "resize", "claim", "force",
                 "keepalive", "outputAck", "signal", "release", "unsubscribe"}
    BY DEF Kinds, Program
  <1>2. /\ Program["subscribe"] = <<"register">>
        /\ Program["baseline"] = <<"register", "demand", "renew", "resize">>
        /\ Program["input"] = <<"register", "look", "renew", "write">>
        /\ Program["resize"] = <<"register", "auto", "resize">>
        /\ Program["claim"] = <<"register", "auto">>
        /\ Program["force"] = <<"register", "force">>
        /\ Program["keepalive"] = <<"register", "renew">>
        /\ Program["outputAck"] = <<"renew">>
        /\ Program["signal"] = <<"signal">>
        /\ Program["release"] = <<"release">>
        /\ Program["unsubscribe"] = <<"unregister">>
    BY DEF Program
  <1>3. ASSUME NEW a \in Steps, NEW b \in Steps, NEW c \in Steps, NEW d \in Steps
        PROVE  /\ <<a>> \in Seq(Steps) \ {<<>>}
               /\ <<a, b>> \in Seq(Steps) \ {<<>>}
               /\ <<a, b, c>> \in Seq(Steps) \ {<<>>}
               /\ <<a, b, c, d>> \in Seq(Steps) \ {<<>>}
    OBVIOUS
  <1> DEFINE Fine(kind) == Program[kind] \in Seq(Steps) \ {<<>>}
  <1>4. /\ "register" \in Steps /\ "demand" \in Steps /\ "renew" \in Steps
        /\ "resize" \in Steps /\ "look" \in Steps /\ "write" \in Steps
        /\ "auto" \in Steps /\ "force" \in Steps /\ "release" \in Steps
        /\ "unregister" \in Steps /\ "signal" \in Steps
    BY DEF Steps
  <1>5. Fine("subscribe") /\ Fine("outputAck") /\ Fine("signal")
        /\ Fine("release") /\ Fine("unsubscribe")
    BY <1>2, <1>3, <1>4
  <1>6. Fine("claim") /\ Fine("force") /\ Fine("keepalive")
    BY <1>2, <1>3, <1>4
  <1>7. Fine("resize")
    BY <1>2, <1>3, <1>4
  <1>8. Fine("baseline")
    BY <1>2, <1>3, <1>4
  <1>9. Fine("input")
    BY <1>2, <1>3, <1>4
  <1> QED
    BY <1>1, <1>5, <1>6, <1>7, <1>8, <1>9

LEMMA HandlersInitType == HandlersInit => HandlersTypeOK
  <1>1. Resting \in [device : Devices \cup {Idle}, steps : Seq(Steps), drove : BOOLEAN]
    BY DEF Resting
  <1> QED
    BY <1>1, OwnershipInitType DEF HandlersInit, HandlersTypeOK

\* A task is at rest or has a device and known steps left.
TaskOK(t) ==
    \/ task[t] = Resting
    \/ task[t].device # Idle /\ task[t].steps # <<>>

TaskRecords == [device : Devices \cup {Idle}, steps : Seq(Steps), drove : BOOLEAN]

LEMMA RunningType ==
  ASSUME HandlersTypeOK, NEW t \in Tasks, NEW step, Running(t, step)
  PROVE  /\ task[t].device \in Devices
         /\ task[t].steps \in Seq(Steps)
         /\ task[t].steps # <<>>
         /\ Tail(task[t].steps) \in Seq(Steps)
  BY HandlersAssumption DEF HandlersTypeOK, Running

\* The steps of the tasks, as far as the ownership goes.
LEMMA TaskStepOwns ==
  ASSUME HandlersTypeOK, NEW t \in Tasks, TaskStep(t)
  PROVE  [OwnershipNext]_ownershipVars
  <1>1. CASE Register(t) \/ Unregister(t) \/ Look(t) \/ Write(t) \/ Signal(t)
    BY <1>1 DEF Register, Unregister, Look, Write, Signal
  <1>2. ASSUME NEW intent \in DeviceIntents, ClaimAnd(t, intent)
        PROVE  [OwnershipNext]_ownershipVars
    <2>1. task[t].device \in Devices
      BY <1>2, RunningType DEF ClaimAnd
    <2> QED
      BY <1>2, <2>1 DEF ClaimAnd, TryClaim, OwnershipNext
  <1>3. CASE Demand(t)
    <2>1. task[t].device \in Devices /\ "auto" \in DeviceIntents
      BY <1>3, RunningType DEF Demand, DeviceIntents
    <2> QED
      BY <1>3, <2>1 DEF Demand, TryClaim, OwnershipNext
  <1>4. CASE Renew(t) \/ Resize(t)
    <2>1. task[t].device \in Owners
      BY <1>4, RunningType DEF Renew, Resize, Owners
    <2> QED
      BY <1>4, <2>1 DEF Renew, Resize, OwnershipNext
  <1>5. CASE GiveBack(t)
    <2>1. task[t].device \in Devices
      BY <1>5, RunningType DEF GiveBack
    <2> QED
      BY <1>5, <2>1 DEF GiveBack, OwnershipNext
  <1> QED
    BY <1>1, <1>2, <1>3, <1>4, <1>5 DEF TaskStep

\* Every action of the handlers is a step of the ownership, or none of its.
LEMMA HandlersStepOwns ==
  ASSUME HandlersTypeOK, [HandlersNext]_systemVars
  PROVE  [OwnershipNext]_ownershipVars
  <1>1. ASSUME NEW d \in Devices, Connect(d) \/ Disconnect(d)
        PROVE  UNCHANGED ownershipVars
    BY <1>1 DEF Connect, Disconnect
  <1>2. CASE HostReconnect
    BY <1>2 DEF HostReconnect
  <1>3. ASSUME NEW t \in Tasks, NEW d \in Devices, NEW kind \in Kinds, Receive(t, d, kind)
        PROVE  UNCHANGED ownershipVars
    BY <1>3 DEF Receive
  <1>4. ASSUME NEW intent \in DesktopIntents, DesktopClaims(intent)
        PROVE  OwnershipNext
    BY <1>4 DEF DesktopClaims, OwnershipNext
  <1>5. CASE Watch
    <2>1. Resolve \subseteq Owners \cup {Nobody}
      BY DEF Resolve, HandlersTypeOK, Owners
    <2> QED
      BY <1>5, <2>1 DEF Watch, OwnershipNext
  <1>6. CASE Clock
    BY <1>6 DEF Clock, OwnershipNext
  <1>7. CASE UNCHANGED systemVars
    BY <1>7 DEF systemVars
  <1> QED
    BY <1>1, <1>2, <1>3, <1>4, <1>5, <1>6, <1>7, TaskStepOwns DEF HandlersNext

\* A task that goes on with known steps is a good task, the others stay so.
LEMMA GoesOnType ==
  ASSUME HandlersTypeOK, NEW t \in Tasks, NEW step, Running(t, step),
         NEW steps \in Seq(Steps), GoesOn(t, steps)
  PROVE  /\ task' \in [Tasks -> TaskRecords]
         /\ \A u \in Tasks : TaskOK(u)'
         /\ \A u \in Tasks \ {t} : task'[u] = task[u]
         /\ steps = <<>> => task'[t] = Resting
         /\ steps # <<>> =>
              task'[t] = [device |-> task[t].device, steps |-> steps,
                          drove |-> task[t].drove \/ owner' = task[t].device]
  <1>1. task \in [Tasks -> TaskRecords] /\ task[t].device \in Devices
    BY RunningType DEF HandlersTypeOK, TaskRecords
  <1> DEFINE now == task[t].drove \/ owner' = task[t].device
             on == [device |-> task[t].device, steps |-> steps, drove |-> now]
             rest == IF steps = <<>> THEN Resting ELSE on
  <1>2. now \in BOOLEAN
    BY <1>1, Zenon DEF TaskRecords
  <1>3. task' = [task EXCEPT ![t] = rest]
    BY Zenon DEF GoesOn
  <1>4. on \in TaskRecords
    <2> HIDE DEF now
    <2> QED
      BY <1>1, <1>2 DEF TaskRecords
  <1>5. Resting \in TaskRecords
    BY DEF Resting, TaskRecords
  <1>6. rest \in TaskRecords
    BY <1>4, <1>5, Zenon
  <1> HIDE DEF on
  <1>7. /\ task' \in [Tasks -> TaskRecords]
        /\ \A u \in Tasks \ {t} : task'[u] = task[u]
        /\ task'[t] = rest
    BY <1>1, <1>3, <1>6
  <1>8. steps = <<>> \/ (task'[t].device # Idle /\ task'[t].steps # <<>>)
    <2> HIDE DEF now
    <2> QED
      BY <1>1, <1>7, HandlersAssumption DEF on
  <1>9. \A u \in Tasks : TaskOK(u)'
    <2> SUFFICES ASSUME NEW u \in Tasks PROVE TaskOK(u)'
      OBVIOUS
    <2>1. CASE u = t
      BY <1>7, <1>8, <2>1 DEF TaskOK
    <2>2. CASE u # t
      BY <1>7, <2>2 DEF TaskOK, HandlersTypeOK
    <2> QED
      BY <2>1, <2>2
  <1> QED
    BY <1>7, <1>9, Zenon DEF on

LEMMA TaskStepType ==
  ASSUME HandlersTypeOK, NEW t \in Tasks, TaskStep(t)
  PROVE  /\ connected' \subseteq Devices
         /\ exactViewers' \subseteq Devices
         /\ task' \in [Tasks -> TaskRecords]
         /\ \A u \in Tasks : TaskOK(u)'
  <1>1. PICK step \in Steps : Running(t, step)
    BY DEF TaskStep, Register, Unregister, ClaimAnd, Demand, Look, Renew,
           Resize, Write, Signal, GiveBack, Steps, DeviceIntents
  <1>2. /\ task[t].device \in Devices
        /\ Tail(task[t].steps) \in Seq(Steps)
    BY <1>1, RunningType
  <1>3. /\ connected' \subseteq Devices
        /\ exactViewers' \subseteq Devices
    BY <1>2 DEF HandlersTypeOK, TaskStep, Register, Unregister, ClaimAnd, Demand, Look,
                Renew, Resize, Write, Signal, GiveBack
  <1>4. \E steps \in Seq(Steps) : GoesOn(t, steps)
    <2>1. <<>> \in Seq(Steps)
      OBVIOUS
    <2>2. CASE Advance(t)
      BY <1>2, <2>2 DEF Advance
    <2>3. CASE Stop(t)
      BY <2>1, <2>3 DEF Stop
    <2>4. CASE Look(t) /\ GoesOn(t, [task[t].steps EXCEPT ![1] = "demand"])
      <3>1. "demand" \in Steps
        BY DEF Steps
      <3>2. [task[t].steps EXCEPT ![1] = "demand"] \in Seq(Steps)
        BY <1>1, <3>1, RunningType
      <3> QED
        BY <2>4, <3>2
    <2> QED
      BY <2>2, <2>3, <2>4
      DEF TaskStep, Register, Unregister, ClaimAnd, Demand, Look, Renew, Resize,
          Write, Signal, GiveBack
  <1> QED
    BY <1>1, <1>3, <1>4, GoesOnType

LEMMA HandlersStepType == HandlersTypeOK /\ [HandlersNext]_systemVars => HandlersTypeOK'
  <1> SUFFICES ASSUME HandlersTypeOK, [HandlersNext]_systemVars
               PROVE  HandlersTypeOK'
    OBVIOUS
  <1>1. OwnershipTypeOK'
    BY HandlersStepOwns, OwnershipStepType DEF HandlersTypeOK
  <1>2. ASSUME UNCHANGED task
        PROVE  task' \in [Tasks -> TaskRecords] /\ \A u \in Tasks : TaskOK(u)'
    BY <1>2 DEF HandlersTypeOK, TaskOK, TaskRecords
  <1> DEFINE Good == /\ connected' \subseteq Devices
                     /\ exactViewers' \subseteq Devices
                     /\ task' \in [Tasks -> TaskRecords]
                     /\ \A u \in Tasks : TaskOK(u)'
  <1>3. ASSUME NEW d \in Devices, Connect(d) \/ Disconnect(d)
        PROVE  Good
    BY <1>2, <1>3 DEF HandlersTypeOK, Connect, Disconnect
  <1>4. ASSUME HostReconnect PROVE Good
    BY <1>2, <1>4 DEF HandlersTypeOK, HostReconnect
  <1>5. ASSUME NEW t \in Tasks, NEW d \in Devices, NEW kind \in Kinds, Receive(t, d, kind)
        PROVE  Good
    <2> DEFINE new == [device |-> d, steps |-> Program[kind], drove |-> FALSE]
    <2>1. new \in TaskRecords /\ new.device # Idle /\ new.steps # <<>>
      BY ProgramType, HandlersAssumption DEF TaskRecords
    <2> HIDE DEF new
    <2>2. task' = [task EXCEPT ![t] = new]
      BY <1>5 DEF Receive, new
    <2>3. task' \in [Tasks -> TaskRecords]
      BY <2>1, <2>2 DEF HandlersTypeOK, TaskRecords
    <2>4. \A u \in Tasks : TaskOK(u)'
      BY <2>1, <2>2 DEF HandlersTypeOK, TaskOK
    <2> QED
      BY <1>5, <2>3, <2>4 DEF HandlersTypeOK, Receive
  <1>6. ASSUME NEW intent \in DesktopIntents, DesktopClaims(intent)
        PROVE  Good
    BY <1>2, <1>6 DEF HandlersTypeOK, DesktopClaims, handlerVars
  <1>7. ASSUME Watch \/ Clock PROVE Good
    BY <1>2, <1>7 DEF HandlersTypeOK, Watch, Clock, handlerVars
  <1>8. ASSUME UNCHANGED systemVars PROVE Good
    BY <1>2, <1>8 DEF HandlersTypeOK, systemVars, handlerVars
  <1>9. Good
    BY <1>3, <1>4, <1>5, <1>6, <1>7, <1>8, TaskStepType DEF HandlersNext
  <1> QED
    BY <1>1, <1>9 DEF HandlersTypeOK, TaskOK, TaskRecords

\* The types of the ownership, the viewers and the tasks.
THEOREM HandlersTypeCorrect == HandlersSpec => []HandlersTypeOK
  BY HandlersInitType, HandlersStepType, PTL DEF HandlersSpec

----------------------------------------------------------------------------

\* Where the step "write" can stand in what a task has left: before its owner has
\* been checked, or after it, when the device has driven the terminal.
Unchecked == {<<"register", "look", "renew", "write">>, <<"look", "renew", "write">>,
              <<"demand", "renew", "write">>}
Checked == {<<"renew", "write">>, <<"write">>}

NoInput(steps) == \A i \in 1..Len(steps) : steps[i] # "write"

WriteOrder(steps, drove) ==
    \/ NoInput(steps)
    \/ steps \in Unchecked
    \/ steps \in Checked /\ drove

WritesInOrder == \A t \in Tasks : WriteOrder(task[t].steps, task[t].drove)

LEMMA ProgramInOrder ==
  ASSUME NEW kind \in Kinds PROVE WriteOrder(Program[kind], FALSE)
  <1>1. kind = "input" => Program[kind] \in Unchecked
    BY DEF Program, Unchecked
  <1>2. kind \in {"subscribe", "outputAck", "signal", "release", "unsubscribe"}
          => \E a \in Steps \ {"write"} : Program[kind] = <<a>>
    BY DEF Program, Steps
  <1>3. kind \in {"claim", "force", "keepalive"}
          => \E a, b \in Steps \ {"write"} : Program[kind] = <<a, b>>
    BY DEF Program, Steps
  <1>4. kind = "resize" => \E a, b, c \in Steps \ {"write"} : Program[kind] = <<a, b, c>>
    BY DEF Program, Steps
  <1>5. kind = "baseline" => \E a, b, c, e \in Steps \ {"write"} : Program[kind] = <<a, b, c, e>>
    BY DEF Program, Steps
  <1>6. ASSUME NEW a \in Steps \ {"write"}, NEW b \in Steps \ {"write"},
               NEW c \in Steps \ {"write"}, NEW e \in Steps \ {"write"}
        PROVE  NoInput(<<a>>) /\ NoInput(<<a, b>>) /\ NoInput(<<a, b, c>>) /\ NoInput(<<a, b, c, e>>)
    BY DEF NoInput
  <1>7. kind # "input" => NoInput(Program[kind])
    <2>1. kind \in {"subscribe", "outputAck", "signal", "release", "unsubscribe"}
            => NoInput(Program[kind])
      BY <1>2, <1>6, Zenon
    <2>2. kind \in {"claim", "force", "keepalive"} => NoInput(Program[kind])
      BY <1>3, <1>6, Zenon
    <2>3. kind = "resize" => NoInput(Program[kind])
      BY <1>4, <1>6, Zenon
    <2>4. kind = "baseline" => NoInput(Program[kind])
      BY <1>5, <1>6, Zenon
    <2> QED
      BY <2>1, <2>2, <2>3, <2>4 DEF Kinds, Program
  <1> QED
    BY <1>1, <1>7 DEF WriteOrder

\* What is left after a step other than the check of the owner.
LEMMA TailInOrder ==
  ASSUME NEW steps \in Seq(Steps), steps # <<>>, NEW drove, WriteOrder(steps, drove),
         Head(steps) \notin {"look", "demand"}
  PROVE  WriteOrder(Tail(steps), drove)
  <1>1. CASE NoInput(steps)
    BY <1>1 DEF NoInput, WriteOrder
  <1>2. CASE steps \in Unchecked
    <2>1. Head(steps) = "register" => steps = <<"register", "look", "renew", "write">>
      BY <1>2 DEF Unchecked
    <2>2. Head(steps) = "register"
      BY <1>2 DEF Unchecked
    <2>3. Tail(<<"register", "look", "renew", "write">>) = <<"look", "renew", "write">>
      OBVIOUS
    <2>4. Tail(steps) = <<"look", "renew", "write">>
      BY <2>1, <2>2, <2>3, Zenon
    <2> QED
      BY <2>4 DEF Unchecked, WriteOrder
  <1>3. CASE steps = <<"renew", "write">> /\ drove
    BY <1>3 DEF Checked, WriteOrder
  <1>4. CASE steps = <<"write">>
    BY <1>4 DEF NoInput, WriteOrder
  <1> QED
    BY <1>1, <1>2, <1>3, <1>4 DEF WriteOrder, Checked

\* What is left after a check that found the device driving.
LEMMA DrivingInOrder ==
  ASSUME NEW steps \in Seq(Steps), steps # <<>>, NEW drove, WriteOrder(steps, drove),
         Head(steps) \in {"look", "demand"}
  PROVE  WriteOrder(Tail(steps), TRUE)
  <1>1. CASE NoInput(steps)
    BY <1>1 DEF NoInput, WriteOrder
  <1>2. CASE steps \in Unchecked
    <2>1. steps # <<"register", "look", "renew", "write">>
      OBVIOUS
    <2>2. CASE steps = <<"look", "renew", "write">>
      <3>1. Tail(steps) = <<"renew", "write">>
        BY <2>2
      <3> QED
        BY <3>1 DEF Checked, WriteOrder
    <2>3. CASE steps = <<"demand", "renew", "write">>
      <3>1. Tail(steps) = <<"renew", "write">>
        BY <2>3
      <3> QED
        BY <3>1 DEF Checked, WriteOrder
    <2> QED
      BY <1>2, <2>1, <2>2, <2>3 DEF Unchecked
  <1>3. steps \notin Checked
    BY DEF Checked
  <1> QED
    BY <1>1, <1>2, <1>3 DEF WriteOrder

\* A look at the desktop's terminal makes room for the claim.
LEMMA DemandInOrder ==
  ASSUME NEW steps \in Seq(Steps), steps # <<>>, NEW drove, NEW later, WriteOrder(steps, drove),
         Head(steps) = "look"
  PROVE  WriteOrder([steps EXCEPT ![1] = "demand"], later)
  <1>1. CASE NoInput(steps)
    BY <1>1 DEF NoInput, WriteOrder
  <1>2. CASE steps \in Unchecked
    <2>1. steps = <<"look", "renew", "write">>
      BY <1>2 DEF Unchecked
    <2>2. [steps EXCEPT ![1] = "demand"] = <<"demand", "renew", "write">>
      BY <2>1
    <2> QED
      BY <2>2 DEF Unchecked, WriteOrder
  <1>3. steps \notin Checked
    BY DEF Checked
  <1> QED
    BY <1>1, <1>2, <1>3 DEF WriteOrder

LEMMA NothingInOrder == \A drove : WriteOrder(<<>>, drove)
  BY DEF WriteOrder, NoInput

LEMMA TaskKeepsOrder ==
  ASSUME HandlersTypeOK, WritesInOrder, NEW t \in Tasks, TaskStep(t)
  PROVE  WritesInOrder'
  <1> DEFINE d == task[t].device
             steps == task[t].steps
             now == task[t].drove \/ owner' = d
  <1>1. PICK step \in Steps : Running(t, step)
    BY DEF TaskStep, Register, Unregister, ClaimAnd, Demand, Look, Renew,
           Resize, Write, Signal, GiveBack, Steps, DeviceIntents
  <1>2. /\ steps \in Seq(Steps) /\ steps # <<>> /\ Tail(steps) \in Seq(Steps)
        /\ Head(steps) = step
    BY <1>1, RunningType DEF Running
  <1>3. WriteOrder(steps, task[t].drove)
    BY DEF WritesInOrder
  <1>4. ASSUME NEW left \in Seq(Steps), GoesOn(t, left), WriteOrder(left, now)
        PROVE  WritesInOrder'
    <2> SUFFICES ASSUME NEW u \in Tasks
                 PROVE  WriteOrder(task'[u].steps, task'[u].drove)
      BY DEF WritesInOrder, WriteOrder
    <2>1. CASE u # t
      <3>1. task'[u] = task[u]
        BY <1>1, <1>4, <2>1, GoesOnType
      <3> QED
        BY <3>1 DEF WritesInOrder
    <2>2. CASE u = t /\ left = <<>>
      <3>1. task'[t] = Resting
        BY <1>1, <1>4, <2>2, GoesOnType
      <3>2. task'[t].steps = <<>>
        BY <3>1 DEF Resting
      <3> QED
        BY <2>2, <3>2, NothingInOrder
    <2>3. CASE u = t /\ left # <<>>
      <3>1. task'[t] = [device |-> d, steps |-> left, drove |-> now]
        BY <1>1, <1>4, <2>3, GoesOnType
      <3>2. task'[t].steps = left /\ task'[t].drove = now
        <4> HIDE DEF now
        <4> QED
          BY <3>1
      <3> QED
        BY <1>4, <2>3, <3>2
    <2> QED
      BY <2>1, <2>2, <2>3
  <1>5. ASSUME step \notin {"look", "demand"}
        PROVE  WritesInOrder'
    <2>1. Advance(t)
      BY <1>1, <1>5
      DEF TaskStep, Running, Register, Unregister, ClaimAnd, Demand, Look, Renew,
          Resize, Write, Signal, GiveBack
    <2>2. WriteOrder(Tail(steps), task[t].drove)
      BY <1>2, <1>3, <1>5, TailInOrder
    <2>3. WriteOrder(Tail(steps), now)
      BY <2>2 DEF WriteOrder
    <2> QED
      BY <1>2, <1>4, <2>1, <2>3 DEF Advance
  <1>6. ASSUME step \in {"look", "demand"}
        PROVE  WritesInOrder'
    <2>1. \/ Advance(t) /\ owner' = d
          \/ Stop(t)
          \/ step = "look" /\ GoesOn(t, [steps EXCEPT ![1] = "demand"])
      BY <1>1, <1>6
      DEF TaskStep, Running, Register, Unregister, ClaimAnd, Demand, Look, Renew,
          Resize, Write, Signal, GiveBack, DeviceIntents, ownershipVars
    <2>2. CASE Advance(t) /\ owner' = d
      <3>1. WriteOrder(Tail(steps), TRUE)
        BY <1>2, <1>3, <1>6, DrivingInOrder
      <3>2. WriteOrder(Tail(steps), now)
        BY <2>2, <3>1 DEF WriteOrder
      <3> QED
        BY <1>2, <1>4, <2>2, <3>2 DEF Advance
    <2>3. CASE Stop(t)
      <3>1. <<>> \in Seq(Steps)
        OBVIOUS
      <3> QED
        BY <1>4, <2>3, <3>1, NothingInOrder DEF Stop
    <2>4. CASE step = "look" /\ GoesOn(t, [steps EXCEPT ![1] = "demand"])
      <3>1. [steps EXCEPT ![1] = "demand"] \in Seq(Steps)
        <4>1. "demand" \in Steps
          BY DEF Steps
        <4> QED
          BY <1>2, <4>1
      <3>2. WriteOrder([steps EXCEPT ![1] = "demand"], now)
        BY <1>2, <1>3, <2>4, DemandInOrder
      <3> QED
        BY <1>4, <2>4, <3>1, <3>2
    <2> QED
      BY <2>1, <2>2, <2>3, <2>4
  <1> QED
    BY <1>5, <1>6

LEMMA StepKeepsOrder ==
  ASSUME HandlersTypeOK, WritesInOrder, [HandlersNext]_systemVars
  PROVE  WritesInOrder'
  <1>1. ASSUME UNCHANGED task PROVE WritesInOrder'
    BY <1>1 DEF WritesInOrder, WriteOrder
  <1>2. ASSUME NEW t \in Tasks, NEW d \in Devices, NEW kind \in Kinds, Receive(t, d, kind)
        PROVE  WritesInOrder'
    <2> DEFINE new == [device |-> d, steps |-> Program[kind], drove |-> FALSE]
    <2>1. WriteOrder(new.steps, new.drove)
      BY ProgramInOrder
    <2> HIDE DEF new
    <2>2. task' = [task EXCEPT ![t] = new]
      BY <1>2 DEF Receive, new
    <2> SUFFICES ASSUME NEW u \in Tasks
                 PROVE  WriteOrder(task'[u].steps, task'[u].drove)
      BY DEF WritesInOrder, WriteOrder
    <2>3. task'[u] = IF u = t THEN new ELSE task[u]
      BY <2>2 DEF HandlersTypeOK
    <2> QED
      BY <2>1, <2>3 DEF WritesInOrder
  <1>3. CASE \E t \in Tasks : TaskStep(t)
    BY <1>3, TaskKeepsOrder
  <1>4. ASSUME ~(\E t \in Tasks : TaskStep(t)),
               ~(\E t \in Tasks, d \in Devices, kind \in Kinds : Receive(t, d, kind))
        PROVE  UNCHANGED task
    BY <1>4 DEF HandlersNext, systemVars, handlerVars, Connect, Disconnect, HostReconnect,
                DesktopClaims, Watch, Clock
  <1> QED
    BY <1>1, <1>2, <1>3, <1>4

\* An input about to be written is of a device that has driven the terminal since
\* the input arrived, however its task is interleaved with the others.
THEOREM HandlersWritersDrove == HandlersSpec => []WritersDrove
  <1>1. HandlersInit => WritesInOrder
    BY NothingInOrder DEF HandlersInit, WritesInOrder, Resting
  <1>2. HandlersTypeOK /\ WritesInOrder /\ [HandlersNext]_systemVars => WritesInOrder'
    BY StepKeepsOrder
  <1>3. HandlersTypeOK /\ WritesInOrder => WritersDrove
    <2> SUFFICES ASSUME HandlersTypeOK, WritesInOrder, NEW t \in Tasks, Running(t, "write")
                 PROVE  task[t].drove
      BY DEF WritersDrove
    <2>1. /\ task[t].steps \in Seq(Steps) /\ task[t].steps # <<>>
          /\ Head(task[t].steps) = "write"
      BY RunningType DEF Running
    <2>2. ~NoInput(task[t].steps)
      BY <2>1 DEF NoInput
    <2>3. task[t].steps \notin Unchecked
      BY <2>1 DEF Unchecked
    <2> QED
      BY <2>2, <2>3 DEF WritesInOrder, WriteOrder
  <1> QED
    BY <1>1, <1>2, <1>3, HandlersTypeCorrect, PTL DEF HandlersSpec

----------------------------------------------------------------------------

\* No interleaving of automatic claims ends an explicit takeover.
THEOREM HandlersTakeoverEndsByForce == HandlersSpec => TakeoverEndsByForce
  <1> DEFINE Ended == owner = Desktop /\ explicitOwner /\ owner' # Desktop
             Forced == \E t \in Tasks : Running(t, "force") /\ TaskStep(t)
  <1>1. ASSUME HandlersTypeOK, HandlersNext, Ended
        PROVE  Forced
    <2>1. ASSUME NEW t \in Tasks, TaskStep(t)
          PROVE  Forced
      <3>1. CASE \E intent \in DeviceIntents : ClaimAnd(t, intent)
        <4>1. PICK intent \in DeviceIntents : ClaimAnd(t, intent)
          BY <3>1
        <4>2. task[t].device # Desktop
          BY <1>1, <4>1, RunningType, OwnershipAssumption DEF ClaimAnd
        <4>3. intent = "force"
          BY <1>1, <4>1, <4>2
          DEF ClaimAnd, TryClaim, TakeOwnership, CanClaim, DeviceIntents, ownershipVars
        <4> QED
          BY <2>1, <4>1, <4>3 DEF ClaimAnd
      <3>2. ~Demand(t)
        <4> SUFFICES ASSUME Demand(t) PROVE FALSE
          OBVIOUS
        <4>1. task[t].device # Desktop
          BY <1>1, RunningType, OwnershipAssumption DEF Demand
        <4> QED
          BY <1>1, <4>1 DEF Demand, TryClaim, TakeOwnership, CanClaim, ownershipVars
      <3>3. ~(Register(t) \/ Unregister(t) \/ Look(t) \/ Write(t) \/ Signal(t) \/ Renew(t) \/ Resize(t))
        BY <1>1 DEF Register, Unregister, Look, Write, Signal, Renew, Resize,
                    RenewOwnership, ownershipVars
      <3>4. ~GiveBack(t)
        BY <1>1 DEF GiveBack, ReleaseOwnership, PassOwnership, ownershipVars
      <3> QED
        BY <2>1, <3>1, <3>2, <3>3, <3>4 DEF TaskStep
    <2>2. ~(HostReconnect \/ \E d \in Devices : Connect(d) \/ Disconnect(d))
      BY <1>1 DEF HostReconnect, Connect, Disconnect, ownershipVars
    <2>3. ~(\E t \in Tasks, d \in Devices, kind \in Kinds : Receive(t, d, kind))
      BY <1>1 DEF Receive, ownershipVars
    <2>4. ~(\E intent \in DesktopIntents : DesktopClaims(intent))
      BY <1>1 DEF DesktopClaims, TakeOwnership
    <2>5. ~(Watch \/ Clock)
      BY <1>1 DEF Watch, Clock, ReclaimOwnership, Expired, TickOwnership
    <2> QED
      BY <1>1, <2>1, <2>2, <2>3, <2>4, <2>5 DEF HandlersNext
  <1>2. HandlersTypeOK /\ [HandlersNext]_systemVars => [Ended => Forced]_systemVars
    BY <1>1
  <1> QED
    BY <1>2, HandlersTypeCorrect, PTL DEF HandlersSpec, TakeoverEndsByForce

\* A device becomes the owner by a step of a task of its own, or because the
\* watcher finds it among the viewers when the lease has run out.
THEOREM HandlersOwnerOnRequest == HandlersSpec => OwnerOnRequest
  <1> DEFINE Changed == owner' # owner /\ owner' # Desktop
             Asked == \/ \E t \in Tasks : task[t].device = owner' /\ TaskStep(t)
                      \/ Watch /\ owner' \in exactViewers
  <1>1. ASSUME HandlersTypeOK, HandlersNext, Changed
        PROVE  Asked
    <2>1. ASSUME NEW t \in Tasks, TaskStep(t)
          PROVE  Asked
      <3>1. CASE (\E intent \in DeviceIntents : ClaimAnd(t, intent)) \/ Demand(t)
        <4>1. owner' = task[t].device
          BY <1>1, <3>1 DEF ClaimAnd, Demand, TryClaim, TakeOwnership, ownershipVars
        <4> QED
          BY <2>1, <4>1
      <3>2. ~(Register(t) \/ Unregister(t) \/ Look(t) \/ Write(t) \/ Signal(t) \/ Renew(t) \/ Resize(t))
        BY <1>1 DEF Register, Unregister, Look, Write, Signal, Renew, Resize,
                    RenewOwnership, ownershipVars
      <3>3. ~GiveBack(t)
        BY <1>1 DEF GiveBack, ReleaseOwnership, PassOwnership, ownershipVars
      <3> QED
        BY <2>1, <3>1, <3>2, <3>3 DEF TaskStep
    <2>2. ASSUME Watch
          PROVE  owner' \in exactViewers
      <3>1. PICK resolved \in Resolve : owner' = NextOwner(resolved)
        BY <2>2 DEF Watch, ReclaimOwnership, PassOwnership
      <3>2. owner' = resolved /\ resolved \in Devices
        BY <1>1, <3>1 DEF NextOwner
      <3> QED
        BY <3>1, <3>2, OwnershipAssumption DEF Resolve
    <2>3. ~(HostReconnect \/ \E d \in Devices : Connect(d) \/ Disconnect(d))
      BY <1>1 DEF HostReconnect, Connect, Disconnect, ownershipVars
    <2>4. ~(\E t \in Tasks, d \in Devices, kind \in Kinds : Receive(t, d, kind))
      BY <1>1 DEF Receive, ownershipVars
    <2>5. ~(Clock \/ \E intent \in DesktopIntents : DesktopClaims(intent))
      BY <1>1 DEF Clock, TickOwnership, DesktopClaims, TakeOwnership
    <2> QED
      BY <1>1, <2>1, <2>2, <2>3, <2>4, <2>5 DEF HandlersNext
  <1>2. HandlersTypeOK /\ [HandlersNext]_systemVars => [Changed => Asked]_systemVars
    BY <1>1
  <1> QED
    BY <1>2, HandlersTypeCorrect, PTL DEF HandlersSpec, OwnerOnRequest
============================================================================
