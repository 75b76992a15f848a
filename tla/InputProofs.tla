---------------------------- MODULE InputProofs ----------------------------
(***************************************************************************)
(* What arrives at the host is taken once: the guard in front of every     *)
(* handler (SequenceGuard) and the delivery of terminal input behind it    *)
(* (TerminalInput).                                                        *)
(***************************************************************************)
EXTENDS SequenceGuard, TerminalInput, TLAPS

----------------------------------------------------------------------------
(* The guard.  Everything rests on what the window still knows (Covers): a *)
(* number it has forgotten is too old to be let through again, because the *)
(* numbers it holds rise and so lie at least their distance from the end   *)
(* below the maximum (WindowRises).                                        *)

WindowRises == \A i \in 1..Len(seen) : seen[i] + (Len(seen) - i) <= maxSequence

Covers ==
    \A n \in letThrough : n <= maxSequence /\ (n + Window <= maxSequence \/ n \in Seen)

MaxAccepted == maxSequence = 0 \/ maxSequence \in letThrough

KeepsOrder ==
    InOrder => /\ letThrough = delivered
               /\ \A n \in delivered, m \in sent \ delivered : n < m

GuardInv ==
    /\ GuardTypeOK
    /\ KeepsOrder
    /\ InOrder \/ Monotonic => WindowRises /\ Covers /\ MaxAccepted

LEMMA SeenType == GuardTypeOK => Seen \subseteq Nat
  BY DEF GuardTypeOK, Seen

LEMMA InitInv == GuardInit => GuardInv
  BY GuardAssumption DEF GuardInit, GuardInv, GuardTypeOK, KeepsOrder, WindowRises, Covers, MaxAccepted

\* What the guard lets through lies above all it has let through before.
LEMMA TakeAbove ==
  ASSUME GuardInv, InOrder \/ Monotonic, NEW n \in Nat \ {0}, Arrives(n), Accepts(n)
  PROVE  n > maxSequence
  <1> USE GuardAssumption DEF GuardInv, GuardTypeOK, Accepts
  <1>1. CASE maxSequence = 0
    BY <1>1
  <1>2. CASE maxSequence \in letThrough
    <2>1. maxSequence \in Seen
      BY <1>2 DEF Covers
    <2>2. CASE Monotonic
      BY <2>1, <2>2 DEF StepsBack
    <2>3. CASE InOrder /\ n \notin delivered
      BY <1>2, <2>3 DEF Arrives, KeepsOrder
    <2>4. CASE InOrder /\ n \in delivered
      <3>1. n + Window <= maxSequence \/ n \in Seen
        BY <2>4 DEF KeepsOrder, Covers
      <3>2. ~(n + Window <= maxSequence)
        BY DEF TooOld
      <3> QED
        BY <3>1, <3>2
    <2> QED
      BY <2>2, <2>3, <2>4
  <1> QED
    BY <1>1, <1>2 DEF MaxAccepted

\* A number above the maximum is never dropped.
LEMMA AboveAccepted ==
  ASSUME GuardInv, WindowRises, NEW n \in Nat \ {0}, n > maxSequence
  PROVE  Accepts(n)
  <1> USE GuardAssumption DEF GuardInv, GuardTypeOK
  <1>1. ~TooOld(n) /\ ~StepsBack(n)
    BY DEF TooOld, StepsBack
  <1>2. \A i \in DOMAIN seen : seen[i] <= maxSequence
    BY DEF WindowRises
  <1> QED
    BY <1>1, <1>2 DEF Accepts, Seen

\* The window after a push: it shifts by one once it is full.
LEMMA PushShape ==
  ASSUME GuardTypeOK, NEW n \in Nat
  PROVE  /\ Push(n) \in Seq(Nat)
         /\ Len(Push(n)) <= Window
         /\ Len(seen) < Window =>
               /\ Len(Push(n)) = Len(seen) + 1
               /\ \A i \in 1..Len(seen) : Push(n)[i] = seen[i]
               /\ Push(n)[Len(seen) + 1] = n
         /\ Len(seen) = Window =>
               /\ Len(Push(n)) = Window
               /\ \A i \in 1..(Window - 1) : Push(n)[i] = seen[i + 1]
               /\ Push(n)[Window] = n
  BY GuardAssumption DEF GuardTypeOK, Push

\* Taking a number above the maximum keeps the window rising and covering.
LEMMA TakeKeeps ==
  ASSUME GuardTypeOK, WindowRises, Covers, NEW n \in Nat \ {0}, n > maxSequence, Take(n)
  PROVE  WindowRises' /\ Covers' /\ MaxAccepted'
  <1>1. maxSequence' = n /\ letThrough' = letThrough \cup {n}
    BY DEF Take
  <1>6. /\ seen' \in Seq(Nat) /\ seen \in Seq(Nat)
        /\ Window \in Nat \ {0} /\ maxSequence \in Nat
        /\ Len(seen) <= Window /\ Len(seen) \in Nat
        /\ \A i \in 1..Len(seen) : seen[i] \in Nat
    <2>1. seen' \in Seq(Nat)
      BY PushShape DEF Take
    <2> QED
      BY <2>1, GuardAssumption DEF GuardTypeOK
  <1>7. Len(seen) < Window =>
          /\ Len(seen') = Len(seen) + 1
          /\ \A i \in 1..Len(seen) : seen'[i] = seen[i]
          /\ seen'[Len(seen) + 1] = n
    BY PushShape DEF Take
  <1>8. Len(seen) = Window =>
          /\ Len(seen') = Window
          /\ \A i \in 1..(Window - 1) : seen'[i] = seen[i + 1]
          /\ seen'[Window] = n
    BY PushShape DEF Take
  <1>2. WindowRises'
    <2>1. CASE Len(seen) < Window
      <3> SUFFICES ASSUME NEW i \in 1..(Len(seen) + 1)
                   PROVE  seen'[i] + (Len(seen) + 1 - i) <= n
        BY <1>1, <1>7, <2>1 DEF WindowRises
      <3>1. CASE i = Len(seen) + 1
        BY <1>6, <1>7, <2>1, <3>1
      <3>2. CASE i \in 1..Len(seen)
        <4>1. seen'[i] = seen[i] /\ seen[i] + (Len(seen) - i) <= maxSequence
          BY <1>7, <2>1, <3>2 DEF WindowRises
        <4> QED
          BY <1>6, <3>2, <4>1
      <3> QED
        BY <1>6, <3>1, <3>2
    <2>2. CASE Len(seen) = Window
      <3> SUFFICES ASSUME NEW i \in 1..Window
                   PROVE  seen'[i] + (Window - i) <= n
        BY <1>1, <1>8, <2>2 DEF WindowRises
      <3>1. CASE i = Window
        BY <1>6, <1>8, <2>2, <3>1
      <3>2. CASE i \in 1..(Window - 1)
        <4>1. /\ seen'[i] = seen[i + 1]
              /\ seen[i + 1] + (Len(seen) - (i + 1)) <= maxSequence
          BY <1>6, <1>8, <2>2, <3>2 DEF WindowRises
        <4>2. seen[i + 1] \in Nat
          BY <1>6, <2>2, <3>2
        <4> QED
          BY <1>6, <2>2, <3>2, <4>1, <4>2
      <3> QED
        BY <1>6, <3>1, <3>2
    <2> QED
      BY <1>6, <2>1, <2>2
  <1>3. n \in Seen'
    <2>1. Len(seen') \in DOMAIN seen' /\ seen'[Len(seen')] = n
      BY <1>6, <1>7, <1>8
    <2> QED
      BY <2>1 DEF Seen
  <1>4. ASSUME NEW m \in Seen
        PROVE  m + Window <= n \/ m \in Seen'
    <2>1. PICK i \in 1..Len(seen) : m = seen[i]
      BY <1>6 DEF Seen
    <2>2. CASE Len(seen) < Window
      <3>1. i \in DOMAIN seen' /\ seen'[i] = m
        BY <1>6, <1>7, <2>1, <2>2
      <3> QED
        BY <3>1 DEF Seen
    <2>3. CASE Len(seen) = Window /\ i = 1
      BY <1>1, <1>6, <2>1, <2>3 DEF WindowRises
    <2>4. CASE Len(seen) = Window /\ i # 1
      <3>1. i - 1 \in DOMAIN seen' /\ seen'[i - 1] = m
        BY <1>6, <1>8, <2>1, <2>4
      <3> QED
        BY <3>1 DEF Seen
    <2> QED
      BY <1>6, <2>2, <2>3, <2>4
  <1>5. Covers'
    <2> SUFFICES ASSUME NEW m \in letThrough'
                 PROVE  m <= n /\ (m + Window <= n \/ m \in Seen')
      BY <1>1 DEF Covers
    <2>1. CASE m = n
      BY <1>3, <2>1
    <2>2. CASE m \in letThrough
      BY <1>4, <1>6, <2>2 DEF Covers, GuardTypeOK
    <2> QED
      BY <1>1, <2>1, <2>2
  <1> QED
    BY <1>1, <1>2, <1>5 DEF MaxAccepted

----------------------------------------------------------------------------

LEMMA StepInv == GuardInv /\ [GuardNext]_envelopeVars => GuardInv'
  <1> SUFFICES ASSUME GuardInv, [GuardNext]_envelopeVars
               PROVE  GuardInv'
    OBVIOUS
  <1> USE GuardAssumption DEF GuardInv
  <1>1. ASSUME NEW n \in Nat \ {0}, Send(n)
        PROVE  GuardInv'
    <2>1. GuardTypeOK'
      BY <1>1 DEF Send, GuardTypeOK, guardVars
    <2>2. KeepsOrder'
      BY <1>1 DEF Send, KeepsOrder, GuardTypeOK, InOrder
    <2>3. (InOrder \/ Monotonic => WindowRises /\ Covers /\ MaxAccepted)'
      BY <1>1 DEF Send, WindowRises, Covers, MaxAccepted, Seen, guardVars, InOrder, Monotonic
    <2> QED
      BY <2>1, <2>2, <2>3
  <1>2. ASSUME NEW n \in Nat \ {0}, Arrives(n), Take(n)
        PROVE  GuardInv'
    <2>1. GuardTypeOK'
      BY <1>2, PushShape DEF Arrives, Take, GuardTypeOK
    <2>2. KeepsOrder'
      <3>0. InOrder' = InOrder
        BY <1>2 DEF Arrives, InOrder
      <3>1. ASSUME InOrder PROVE letThrough' = delivered'
        BY <1>2, <3>1 DEF Arrives, Take, KeepsOrder
      <3>2. ASSUME InOrder, NEW k \in delivered', NEW m \in (sent \ delivered)'
            PROVE  k < m
        BY <1>2, <3>2 DEF Arrives, KeepsOrder, GuardTypeOK
      <3> QED
        BY <3>0, <3>1, <3>2 DEF KeepsOrder
    <2>3. ASSUME InOrder \/ Monotonic PROVE WindowRises' /\ Covers' /\ MaxAccepted'
      <3>1. n > maxSequence
        BY <1>2, <2>3, TakeAbove DEF Take
      <3> QED
        BY <1>2, <2>3, <3>1, TakeKeeps
    <2>4. InOrder' = InOrder /\ Monotonic' = Monotonic
      BY <1>2 DEF Arrives, InOrder, Monotonic
    <2> QED
      BY <2>1, <2>2, <2>3, <2>4
  <1>3. ASSUME NEW n \in Nat \ {0}, Arrives(n), Drop(n)
        PROVE  GuardInv'
    <2>1. GuardTypeOK'
      BY <1>3 DEF Arrives, Drop, GuardTypeOK, guardVars
    <2>2. InOrder => n \in delivered
      <3>1. ASSUME InOrder, n \notin delivered PROVE n > maxSequence
        BY <1>3, <3>1 DEF Arrives, KeepsOrder, MaxAccepted, GuardTypeOK
      <3> QED
        BY <1>3, <3>1, AboveAccepted DEF Drop
    <2>3. KeepsOrder'
      BY <1>3, <2>2 DEF Arrives, Drop, KeepsOrder, InOrder
    <2>4. (InOrder \/ Monotonic => WindowRises /\ Covers /\ MaxAccepted)'
      BY <1>3 DEF Arrives, Drop, WindowRises, Covers, MaxAccepted, Seen, guardVars, InOrder, Monotonic
    <2> QED
      BY <2>1, <2>3, <2>4
  <1>4. CASE UNCHANGED envelopeVars
    BY <1>4 DEF envelopeVars, guardVars, GuardTypeOK, KeepsOrder, WindowRises, Covers, MaxAccepted, Seen, InOrder, Monotonic
  <1> QED
    BY <1>1, <1>2, <1>3, <1>4 DEF GuardNext, Deliver

THEOREM GuardInvariant == GuardSpec => []GuardInv
  BY InitInv, StepInv, PTL DEF GuardSpec

\* The types of the guard.
THEOREM GuardTypeCorrect == GuardSpec => []GuardTypeOK
  BY GuardInvariant, PTL DEF GuardInv

\* A state list is never replaced by an older one, in whatever order envelopes
\* arrive and however often.
THEOREM GuardNeverBack == GuardSpec => NeverBack
  <1>1. ASSUME GuardInv, GuardNext, Monotonic, NEW n \in sent, Take(n)
        PROVE  \A m \in letThrough : m < n
    <2>1. PICK k \in Nat \ {0} : Send(k) \/ Deliver(k)
      BY <1>1 DEF GuardNext
    <2>2. n \in Nat \ {0} /\ Accepts(n)
      BY <1>1 DEF Take, GuardInv, GuardTypeOK
    <2>3. n > maxSequence
      <3>1. CASE maxSequence = 0
        BY <2>2, <3>1
      <3>2. CASE maxSequence \in letThrough
        BY <1>1, <2>2, <3>2, GuardAssumption DEF GuardInv, Covers, Accepts, StepsBack, GuardTypeOK
      <3> QED
        BY <1>1, <3>1, <3>2 DEF GuardInv, MaxAccepted
    <2> QED
      BY <1>1, <2>2, <2>3 DEF GuardInv, Covers, GuardTypeOK
  <1>2. GuardInv /\ [GuardNext]_envelopeVars
          => [Monotonic => \A n \in sent : Take(n) => \A m \in letThrough : m < n]_envelopeVars
    BY <1>1
  <1> QED
    BY <1>2, GuardInvariant, PTL DEF GuardSpec, NeverBack

\* In order, no envelope is let through twice; of a state list, in no order.
THEOREM GuardAcceptsOnce == GuardSpec => AcceptsOnce
  <1>1. ASSUME GuardInv, InOrder \/ Monotonic, NEW n \in letThrough
        PROVE  ~Take(n)
    <2>1. n \in Nat \ {0} /\ n <= maxSequence /\ (n + Window <= maxSequence \/ n \in Seen)
      BY <1>1 DEF GuardInv, Covers, GuardTypeOK
    <2>2. ~Accepts(n)
      BY <1>1, <2>1, GuardAssumption DEF GuardInv, GuardTypeOK, Accepts, TooOld
    <2> QED
      BY <2>2 DEF Take
  <1>2. GuardInv /\ [GuardNext]_envelopeVars
          => [InOrder \/ Monotonic => \A n \in letThrough : ~Take(n)]_envelopeVars
    BY <1>1
  <1> QED
    BY <1>2, GuardInvariant, PTL DEF GuardSpec, AcceptsOnce

\* In order, the guard drops nothing it has not let through before.
THEOREM GuardDropsNothingNew == GuardSpec => DropsNothingNew
  <1>1. ASSUME GuardInv, InOrder, NEW n \in sent \ delivered, Arrives(n), Drop(n)
        PROVE  FALSE
    <2>1. n \in Nat \ {0} /\ n > maxSequence
      BY <1>1 DEF GuardInv, KeepsOrder, MaxAccepted, GuardTypeOK
    <2> QED
      BY <1>1, <2>1, AboveAccepted DEF Drop, GuardInv
  <1>2. GuardInv /\ [GuardNext]_envelopeVars
          => [InOrder => \A n \in sent \ delivered : ~(Arrives(n) /\ Drop(n))]_envelopeVars
    BY <1>1
  <1> QED
    BY <1>2, GuardInvariant, PTL DEF GuardSpec, DropsNothingNew

----------------------------------------------------------------------------
(* Terminal input: the sender's type invariant, with what it rests on, and *)
(* that an interrupt reaches the PTY at most once.                         *)

\* What is pending may be sent again, so it has a copy left and is no
\* interrupt.
PendingMaySend ==
    \A i \in pending : attempt[i] < MaxAttempts /\ i \notin Interrupts

\* An input that was not typed has no copies and is not pending.
UntypedUnsent ==
    \A i \in Inputs : i > typed => attempt[i] = 0 /\ i \notin pending

\* An interrupt was sent at most once.
InterruptsSentOnce ==
    \A i \in Interrupts : attempt[i] <= 1

\* A copy was sent before it is anywhere.
CopiesWereSent ==
    \A c \in wire \cup accepted \cup written : c.attempt <= attempt[c.input]

\* The inductive invariant.
IInv ==
    /\ TypeOK
    /\ PendingMaySend
    /\ UntypedUnsent
    /\ InterruptsSentOnce
    /\ CopiesWereSent

LEMMA InitIInv == Init => IInv
  BY InputAssumption, SMT
     DEF Init, IInv, TypeOK, Inputs, Copies, Owners, PendingMaySend,
         UntypedUnsent, InterruptsSentOnce, CopiesWereSent

\* Sending an input again, or for the first time, keeps the invariant if it
\* had a copy left and an interrupt had none.
LEMMA SendKeepsIInv ==
  ASSUME IInv,
         NEW i \in Inputs, NEW k \in 1..MaxAttempts,
         k = attempt[i] + 1,
         i \in Interrupts => k = 1,
         SendPending(i, k),
         typed' \in 0..MaxInputs, typed' >= typed, typed' >= i,
         UNCHANGED <<onScreen, connected, hostVars, acks, losses>>
  PROVE  IInv'
  <1>0. /\ TypeOK /\ PendingMaySend /\ UntypedUnsent
        /\ InterruptsSentOnce /\ CopiesWereSent
    BY DEF IInv
  <1>1. attempt' = [attempt EXCEPT ![i] = k]
    BY DEF SendPending
  <1>2. attempt' \in [Inputs -> 0..MaxAttempts]
    BY <1>0, <1>1, InputAssumption, SMT DEF TypeOK
  <1>3. \/ /\ i \notin Interrupts /\ k < MaxAttempts
           /\ pending' = pending \cup {i} /\ armed' = armed \cup {i}
        \/ pending' = pending \ {i} /\ armed' = armed \ {i}
    BY <1>0, InputAssumption, SMT DEF SendPending, Keep, Retries, LastAttempt, TypeOK
  <1>4. [input |-> i, attempt |-> k] \in Copies
    BY DEF Copies
  <1>5. wire' \subseteq wire \cup {[input |-> i, attempt |-> k]}
    BY SMT DEF SendPending
  <1>6. TypeOK'
    BY <1>0, <1>2, <1>3, <1>4, <1>5, SMT DEF TypeOK, hostVars
  <1>7. PendingMaySend'
    BY <1>0, <1>1, <1>2, <1>3, SMT DEF PendingMaySend, TypeOK
  <1>8. UntypedUnsent'
    BY <1>0, <1>1, <1>3, InputAssumption, SMT DEF UntypedUnsent, TypeOK, Inputs
  <1>9. InterruptsSentOnce'
    BY <1>0, <1>1, InputAssumption, SMT DEF InterruptsSentOnce, TypeOK, Inputs
  <1>10. CopiesWereSent'
    <2> SUFFICES ASSUME NEW c \in (wire \cup accepted \cup written)'
                 PROVE  c.attempt <= attempt'[c.input]
      BY DEF CopiesWereSent
    <2>1. CASE c = [input |-> i, attempt |-> k]
      BY <2>1, <1>0, <1>1, SMT DEF TypeOK
    <2>2. CASE c \in wire \cup accepted \cup written
      <3>1. c \in Copies /\ c.input \in Inputs /\ c.attempt \in Nat
        BY <2>2, <1>0, SMT DEF TypeOK, Copies
      <3>2. c.attempt <= attempt[c.input] /\ attempt[i] \in Nat /\ attempt[c.input] \in Nat
        BY <2>2, <3>1, <1>0, InputAssumption, SMT DEF CopiesWereSent, TypeOK
      <3> QED
        BY <3>1, <3>2, <1>0, <1>1, SMT DEF TypeOK
    <2> QED
      BY <2>1, <2>2, <1>5 DEF hostVars
  <1> QED
    BY <1>6, <1>7, <1>8, <1>9, <1>10 DEF IInv

\* A step that sends nothing keeps the invariant if copies come from where
\* copies were and nothing becomes pending.
LEMMA QuietKeepsIInv ==
  ASSUME IInv, TypeOK',
         UNCHANGED <<typed, attempt>>,
         pending' \subseteq pending,
         (wire \cup accepted \cup written)' \subseteq wire \cup accepted \cup written
  PROVE  IInv'
  BY SMT DEF IInv, PendingMaySend, UntypedUnsent, InterruptsSentOnce, CopiesWereSent

LEMMA PhoneStepKeepsIInv ==
  ASSUME IInv, PhoneStep
  PROVE  IInv'
  <1>0. TypeOK /\ PendingMaySend /\ UntypedUnsent
    BY DEF IInv
  <1>1. CASE Type
    <2>1. typed + 1 \in Inputs /\ typed + 1 > typed
      BY <1>0, <1>1, InputAssumption, SMT DEF Type, TypeOK, Inputs
    <2>2. attempt[typed + 1] = 0
      BY <2>1, <1>0 DEF UntypedUnsent
    <2>3. 1 \in 1..MaxAttempts /\ 1 = attempt[typed + 1] + 1
      BY <2>2, InputAssumption, SMT
    <2>4. typed' \in 0..MaxInputs /\ typed' >= typed /\ typed' >= typed + 1
      BY <1>0, <1>1, InputAssumption, SMT DEF Type, TypeOK
    <2> QED
      BY <2>1, <2>3, <2>4, <1>1, SendKeepsIInv DEF Type
  <1>2. ASSUME NEW i \in Inputs, TimerFires(i) PROVE IInv'
    <2>1. i \in pending /\ i \notin Interrupts /\ attempt[i] < MaxAttempts
      BY <1>0, <1>2 DEF TimerFires, TypeOK, PendingMaySend
    <2>2. CASE onScreen
      <3>1. attempt[i] + 1 \in 1..MaxAttempts
        BY <1>0, <2>1, InputAssumption, SMT DEF TypeOK
      <3>2. i <= typed
        <4>1. i \in Inputs /\ ~(i > typed)
          BY <1>0, <2>1 DEF UntypedUnsent, TypeOK
        <4> QED
          BY <4>1, <1>0, InputAssumption, SMT DEF TypeOK, Inputs
      <3>3. typed' \in 0..MaxInputs /\ typed' >= typed /\ typed' >= i
        BY <1>0, <1>2, <3>2, InputAssumption, SMT DEF TimerFires, TypeOK
      <3> QED
        BY <2>1, <2>2, <3>1, <3>3, <1>2, SendKeepsIInv DEF TimerFires
    <2>3. CASE ~onScreen
      <3>1. TypeOK'
        BY <2>3, <1>0, <1>2, SMT DEF TimerFires, TypeOK, hostVars
      <3> QED
        BY <3>1, <2>3, <1>2, QuietKeepsIInv DEF TimerFires, hostVars
    <2> QED
      BY <2>2, <2>3
  <1>3. ASSUME NEW c \in Copies, HandleAck(c) PROVE IInv'
    <2>1. TypeOK'
      BY <1>0, <1>3, SMT DEF HandleAck, TypeOK, hostVars
    <2> QED
      BY <2>1, <1>3, QuietKeepsIInv DEF HandleAck, hostVars
  <1>4. CASE SwitchSession
    <2>0. onScreen' \in BOOLEAN
      BY <1>4, Zenon DEF SwitchSession
    <2>1. TypeOK'
      BY <2>0, <1>0, <1>4, SMT DEF SwitchSession, TypeOK, hostVars
    <2> QED
      BY <2>1, <1>4, QuietKeepsIInv DEF SwitchSession, hostVars
  <1>5. CASE Disconnect
    <2>1. /\ wire' \subseteq wire
          /\ pending' = {} /\ armed' = {} /\ acks' = {}
          /\ connected' \in BOOLEAN
          /\ UNCHANGED <<typed, attempt, onScreen, losses>>
          /\ UNCHANGED <<owner, writable, accepted, written>>
      BY <1>5, Zenon DEF Disconnect, hostVars
    <2>2. TypeOK'
      BY <2>1, <1>0, Zenon DEF TypeOK
    <2> QED
      BY <2>1, <2>2, <1>5, QuietKeepsIInv DEF Disconnect, hostVars
  <1>6. CASE Reconnect
    <2>1. TypeOK'
      BY <1>0, <1>6, SMT DEF Reconnect, TypeOK, hostVars
    <2> QED
      BY <2>1, <1>6, QuietKeepsIInv DEF Reconnect, hostVars
  <1>7. CASE Clear
    <2>1. TypeOK'
      BY <1>0, <1>7, SMT DEF Clear, TypeOK, hostVars
    <2> QED
      BY <2>1, <1>7, QuietKeepsIInv DEF Clear, hostVars
  <1> QED
    BY <1>1, <1>2, <1>3, <1>4, <1>5, <1>6, <1>7 DEF PhoneStep

LEMMA HostStepKeepsIInv ==
  ASSUME IInv, HostStep
  PROVE  IInv'
  <1>0. TypeOK
    BY DEF IInv
  <1>1. ASSUME NEW c \in Copies, HandleInput(c) PROVE IInv'
    <2>1. TypeOK'
      BY <1>0, <1>1, SMT DEF HandleInput, TypeOK, phoneVars, Owners
    <2> QED
      BY <2>1, <1>1, QuietKeepsIInv, SMT DEF HandleInput, phoneVars
  <1>2. ASSUME NEW c \in Copies, Write(c) \/ WriteFails(c) PROVE IInv'
    <2>1. TypeOK'
      BY <1>0, <1>2, SMT DEF Write, WriteFails, TypeOK, phoneVars
    <2> QED
      BY <2>1, <1>2, QuietKeepsIInv, SMT DEF Write, WriteFails, phoneVars
  <1>3. ASSUME NEW o \in Owners, HandOver(o) PROVE IInv'
    <2>1. TypeOK'
      BY <1>0, <1>3, SMT DEF HandOver, TypeOK, phoneVars
    <2> QED
      BY <2>1, <1>3, QuietKeepsIInv DEF HandOver, phoneVars
  <1>4. ASSUME NEW b \in BOOLEAN, SetWritable(b) PROVE IInv'
    <2>1. TypeOK'
      BY <1>0, <1>4, SMT DEF SetWritable, TypeOK, phoneVars
    <2> QED
      BY <2>1, <1>4, QuietKeepsIInv DEF SetWritable, phoneVars
  <1> QED
    BY <1>1, <1>2, <1>3, <1>4 DEF HostStep

LEMMA LoseKeepsIInv ==
  ASSUME IInv, NEW c \in Copies, Lose(c)
  PROVE  IInv'
  <1>0. TypeOK
    BY DEF IInv
  <1>1. TypeOK'
    BY <1>0, InputAssumption, SMT DEF Lose, TypeOK, phoneVars, hostVars
  <1> QED
    BY <1>1, QuietKeepsIInv, SMT DEF Lose, phoneVars, hostVars

LEMMA NextIInv == IInv /\ [Next]_vars => IInv'
  <1> SUFFICES ASSUME IInv, [Next]_vars PROVE IInv'
    OBVIOUS
  <1>1. CASE UNCHANGED vars
    <2>1. TypeOK'
      BY <1>1 DEF IInv, TypeOK, vars, phoneVars, hostVars
    <2> QED
      BY <1>1, <2>1, QuietKeepsIInv, SMT DEF vars, phoneVars, hostVars
  <1> QED
    BY <1>1, PhoneStepKeepsIInv, HostStepKeepsIInv, LoseKeepsIInv DEF Next

LEMMA SpecIInv == Spec => []IInv
  <1>1. Init => IInv
    BY InitIInv
  <1>2. IInv /\ [Next]_vars => IInv'
    BY NextIInv
  <1> QED
    BY <1>1, <1>2, PTL DEF Spec

\* The variables keep their types; in particular no input is sent more often
\* than maxAttempts, and only what is pending has a timer (_sendPending).
THEOREM TypeCorrect == Spec => []TypeOK
  <1>1. IInv => TypeOK
    BY DEF IInv
  <1> QED
    BY <1>1, SpecIInv, PTL

\* However messages are lost, delayed or reordered and whoever takes the
\* terminal meanwhile, one Ctrl-C of the user is written at most once
\* (_sendInputNow, handle_terminal_input).
THEOREM InterruptsAtMostOnce == Spec => []InterruptsOnce
  <1>1. IInv => InterruptsOnce
    <2> SUFFICES ASSUME IInv, NEW c \in written, NEW d \in written,
                        c.input = d.input, c.input \in Interrupts
                 PROVE  c = d
      BY DEF InterruptsOnce
    <2>0. TypeOK /\ InterruptsSentOnce
      BY DEF IInv
    <2>1. c \in Copies /\ d \in Copies /\ c.input \in Inputs
      BY <2>0, SMT DEF TypeOK, Copies
    <2>2. attempt[c.input] <= 1
      BY <2>0 DEF InterruptsSentOnce
    <2>3. c.attempt <= attempt[c.input] /\ d.attempt <= attempt[c.input]
      BY DEF IInv, CopiesWereSent
    <2>4. attempt[c.input] \in Nat
      <3>1. attempt[c.input] \in 0..MaxAttempts
        BY <2>0, <2>1, Zenon DEF TypeOK
      <3> QED
        BY <3>1, InputAssumption, SMT
    <2>5. c.attempt = 1 /\ d.attempt = 1
      <3>1. c.attempt \in 1..MaxAttempts /\ d.attempt \in 1..MaxAttempts
        BY <2>1, SMT DEF Copies
      <3> QED
        BY <3>1, <2>2, <2>3, <2>4, InputAssumption, SMT
    <2> QED
      BY <2>1, <2>5, SMT DEF Copies
  <1> QED
    BY <1>1, SpecIInv, PTL
============================================================================
