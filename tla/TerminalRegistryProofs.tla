----------------------- MODULE TerminalRegistryProofs -----------------------
(***************************************************************************)
(* For any number of callers and sessions: no capability outlives its      *)
(* terminal, no running process is known to nobody, and the tables agree   *)
(* whenever none of the calls that came one after the other is under way.  *)
(***************************************************************************)
EXTENDS TerminalRegistry, TLAPS

\* Nobody has a session that was not prepared; the one about to be spawned
\* has no process yet, and one caller.
Fresh ==
    /\ entry <= prepared
    /\ \A c \in Callers : Mine(c) <= prepared
    /\ \A c \in Callers : At(c, "spawn") =>
          /\ process[Mine(c)] = "none"
          /\ \A d \in Callers : At(d, "spawn") /\ Mine(d) = Mine(c) => d = c

\* Who found the process of its session exited is right about it.
SeenExited ==
    \A c \in Callers :
        call[c].step \in {"removeExited", "revokeExited", "unbindExited", "closeRemove"} =>
            Exited(Mine(c))

Running(s) == s # None /\ process[s] = "running"

\* What the tables hold at rest, ...
Agree ==
    /\ binding = entry
    /\ grant \in {None, entry}
    /\ Running(entry) /\ entry \notin killed => grant = entry

Cleared == entry = None /\ binding = None /\ grant = None

Granted(c) == entry = None /\ grant \in {None, Mine(c)} /\ (Running(Mine(c)) => grant = Mine(c))

Closing(c) == entry = Mine(c) /\ binding = entry /\ grant = None

\* ... and at each step of a call that changes them alone.
Midway(c) ==
    /\ call[c].step \in {"removeExited", "removeOther", "closeRevoke"} => Agree
    /\ call[c].step \in {"revokeExited", "revokeOther", "revoke", "closeUnbind"} => entry = None
    /\ call[c].step \in {"unbindExited", "unbindOther", "unbind", "closeUnbind"} =>
          entry = None /\ grant = None
    /\ call[c].step \in {"killOther", "grant", "signal"} => Cleared
    /\ At(c, "spawn") => entry = None /\ binding = None /\ grant = Mine(c)
    /\ At(c, "bind") => Granted(c) /\ binding = None
    /\ At(c, "insert") => Granted(c) /\ binding = Mine(c)
    /\ At(c, "closeRevoke") => entry = Mine(c)
    /\ call[c].step \in {"closeSignal", "closeWait", "closeRemove"} => Closing(c)
    /\ At(c, "closeWait") /\ Running(Mine(c)) => Mine(c) \in killed

OneByOne ==
    /\ displaced = {}
    /\ \A c \in Changing : Midway(c) /\ \A d \in Changing : d = c
    /\ Changing = {} => Agree

RegistryInv ==
    /\ TypeOK /\ Fresh /\ SeenExited /\ GrantIsAlive /\ NoOrphan
    /\ ~overlapped => OneByOne

----------------------------------------------------------------------------
USE RegistryAssumption DEF Sessions, None, At, Mine, Wants, tables, sessions

\* Caller c goes on with session s; the others stay where they are.
Moves(c, s) ==
    /\ call' \in [Callers -> Calls]
    /\ call'[c].session = s
    /\ \A d \in Callers : d # c => call'[d] = call[d]

LEMMA CallOf ==
  ASSUME CallType, NEW c \in Callers
  PROVE  /\ call[c].step \in Steps
         /\ call[c].session \in {0} \cup Sessions
         /\ call[c].wants \in Shapes \cup {NoShape}
  BY DEF CallType, Calls

LEMMA Moved ==
  ASSUME CallType, NEW c \in Callers, NEW step \in Steps, NEW s \in {None} \cup Sessions,
         NEW wanted \in Shapes \cup {NoShape}, Becomes(c, step, s, wanted)
  PROVE  Moves(c, s) /\ call'[c].step = step /\ call'[c].wants = wanted
  <1>1. [step |-> step, session |-> s, wants |-> wanted] \in Calls
    BY DEF Calls
  <1> QED
    BY <1>1 DEF Becomes, CallType, Moves

LEMMA Went ==
  ASSUME CallType, NEW c \in Callers, NEW step \in Steps, Goto(c, step)
  PROVE  Moves(c, call[c].session) /\ call'[c].step = step /\ call'[c].wants = call[c].wants
  BY Moved, CallOf DEF Goto

LEMMA WentToSpawn ==
  ASSUME CallType, NEW c \in Callers, GoSpawn(c)
  PROVE  Moves(c, 0) /\ call'[c].step = "grant"
  <1>1. "grant" \in Steps
    BY DEF Steps, AttachSteps
  <1> QED
    BY <1>1, Moved, CallOf DEF GoSpawn, GotoWith

LEMMA WasDone ==
  ASSUME CallType, NEW c \in Callers, Done(c)
  PROVE  Moves(c, 0) /\ call'[c].step = "idle"
  <1>1. "idle" \in Steps
    BY DEF Steps
  <1> QED
    BY <1>1, Moved DEF Done

\* A change that overlaps no other is made alone.
LEMMA ChangedAlone ==
  ASSUME NEW c, Changes(c), ~overlapped'
  PROVE  ~overlapped /\ Changing \subseteq {c}
  <1>1. ~overlapped /\ ~(Changing \ {c} # {})
    BY Zenon DEF Changes
  <1> QED
    BY <1>1

LEMMA ChangesType ==
  ASSUME NEW c, Changes(c)
  PROVE  overlapped' \in BOOLEAN
  BY Zenon DEF Changes

\* The one that changed the tables alone left them as its step promises.
LEMMA StaysOneByOne ==
  ASSUME NEW c \in Callers, NEW s, Moves(c, s), Changing \subseteq {c}, displaced' = {},
         c \in Changing' => Midway(c)',
         c \notin Changing' => Agree'
  PROVE  OneByOne'
  <1>1. Changing' \subseteq {c}
    BY DEF Moves, Changing
  <1>2. Changing' = {} \/ Changing' = {c}
    BY <1>1
  <1> QED
    BY <1>1, <1>2 DEF OneByOne

LEMMA InitRegistryInv == Init => RegistryInv
  <1> SUFFICES ASSUME Init PROVE RegistryInv
    OBVIOUS
  <1>1. Idle \in Calls
    BY DEF Idle, Calls, Steps
  <1>2. \A c \in Callers : call[c].step = "idle" /\ call[c].session = 0
    BY DEF Init, Idle
  <1>3. TypeOK
    <2>1. TableType
      BY DEF Init, TableType
    <2>2. SessionType
      BY DEF Init, SessionType, Processes
    <2>3. CallType
      BY <1>1, <1>2 DEF Init, CallType
    <2> QED
      BY <2>1, <2>2, <2>3 DEF TypeOK
  <1>4. Fresh /\ SeenExited /\ GrantIsAlive /\ NoOrphan
    BY <1>2 DEF Init, Fresh, SeenExited, GrantIsAlive, NoOrphan
  <1>5. OneByOne
    BY <1>2 DEF Init, OneByOne, Changing, Agree, Running
  <1> QED
    BY <1>3, <1>4, <1>5 DEF RegistryInv

----------------------------------------------------------------------------
\* A step outside the tables, of a call that has not begun to change them.
LEMMA OutsideKeepsInv ==
  ASSUME RegistryInv, NEW c \in Callers, NEW s \in {None, Mine(c), entry}, Moves(c, s), Nothing,
         c \notin Changing, call'[c].step \in {"idle", "look", "check", "kill", "close"},
         call'[c].step = "check" => s # None
  PROVE  RegistryInv'
  <1> USE DEF RegistryInv, TypeOK, Nothing, Moves
  <1>1. TypeOK'
    BY DEF TableType, SessionType, CallType
  <1>2. Fresh'
    BY DEF TableType, SessionType, Fresh
  <1>3. SeenExited'
    BY DEF SeenExited, Exited
  <1>4. GrantIsAlive'
    BY DEF Changing, GrantIsAlive
  <1>5. NoOrphan'
    BY DEF Changing, NoOrphan, KnownToSomeone
  <1>6. ~overlapped' => OneByOne'
    <2>1. Changing' = Changing
      BY DEF Changing
    <2>2. \A d \in Changing : Midway(d) => Midway(d)'
      BY DEF Changing, Midway, Agree, Cleared, Granted, Closing, Running
    <2> QED
      BY <2>1, <2>2 DEF OneByOne, Agree, Running
  <1> QED
    BY <1>1, <1>2, <1>3, <1>4, <1>5, <1>6

\* The look-up that finds a session, the calls, and the checks and look-ups
\* after which nothing is left to do.
LEMMA CallKeepsInv ==
  ASSUME RegistryInv, NEW c \in Callers,
         \/ \E wanted \in Shapes : CallAttach(c, wanted)
         \/ CallKill(c) \/ CallClose(c)
  PROVE  RegistryInv'
  <1> USE DEF RegistryInv, TypeOK
  <1>1. CASE \E wanted \in Shapes : CallAttach(c, wanted)
    <2>1. PICK wanted \in Shapes : CallAttach(c, wanted)
      BY <1>1
    <2>2. Moves(c, 0) /\ call'[c].step = "look"
      BY <2>1, Moved DEF CallAttach, Steps, AttachSteps
    <2> QED
      BY <2>1, <2>2, OutsideKeepsInv DEF CallAttach, Changing
  <1>2. CASE CallKill(c) \/ CallClose(c)
    <2>1. Moves(c, call[c].session) /\ call'[c].step \in {"kill", "close"}
      BY <1>2, Went DEF CallKill, CallClose, Steps, KillSteps, CloseSteps
    <2> QED
      BY <1>2, <2>1, OutsideKeepsInv DEF CallKill, CallClose, Changing
  <1> QED
    BY <1>1, <1>2

LEMMA LookKeepsInv ==
  ASSUME RegistryInv, NEW c \in Callers, Look(c)
  PROVE  RegistryInv'
  <1> USE DEF RegistryInv, TypeOK
  <1>1. CASE entry # None
    <2>1. Moves(c, entry) /\ call'[c].step = "check"
      BY <1>1, Moved, CallOf DEF Look, GotoWith, TableType, Steps, AttachSteps
    <2> QED
      BY <1>1, <2>1, OutsideKeepsInv DEF Look, Nothing, Changing
  <1>2. CASE entry = None
    <2>1. Moves(c, 0) /\ call'[c].step = "grant"
      BY <1>2, Moved, CallOf DEF Look, GotoWith, Steps, AttachSteps
    <2>2. Changes(c) /\ UNCHANGED <<tables, sessions, displaced>>
      BY <1>2 DEF Look
    <2> USE <2>1, <2>2 DEF Moves
    <2>3. TypeOK'
      BY ChangesType DEF TableType, SessionType, CallType
    <2>4. Fresh' /\ SeenExited'
      BY DEF TableType, SessionType, Fresh, SeenExited, Exited
    <2>5. GrantIsAlive' /\ NoOrphan'
      BY DEF Look, GrantIsAlive, NoOrphan, KnownToSomeone
    <2>6. ASSUME ~overlapped'
          PROVE  OneByOne'
      <3>1. ~overlapped /\ Changing = {}
        BY <2>6, ChangedAlone DEF Look, Changing
      <3> QED
        BY <1>2, <3>1, StaysOneByOne DEF OneByOne, Agree, Midway, Cleared, Running, Changing
    <2> QED
      BY <2>3, <2>4, <2>5, <2>6
  <1> QED
    BY <1>1, <1>2

LEMMA CheckKeepsInv ==
  ASSUME RegistryInv, NEW c \in Callers, Check(c)
  PROVE  RegistryInv'
  <1> USE DEF RegistryInv, TypeOK
  <1>1. CASE Done(c) /\ UNCHANGED overlapped
    <2>1. Moves(c, 0) /\ call'[c].step = "idle"
      BY <1>1, WasDone
    <2> QED
      BY <1>1, <2>1, OutsideKeepsInv DEF Check, Nothing, Changing
  <1>2. CASE ~(Done(c) /\ UNCHANGED overlapped)
    <2>1. /\ Moves(c, call[c].session)
          /\ \/ Exited(Mine(c)) /\ call'[c].step = "removeExited"
             \/ call'[c].step = "removeOther"
      BY <1>2, Went DEF Check, Steps, AttachSteps
    <2>2. Changes(c) /\ UNCHANGED <<tables, sessions, displaced>>
      BY <1>2 DEF Check
    <2> USE <2>1, <2>2 DEF Moves
    <2>3. TypeOK'
      BY ChangesType DEF Check, TableType, SessionType, CallType
    <2>4. Fresh' /\ SeenExited'
      BY DEF TableType, SessionType, Fresh, SeenExited, Exited
    <2>5. GrantIsAlive' /\ NoOrphan'
      BY DEF Check, GrantIsAlive, NoOrphan, KnownToSomeone
    <2>6. ASSUME ~overlapped'
          PROVE  OneByOne'
      <3>1. ~overlapped /\ Changing = {}
        BY <2>6, ChangedAlone DEF Check, Changing
      <3> QED
        BY <3>1, StaysOneByOne DEF OneByOne, Agree, Midway, Running, Changing
    <2> QED
      BY <2>3, <2>4, <2>5, <2>6
  <1> QED
    BY <1>1, <1>2

\* Taking out the session looked up, or going on without it.
LEMMA RemoveKeepsInv ==
  ASSUME RegistryInv, NEW c \in Callers, RemoveExited(c) \/ RemoveOther(c)
  PROVE  RegistryInv'
  <1> USE DEF RegistryInv, TypeOK, RemoveExited, RemoveOther, RemoveLooked
  <1>1. CASE entry = Mine(c)
    <2>1. /\ Moves(c, call[c].session)
          /\ \/ call[c].step = "removeExited" /\ call'[c].step = "revokeExited"
             \/ call[c].step = "removeOther" /\ call'[c].step = "revokeOther"
      BY <1>1, Went DEF Steps, AttachSteps
    <2>2. Changes(c) /\ entry' = None /\ UNCHANGED <<grant, binding, sessions, displaced>>
      BY <1>1
    <2> USE <1>1, <2>1, <2>2 DEF Moves
    <2>3. TypeOK'
      BY ChangesType DEF TableType, SessionType, CallType
    <2>4. Fresh' /\ SeenExited'
      BY DEF TableType, SessionType, Fresh, SeenExited, Exited
    <2>5. GrantIsAlive'
      BY DEF GrantIsAlive
    <2>6. NoOrphan'
      BY DEF NoOrphan, KnownToSomeone, SeenExited, Exited
    <2>7. ASSUME ~overlapped'
          PROVE  OneByOne'
      BY <2>7, ChangedAlone, StaysOneByOne DEF OneByOne, Midway, Changing
    <2> QED
      BY <2>3, <2>4, <2>5, <2>6, <2>7
  <1>2. CASE entry # Mine(c)
    <2>1. Moves(c, 0) /\ call'[c].step = "grant"
      BY <1>2, WentToSpawn
    <2>2. overlapped' = TRUE /\ UNCHANGED <<tables, sessions, displaced>>
      BY <1>2
    <2> USE <2>1, <2>2 DEF Moves
    <2>3. TypeOK'
      BY DEF TableType, SessionType, CallType
    <2>4. Fresh' /\ SeenExited'
      BY DEF TableType, SessionType, Fresh, SeenExited, Exited
    <2>5. GrantIsAlive' /\ NoOrphan'
      BY DEF GrantIsAlive, NoOrphan, KnownToSomeone
    <2> QED
      BY <2>3, <2>4, <2>5
  <1> QED
    BY <1>1, <1>2

\* The capability of the id is revoked.
LEMMA RevokeKeepsInv ==
  ASSUME RegistryInv, NEW c \in Callers,
         RevokeExited(c) \/ RevokeOther(c) \/ KillRevoke(c) \/ CloseRevoke(c)
  PROVE  RegistryInv'
  <1> USE DEF RegistryInv, TypeOK
  <1>1. /\ Moves(c, call[c].session)
        /\ \/ call[c].step = "revokeExited" /\ call'[c].step = "unbindExited"
           \/ call[c].step = "revokeOther" /\ call'[c].step = "unbindOther"
           \/ call[c].step = "revoke" /\ call'[c].step = "unbind"
           \/ call[c].step = "closeRevoke" /\ call'[c].step = "closeSignal"
    BY Went DEF RevokeExited, RevokeOther, KillRevoke, CloseRevoke, Steps, AttachSteps, KillSteps, CloseSteps
  <1>2. Changes(c) /\ grant' = None /\ UNCHANGED <<entry, binding, sessions, displaced>>
    BY DEF RevokeExited, RevokeOther, KillRevoke, CloseRevoke, Revoke
  <1> USE <1>1, <1>2 DEF Moves
  <1>3. TypeOK'
    BY ChangesType DEF TableType, SessionType, CallType
  <1>4. Fresh' /\ SeenExited'
    BY DEF TableType, SessionType, Fresh, SeenExited, Exited
  <1>5. GrantIsAlive' /\ NoOrphan'
    BY DEF GrantIsAlive, NoOrphan, KnownToSomeone, SeenExited, Exited
  <1>6. ASSUME ~overlapped'
        PROVE  OneByOne'
    BY <1>6, ChangedAlone, StaysOneByOne DEF OneByOne, Midway, Closing, Agree, Changing
  <1> QED
    BY <1>3, <1>4, <1>5, <1>6

\* The binding of the id is removed.
LEMMA UnbindKeepsInv ==
  ASSUME RegistryInv, NEW c \in Callers,
         UnbindExited(c) \/ UnbindOther(c) \/ KillUnbind(c) \/ CloseUnbind(c)
  PROVE  RegistryInv'
  <1> USE DEF RegistryInv, TypeOK
  <1>1. PICK s \in {0, call[c].session} :
          /\ Moves(c, s)
          /\ \/ call[c].step = "unbindExited" /\ call'[c].step = "grant"
             \/ call[c].step = "unbindOther" /\ call'[c].step = "killOther" /\ s = call[c].session
             \/ call[c].step = "unbind" /\ call'[c].step = "signal" /\ s = call[c].session
             \/ call[c].step = "closeUnbind" /\ call'[c].step = "idle"
    BY Went, WentToSpawn, WasDone
       DEF UnbindExited, UnbindOther, KillUnbind, CloseUnbind, Steps, AttachSteps, KillSteps
  <1>2. Changes(c) /\ binding' = None /\ UNCHANGED <<entry, grant, sessions, displaced>>
    BY DEF UnbindExited, UnbindOther, KillUnbind, CloseUnbind, Unbind
  <1> USE <1>1, <1>2 DEF Moves
  <1>3. TypeOK'
    BY ChangesType DEF TableType, SessionType, CallType
  <1>4. Fresh' /\ SeenExited'
    BY DEF TableType, SessionType, Fresh, SeenExited, Exited
  <1>5. GrantIsAlive' /\ NoOrphan'
    BY DEF GrantIsAlive, NoOrphan, KnownToSomeone, SeenExited, Exited
  <1>6. ASSUME ~overlapped'
        PROVE  OneByOne'
    BY <1>6, ChangedAlone, StaysOneByOne DEF OneByOne, Midway, Cleared, Agree, Running, Changing
  <1> QED
    BY <1>3, <1>4, <1>5, <1>6

\* A process is sent a kill, if it still runs.
LEMMA SignalKeepsInv ==
  ASSUME RegistryInv, NEW c \in Callers, KillOther(c) \/ KillSignal(c) \/ CloseSignal(c)
  PROVE  RegistryInv'
  <1> USE DEF RegistryInv, TypeOK
  <1>1. PICK s \in {0, call[c].session} :
          /\ Moves(c, s)
          /\ \/ call[c].step = "killOther" /\ call'[c].step = "grant"
             \/ call[c].step = "signal" /\ call'[c].step = "idle"
             \/ call[c].step = "closeSignal" /\ call'[c].step = "closeWait" /\ s = call[c].session
    BY Went, WentToSpawn, WasDone DEF KillOther, KillSignal, CloseSignal, Steps, CloseSteps
  <1>2. /\ killed' = killed \cup {x \in {call[c].session} : process[x] = "running"}
        /\ Changes(c) /\ UNCHANGED <<tables, prepared, process, shape, displaced>>
    BY DEF KillOther, KillSignal, CloseSignal, Signal
  <1>3. call[c].session \in Sessions
    BY <1>1, CallOf DEF CallType
  <1> USE <1>1, <1>2 DEF Moves
  <1>4. TypeOK'
    BY <1>3, ChangesType DEF TableType, SessionType, CallType
  <1>5. Fresh' /\ SeenExited'
    BY DEF TableType, SessionType, Fresh, SeenExited, Exited
  <1>6. GrantIsAlive' /\ NoOrphan'
    BY DEF GrantIsAlive, NoOrphan, KnownToSomeone
  <1>7. ASSUME ~overlapped'
        PROVE  OneByOne'
    BY <1>7, ChangedAlone, StaysOneByOne
       DEF OneByOne, Midway, Cleared, Closing, Agree, Running, Changing
  <1> QED
    BY <1>4, <1>5, <1>6, <1>7

\* A call that changes the tables and gives up, or has waited.
LEMMA WaitKeepsInv ==
  ASSUME RegistryInv, NEW c \in Callers, StartFails(c) \/ CloseWaited(c) \/ CloseExpires(c)
  PROVE  RegistryInv'
  <1> USE DEF RegistryInv, TypeOK
  <1>1. PICK s \in {0, call[c].session} :
          /\ Moves(c, s)
          /\ \/ call[c].step = "grant" /\ call'[c].step = "idle"
             \/ /\ call[c].step = "closeWait" /\ call'[c].step = "closeRemove"
                /\ s = call[c].session /\ Exited(s)
             \/ call[c].step = "closeWait" /\ call'[c].step = "idle" /\ ~Exited(call[c].session)
    BY Went, WasDone DEF StartFails, CloseWaited, CloseExpires, Steps, CloseSteps
  <1>2. UNCHANGED <<tables, sessions, displaced, overlapped>>
    BY DEF StartFails, CloseWaited, CloseExpires, Nothing
  <1> USE <1>1, <1>2 DEF Moves
  <1>3. TypeOK'
    BY DEF TableType, SessionType, CallType
  <1>4. Fresh' /\ SeenExited'
    BY DEF TableType, SessionType, Fresh, SeenExited, Exited
  <1>5. GrantIsAlive' /\ NoOrphan'
    BY DEF GrantIsAlive, NoOrphan, KnownToSomeone
  <1>6. ASSUME ~overlapped'
        PROVE  OneByOne'
    <2>1. ~overlapped /\ Changing \subseteq {c}
      BY <1>6 DEF OneByOne, Changing
    <2> QED
      BY <2>1, StaysOneByOne DEF OneByOne, Midway, Cleared, Closing, Agree, Running, Exited, Changing
  <1> QED
    BY <1>3, <1>4, <1>5, <1>6

\* The new capability is of a session nobody has.
LEMMA GrantKeepsInv ==
  ASSUME RegistryInv, NEW c \in Callers, Grant(c)
  PROVE  RegistryInv'
  <1> USE DEF RegistryInv, TypeOK
  <1>1. /\ prepared' = prepared + 1 /\ prepared' \in Sessions /\ grant' = prepared'
        /\ Changes(c) /\ UNCHANGED <<entry, binding, process, shape, killed, displaced>>
    BY DEF Grant, SessionType
  <1>2. call[c].step = "grant" /\ Moves(c, prepared') /\ call'[c].step = "spawn"
    BY <1>1, Moved, CallOf DEF Grant, GotoWith, Steps, AttachSteps
  <1> USE <1>1, <1>2 DEF Moves
  <1>3. TypeOK'
    BY ChangesType DEF TableType, SessionType, CallType
  <1>4. Fresh'
    <2>1. \A d \in Callers : call[d].session \in {0} \cup Sessions /\ call[d].session <= prepared
      BY CallOf DEF Fresh
    <2>2. entry' <= prepared' /\ \A d \in Callers : call'[d].session <= prepared'
      BY <2>1 DEF TableType, SessionType, Fresh
    <2>3. process[prepared'] = "none" /\ \A d \in Callers : call[d].session # prepared'
      BY <2>1 DEF SessionType
    <2> QED
      BY <2>2, <2>3 DEF Fresh
  <1>5. SeenExited'
    BY DEF SeenExited, Exited
  <1>6. GrantIsAlive' /\ NoOrphan'
    BY DEF GrantIsAlive, NoOrphan, KnownToSomeone
  <1>7. ASSUME ~overlapped'
        PROVE  OneByOne'
    BY <1>7, ChangedAlone, StaysOneByOne DEF OneByOne, Midway, Cleared, Running, Changing
  <1> QED
    BY <1>3, <1>4, <1>5, <1>6, <1>7

LEMMA SpawnKeepsInv ==
  ASSUME RegistryInv, NEW c \in Callers, Spawn(c)
  PROVE  RegistryInv'
  <1> USE DEF RegistryInv, TypeOK
  <1>1. /\ call[c].session \in Sessions /\ process[call[c].session] = "none"
        /\ call[c].step = "spawn" /\ Changes(c)
        /\ UNCHANGED <<tables, prepared, killed, displaced>>
    BY CallOf DEF Spawn, CallType, Fresh
  <1>2. Moves(c, call[c].session) /\ call'[c].step = "bind"
    BY Moved, CallOf DEF Spawn, Steps, AttachSteps
  <1>3. process' = [process EXCEPT ![call[c].session] = "running"]
    BY DEF Spawn
  <1>4. /\ process'[call[c].session] = "running"
        /\ \A x \in Sessions : x # call[c].session => process'[x] = process[x]
    BY <1>1, <1>3 DEF SessionType
  <1> USE <1>1, <1>2, <1>4 DEF Moves
  <1>5. TypeOK'
    <2>1. process' \in [Sessions -> Processes]
      BY <1>3 DEF SessionType, Processes
    <2>2. shape' \in [Sessions -> Shapes \cup {NoShape}]
      BY CallOf DEF Spawn, SessionType
    <2>3. call[c].session <= prepared
      BY DEF Fresh
    <2>4. SessionType'
      BY <2>1, <2>2, <2>3 DEF SessionType
    <2> QED
      BY <2>4, ChangesType DEF TableType, CallType
  <1>6. Fresh'
    <2>1. \A d \in Callers : d # c /\ call[d].step = "spawn" =>
             call[d].session # call[c].session /\ call[d].session \in Sessions
      BY CallOf DEF CallType, Fresh
    <2>2. \A d \in Callers : call'[d].session = call[d].session
      OBVIOUS
    <2>3. \A d \in Callers : call'[d].step = "spawn" => d # c /\ call[d].step = "spawn"
      OBVIOUS
    <2> QED
      BY <2>1, <2>2, <2>3 DEF Fresh
  <1>7. SeenExited'
    BY CallOf DEF CallType, SeenExited, Exited
  <1>8. GrantIsAlive'
    BY DEF TableType, GrantIsAlive
  <1>9. NoOrphan'
    BY DEF NoOrphan, KnownToSomeone
  <1>10. ASSUME ~overlapped'
         PROVE  OneByOne'
    BY <1>10, ChangedAlone, StaysOneByOne DEF OneByOne, Midway, Granted, Running, Changing, GrantIsAlive
  <1> QED
    BY <1>5, <1>6, <1>7, <1>8, <1>9, <1>10

LEMMA SpawnFailsKeepsInv ==
  ASSUME RegistryInv, NEW c \in Callers, SpawnFails(c)
  PROVE  RegistryInv'
  <1> USE DEF RegistryInv, TypeOK
  <1>1. call[c].step = "spawn" /\ Moves(c, 0) /\ call'[c].step = "idle"
    BY WasDone DEF SpawnFails
  <1>2. /\ grant' = IF grant = call[c].session THEN None ELSE grant
        /\ Changes(c) /\ UNCHANGED <<entry, binding, sessions, displaced>>
    BY DEF SpawnFails, RevokeOwn
  <1> USE <1>1, <1>2 DEF Moves
  <1>3. TypeOK'
    BY ChangesType DEF TableType, SessionType, CallType
  <1>4. Fresh' /\ SeenExited'
    BY DEF TableType, SessionType, Fresh, SeenExited, Exited
  <1>5. GrantIsAlive' /\ NoOrphan'
    BY DEF GrantIsAlive, NoOrphan, KnownToSomeone
  <1>6. ASSUME ~overlapped'
        PROVE  OneByOne'
    BY <1>6, ChangedAlone, StaysOneByOne DEF OneByOne, Midway, Agree, Running, Changing
  <1> QED
    BY <1>3, <1>4, <1>5, <1>6

LEMMA BindKeepsInv ==
  ASSUME RegistryInv, NEW c \in Callers, Bind(c)
  PROVE  RegistryInv'
  <1> USE DEF RegistryInv, TypeOK
  <1>1. call[c].step = "bind" /\ Moves(c, call[c].session) /\ call'[c].step = "insert"
    BY Went DEF Bind, Steps, AttachSteps
  <1>2. /\ binding' = call[c].session
        /\ Changes(c) /\ UNCHANGED <<entry, grant, sessions, displaced>>
    BY DEF Bind
  <1> USE <1>1, <1>2 DEF Moves
  <1>3. TypeOK'
    BY ChangesType, CallOf DEF TableType, SessionType, CallType
  <1>4. Fresh' /\ SeenExited'
    BY DEF TableType, SessionType, Fresh, SeenExited, Exited
  <1>5. GrantIsAlive' /\ NoOrphan'
    BY DEF GrantIsAlive, NoOrphan, KnownToSomeone
  <1>6. ASSUME ~overlapped'
        PROVE  OneByOne'
    BY <1>6, ChangedAlone, StaysOneByOne DEF OneByOne, Midway, Granted, Running, Changing
  <1> QED
    BY <1>3, <1>4, <1>5, <1>6

LEMMA InsertKeepsInv ==
  ASSUME RegistryInv, NEW c \in Callers, Insert(c)
  PROVE  RegistryInv'
  <1> USE DEF RegistryInv, TypeOK
  <1>1. call[c].step = "insert" /\ Moves(c, 0) /\ call'[c].step = "idle"
    BY WasDone DEF Insert
  <1>2. /\ entry' = call[c].session
        /\ displaced' = displaced \cup {x \in {entry} \ {None} : process[x] = "running"}
        /\ Changes(c) /\ UNCHANGED <<grant, binding, sessions>>
    BY DEF Insert
  <1> USE <1>1, <1>2 DEF Moves
  <1>3. TypeOK'
    BY ChangesType, CallOf DEF TableType, SessionType, CallType
  <1>4. Fresh' /\ SeenExited'
    BY DEF TableType, SessionType, Fresh, SeenExited, Exited
  <1>5. GrantIsAlive' /\ NoOrphan'
    BY DEF GrantIsAlive, NoOrphan, KnownToSomeone
  <1>6. ASSUME ~overlapped'
        PROVE  OneByOne'
    BY <1>6, ChangedAlone, StaysOneByOne DEF OneByOne, Midway, Granted, Agree, Running, Changing
  <1> QED
    BY <1>3, <1>4, <1>5, <1>6

LEMMA KillKeepsInv ==
  ASSUME RegistryInv, NEW c \in Callers, Kill(c)
  PROVE  RegistryInv'
  <1> USE DEF RegistryInv, TypeOK
  <1>1. CASE entry = None
    <2>1. Moves(c, 0) /\ call'[c].step = "idle"
      BY <1>1, WasDone DEF Kill
    <2> QED
      BY <1>1, <2>1, OutsideKeepsInv DEF Kill, Changing
  <1>2. CASE entry # None
    <2>1. call[c].step = "kill" /\ Moves(c, entry) /\ call'[c].step = "revoke"
      BY <1>2, Moved, CallOf DEF Kill, GotoWith, TableType, Steps, KillSteps
    <2>2. entry' = None /\ Changes(c) /\ UNCHANGED <<grant, binding, sessions, displaced>>
      BY <1>2 DEF Kill
    <2> USE <1>2, <2>1, <2>2 DEF Moves
    <2>3. TypeOK'
      BY ChangesType DEF TableType, SessionType, CallType
    <2>4. Fresh' /\ SeenExited'
      BY DEF TableType, SessionType, Fresh, SeenExited, Exited
    <2>5. GrantIsAlive' /\ NoOrphan'
      BY DEF GrantIsAlive, NoOrphan, KnownToSomeone
    <2>6. ASSUME ~overlapped'
          PROVE  OneByOne'
      BY <2>6, ChangedAlone, StaysOneByOne DEF OneByOne, Midway, Changing
    <2> QED
      BY <2>3, <2>4, <2>5, <2>6
  <1> QED
    BY <1>1, <1>2

LEMMA CloseKeepsInv ==
  ASSUME RegistryInv, NEW c \in Callers, Close(c)
  PROVE  RegistryInv'
  <1> USE DEF RegistryInv, TypeOK
  <1>1. CASE entry = None
    <2>1. Moves(c, 0) /\ call'[c].step = "idle"
      BY <1>1, WasDone DEF Close
    <2> QED
      BY <1>1, <2>1, OutsideKeepsInv DEF Close, Changing
  <1>2. CASE entry # None
    <2>1. call[c].step = "close" /\ Moves(c, entry) /\ call'[c].step = "closeRevoke"
      BY <1>2, Moved, CallOf DEF Close, GotoWith, TableType, Steps, CloseSteps
    <2>2. Changes(c) /\ UNCHANGED <<tables, sessions, displaced>>
      BY <1>2 DEF Close
    <2> USE <1>2, <2>1, <2>2 DEF Moves
    <2>3. TypeOK'
      BY ChangesType DEF TableType, SessionType, CallType
    <2>4. Fresh' /\ SeenExited'
      BY DEF TableType, SessionType, Fresh, SeenExited, Exited
    <2>5. GrantIsAlive' /\ NoOrphan'
      BY DEF GrantIsAlive, NoOrphan, KnownToSomeone
    <2>6. ASSUME ~overlapped'
          PROVE  OneByOne'
      <3>1. ~overlapped /\ Changing = {}
        BY <2>6, ChangedAlone DEF Changing
      <3> QED
        BY <3>1, StaysOneByOne DEF OneByOne, Midway, Agree, Running, Changing
    <2> QED
      BY <2>3, <2>4, <2>5, <2>6
  <1> QED
    BY <1>1, <1>2

LEMMA CloseRemoveKeepsInv ==
  ASSUME RegistryInv, NEW c \in Callers, CloseRemove(c)
  PROVE  RegistryInv'
  <1> USE DEF RegistryInv, TypeOK
  <1>1. call[c].step = "closeRemove" /\ Moves(c, call[c].session) /\ call'[c].step = "closeUnbind"
    BY Went DEF CloseRemove, Steps, CloseSteps
  <1>2. /\ entry' = None
        /\ displaced' = displaced \cup {x \in {entry} \ {None, call[c].session} : process[x] = "running"}
        /\ Changes(c) /\ UNCHANGED <<grant, binding, sessions>>
    BY DEF CloseRemove
  <1> USE <1>1, <1>2 DEF Moves
  <1>3. TypeOK'
    BY ChangesType DEF TableType, SessionType, CallType
  <1>4. Fresh' /\ SeenExited'
    BY DEF TableType, SessionType, Fresh, SeenExited, Exited
  <1>5. GrantIsAlive' /\ NoOrphan'
    BY DEF GrantIsAlive, NoOrphan, KnownToSomeone, SeenExited, Exited
  <1>6. ASSUME ~overlapped'
        PROVE  OneByOne'
    BY <1>6, ChangedAlone, StaysOneByOne DEF OneByOne, Midway, Closing, Changing
  <1> QED
    BY <1>3, <1>4, <1>5, <1>6

----------------------------------------------------------------------------
\* A process ends, whatever the calls are doing.
LEMMA ExitKeepsInv ==
  ASSUME RegistryInv, NEW x \in Sessions, Exit(x)
  PROVE  RegistryInv'
  <1> USE DEF RegistryInv, TypeOK
  <1>1. /\ process[x] = "running" /\ process' = [process EXCEPT ![x] = "exited"]
        /\ shape' = [shape EXCEPT ![x] = NoShape]
        /\ killed' = killed \ {x} /\ displaced' = displaced \ {x}
        /\ UNCHANGED <<tables, prepared, call, overlapped>>
    BY DEF Exit
  <1>2. process'[x] = "exited" /\ \A y \in Sessions : y # x => process'[y] = process[y]
    BY <1>1 DEF SessionType
  <1>3. TypeOK'
    <2>1. process' \in [Sessions -> Processes] /\ shape' \in [Sessions -> Shapes \cup {NoShape}]
      BY <1>1 DEF SessionType, Processes
    <2> QED
      BY <1>1, <1>2, <2>1 DEF TableType, SessionType, CallType
  <1>4. \A c \in Callers : call[c].session \in {0} \cup Sessions
    BY CallOf
  <1>5. Fresh' /\ SeenExited'
    BY <1>1, <1>2, <1>4 DEF CallType, Fresh, SeenExited, Exited
  <1>6. GrantIsAlive' /\ NoOrphan'
    BY <1>1, <1>2 DEF TableType, GrantIsAlive, NoOrphan, KnownToSomeone
  <1>7. ASSUME ~overlapped'
        PROVE  OneByOne'
    <2>1. ~overlapped /\ Changing' = Changing
      BY <1>1, <1>7 DEF Changing
    <2>2. \A y \in {0} \cup Sessions : Running(y)' => Running(y) /\ y # x
      BY <1>2 DEF Running
    <2>3. Agree => Agree'
      BY <1>1, <2>2 DEF Agree, TableType
    <2>4. \A c \in Callers : Midway(c) => Midway(c)'
      BY <1>1, <1>4, <2>2, <2>3 DEF Midway, Cleared, Granted, Closing
    <2> QED
      BY <1>1, <2>1, <2>3, <2>4 DEF OneByOne, Changing
  <1> QED
    BY <1>3, <1>5, <1>6, <1>7

LEMMA ExitRevokesKeepsInv ==
  ASSUME RegistryInv, NEW x \in Sessions, ExitRevokes(x)
  PROVE  RegistryInv'
  <1> USE DEF RegistryInv, TypeOK
  <1>1. /\ process[x] = "exited" /\ process' = [process EXCEPT ![x] = "revoked"]
        /\ grant' = IF grant = x THEN None ELSE grant
        /\ UNCHANGED <<entry, binding, prepared, shape, killed, call, displaced, overlapped>>
    BY DEF ExitRevokes, RevokeOwn
  <1>2. process'[x] = "revoked" /\ \A y \in Sessions : y # x => process'[y] = process[y]
    BY <1>1 DEF SessionType
  <1>3. TypeOK'
    <2>1. process' \in [Sessions -> Processes]
      BY <1>1 DEF SessionType, Processes
    <2> QED
      BY <1>1, <1>2, <2>1 DEF TableType, SessionType, CallType
  <1>4. \A c \in Callers : call[c].session \in {0} \cup Sessions
    BY CallOf
  <1>5. Fresh' /\ SeenExited'
    BY <1>1, <1>2, <1>4 DEF CallType, Fresh, SeenExited, Exited
  <1>6. GrantIsAlive' /\ NoOrphan'
    BY <1>1, <1>2 DEF TableType, GrantIsAlive, NoOrphan, KnownToSomeone
  <1>7. ASSUME ~overlapped'
        PROVE  OneByOne'
    <2>1. ~overlapped /\ Changing' = Changing
      BY <1>1, <1>7 DEF Changing
    <2>2. \A y \in {0} \cup Sessions : (Running(y)' => Running(y)) /\ (Running(y) => y # x)
      BY <1>1, <1>2 DEF Running
    <2>3. Agree => Agree'
      BY <1>1, <2>2 DEF Agree, TableType
    <2>4. \A c \in Callers : Midway(c) => Midway(c)'
      BY <1>1, <1>4, <2>2, <2>3 DEF Midway, Cleared, Granted, Closing, Fresh
    <2> QED
      BY <1>1, <2>1, <2>3, <2>4 DEF OneByOne, Changing
  <1> QED
    BY <1>3, <1>5, <1>6, <1>7

----------------------------------------------------------------------------
LEMMA NextKeepsInv ==
  ASSUME RegistryInv, [Next]_vars
  PROVE  RegistryInv'
  <1>1. CASE UNCHANGED vars
    BY <1>1 DEF vars, RegistryInv, TypeOK, TableType, SessionType, CallType, Fresh, SeenExited, Exited,
       GrantIsAlive, NoOrphan, KnownToSomeone, OneByOne, Changing, Midway, Agree, Cleared, Granted,
       Closing, Running
  <1>2. CASE \E c \in Callers : (\E wanted \in Shapes : CallAttach(c, wanted)) \/ CallKill(c) \/ CallClose(c)
    BY <1>2, CallKeepsInv
  <1>3. CASE \E c \in Callers : AttachStep(c) \/ KillStep(c) \/ CloseStep(c)
    <2>1. PICK c \in Callers : AttachStep(c) \/ KillStep(c) \/ CloseStep(c)
      BY <1>3
    <2>2. CASE AttachStep(c)
      BY <2>2, LookKeepsInv, CheckKeepsInv, RemoveKeepsInv, RevokeKeepsInv, UnbindKeepsInv,
         SignalKeepsInv, WaitKeepsInv, GrantKeepsInv, SpawnKeepsInv, SpawnFailsKeepsInv,
         BindKeepsInv, InsertKeepsInv DEF AttachStep
    <2>3. CASE KillStep(c)
      BY <2>3, KillKeepsInv, RevokeKeepsInv, UnbindKeepsInv, SignalKeepsInv DEF KillStep
    <2>4. CASE CloseStep(c)
      BY <2>4, CloseKeepsInv, RevokeKeepsInv, SignalKeepsInv, WaitKeepsInv, CloseRemoveKeepsInv,
         UnbindKeepsInv DEF CloseStep
    <2> QED
      BY <2>1, <2>2, <2>3, <2>4
  <1>4. CASE \E x \in Sessions : Exit(x) \/ ExitRevokes(x)
    BY <1>4, ExitKeepsInv, ExitRevokesKeepsInv
  <1> QED
    BY <1>1, <1>2, <1>3, <1>4 DEF Next

LEMMA RegistryInvariant == Spec => []RegistryInv
  BY InitRegistryInv, NextKeepsInv, PTL DEF Spec

\* Who is past the look-up has a session, and sessions come one after another.
THEOREM RegistryTypeCorrect == Spec => []TypeOK
  <1>1. RegistryInv => TypeOK
    BY DEF RegistryInv
  <1> QED
    BY <1>1, RegistryInvariant, PTL

\* No capability outlives its terminal, whichever calls overlap.
THEOREM GrantStaysAlive == Spec => []GrantIsAlive
  <1>1. RegistryInv => GrantIsAlive
    BY DEF RegistryInv
  <1> QED
    BY <1>1, RegistryInvariant, PTL

\* No process runs that is in no table, unless it was killed or displaced by
\* a call that had not looked it up.
THEOREM NobodyOrphaned == Spec => []NoOrphan
  <1>1. RegistryInv => NoOrphan
    BY DEF RegistryInv
  <1> QED
    BY <1>1, RegistryInvariant, PTL

\* The tables agree at rest for as long as calls come one after another.
THEOREM TablesAgree == Spec => []AgreeAtRest
  <1>1. RegistryInv => AgreeAtRest
    BY DEF RegistryInv, OneByOne, Agree, Running, AgreeAtRest
  <1> QED
    BY <1>1, RegistryInvariant, PTL
============================================================================
