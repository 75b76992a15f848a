-------------------------- MODULE TerminalRegistry --------------------------
(***************************************************************************)
(* The terminals of a host under one terminal id (TerminalManager,         *)
(* codux-runtime-live/src/terminal_pty/manager.rs).  The manager's map has *)
(* at most one session for the id; so have the capabilities by which the   *)
(* agent in a terminal asks for worktrees and the bindings by which the AI *)
(* runtime follows it.  Each of the three has a lock of its own, and the   *)
(* threads that attach, kill and close take them one after the other.      *)
(*                                                                         *)
(* Sessions are numbered as they are prepared; 0 is none.                  *)
(***************************************************************************)
EXTENDS Naturals

CONSTANTS
    Callers,
    Shapes,         \* the identities that can be requested: path, project, key
    NoShape,
    MaxSessions     \* bound: sessions prepared

ASSUME RegistryAssumption == NoShape \notin Shapes /\ MaxSessions \in Nat

Sessions == 1..MaxSessions
None == 0

VARIABLES
    entry,          \* sessions[id]
    grant,          \* the session whose capability is valid
    binding,        \* the session the AI runtime has for the id
    prepared,       \* the number of sessions prepared
    process,        \* of each session
    shape,          \* the identity of each session, while anybody asks for it
    killed,         \* the sessions that run and were sent a kill
    call,           \* what each caller is doing
    displaced,      \* those that run and that a call took out of the map that had
                    \* not looked them up
    overlapped      \* two calls changed the three at one time, or one went on
                    \* from a session that was not there any more

tables == <<entry, grant, binding>>
sessions == <<prepared, process, shape, killed>>
vars == <<tables, sessions, call, displaced, overlapped>>

Processes == {"none", "running", "exited", "revoked"}
Idle == [step |-> "idle", session |-> None, wants |-> NoShape]
AttachSteps == {"look", "check", "removeExited", "removeOther", "revokeExited",
                "unbindExited", "revokeOther", "unbindOther", "killOther",
                "grant", "spawn", "bind", "insert"}
KillSteps == {"kill", "revoke", "unbind", "signal"}
CloseSteps == {"close", "closeRevoke", "closeSignal", "closeWait", "closeRemove", "closeUnbind"}
Steps == {"idle"} \cup AttachSteps \cup KillSteps \cup CloseSteps
Calls == [step : Steps, session : {None} \cup Sessions, wants : Shapes \cup {NoShape}]

Init ==
    /\ entry = None /\ grant = None /\ binding = None
    /\ prepared = 0
    /\ process = [s \in Sessions |-> "none"]
    /\ shape = [s \in Sessions |-> NoShape]
    /\ killed = {}
    /\ call = [c \in Callers |-> Idle]
    /\ displaced = {}
    /\ overlapped = FALSE

----------------------------------------------------------------------------
At(c, step) == call[c].step = step
Mine(c) == call[c].session
Wants(c) == call[c].wants

Becomes(c, step, s, wanted) ==
    call' = [call EXCEPT ![c] = [step |-> step, session |-> s, wants |-> wanted]]
Goto(c, step) == Becomes(c, step, Mine(c), Wants(c))
GotoWith(c, step, s) == Becomes(c, step, s, Wants(c))
GoSpawn(c) == GotoWith(c, "grant", None)
Done(c) == Becomes(c, "idle", None, NoShape)
Exited(s) == process[s] \in {"exited", "revoked"}

\* The calls that have begun to change the tables.
Changing == {c \in Callers : call[c].step \notin {"idle", "look", "check", "kill", "close"}}

\* Caller c begins, or goes on, to change them.
Changes(c) == overlapped' = (overlapped \/ Changing \ {c} # {})

\* What a call of c does to one table, by the id of the terminal.
Revoke(c) == grant' = None /\ UNCHANGED <<entry, binding, sessions, displaced>> /\ Changes(c)
Unbind(c) == binding' = None /\ UNCHANGED <<entry, grant, sessions, displaced>> /\ Changes(c)
Signal(c) ==
    /\ killed' = killed \cup {s \in {Mine(c)} : process[s] = "running"}
    /\ UNCHANGED <<tables, prepared, process, shape, displaced>> /\ Changes(c)

Nothing == UNCHANGED <<tables, sessions, displaced, overlapped>>

----------------------------------------------------------------------------
\* attach_or_create: reusable_session first.

CallAttach(c, wanted) ==
    /\ At(c, "idle")
    /\ Becomes(c, "look", None, wanted)
    /\ Nothing

Look(c) ==
    /\ At(c, "look")
    /\ GotoWith(c, IF entry = None THEN "grant" ELSE "check", entry)
    /\ UNCHANGED <<tables, sessions, displaced>>
    /\ IF entry = None THEN Changes(c) ELSE UNCHANGED overlapped

Check(c) ==
    /\ At(c, "check")
    /\ \/ Exited(Mine(c)) /\ Goto(c, "removeExited") /\ Changes(c)
       \/ /\ ~Exited(Mine(c)) /\ shape[Mine(c)] = Wants(c)
          /\ Done(c) /\ UNCHANGED overlapped
       \/ /\ ~Exited(Mine(c)) /\ shape[Mine(c)] # Wants(c)
          /\ Goto(c, "removeOther") /\ Changes(c)
    /\ UNCHANGED <<tables, sessions, displaced>>

\* Mutant of RemoveLooked: whatever session is there.
RemoveWhatever(c, here, next) ==
    /\ At(c, here)
    /\ entry' = None /\ Goto(c, next)
    /\ UNCHANGED <<grant, binding, sessions, displaced>> /\ Changes(c)

\* remove_exited_session, remove_incompatible_session: only the session that
\* was looked up is taken out.
RemoveLooked(c, here, next) ==
    /\ At(c, here)
    /\ IF entry = Mine(c)
       THEN entry' = None /\ Goto(c, next) /\ Changes(c)
       ELSE UNCHANGED entry /\ GoSpawn(c) /\ overlapped' = TRUE
    /\ UNCHANGED <<grant, binding, sessions, displaced>>

RemoveExited(c) == RemoveLooked(c, "removeExited", "revokeExited")
RevokeExited(c) == At(c, "revokeExited") /\ Revoke(c) /\ Goto(c, "unbindExited")
UnbindExited(c) == At(c, "unbindExited") /\ Unbind(c) /\ GoSpawn(c)

RemoveOther(c) == RemoveLooked(c, "removeOther", "revokeOther")
RevokeOther(c) == At(c, "revokeOther") /\ Revoke(c) /\ Goto(c, "unbindOther")
UnbindOther(c) == At(c, "unbindOther") /\ Unbind(c) /\ Goto(c, "killOther")

\* Mutant of KillOther: the session taken out is not killed.
LetOtherLive(c) == At(c, "killOther") /\ Nothing /\ GoSpawn(c)

KillOther(c) == At(c, "killOther") /\ Signal(c) /\ GoSpawn(c)

\* The AI runtime cannot be started: the call fails before it prepares anything.
StartFails(c) == At(c, "grant") /\ Done(c) /\ Nothing

\* prepare_spawn_config: the new capability replaces the one of the id.
Grant(c) ==
    /\ At(c, "grant") /\ prepared < MaxSessions
    /\ prepared' = prepared + 1
    /\ grant' = prepared + 1
    /\ GotoWith(c, "spawn", prepared + 1)
    /\ UNCHANGED <<entry, binding, process, shape, killed, displaced>> /\ Changes(c)

Spawn(c) ==
    /\ At(c, "spawn")
    /\ process' = [process EXCEPT ![Mine(c)] = "running"]
    /\ shape' = [shape EXCEPT ![Mine(c)] = Wants(c)]
    /\ Becomes(c, "bind", Mine(c), NoShape)
    /\ UNCHANGED <<tables, prepared, killed, displaced>> /\ Changes(c)

\* Mutant of RevokeOwn: of whichever session has the id.
RevokeById(s) == grant' = None

\* revoke_capability: of this session, not of the id.
RevokeOwn(s) == grant' = IF grant = s THEN None ELSE grant

\* Mutant of SpawnFails: the capability stays.
SpawnFailsSilently(c) ==
    /\ At(c, "spawn")
    /\ Done(c)
    /\ UNCHANGED <<tables, sessions, displaced>> /\ Changes(c)

SpawnFails(c) ==
    /\ At(c, "spawn")
    /\ RevokeOwn(Mine(c))
    /\ Done(c)
    /\ UNCHANGED <<entry, binding, sessions, displaced>> /\ Changes(c)

\* register_ai_runtime_terminal.
Bind(c) ==
    /\ At(c, "bind")
    /\ binding' = Mine(c)
    /\ Goto(c, "insert")
    /\ UNCHANGED <<entry, grant, sessions, displaced>> /\ Changes(c)

Insert(c) ==
    /\ At(c, "insert")
    /\ entry' = Mine(c)
    /\ displaced' = displaced \cup {s \in {entry} \ {None} : process[s] = "running"}
    /\ Done(c)
    /\ UNCHANGED <<grant, binding, sessions>> /\ Changes(c)

----------------------------------------------------------------------------
\* kill.

CallKill(c) ==
    /\ At(c, "idle") /\ Goto(c, "kill") /\ Nothing

Kill(c) ==
    /\ At(c, "kill")
    /\ IF entry = None
       THEN Done(c) /\ Nothing
       ELSE /\ entry' = None
            /\ GotoWith(c, "revoke", entry)
            /\ UNCHANGED <<grant, binding, sessions, displaced>> /\ Changes(c)

KillRevoke(c) == At(c, "revoke") /\ Revoke(c) /\ Goto(c, "unbind")
KillUnbind(c) == At(c, "unbind") /\ Unbind(c) /\ Goto(c, "signal")
KillSignal(c) == At(c, "signal") /\ Signal(c) /\ Done(c)

----------------------------------------------------------------------------
\* kill_and_wait_if_present.

CallClose(c) ==
    /\ At(c, "idle") /\ Goto(c, "close") /\ Nothing

Close(c) ==
    /\ At(c, "close")
    /\ IF entry = None
       THEN Done(c) /\ Nothing
       ELSE /\ GotoWith(c, "closeRevoke", entry)
            /\ UNCHANGED <<tables, sessions, displaced>> /\ Changes(c)

CloseRevoke(c) == At(c, "closeRevoke") /\ Revoke(c) /\ Goto(c, "closeSignal")

CloseSignal(c) == At(c, "closeSignal") /\ Signal(c) /\ Goto(c, "closeWait")

CloseWaited(c) ==
    /\ At(c, "closeWait") /\ Exited(Mine(c))
    /\ Goto(c, "closeRemove") /\ Nothing

\* The wait expires: the session stays, without its capability.
CloseExpires(c) ==
    /\ At(c, "closeWait") /\ ~Exited(Mine(c))
    /\ Done(c) /\ Nothing

\* By the id: whatever session is there now.
CloseRemove(c) ==
    /\ At(c, "closeRemove")
    /\ entry' = None
    /\ displaced' = displaced \cup {s \in {entry} \ {None, Mine(c)} : process[s] = "running"}
    /\ Goto(c, "closeUnbind")
    /\ UNCHANGED <<grant, binding, sessions>> /\ Changes(c)

CloseUnbind(c) == At(c, "closeUnbind") /\ Unbind(c) /\ Done(c)

----------------------------------------------------------------------------
\* The process and the thread that waits for it.

Exit(s) ==
    /\ process[s] = "running"
    /\ process' = [process EXCEPT ![s] = "exited"]
    /\ shape' = [shape EXCEPT ![s] = NoShape]
    /\ killed' = killed \ {s} /\ displaced' = displaced \ {s}
    /\ UNCHANGED <<tables, prepared, call, overlapped>>

\* on_exit, after the exit was signalled.
ExitRevokes(s) ==
    /\ process[s] = "exited"
    /\ process' = [process EXCEPT ![s] = "revoked"]
    /\ RevokeOwn(s)
    /\ UNCHANGED <<entry, binding, prepared, shape, killed, call, displaced, overlapped>>

----------------------------------------------------------------------------
AttachStep(c) ==
    \/ Look(c) \/ Check(c)
    \/ RemoveExited(c) \/ RevokeExited(c) \/ UnbindExited(c)
    \/ RemoveOther(c) \/ RevokeOther(c) \/ UnbindOther(c) \/ KillOther(c)
    \/ StartFails(c) \/ Grant(c) \/ Spawn(c) \/ SpawnFails(c) \/ Bind(c) \/ Insert(c)

KillStep(c) == Kill(c) \/ KillRevoke(c) \/ KillUnbind(c) \/ KillSignal(c)

CloseStep(c) ==
    \/ Close(c) \/ CloseRevoke(c) \/ CloseSignal(c) \/ CloseWaited(c)
    \/ CloseExpires(c) \/ CloseRemove(c) \/ CloseUnbind(c)

Next ==
    \/ \E c \in Callers : (\E wanted \in Shapes : CallAttach(c, wanted))
                          \/ CallKill(c) \/ CallClose(c)
    \/ \E c \in Callers : AttachStep(c) \/ KillStep(c) \/ CloseStep(c)
    \/ \E s \in Sessions : Exit(s) \/ ExitRevokes(s)

Spec == Init /\ [][Next]_vars

\* The threads run, and a process that is killed ends.
Fairness ==
    /\ \A c \in Callers : WF_vars(AttachStep(c)) /\ WF_vars(KillStep(c)) /\ WF_vars(CloseStep(c))
    /\ \A s \in Sessions : WF_vars(s \in killed /\ Exit(s)) /\ WF_vars(ExitRevokes(s))

FairSpec == Spec /\ Fairness

----------------------------------------------------------------------------
TableType ==
    /\ entry \in {None} \cup Sessions
    /\ grant \in {None} \cup Sessions
    /\ binding \in {None} \cup Sessions
    /\ overlapped \in BOOLEAN

SessionType ==
    /\ prepared \in 0..MaxSessions
    /\ process \in [Sessions -> Processes]
    /\ shape \in [Sessions -> Shapes \cup {NoShape}]
    /\ killed \subseteq Sessions /\ displaced \subseteq Sessions
    /\ \A s \in Sessions : s > prepared => process[s] = "none"

CallType ==
    /\ call \in [Callers -> Calls]
    /\ \A c \in Callers :
          call[c].step \notin {"idle", "look", "grant", "kill", "close"} => Mine(c) # None

\* The types; who is past the look-up has a session, and sessions are
\* prepared one after the other.
TypeOK == TableType /\ SessionType /\ CallType

\* A capability belongs to a terminal that is being started or whose end is
\* still to take it back, whichever calls overlapped: none outlives its
\* terminal.
GrantIsAlive ==
    grant # None =>
        \/ process[grant] \in {"running", "exited"}
        \/ \E c \in Callers : At(c, "spawn") /\ Mine(c) = grant

\* A process that runs is in the map, is about to be or to be killed, or was
\* killed, unless a call took out a session it had not looked up: the insert of
\* a second start, or the removal by id at the end of a wait.
KnownToSomeone(s) ==
    \E c \in Callers :
        /\ Mine(c) = s
        /\ call[c].step \in {"bind", "insert", "revokeOther", "unbindOther", "killOther",
                             "revoke", "unbind", "signal"}

NoOrphan ==
    \A s \in Sessions : process[s] = "running" =>
        entry = s \/ s \in killed \/ s \in displaced \/ KnownToSomeone(s)

\* manager.rs 176, 428: no call takes out what runs and leaves it running.
NoneDisplaced == displaced = {}

\* As long as no two calls overlapped, the three tables agree when none is
\* under way, whatever terminals exited, starts failed and waits expired.
AgreeAtRest ==
    ~overlapped =>
        /\ displaced = {}
        /\ Changing = {} =>
              /\ binding = entry
              /\ grant \in {None, entry}
              /\ entry # None /\ process[entry] = "running" /\ entry \notin killed => grant = entry

\* A process that runs and is not in the map gets there, ends, and loses its
\* capability with it, or was displaced by an overlapping call.
UnlistedEnds ==
    \A s \in Sessions :
        process[s] = "running" /\ entry # s ~> entry = s \/ process[s] = "revoked" \/ s \in displaced
============================================================================
