--------------------------- MODULE HostTransport ---------------------------
(***************************************************************************)
(* The desktop's host transport: starting, stopping, reconnecting and      *)
(* pairing.  Each call advances connection_generation and leaves the slow  *)
(* part to a task, which compares its generation with the current one      *)
(* before it keeps what it made.  A start holds transport_start_lock       *)
(* meanwhile; a pairing that finds no transport makes one without it.      *)
(* A transport is named by the generation that made it.  A call of the     *)
(* user is one step; what a task does between two awaits, or between two   *)
(* accesses to what it shares with others, is one step.                    *)
(***************************************************************************)
EXTENDS Naturals

CONSTANT MaxGeneration

ASSUME TransportAssumption == MaxGeneration \in Nat \ {0}

VARIABLES
    enabled,        \* the setting
    asked,          \* the call that follows a change of the setting
    generation,     \* connection_generation
    slot,           \* the transport in use, or None
    live,           \* the transports connected and not shut down
    lock,           \* the start that holds transport_start_lock, or None
    shown,          \* of the snapshot the desktop shows
    step,           \* what the task of each generation does next
    old,            \* the transport that task shuts down first, or None
    copied,         \* a copy of the snapshot to be written back, or NoCopy
    publishing,     \* a pairing over the transport in use is being made
    paired,         \* a pairing was made that can be confirmed or cancelled
    astray          \* since the last take_transport: a task wrote after it
                    \* was overtaken, a copy was written back over another
                    \* snapshot, a pairing gave up, or one that was made,
                    \* confirmed, cancelled or expired showed "connected"
                    \* while there was no transport

userVars == <<enabled, asked>>
slotVars == <<slot, live, shown>>
taskVars == <<step, old, lock>>
pairVars == <<publishing, paired>>
transportVars == <<userVars, generation, slotVars, taskVars, copied, pairVars, astray>>

None == 0
Generations == 1..MaxGeneration
Shows == [enabled : BOOLEAN, status : {"connecting", "connected", "failed", "stopped"}]
NoCopy == [enabled |-> FALSE, status |-> "none"]

AtWork == {"shutdown", "look", "enter", "check", "announce", "connect", "compare",
           "store", "tell", "blame", "fail"}

Show(status) == [enabled |-> enabled, status |-> status]

\* RemoteService::summary.
Summary == Show(IF enabled THEN "connecting" ELSE "stopped")

TransportInit ==
    /\ enabled \in BOOLEAN /\ asked = "start"
    /\ generation = 0 /\ slot = None /\ live = {} /\ lock = None
    /\ shown = Summary
    /\ step = [g \in Generations |-> "none"]
    /\ old = [g \in Generations |-> None]
    /\ copied = NoCopy /\ publishing = FALSE /\ paired = FALSE
    /\ astray = FALSE

----------------------------------------------------------------------------
\* What the user asks for.

SetEnabled ==
    /\ asked = "none"
    /\ enabled' = ~enabled
    /\ asked' = IF enabled THEN "stop" ELSE "start"
    /\ UNCHANGED <<generation, slotVars, taskVars, copied, pairVars, astray>>

\* connection_generation.fetch_add, and the task that begins at `first`.
NextGeneration(first) ==
    /\ generation < MaxGeneration
    /\ generation' = generation + 1
    /\ step' = [step EXCEPT ![generation + 1] = first]

\* Mutant of TakeTransport: clones the transport and leaves it in the slot.
CloneTransport ==
    /\ old' = [old EXCEPT ![generation + 1] = slot]
    /\ UNCHANGED slot
    /\ astray' = FALSE

TakeTransport ==
    /\ old' = [old EXCEPT ![generation + 1] = slot]
    /\ slot' = None
    /\ astray' = FALSE

\* stop_with_message: its task only shuts the transport down.
Stop ==
    /\ asked = "stop" \/ (asked = "start" /\ ~enabled)
    /\ asked' = "none"
    /\ NextGeneration("closing")
    /\ TakeTransport
    /\ shown' = Show("stopped")
    /\ UNCHANGED <<enabled, live, lock, copied, pairVars>>

Underway ==
    /\ shown.enabled
    /\ \/ shown.status = "connecting" /\ generation > 0
       \/ shown.status = "connected" /\ slot # None

\* start, when it finds nothing under way.
Start ==
    /\ asked = "start" /\ enabled /\ ~Underway
    /\ asked' = "none"
    /\ NextGeneration("look")
    /\ shown' = Summary
    /\ UNCHANGED <<enabled, slot, live, lock, old, copied, pairVars, astray>>

StartFindsUnderway ==
    /\ asked = "start" /\ enabled /\ Underway
    /\ asked' = "none"
    /\ UNCHANGED <<enabled, generation, slotVars, taskVars, copied, pairVars, astray>>

\* reconnect does not ask whether the host is enabled.
Reconnect ==
    /\ asked = "none"
    /\ NextGeneration("shutdown")
    /\ TakeTransport
    /\ shown' = Show("connecting")
    /\ UNCHANGED <<userVars, live, lock, copied, pairVars>>

\* create_pairing_async and prepare_transport_for_pairing, without transport.
Pair ==
    /\ asked = "none"
    /\ shown.enabled /\ enabled /\ slot = None
    /\ NextGeneration("connect")
    /\ TakeTransport
    /\ shown' = Show("connecting")
    /\ UNCHANGED <<userVars, live, lock, copied, pairVars>>

----------------------------------------------------------------------------
\* The task of generation g.

Current(g) == g = generation
IsStart(g) == lock = g

At(g, here, next) == step[g] = here /\ step' = [step EXCEPT ![g] = next]

\* Mutant of Unlock: the lock is never given back.
KeepLock(g) == lock' = lock

\* The guard of transport_start_lock is dropped with ensure_transport_ready.
Unlock(g) == lock' = IF IsStart(g) THEN None ELSE lock

\* What a task does to the slot or the snapshot once it was overtaken.
Overtaken(g) == astray' = (astray \/ ~Current(g))

\* Where start_remote_transport returns Ok, having connected or not: the task
\* of a start ends, a pairing goes on to its code.
Returned(g) == IF IsStart(g) THEN "end" ELSE "pair"

ShutDownOld(g) ==
    /\ \/ At(g, "shutdown", "look")
       \/ At(g, "closing", "end")
    /\ live' = live \ {old[g]}
    /\ old' = [old EXCEPT ![g] = None]
    /\ UNCHANGED <<userVars, generation, slot, shown, lock, copied, pairVars, astray>>

Look(g) ==
    /\ At(g, "look", IF slot = None THEN "enter" ELSE "end")
    /\ UNCHANGED <<userVars, generation, slotVars, lock, old, copied, pairVars, astray>>

Enter(g) ==
    /\ lock = None
    /\ At(g, "enter", IF slot = None THEN "check" ELSE "end")
    /\ lock' = IF slot = None THEN g ELSE None
    /\ UNCHANGED <<userVars, generation, slotVars, old, copied, pairVars, astray>>

\* Mutant of Check: a disabled host is not an error.
CheckQuietly(g) ==
    /\ At(g, "check", IF enabled THEN "announce" ELSE "end")
    /\ lock' = IF enabled THEN g ELSE None
    /\ UNCHANGED <<userVars, generation, slotVars, old, copied, pairVars, astray>>

Check(g) ==
    /\ At(g, "check", IF enabled THEN "announce" ELSE "blame")
    /\ lock' = IF enabled THEN g ELSE None
    /\ UNCHANGED <<userVars, generation, slotVars, old, copied, pairVars, astray>>

Announce(g) ==
    /\ At(g, "announce", "connect")
    /\ shown' = [enabled |-> TRUE, status |-> "connecting"]
    /\ Overtaken(g)
    /\ UNCHANGED <<userVars, generation, slot, live, lock, old, copied, pairVars>>

\* start_remote_transport up to connect_host.
Connect(g) ==
    /\ Current(g)
    /\ At(g, "connect", "compare")
    /\ live' = live \cup {g}
    /\ UNCHANGED <<userVars, generation, slot, shown, lock, old, copied, pairVars, astray>>

ConnectOvertaken(g) ==
    /\ ~Current(g)
    /\ At(g, "connect", Returned(g))
    /\ Unlock(g)
    /\ UNCHANGED <<userVars, generation, slotVars, old, copied, pairVars, astray>>

\* register_host, save_raw_settings or connect_host fails: the error of a
\* start becomes the status, the error of a pairing only goes to the caller.
ConnectFails(g) ==
    /\ At(g, "connect", IF IsStart(g) THEN "blame" ELSE "end")
    /\ Unlock(g)
    /\ astray' = (astray \/ (~IsStart(g) /\ Current(g)))
    /\ UNCHANGED <<userVars, generation, slotVars, old, copied, pairVars>>

Compare(g) ==
    /\ Current(g)
    /\ At(g, "compare", "store")
    /\ UNCHANGED <<userVars, generation, slotVars, lock, old, copied, pairVars, astray>>

\* Mutant of CompareOvertaken: drops the transport without shutting it down.
CompareAndForget(g) ==
    /\ ~Current(g)
    /\ At(g, "compare", Returned(g))
    /\ Unlock(g)
    /\ UNCHANGED <<userVars, generation, slotVars, old, copied, pairVars, astray>>

CompareOvertaken(g) ==
    /\ ~Current(g)
    /\ At(g, "compare", Returned(g))
    /\ live' = live \ {g}
    /\ Unlock(g)
    /\ UNCHANGED <<userVars, generation, slot, shown, old, copied, pairVars, astray>>

\* A transport still in the slot loses its last owner: its router stops.
Store(g) ==
    /\ At(g, "store", "tell")
    /\ slot' = g
    /\ live' = live \ {slot}
    /\ Overtaken(g)
    /\ UNCHANGED <<userVars, generation, shown, lock, old, copied, pairVars>>

Tell(g) ==
    /\ At(g, "tell", Returned(g))
    /\ shown' = Show("connected")
    /\ Unlock(g)
    /\ Overtaken(g)
    /\ UNCHANGED <<userVars, generation, slot, live, old, copied, pairVars>>

Blame(g) ==
    /\ At(g, "blame", IF Current(g) THEN "fail" ELSE "end")
    /\ UNCHANGED <<userVars, generation, slotVars, lock, old, copied, pairVars, astray>>

Fail(g) ==
    /\ At(g, "fail", "end")
    /\ shown' = Show("failed")
    /\ Overtaken(g)
    /\ UNCHANGED <<userVars, generation, slot, live, lock, old, copied, pairVars>>

\* The rest of create_pairing_async: whatever its start came to, and without
\* a look at the generation, the host is shown as connected.
ShowConnected ==
    /\ shown' = Show("connected")
    /\ astray' = (astray \/ slot = None)

Publish(g) ==
    /\ At(g, "pair", "end")
    /\ ShowConnected
    /\ paired' = TRUE
    /\ UNCHANGED <<userVars, generation, slot, live, old, lock, copied, publishing>>

\* create_pairing_ticket_payload fails.
PairFails(g) ==
    /\ At(g, "pair", "end")
    /\ UNCHANGED <<userVars, generation, slotVars, old, lock, copied, pairVars, astray>>

TaskStep(g) ==
    \/ ShutDownOld(g) \/ Look(g) \/ Enter(g) \/ Check(g) \/ Announce(g)
    \/ Connect(g) \/ ConnectOvertaken(g) \/ ConnectFails(g)
    \/ Compare(g) \/ CompareOvertaken(g) \/ Store(g) \/ Tell(g)
    \/ Blame(g) \/ Fail(g) \/ Publish(g) \/ PairFails(g)

----------------------------------------------------------------------------
\* Pairing over the transport in use, one at a time, and the end of a pairing.

\* create_pairing_async, with a transport.
PairReuses ==
    /\ asked = "none"
    /\ shown.enabled /\ slot # None /\ ~publishing
    /\ publishing' = TRUE
    /\ UNCHANGED <<userVars, generation, slotVars, taskVars, copied, paired, astray>>

PublishReused ==
    /\ publishing /\ publishing' = FALSE
    /\ \/ ShowConnected /\ paired' = TRUE
       \/ UNCHANGED <<shown, paired, astray>>
    /\ UNCHANGED <<userVars, generation, slot, live, taskVars, copied>>

\* A pairing is confirmed, rejected, cancelled or found expired; none of these
\* asks for the transport, the generation or the setting.
EndPairing ==
    /\ paired
    /\ ShowConnected
    /\ UNCHANGED <<userVars, generation, slot, live, taskVars, copied, pairVars>>

----------------------------------------------------------------------------
\* update_device_online, for every message of a device and, of the current
\* transport, for every state of one; and the refresh of the settings.  Each
\* copies the snapshot, changes devices in the copy and writes the copy back.
\* A device the snapshot lacks makes it start from the settings.

\* summary_from_settings_preserving_connection; the relay does not change.
Preserving == IF enabled /\ shown.enabled THEN shown ELSE Summary

CopySnapshot ==
    /\ copied = NoCopy
    /\ copied' \in {shown, Preserving}
    /\ UNCHANGED <<userVars, generation, slotVars, taskVars, pairVars, astray>>

WriteBack ==
    /\ copied # NoCopy
    /\ shown' = copied
    /\ astray' = (astray \/ shown # copied)
    /\ copied' = NoCopy
    /\ UNCHANGED <<userVars, generation, slot, live, taskVars, pairVars>>

----------------------------------------------------------------------------
Follow == Stop \/ Start \/ StartFindsUnderway

TransportNext ==
    \/ SetEnabled \/ Follow \/ Reconnect \/ Pair
    \/ \E g \in Generations : TaskStep(g)
    \/ PairReuses \/ PublishReused \/ EndPairing
    \/ CopySnapshot \/ WriteBack

TransportSpec == TransportInit /\ [][TransportNext]_transportVars

\* A call that was made returns, and a spawned task runs: connecting ends,
\* with a transport or with an error.
TransportFairness ==
    /\ WF_transportVars(Follow) /\ WF_transportVars(WriteBack)
    /\ \A g \in Generations : WF_transportVars(TaskStep(g))

FairTransport == TransportSpec /\ TransportFairness

----------------------------------------------------------------------------
Working(g) == step[g] \in AtWork
Idle ==
    /\ asked = "none" /\ ~publishing
    /\ \A g \in Generations : ~Working(g) /\ step[g] \notin {"closing", "pair"}

HostType ==
    /\ enabled \in BOOLEAN /\ asked \in {"none", "start", "stop"}
    /\ generation \in 0..MaxGeneration
    /\ slot \in 0..MaxGeneration /\ live \subseteq Generations
    /\ shown \in Shows /\ copied \in Shows \cup {NoCopy} /\ astray \in BOOLEAN
    /\ publishing \in BOOLEAN /\ paired \in BOOLEAN

TaskType ==
    /\ step \in [Generations -> AtWork \cup {"none", "closing", "pair", "end"}]
    /\ \A g \in Generations : step[g] = "none" <=> g > generation
    /\ old \in [Generations -> 0..MaxGeneration]
    /\ lock \in 0..MaxGeneration
    /\ lock # None =>
          step[lock] \in {"check", "announce", "connect", "compare", "store", "tell"}

\* The state is well formed: every generation there was has a task, and the
\* lock is held by one that is past it.
TransportTypeOK == HostType /\ TaskType

\* The transport in use is never one that is, or is about to be, shut down:
\* whatever the calls and the tasks that overlap, what send finds in the slot
\* can carry a message (transport.rs 191-196, 331-338).
SlotAlive ==
    slot # None => slot \in live /\ \A g \in Generations : old[g] # slot

\* While the host shows "connecting", the task of the newest generation is at
\* work on it, so that it does not stand there for ever; start relies on it
\* when it returns because a connection is under way (mod.rs 496-499).
ConnectingHasTask ==
    ~astray /\ shown.status = "connecting" /\ generation > 0 =>
        asked = "start" \/ Working(generation)

\* Once every call has returned and every task has ended, the host has the one
\* transport it shows: of the newest generation when it shows "connected", so
\* that its devices' events are heard, and none otherwise; nothing an overtaken
\* start or pairing connected is left running.
QuietHostIsTrue ==
    Idle /\ ~astray =>
        /\ shown.status = "connected" <=> slot # None
        /\ slot \in {None, generation}
        /\ live \subseteq {slot}
        /\ enabled \/ slot = None

\* A host that shows "connecting" comes to show something else, or is asked
\* for something else, or a known disturbance happens.
ConnectingSettles ==
    \A n \in 0..MaxGeneration :
        generation = n /\ shown.status = "connecting" ~>
            generation # n \/ shown.status # "connecting" \/ astray
============================================================================
