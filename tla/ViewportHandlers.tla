-------------------------- MODULE ViewportHandlers --------------------------
(***************************************************************************)
(* The host's message handlers over the viewport ownership of one          *)
(* terminal.  Each remote message runs in a task of its own (transport.rs  *)
(* spawns it), which takes one lock at a time: the subscription router to  *)
(* register the sender as a viewer, the viewport mutex for each step on    *)
(* the lease.  Nothing keeps the tasks of one device in order, and a task  *)
(* goes on after its device has disconnected: ensure_remote_terminal_      *)
(* started may hold it for as long as a terminal takes to launch.          *)
(***************************************************************************)
EXTENDS ViewportOwnership, Sequences

CONSTANTS
    Tasks,          \* the handler tasks that may run at once
    Idle            \* no task

ASSUME HandlersAssumption == Idle \notin Devices

VARIABLES
    connected,      \* the devices the transport is connected to
    exactViewers,   \* resource_subscriptions, the exact viewers of the terminal
    task            \* what each task still has to do, for which device

handlerVars == <<connected, exactViewers, task>>
systemVars == <<ownershipVars, handlerVars>>

\* The lock-taking steps of each handler, in order.  A baseline runs in a task
\* of its own, spawned by the subscription that asks for it; a scroll request
\* acts on the lease as an output ack does.
Program ==
    [ subscribe   |-> <<"register">>,
      baseline    |-> <<"register", "demand", "renew", "resize">>,
      input       |-> <<"register", "look", "renew", "write">>,
      resize      |-> <<"register", "auto", "resize">>,
      claim       |-> <<"register", "auto">>,
      force       |-> <<"register", "force">>,
      keepalive   |-> <<"register", "renew">>,
      outputAck   |-> <<"renew">>,
      signal      |-> <<"signal">>,
      release     |-> <<"release">>,
      unsubscribe |-> <<"unregister">> ]

Kinds == DOMAIN Program

Steps == {"register", "demand", "renew", "resize", "look", "write", "signal",
          "auto", "force", "release", "unregister"}

\* "drove" is a history: the device has driven the terminal at one of the steps
\* the task has made.
Resting == [device |-> Idle, steps |-> <<>>, drove |-> FALSE]

HandlersInit ==
    /\ OwnershipInit
    /\ connected = {}
    /\ exactViewers = {}
    /\ task = [t \in Tasks |-> Resting]

----------------------------------------------------------------------------
\* The transport.

Connect(d) ==
    /\ d \notin connected
    /\ connected' = connected \cup {d}
    /\ UNCHANGED <<ownershipVars, exactViewers, task>>

\* A message arrives and gets a task.
Receive(t, d, kind) ==
    /\ d \in connected
    /\ task[t] = Resting
    /\ task' = [task EXCEPT ![t] = [device |-> d, steps |-> Program[kind], drove |-> FALSE]]
    /\ UNCHANGED <<ownershipVars, connected, exactViewers>>

\* handle_transport_state "closed": remove_terminal_viewer.  The lease and the
\* tasks of the device are left as they are.
Disconnect(d) ==
    /\ d \in connected
    /\ connected' = connected \ {d}
    /\ exactViewers' = exactViewers \ {d}
    /\ UNCHANGED <<ownershipVars, task>>

\* reconnect, start, stop and pairing advance connection_generation first, so
\* the "closed" of the devices of the old transport is ignored and they stay
\* viewers.
HostReconnect ==
    /\ connected # {}
    /\ connected' = {}
    /\ UNCHANGED <<ownershipVars, exactViewers, task>>

----------------------------------------------------------------------------
\* The tasks.

Running(t, step) == task[t] # Resting /\ Head(task[t].steps) = step

\* The task has these steps left.
GoesOn(t, steps) ==
    LET d == task[t].device
    IN  task' = [task EXCEPT ![t] =
                    IF steps = <<>> THEN Resting
                    ELSE [device |-> d, steps |-> steps, drove |-> @.drove \/ owner' = d]]

Advance(t) == GoesOn(t, Tail(task[t].steps))
Stop(t) == GoesOn(t, <<>>)

Register(t) ==
    /\ Running(t, "register")
    /\ exactViewers' = exactViewers \cup {task[t].device}
    /\ UNCHANGED <<ownershipVars, connected>>
    /\ Advance(t)

Unregister(t) ==
    /\ Running(t, "unregister")
    /\ exactViewers' = exactViewers \ {task[t].device}
    /\ UNCHANGED <<ownershipVars, connected>>
    /\ Advance(t)

\* claim_viewport_auto, claim_viewport: a refused claim changes nothing.
TryClaim(d, intent) ==
    \/ TakeOwnership(d, intent)
    \/ ~CanClaim(d, intent) /\ UNCHANGED ownershipVars

\* The resize and viewport.claim handlers go on whatever the claim returned.
ClaimAnd(t, intent) ==
    /\ Running(t, intent)
    /\ TryClaim(task[t].device, intent)
    /\ Advance(t)
    /\ UNCHANGED <<connected, exactViewers>>

\* The baseline and input handlers stop unless they own the terminal now.
DemandAnyway(t) ==
    /\ Running(t, "demand")
    /\ TryClaim(task[t].device, "auto")
    /\ Advance(t)
    /\ UNCHANGED <<connected, exactViewers>>

Demand(t) ==
    /\ Running(t, "demand")
    /\ TryClaim(task[t].device, "auto")
    /\ IF owner' = task[t].device THEN Advance(t) ELSE Stop(t)
    /\ UNCHANGED <<connected, exactViewers>>

\* handle_terminal_input reads the owner first: its own goes on, the desktop's
\* it tries to claim, another device's it leaves alone.
Look(t) ==
    /\ Running(t, "look")
    /\ UNCHANGED <<ownershipVars, connected, exactViewers>>
    /\ CASE owner = task[t].device -> Advance(t)
         [] owner = Desktop -> GoesOn(t, [task[t].steps EXCEPT ![1] = "demand"])
         [] OTHER -> Stop(t)

\* touch_viewport_lease does nothing for anyone but the owner.
Renew(t) ==
    /\ Running(t, "renew")
    /\ \/ RenewOwnership(task[t].device)
       \/ owner # task[t].device /\ UNCHANGED ownershipVars
    /\ Advance(t)
    /\ UNCHANGED <<connected, exactViewers>>

\* resize_viewport renews the lease of the owner and refuses anyone else.
Resize(t) ==
    /\ Running(t, "resize")
    /\ \/ RenewOwnership(task[t].device)
       \/ owner # task[t].device /\ UNCHANGED ownershipVars
    /\ Advance(t)
    /\ UNCHANGED <<connected, exactViewers>>

\* ensure_remote_terminal_started, then write puts the input into the PTY;
\* nothing looks at the owner again.
Write(t) ==
    /\ Running(t, "write")
    /\ UNCHANGED <<ownershipVars, connected, exactViewers>>
    /\ Advance(t)

\* An interrupt goes to the PTY without a look at the owner.
Signal(t) ==
    /\ Running(t, "signal")
    /\ UNCHANGED <<ownershipVars, connected, exactViewers>>
    /\ Advance(t)

\* handle_terminal_viewport_release_msg.
GiveBack(t) ==
    /\ Running(t, "release")
    /\ \/ ReleaseOwnership(task[t].device)
       \/ owner # task[t].device /\ UNCHANGED ownershipVars
    /\ Advance(t)
    /\ UNCHANGED <<connected, exactViewers>>

TaskStep(t) ==
    \/ Register(t) \/ Unregister(t)
    \/ \E intent \in DeviceIntents : ClaimAnd(t, intent)
    \/ Demand(t) \/ Look(t) \/ Renew(t) \/ Resize(t) \/ Write(t) \/ Signal(t) \/ GiveBack(t)

----------------------------------------------------------------------------
\* The desktop and the watcher.

\* The resolver set in host/mod.rs: the first subscriber of exactly this
\* terminal, in the order of a hash set, that is not the expired owner.
ResolveDevice == Devices \ {owner}
Resolve == IF exactViewers \ {owner} = {} THEN {Nobody} ELSE exactViewers \ {owner}

WatchUnviewed ==
    /\ owner \notin exactViewers
    /\ \E resolved \in Resolve : ReclaimOwnership(resolved)
    /\ UNCHANGED handlerVars

Watch ==
    /\ \E resolved \in Resolve : ReclaimOwnership(resolved)
    /\ UNCHANGED handlerVars

DesktopClaims(intent) ==
    /\ TakeOwnership(Desktop, intent)
    /\ UNCHANGED handlerVars

Clock ==
    /\ TickOwnership
    /\ UNCHANGED handlerVars

HandlersNext ==
    \/ \E d \in Devices : Connect(d) \/ Disconnect(d)
    \/ HostReconnect
    \/ \E t \in Tasks, d \in Devices, kind \in Kinds : Receive(t, d, kind)
    \/ \E t \in Tasks : TaskStep(t)
    \/ \E intent \in DesktopIntents : DesktopClaims(intent)
    \/ Watch
    \/ Clock

HandlersSpec == HandlersInit /\ [][HandlersNext]_systemVars

\* The clock runs, the watcher polls every second, and the runtime runs every
\* task to its end.
HandlersFairness ==
    /\ WF_systemVars(Clock)
    /\ WF_systemVars(Watch)
    /\ \A t \in Tasks : WF_systemVars(TaskStep(t))

FairHandlers == HandlersSpec /\ HandlersFairness

----------------------------------------------------------------------------

HandlersTypeOK ==
    /\ OwnershipTypeOK
    /\ connected \subseteq Devices
    /\ exactViewers \subseteq Devices
    /\ task \in [Tasks -> [device : Devices \cup {Idle}, steps : Seq(Steps), drove : BOOLEAN]]
    /\ \A t \in Tasks : \/ task[t] = Resting
                        \/ task[t].device # Idle /\ task[t].steps # <<>>

\* An input may be written when the terminal has changed hands since its owner
\* was checked, in separate critical sections and before a terminal launch; but
\* its device has driven the terminal since the input arrived.  So what is typed
\* after the terminal was lost to another device, or to an explicit takeover, is
\* never written while that lasts, whatever claims run beside it.
WritersDrove == \A t \in Tasks : Running(t, "write") => task[t].drove

\* Only its own message makes a device the owner, except that an expired lease
\* is handed to a viewer.
OwnerOnRequest ==
    [][(owner' # owner /\ owner' # Desktop)
          => \/ \E t \in Tasks : task[t].device = owner' /\ TaskStep(t)
             \/ Watch /\ owner' \in exactViewers]_systemVars

\* The automatic claims of every handler together never end an explicit
\* takeover by the desktop user, however the tasks interleave: only the force
\* step of a viewport.claim message does.
TakeoverEndsByForce ==
    [][(owner = Desktop /\ explicitOwner /\ owner' # Desktop)
          => \E t \in Tasks : Running(t, "force") /\ TaskStep(t)]_systemVars

\* A device that has gone for good does not keep the terminal: whatever tasks
\* it left behind, its lease lapses.
GoneDeviceLosesTerminal ==
    \A d \in Devices : <>[](d \notin connected) => []<>(owner # d)

\* host/mod.rs: "only fall back to the desktop when no other viewer remains":
\* when no device is left the desktop gets the terminal back.
DesktopGetsItBack ==
    <>[](connected = {}) => []<>(owner = Desktop)
============================================================================
