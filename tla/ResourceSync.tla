---------------------------- MODULE ResourceSync ----------------------------
(***************************************************************************)
(* How a device keeps its copy of a resource of the host (the projects,    *)
(* the terminals, a project's Git status): the host numbers the changes,   *)
(* a task of the host sends what it reads under a number, and the device   *)
(* drops what has a smaller number than it has seen.  The list of projects *)
(* and that of terminals are read after the number is taken, a Git status  *)
(* before.  One key of the resource is modelled; its content is the number *)
(* of changes made to it.                                                  *)
(***************************************************************************)
EXTENDS Naturals, Sequences, FiniteSets

CONSTANTS
    Devices,
    Tasks,          \* what handles messages and the desktop's own changes
    Kinds,          \* the kinds of resource considered
    Nobody,         \* no device
    Capacity,       \* CONTROL_QUEUE_CAPACITY
    MaxContent,     \* bound: changes
    MaxDrops        \* bound: connections lost, host restarts included

ASSUME SyncAssumption ==
    /\ Kinds \subseteq {"projects", "terminals", "git"} /\ Kinds # {}
    /\ Nobody \notin Devices
    /\ Capacity \in Nat /\ MaxContent \in Nat /\ MaxDrops \in Nat

VARIABLES
    kind,           \* of the resource, fixed
    content,        \* changes made, kept by the host on disk
    version,        \* ResourceVersions: the entry of the key
    subscribers,    \* devices_for the key
    task,           \* what each task is doing
    link,           \* the messages on the connection of each device
    connected,      \* devices with a connection
    wants,          \* devices whose subscribe is on its way to the host
    lost,           \* devices whose name a connection still has that has ended
    reports,        \* ends of connections the host has yet to hear of
    unsure,         \* devices that may not be told of changes: they subscribed
                    \* while such a report was on its way, or a full queue
                    \* dropped a message for them
    seen,           \* RemoteStateVersions: the highest version accepted
    shown,          \* the content the device shows
    drops

hostVars == <<content, version, subscribers>>
connectionVars == <<connected, wants, lost, reports, unsure>>
deviceVars == <<seen, shown>>
vars == <<kind, hostVars, task, link, connectionVars, deviceVars, drops>>

StampFirst == kind \in {"projects", "terminals"}

Contents == 0..MaxContent
Messages == [version : Nat, content : Contents]
Works == [step : {"idle", "stamp", "gather", "read", "send"}, change : BOOLEAN,
          source : Devices \cup {Nobody}, to : SUBSET Devices, version : Nat, content : Contents]

\* to: whom it still has to send; source: who is to be answered in any case.
Idle == [step |-> "idle", change |-> FALSE, source |-> Nobody, to |-> {},
         version |-> 0, content |-> 0]

Init ==
    /\ kind \in Kinds
    /\ content = 0 /\ version = 0 /\ subscribers = {}
    /\ task = [t \in Tasks |-> Idle]
    /\ link = [d \in Devices |-> <<>>]
    /\ connected = {} /\ wants = {} /\ lost = {} /\ unsure = {}
    /\ reports = [d \in Devices |-> 0]
    /\ seen = [d \in Devices |-> 0]
    /\ shown = [d \in Devices |-> 0]
    /\ drops = 0

----------------------------------------------------------------------------
\* The tasks of the host.

First == IF StampFirst THEN "stamp" ELSE "read"

Begin(t, change, source) ==
    /\ task[t] = Idle
    /\ task' = [task EXCEPT ![t] = [step |-> First, change |-> change, source |-> source,
                                    to |-> {}, version |-> 0, content |-> 0]]

GoesOn(t, step, to, number, payload) ==
    task' = [task EXCEPT ![t] = [step |-> step, change |-> task[t].change,
                                 source |-> task[t].source, to |-> to,
                                 version |-> number, content |-> payload]]

Ends(t) == task' = [task EXCEPT ![t] = Idle]

\* A change the user of the desktop or of a device asks for.
Change(t, source) ==
    /\ source \in connected \cup {Nobody}
    /\ content < MaxContent
    /\ Begin(t, TRUE, source)
    /\ content' = content + 1
    /\ UNCHANGED <<kind, version, subscribers, link, connectionVars, deviceVars, drops>>

\* project.list, terminal.list, git.status.
Ask(t, d) ==
    /\ d \in connected
    /\ Begin(t, FALSE, d)
    /\ UNCHANGED <<kind, hostVars, link, connectionVars, deviceVars, drops>>

\* handle_resource_subscribe registers the device, then answers like a list.
Subscribe(t, d) ==
    /\ d \in wants
    /\ Begin(t, FALSE, d)
    /\ subscribers' = subscribers \cup {d}
    /\ wants' = wants \ {d}
    /\ unsure' = IF reports[d] > 0 THEN unsure \cup {d} ELSE unsure \ {d}
    /\ UNCHANGED <<kind, content, version, link, connected, lost, reports, deviceVars, drops>>

\* ResourceVersions::next for a change, ::current for an answer.
Stamped(t) == IF task[t].change THEN version + 1 ELSE version

Stamp(t) ==
    /\ task[t].step = "stamp"
    /\ version' = Stamped(t)
    /\ GoesOn(t, "gather", task[t].to, Stamped(t), task[t].content)
    /\ UNCHANGED <<kind, content, subscribers, link, connectionVars, deviceVars, drops>>

\* The devices to send to, after the number was taken.
Recipients(t) ==
    (IF task[t].change THEN subscribers ELSE {}) \cup ({task[t].source} \ {Nobody})

Gather(t) ==
    /\ task[t].step = "gather"
    /\ IF Recipients(t) = {} THEN Ends(t)
       ELSE GoesOn(t, IF StampFirst THEN "read" ELSE "send", Recipients(t),
                   task[t].version, task[t].content)
    /\ UNCHANGED <<kind, hostVars, link, connectionVars, deviceVars, drops>>

\* The payload.
Read(t) ==
    /\ task[t].step = "read"
    /\ GoesOn(t, IF StampFirst THEN "send" ELSE "stamp", task[t].to, task[t].version, content)
    /\ UNCHANGED <<kind, hostVars, link, connectionVars, deviceVars, drops>>

\* A list of projects is read again for each device; the other payloads are
\* sent as they are to all.
AfterSend(t, rest) ==
    IF rest = {} THEN Ends(t)
    ELSE GoesOn(t, IF kind = "projects" THEN "read" ELSE "send", rest,
                task[t].version, task[t].content)

\* try_send drops what finds the queue of the connection full, and nobody asks;
\* of what is on the connection at most all is still in that queue.
SendTo(t, d) ==
    /\ task[t].step = "send" /\ d \in task[t].to
    /\ AfterSend(t, task[t].to \ {d})
    /\ \/ /\ d \in connected
          /\ link' = [link EXCEPT ![d] = Append(@, [version |-> task[t].version,
                                                   content |-> task[t].content])]
          /\ UNCHANGED unsure
       \/ /\ d \in connected /\ Len(link[d]) >= Capacity
          /\ unsure' = unsure \cup {d}
          /\ UNCHANGED link
       \/ d \notin connected /\ UNCHANGED <<link, unsure>>
    /\ UNCHANGED <<kind, hostVars, connected, wants, lost, reports, deviceVars, drops>>

TaskStep(t) == Stamp(t) \/ Gather(t) \/ Read(t) \/ \E d \in Devices : SendTo(t, d)

----------------------------------------------------------------------------
\* The device and its connection.

\* Mutant of Accepts: drops what is not newer.
AcceptsNewer(d, m) == m.version > seen[d]

\* RemoteStateVersions.accept: an equal version is accepted.
Accepts(d, m) == m.version >= seen[d]

Deliver(d) ==
    /\ link[d] # <<>>
    /\ link' = [link EXCEPT ![d] = Tail(@)]
    /\ LET m == Head(link[d])
       IN  IF Accepts(d, m)
           THEN /\ seen' = [seen EXCEPT ![d] = m.version]
                /\ shown' = [shown EXCEPT ![d] = m.content]
           ELSE UNCHANGED deviceVars
    /\ UNCHANGED <<kind, hostVars, task, connectionVars, drops>>

\* _resetRemoteRuntime: a new connection forgets the versions, subscribes anew.
ForgetVersions(d) == seen' = [seen EXCEPT ![d] = 0]

\* Mutant of Connect: the connection that has ended keeps the device's name.
ConnectUnbound(d) ==
    /\ d \notin connected
    /\ connected' = connected \cup {d}
    /\ wants' = wants \cup {d}
    /\ ForgetVersions(d)
    /\ UNCHANGED <<kind, hostVars, task, link, lost, reports, unsure, shown, drops>>

\* With the first frame it hears the host gives the name of the device to the
\* new connection: the older one, when it ends, has none to report any more.
Connect(d) ==
    /\ d \notin connected
    /\ connected' = connected \cup {d}
    /\ wants' = wants \cup {d}
    /\ lost' = lost \ {d}
    /\ ForgetVersions(d)
    /\ UNCHANGED <<kind, hostVars, task, link, reports, unsure, shown, drops>>

Disconnect(d) ==
    /\ d \in connected /\ drops < MaxDrops
    /\ drops' = drops + 1
    /\ connected' = connected \ {d}
    /\ wants' = wants \ {d}
    /\ lost' = lost \cup {d}
    /\ unsure' = unsure \ {d}
    /\ link' = [link EXCEPT ![d] = <<>>]
    /\ UNCHANGED <<kind, hostVars, task, reports, deviceVars>>

\* close_peer of the connection that has ended takes the name away, and then
\* reports the device closed.
RemoveAliases(d) ==
    /\ d \in lost
    /\ lost' = lost \ {d}
    /\ reports' = [reports EXCEPT ![d] = @ + 1]
    /\ UNCHANGED <<kind, hostVars, task, link, connected, wants, unsure, deviceVars, drops>>

\* handle_transport_state, "closed": remove_device, whether or not the device
\* has come back on another connection and subscribed.
Notice(d) ==
    /\ reports[d] > 0
    /\ reports' = [reports EXCEPT ![d] = @ - 1]
    /\ subscribers' = subscribers \ {d}
    /\ UNCHANGED <<kind, content, version, task, link, connected, wants, lost, unsure,
                   deviceVars, drops>>

\* The host stops and starts again: what it keeps in memory is gone.
RestartHost ==
    /\ drops < MaxDrops
    /\ drops' = drops + 1
    /\ version' = 0 /\ subscribers' = {}
    /\ task' = [t \in Tasks |-> Idle]
    /\ link' = [d \in Devices |-> <<>>]
    /\ connected' = {} /\ wants' = {} /\ lost' = {} /\ unsure' = {}
    /\ reports' = [d \in Devices |-> 0]
    /\ UNCHANGED <<kind, content, deviceVars>>

----------------------------------------------------------------------------
Next ==
    \/ \E t \in Tasks : TaskStep(t)
    \/ \E t \in Tasks, d \in Devices : Ask(t, d) \/ Subscribe(t, d)
    \/ \E t \in Tasks, s \in Devices \cup {Nobody} : Change(t, s)
    \/ \E d \in Devices : Deliver(d) \/ Connect(d) \/ Disconnect(d)
                        \/ RemoveAliases(d) \/ Notice(d)
    \/ RestartHost

Spec == Init /\ [][Next]_vars

\* A spawned task runs, a message arrives, a device that lost its connection
\* makes another and its subscribe is handled although other requests come.
Fairness ==
    /\ \A t \in Tasks : WF_vars(TaskStep(t))
    /\ \A d \in Devices :
          /\ WF_vars(Deliver(d)) /\ WF_vars(Connect(d))
          /\ SF_vars(\E t \in Tasks : Subscribe(t, d))

FairSpec == Spec /\ Fairness

----------------------------------------------------------------------------
HostType ==
    /\ kind \in Kinds
    /\ content \in Contents /\ version \in Nat
    /\ subscribers \subseteq Devices
    /\ connected \subseteq Devices /\ wants \subseteq connected
    /\ lost \subseteq Devices /\ unsure \subseteq Devices /\ reports \in [Devices -> Nat]

TaskType == task \in [Tasks -> Works] /\ \A t \in Tasks : task[t].version <= version

DeviceType ==
    /\ link \in [Devices -> Seq(Messages)]
    /\ seen \in [Devices -> Nat] /\ shown \in [Devices -> Contents]
    /\ \A d \in connected : seen[d] <= version
    /\ \A d \in Devices : \A i \in 1..Len(link[d]) : link[d][i].version <= version

\* The state is well formed; no number of this run of the host is ahead of
\* its counter.
TypeOK == HostType /\ TaskType /\ DeviceType

Quiet ==
    /\ \A t \in Tasks : task[t] = Idle
    /\ \A d \in Devices : link[d] = <<>>
    /\ wants = {}

\* Once nothing is under way any more, a connected device shows what the host
\* has, unless it subscribed before the end of its earlier connection was
\* reported or its queue was full: however the tasks that changed, read and
\* sent it overlapped, in whatever order their messages came, across lost
\* connections and restarts of the host, which counts from zero again.
QuietIsCurrent == Quiet => \A d \in connected \ unsure : shown[d] = content

\* A device whose connection lasts, and of which none of that is true, comes to
\* show the host's last state.
ConnectedConverges ==
    \A d \in Devices :
        <>[](d \in connected \ unsure) /\ (\E n \in Contents : <>[](content = n))
            /\ <>[][\A t \in Tasks : ~Ask(t, d)]_vars
        => <>[](shown[d] = content)

\* send.rs 166-169: the number taken before the fan-out is to keep a client
\* from "sticking on stale state".
StampedIsCurrent == QuietIsCurrent

\* terminal_state.rs 692-706, iroh_link.rs 598-624: of every device, also one
\* whose subscription a late report took away or whose queue was full.
SubscribedIsCurrent == Quiet => \A d \in connected : shown[d] = content
=============================================================================
