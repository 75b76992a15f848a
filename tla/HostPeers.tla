----------------------------- MODULE HostPeers -----------------------------
(***************************************************************************)
(* The peers of the host's iroh transport.  A device reaches the host over *)
(* connections that overlap: it gives one up and dials the next before the *)
(* host notices.  The host keeps one map from names to connections; a      *)
(* connection enters it under its node's key when it is accepted and under *)
(* its device's name with every frame, and leaves it when it is closed.    *)
(* Two readers, two writers and the accept loop of a connection can each   *)
(* close it; a reader does not look whether another one has.               *)
(***************************************************************************)
EXTENDS Naturals

CONSTANTS
    Devices,
    Conns,          \* the connections that exist at one time
    Streams,        \* of a connection: control and terminal
    NoConn, Nobody,
    MaxInFlight     \* frames of one connection on their way to the host

ASSUME PeersAssumption ==
    NoConn \notin Conns /\ Nobody \notin Devices /\ MaxInFlight \in Nat \ {0}

VARIABLES
    device,         \* whose connection it is
    up,             \* the connections whose device is still there
    inFlight,       \* frames the readers have not taken yet
    phase,          \* how far the host is with a connection
    reader,         \* what the reader of each stream does with its frame
    toReport,       \* the devices close_peer took out and has yet to report
    peers,          \* the host's map from names to connections
    reported,       \* the devices whose last on_state was "connected"
    current,        \* the connection a device uses
    unanswered,     \* the devices that sent something no answer came for
    stray           \* devices bound or reported by a frame that came too late

hostVars == <<phase, reader, toReport, peers, reported, stray>>
deviceVars == <<device, up, inFlight, current, unanswered>>
vars == <<hostVars, deviceVars>>

Readers == Conns \X Streams
Names == {"node", "device"} \X Devices
ReaderSteps == {"none", "idle", "bind", "report", "answer", "ended"}
Phases == {"unused", "dialled", "open", "closing", "removed"}

Init ==
    /\ device = [c \in Conns |-> Nobody]
    /\ up = {}
    /\ inFlight = [c \in Conns |-> 0]
    /\ phase = [c \in Conns |-> "unused"]
    /\ reader = [r \in Readers |-> "none"]
    /\ toReport = [c \in Conns |-> {}]
    /\ peers = [n \in Names |-> NoConn]
    /\ reported = {}
    /\ current = [d \in Devices |-> NoConn]
    /\ unanswered = {}
    /\ stray = {}

----------------------------------------------------------------------------
\* The devices.

\* A connect asks for host.info and waits for the answer.
Dial(d, c) ==
    /\ current[d] = NoConn
    /\ phase[c] = "unused"
    /\ current' = [current EXCEPT ![d] = c]
    /\ device' = [device EXCEPT ![c] = d]
    /\ up' = up \cup {c}
    /\ inFlight' = [inFlight EXCEPT ![c] = 1]
    /\ phase' = [phase EXCEPT ![c] = "dialled"]
    /\ UNCHANGED <<reader, toReport, peers, reported, stray, unanswered>>

Handled(c) ==
    /\ phase[c] # "dialled" /\ inFlight[c] = 0
    /\ \A s \in Streams : reader[<<c, s>>] \in {"idle", "ended"}

\* The ping loop, and anything else the device sends; while it doubts the
\* connection it only pings, seconds apart.
Send(d) ==
    LET c == current[d] IN
    /\ c # NoConn
    /\ inFlight[c] < MaxInFlight
    /\ d \in unanswered => Handled(c)
    /\ inFlight' = [inFlight EXCEPT ![c] = @ + 1]
    /\ UNCHANGED <<hostVars, device, up, current, unanswered>>

DropsConnection(d) ==
    /\ current[d] # NoConn
    /\ up' = up \ {current[d]}
    /\ current' = [current EXCEPT ![d] = NoConn]
    /\ unanswered' = unanswered \ {d}
    /\ UNCHANGED <<hostVars, device, inFlight>>

\* The network, the user or the system takes the connection away.
Leave(d) ==
    /\ d \notin unanswered
    /\ DropsConnection(d)

\* The latency probe and the host probe after it expire, long after the host
\* has handled what the device sent.
GiveUp(d) ==
    /\ d \in unanswered
    /\ Handled(current[d])
    /\ DropsConnection(d)

----------------------------------------------------------------------------
\* The host: handle_connection, its readers, and close_peer.

Accept(c) ==
    /\ phase[c] = "dialled"
    /\ phase' = [phase EXCEPT ![c] = "open"]
    /\ peers' = [peers EXCEPT ![<<"node", device[c]>>] = c]
    /\ reader' = [r \in Readers |-> IF r[1] = c THEN "idle" ELSE reader[r]]
    /\ UNCHANGED <<deviceVars, toReport, reported, stray>>

\* A reader takes a frame, whose device is authorized.
Take(c, s) ==
    /\ reader[<<c, s>>] = "idle"
    /\ inFlight[c] > 0
    /\ inFlight' = [inFlight EXCEPT ![c] = @ - 1]
    /\ reader' = [reader EXCEPT ![<<c, s>>] = "bind"]
    /\ UNCHANGED <<phase, toReport, peers, reported, stray, device, up, current, unanswered>>

\* A frame comes too late if its connection has been taken out of the map when
\* it binds the name, or has lost the name again when it reports the device.
Note(c, inTime) == stray' = IF inTime THEN stray ELSE stray \cup {device[c]}

\* A bind that leaves a name alone if some connection holds it.
BindIfFree(c, s) ==
    /\ reader[<<c, s>>] = "bind"
    /\ peers' = [peers EXCEPT ![<<"device", device[c]>>] = IF @ = NoConn THEN c ELSE @]
    /\ reader' = [reader EXCEPT ![<<c, s>>] = "report"]
    /\ Note(c, phase[c] \in {"open", "closing"})
    /\ UNCHANGED <<deviceVars, phase, toReport, reported>>

\* bind_peer_alias, whoever holds the name.
Bind(c, s) ==
    /\ reader[<<c, s>>] = "bind"
    /\ peers' = [peers EXCEPT ![<<"device", device[c]>>] = c]
    /\ reader' = [reader EXCEPT ![<<c, s>>] = "report"]
    /\ Note(c, phase[c] \in {"open", "closing"})
    /\ UNCHANGED <<deviceVars, phase, toReport, reported>>

Report(c, s) ==
    /\ reader[<<c, s>>] = "report"
    /\ reported' = reported \cup {device[c]}
    /\ reader' = [reader EXCEPT ![<<c, s>>] = "answer"]
    /\ Note(c, peers[<<"device", device[c]>>] = c)
    /\ UNCHANGED <<deviceVars, phase, toReport, peers>>

\* send_to_peers: to whichever connection has the name of the device now, if
\* its flag is not set.  An answer that is sent comes before the probes expire.
Answer(c, s) ==
    LET d == device[c]
        to == peers[<<"device", d>>]
        arrives == to # NoConn /\ to = current[d] /\ phase[to] = "open"
    IN
    /\ reader[<<c, s>>] = "answer"
    /\ reader' = [reader EXCEPT ![<<c, s>>] = "idle"]
    /\ \/ arrives /\ unanswered' = unanswered \ {d}
       \/ ~arrives /\ c = current[d] /\ unanswered' = unanswered \cup {d}
       \/ ~arrives /\ c # current[d] /\ UNCHANGED unanswered
    /\ UNCHANGED <<phase, toReport, peers, reported, stray, device, up, inFlight, current>>

\* The first to set the flag of the connection closes it.
Swap(c) == phase' = IF phase[c] = "open" THEN [phase EXCEPT ![c] = "closing"] ELSE phase

\* A reader leaves its loop, with or without what was still in flight.
ReaderEnds(c, s) ==
    /\ reader[<<c, s>>] = "idle"
    /\ c \notin up
    /\ reader' = [reader EXCEPT ![<<c, s>>] = "ended"]
    /\ Swap(c)
    /\ UNCHANGED <<deviceVars, toReport, peers, reported, stray>>

\* The accept loop or a writer finds the connection lost.
LoopEnds(c) ==
    /\ phase[c] = "open"
    /\ c \notin up
    /\ Swap(c)
    /\ UNCHANGED <<deviceVars, reader, toReport, peers, reported, stray>>

\* A writer fails on its own, on a frame that is too large for example, and
\* closes the peer of a connection that goes on delivering frames.
WriterFails(c) ==
    /\ phase[c] = "open"
    /\ c \in up
    /\ Swap(c)
    /\ UNCHANGED <<deviceVars, reader, toReport, peers, reported, stray>>

\* The names of the device instead of those of the connection; the first only.
NamesOfDevice(c) == {n \in Names : n[2] = device[c] /\ peers[n] # NoConn}
NodeNamesOf(c) == {n \in Names : n[1] = "node" /\ peers[n] = c}

NamesOf(c) == {n \in Names : peers[n] = c}

\* Mutant: nothing is reported.
NothingOf(c) == {}

\* The key of a node is the name of no device: its report changes nothing.
DevicesOf(c) == {d \in Devices : <<"device", d>> \in NamesOf(c)}

RemoveAliases(c) ==
    /\ phase[c] = "closing"
    /\ phase' = [phase EXCEPT ![c] = "removed"]
    /\ toReport' = [toReport EXCEPT ![c] = DevicesOf(c)]
    /\ peers' = [n \in Names |-> IF n \in NamesOf(c) THEN NoConn ELSE peers[n]]
    /\ UNCHANGED <<deviceVars, reader, reported, stray>>

ReportClosed(c, d) ==
    /\ d \in toReport[c]
    /\ toReport' = [toReport EXCEPT ![c] = @ \ {d}]
    /\ reported' = reported \ {d}
    /\ UNCHANGED <<deviceVars, phase, reader, peers, stray>>

\* Nothing refers to the connection any more: its place can be taken by a new
\* one, which in the code has an id of its own.
Forget(c) ==
    /\ phase[c] = "removed" /\ toReport[c] = {}
    /\ \A s \in Streams : reader[<<c, s>>] = "ended"
    /\ NamesOf(c) = {}
    /\ phase' = [phase EXCEPT ![c] = "unused"]
    /\ device' = [device EXCEPT ![c] = Nobody]
    /\ inFlight' = [inFlight EXCEPT ![c] = 0]
    /\ reader' = [r \in Readers |-> IF r[1] = c THEN "none" ELSE reader[r]]
    /\ UNCHANGED <<toReport, peers, reported, stray, up, current, unanswered>>

----------------------------------------------------------------------------
Failure == (\E d \in Devices : Leave(d)) \/ (\E c \in Conns : WriterFails(c))

ReaderStep(c, s) == Take(c, s) \/ Bind(c, s) \/ Report(c, s) \/ Answer(c, s) \/ ReaderEnds(c, s)

CloserStep(c) ==
    \/ LoopEnds(c)
    \/ RemoveAliases(c)
    \/ \E d \in Devices : ReportClosed(c, d)
    \/ Forget(c)

Next ==
    \/ Failure
    \/ \E d \in Devices : Send(d) \/ GiveUp(d) \/ \E c \in Conns : Dial(d, c)
    \/ \E c \in Conns : Accept(c) \/ CloserStep(c) \/ \E s \in Streams : ReaderStep(c, s)

\* The host's tasks run and the device's timers fire: it gives a connection up
\* that it goes on doubting.  It may stay away.
Fairness ==
    /\ \A c \in Conns :
           /\ WF_vars(Accept(c))
           /\ WF_vars(CloserStep(c))
           /\ \A s \in Streams : WF_vars(ReaderStep(c, s))
    /\ \A d \in Devices :
           /\ WF_vars(Send(d))
           /\ SF_vars(GiveUp(d))

Spec == Init /\ [][Next]_vars
FairSpec == Spec /\ Fairness

----------------------------------------------------------------------------
\* The types of the map, the connections and the devices.
TypeOK ==
    /\ device \in [Conns -> Devices \cup {Nobody}]
    /\ up \subseteq Conns
    /\ inFlight \in [Conns -> 0..MaxInFlight]
    /\ phase \in [Conns -> Phases]
    /\ reader \in [Readers -> ReaderSteps]
    /\ toReport \in [Conns -> SUBSET Devices]
    /\ peers \in [Names -> Conns \cup {NoConn}]
    /\ reported \subseteq Devices
    /\ current \in [Devices -> Conns \cup {NoConn}]
    /\ unanswered \subseteq Devices
    /\ stray \subseteq Devices

\* A connection that may still report its device closed.
ToBeClosed(c, d) ==
    /\ device[c] = d
    /\ phase[c] \in {"open", "closing"} \/ d \in toReport[c]

\* A device the host shows as connected has a connection whose end will still
\* be reported, unless one of its frames came too late (handle_frame looks
\* neither at the flag of its connection nor, after the bind, at the map).
ReportedHasConnection ==
    \A d \in reported : d \in stray \/ \E c \in Conns : ToBeClosed(c, d)

\* A name is taken out of the map only by the closing of the connection it is
\* bound to: the end of an old connection never cuts off the new one.
CloseKeepsRebound ==
    [][\A n \in Names :
           peers[n] # NoConn /\ peers'[n] = NoConn =>
               phase[peers[n]] = "closing" /\ phase'[peers[n]] = "removed"]_vars

\* Once connections stop failing, every device that does not stay away settles
\* on one that the host sends to, whatever old connections, half-closed ones
\* and late frames there were.
SettlesOnCurrent ==
    <>[][~Failure]_vars =>
        \A d \in Devices :
            []<>(current[d] # NoConn) =>
                <>[](/\ current[d] # NoConn
                     /\ phase[current[d]] = "open"
                     /\ peers[<<"device", d>>] = current[d])

\* A device that is gone for good is reported closed at last, unless a frame
\* came too late.
GoneIsReported ==
    \A d \in Devices :
        <>[](current[d] = NoConn) => <>[](d \notin reported \/ d \in stray)
============================================================================
