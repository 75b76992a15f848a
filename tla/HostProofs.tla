----------------------------- MODULE HostProofs -----------------------------
(***************************************************************************)
(* The host and what it is connected through.  For any number of devices,  *)
(* connections, streams and frames in flight: the end of a connection      *)
(* takes no name from another one, and a device that is shown as connected *)
(* has a connection that will be reported.  For any number of calls of the *)
(* user: the transport in use is never one that a task is about to shut    *)
(* down, a host that shows "connecting" has a task at work on it, and one  *)
(* at rest shows what it has.                                              *)
(***************************************************************************)
EXTENDS HostPeers, HostTransport, TLAPS

-----------------------------------------------------------------------------
\* The connections of the host (HostPeers).

\* The host knows whose a connection is from the moment it is dialled, and has
\* nothing to report of it before it takes its names out of the map.
Owned ==
    \A c \in Conns :
        /\ phase[c] # "unused" => device[c] \in Devices
        /\ phase[c] # "removed" => toReport[c] = {}
        /\ \A s \in Streams : reader[<<c, s>>] # "none" => phase[c] # "unused"

\* A device none of whose frames came too late is bound, if at all, to a
\* connection of its own that is still in the map, ...
Held(d) ==
    LET c == peers[<<"device", d>>] IN
    c # NoConn => device[c] = d /\ phase[c] \in {"open", "closing"}

\* ... and is shown as connected only while bound or about to be reported.
Shown(d) ==
    d \in reported =>
        \/ peers[<<"device", d>>] # NoConn
        \/ \E c \in Conns : device[c] = d /\ d \in toReport[c]

Bound == \A d \in Devices \ stray : Held(d) /\ Shown(d)

PeersInv == TypeOK /\ Owned /\ Bound

LEMMA InitPeersInv == Init => PeersInv
  BY PeersAssumption DEF Init, PeersInv, TypeOK, Owned, Bound, Held, Shown, Readers, Names, ReaderSteps, Phases

\* The inductive invariant gives the property.
LEMMA PeersInvReported == PeersInv => ReportedHasConnection
  <1> SUFFICES ASSUME PeersInv, NEW d \in reported, d \notin stray
               PROVE  \E c \in Conns : ToBeClosed(c, d)
    BY DEF ReportedHasConnection
  <1>1. d \in Devices /\ <<"device", d>> \in Names
    BY DEF PeersInv, TypeOK, Names
  <1>2. CASE peers[<<"device", d>>] # NoConn
    <2>1. peers[<<"device", d>>] \in Conns
      BY <1>1, <1>2 DEF PeersInv, TypeOK
    <2>2. ToBeClosed(peers[<<"device", d>>], d)
      BY <1>1, <1>2 DEF PeersInv, Bound, Held, ToBeClosed
    <2> QED
      BY <2>1, <2>2
  <1>3. CASE \E c \in Conns : device[c] = d /\ d \in toReport[c]
    BY <1>3 DEF ToBeClosed
  <1> QED
    BY <1>1, <1>2, <1>3 DEF PeersInv, Bound, Shown

\* A reader that has a frame belongs to a connection with a device.
LEMMA ReaderOwner ==
  ASSUME PeersInv, NEW c \in Conns, NEW s \in Streams, reader[<<c, s>>] # "none"
  PROVE  device[c] \in Devices /\ phase[c] # "unused"
  BY DEF PeersInv, Owned

----------------------------------------------------------------------------
\* The steps of a device touch neither the map nor what is reported.
LEMMA DeviceKeepsInv ==
  ASSUME PeersInv, NEW d \in Devices, Send(d) \/ DropsConnection(d)
  PROVE  PeersInv'
  <1>1. TypeOK'
    <2>1. CASE Send(d)
      <3>1. inFlight' \in [Conns -> 0..MaxInFlight]
        BY <2>1, PeersAssumption DEF Send, PeersInv, TypeOK
      <3> QED
        BY <2>1, <3>1 DEF Send, PeersInv, TypeOK, hostVars
    <2>2. CASE DropsConnection(d)
      BY <2>2 DEF DropsConnection, PeersInv, TypeOK, hostVars
    <2> QED
      BY <2>1, <2>2
  <1>2. UNCHANGED <<device, phase, toReport, reader, peers, reported, stray>>
    BY DEF Send, DropsConnection, hostVars
  <1> QED
    BY <1>1, <1>2 DEF PeersInv, Owned, Bound, Held, Shown

\* The type of the name of a device.
LEMMA NameType ==
  ASSUME TypeOK, NEW d \in Devices
  PROVE  <<"device", d>> \in Names /\ peers[<<"device", d>>] \in Conns \cup {NoConn}
  BY DEF TypeOK, Names

\* A connection that is dialled had no name and nothing to report.
LEMMA DialKeepsInv ==
  ASSUME PeersInv, NEW d \in Devices, NEW c \in Conns, Dial(d, c)
  PROVE  PeersInv'
  <1>1. TypeOK'
    BY PeersAssumption DEF Dial, PeersInv, TypeOK, Phases
  <1>2. Owned'
    BY DEF Dial, PeersInv, TypeOK, Owned
  <1>3. ASSUME NEW e \in Devices \ stray
        PROVE  Held(e)' /\ Shown(e)'
    <2>1. Held(e) /\ Shown(e) /\ peers[<<"device", e>>] \in Conns \cup {NoConn}
      BY NameType DEF PeersInv, Bound
    <2>2. Held(e)'
      BY <2>1, PeersAssumption DEF Dial, PeersInv, TypeOK, Held
    <2>3. \A x \in Conns : e \in toReport[x] => x # c
      BY DEF Dial, PeersInv, Owned
    <2>4. Shown(e)'
      BY <2>1, <2>3 DEF Dial, PeersInv, TypeOK, Shown
    <2> QED
      BY <2>2, <2>4
  <1>4. Bound'
    BY <1>3 DEF Dial, Bound
  <1> QED
    BY <1>1, <1>2, <1>4 DEF PeersInv

\* Accepting sets the name of the node only.
LEMMA AcceptKeepsInv ==
  ASSUME PeersInv, NEW c \in Conns, Accept(c)
  PROVE  PeersInv'
  <1>0. device[c] \in Devices
    BY DEF Accept, PeersInv, Owned
  <1>1. TypeOK'
    BY <1>0 DEF Accept, deviceVars, PeersInv, TypeOK, Phases, Readers, ReaderSteps, Names
  <1>2. Owned'
    BY DEF Accept, deviceVars, PeersInv, TypeOK, Owned, Readers
  <1>3. ASSUME NEW e \in Devices \ stray
        PROVE  Held(e)' /\ Shown(e)'
    <2>1. Held(e) /\ Shown(e) /\ peers[<<"device", e>>] \in Conns \cup {NoConn}
      BY NameType DEF PeersInv, Bound
    <2>2. peers'[<<"device", e>>] = peers[<<"device", e>>]
      BY NameType DEF Accept, PeersInv, TypeOK
    <2>3. Held(e)'
      BY <2>1, <2>2, PeersAssumption DEF Accept, deviceVars, PeersInv, TypeOK, Held
    <2>4. Shown(e)'
      BY <2>1, <2>2 DEF Accept, deviceVars, Shown
    <2> QED
      BY <2>3, <2>4
  <1>4. Bound'
    BY <1>3 DEF Accept, Bound
  <1> QED
    BY <1>1, <1>2, <1>4 DEF PeersInv

\* A reader that takes a frame or answers it leaves the map alone.
LEMMA TakeAnswerKeepsInv ==
  ASSUME PeersInv, NEW c \in Conns, NEW s \in Streams, Take(c, s) \/ Answer(c, s)
  PROVE  PeersInv'
  <1>1. device[c] \in Devices /\ phase[c] # "unused" /\ <<c, s>> \in Readers
    BY ReaderOwner DEF Take, Answer, Readers
  <1>2. UNCHANGED <<phase, toReport, peers, reported, stray, device, up, current>>
    BY DEF Take, Answer
  <1>3. /\ reader' \in [Readers -> ReaderSteps]
        /\ \A r \in Readers : reader'[r] # "none" => reader[r] # "none"
    BY <1>1 DEF Take, Answer, PeersInv, TypeOK, ReaderSteps
  <1>4. inFlight' \in [Conns -> 0..MaxInFlight]
    BY PeersAssumption DEF Take, Answer, PeersInv, TypeOK
  <1>5. unanswered' \subseteq Devices
    BY <1>1 DEF Take, Answer, PeersInv, TypeOK
  <1>6. TypeOK'
    BY <1>2, <1>3, <1>4, <1>5 DEF PeersInv, TypeOK
  <1>7. Owned'
    BY <1>2, <1>3 DEF PeersInv, Owned, Readers
  <1>8. Bound'
    BY <1>2 DEF PeersInv, Bound, Held, Shown
  <1> QED
    BY <1>6, <1>7, <1>8 DEF PeersInv

\* A bind in time points the name of the device at a connection of its own.
LEMMA BindKeepsInv ==
  ASSUME PeersInv, NEW c \in Conns, NEW s \in Streams, Bind(c, s)
  PROVE  PeersInv'
  <1> DEFINE d == device[c]
  <1>1. d \in Devices /\ phase[c] # "unused" /\ <<c, s>> \in Readers
    BY ReaderOwner DEF Bind, Readers
  <1>2. UNCHANGED <<phase, toReport, reported, device, up, inFlight, current, unanswered>>
    BY DEF Bind, deviceVars
  <1>3. /\ reader' \in [Readers -> ReaderSteps]
        /\ \A r \in Readers : reader'[r] # "none" => reader[r] # "none"
    BY <1>1 DEF Bind, PeersInv, TypeOK, ReaderSteps
  <1>4. /\ peers' \in [Names -> Conns \cup {NoConn}]
        /\ stray' \subseteq Devices
        /\ stray \subseteq stray'
    BY <1>1 DEF Bind, Note, PeersInv, TypeOK, Names
  <1>5. TypeOK'
    BY <1>2, <1>3, <1>4 DEF PeersInv, TypeOK
  <1>6. Owned'
    BY <1>2, <1>3 DEF PeersInv, Owned, Readers
  <1>7. ASSUME NEW e \in Devices \ stray'
        PROVE  Held(e)' /\ Shown(e)'
    <2>1. Held(e) /\ Shown(e)
      BY <1>4, <1>7 DEF PeersInv, Bound
    <2>2. CASE e = d
      <3>1. peers'[<<"device", e>>] = c
        BY <1>1, <2>2 DEF Bind, PeersInv, TypeOK, Names
      <3>2. phase[c] \in {"open", "closing"}
        BY <1>7, <2>2 DEF Bind, Note
      <3>3. c # NoConn
        BY PeersAssumption
      <3> QED
        BY <1>2, <2>2, <3>1, <3>2, <3>3 DEF Held, Shown
    <2>3. CASE e # d
      <3>1. peers'[<<"device", e>>] = peers[<<"device", e>>]
        BY <1>1, <2>3 DEF Bind, PeersInv, TypeOK, Names
      <3> QED
        BY <1>2, <2>1, <3>1 DEF Held, Shown
    <2> QED
      BY <2>2, <2>3
  <1>8. Bound'
    BY <1>7 DEF Bound
  <1> QED
    BY <1>5, <1>6, <1>8 DEF PeersInv

\* A device is reported in time only while its name is bound.
LEMMA ReportKeepsInv ==
  ASSUME PeersInv, NEW c \in Conns, NEW s \in Streams, Report(c, s)
  PROVE  PeersInv'
  <1> DEFINE d == device[c]
  <1>1. d \in Devices /\ phase[c] # "unused" /\ <<c, s>> \in Readers
    BY ReaderOwner DEF Report, Readers
  <1>2. UNCHANGED <<phase, toReport, peers, device, up, inFlight, current, unanswered>>
    BY DEF Report, deviceVars
  <1>3. /\ reader' \in [Readers -> ReaderSteps]
        /\ \A r \in Readers : reader'[r] # "none" => reader[r] # "none"
    BY <1>1 DEF Report, PeersInv, TypeOK, ReaderSteps
  <1>4. /\ reported' = reported \cup {d}
        /\ stray' \subseteq Devices
        /\ stray \subseteq stray'
    BY <1>1 DEF Report, Note, PeersInv, TypeOK
  <1>5. TypeOK'
    BY <1>1, <1>2, <1>3, <1>4 DEF PeersInv, TypeOK
  <1>6. Owned'
    BY <1>2, <1>3 DEF PeersInv, Owned, Readers
  <1>7. ASSUME NEW e \in Devices \ stray'
        PROVE  Held(e)' /\ Shown(e)'
    <2>1. Held(e) /\ Shown(e)
      BY <1>4, <1>7 DEF PeersInv, Bound
    <2>2. e = d => peers[<<"device", e>>] # NoConn
      BY <1>7, PeersAssumption DEF Report, Note
    <2> QED
      BY <1>2, <1>4, <2>1, <2>2 DEF Held, Shown
  <1>8. Bound'
    BY <1>7 DEF Bound
  <1> QED
    BY <1>5, <1>6, <1>8 DEF PeersInv

\* Setting the flag of an open connection.
LEMMA SwapKeepsInv ==
  ASSUME PeersInv, NEW c \in Conns, Swap(c),
         UNCHANGED <<device, up, inFlight, current, unanswered, toReport, peers, reported, stray>>,
         reader' \in [Readers -> ReaderSteps],
         \A r \in Readers : reader'[r] # "none" => reader[r] # "none"
  PROVE  PeersInv'
  <1>1. /\ phase' \in [Conns -> Phases]
        /\ \A x \in Conns : \/ phase'[x] = phase[x]
                            \/ phase[x] = "open" /\ phase'[x] = "closing"
    BY DEF Swap, PeersInv, TypeOK, Phases
  <1>2. TypeOK'
    BY <1>1 DEF PeersInv, TypeOK
  <1>3. Owned'
    <2>1. ASSUME NEW x \in Conns
          PROVE  /\ phase'[x] # "unused" => device'[x] \in Devices
                 /\ phase'[x] # "removed" => toReport'[x] = {}
                 /\ \A s \in Streams : reader'[<<x, s>>] # "none" => phase'[x] # "unused"
      BY <1>1 DEF PeersInv, Owned, Readers
    <2> QED
      BY <2>1 DEF Owned
  <1>4. ASSUME NEW e \in Devices \ stray
        PROVE  Held(e)' /\ Shown(e)'
    <2>1. Held(e) /\ Shown(e) /\ peers[<<"device", e>>] \in Conns \cup {NoConn}
      BY NameType DEF PeersInv, Bound
    <2> QED
      BY <1>1, <2>1 DEF Held, Shown
  <1>5. Bound'
    BY <1>4 DEF Bound
  <1> QED
    BY <1>2, <1>3, <1>5 DEF PeersInv

LEMMA ClosersKeepInv ==
  ASSUME PeersInv, NEW c \in Conns,
         LoopEnds(c) \/ WriterFails(c) \/ \E s \in Streams : ReaderEnds(c, s)
  PROVE  PeersInv'
  <1>1. CASE LoopEnds(c) \/ WriterFails(c)
    <2>1. reader' = reader
      BY <1>1 DEF LoopEnds, WriterFails
    <2>2. reader' \in [Readers -> ReaderSteps]
      BY <2>1 DEF PeersInv, TypeOK
    <2>3. Swap(c) /\ UNCHANGED <<device, up, inFlight, current, unanswered, toReport, peers, reported, stray>>
      BY <1>1 DEF LoopEnds, WriterFails, deviceVars
    <2> QED
      BY <2>1, <2>2, <2>3, SwapKeepsInv
  <1>2. ASSUME NEW s \in Streams, ReaderEnds(c, s)
        PROVE  PeersInv'
    <2>1. /\ reader' \in [Readers -> ReaderSteps]
          /\ \A r \in Readers : reader'[r] # "none" => reader[r] # "none"
      BY <1>2 DEF ReaderEnds, PeersInv, TypeOK, ReaderSteps, Readers
    <2>2. Swap(c) /\ UNCHANGED <<device, up, inFlight, current, unanswered, toReport, peers, reported, stray>>
      BY <1>2 DEF ReaderEnds, deviceVars
    <2> QED
      BY <2>1, <2>2, SwapKeepsInv
  <1> QED
    BY <1>1, <1>2

\* Every device that loses its name is about to be reported.
LEMMA RemoveKeepsInv ==
  ASSUME PeersInv, NEW c \in Conns, RemoveAliases(c)
  PROVE  PeersInv'
  <1>1. UNCHANGED <<device, up, inFlight, current, unanswered, reader, reported, stray>>
    BY DEF RemoveAliases, deviceVars
  <1>2. /\ phase' \in [Conns -> Phases] /\ phase'[c] = "removed"
        /\ \A x \in Conns \ {c} : phase'[x] = phase[x]
    BY DEF RemoveAliases, PeersInv, TypeOK, Phases
  <1>3. /\ toReport' \in [Conns -> SUBSET Devices]
        /\ toReport'[c] = {d \in Devices : peers[<<"device", d>>] = c}
        /\ \A x \in Conns \ {c} : toReport'[x] = toReport[x]
    BY DEF RemoveAliases, DevicesOf, NamesOf, Names, PeersInv, TypeOK
  <1>4. /\ peers' \in [Names -> Conns \cup {NoConn}]
        /\ \A d \in Devices : peers'[<<"device", d>>] =
               IF peers[<<"device", d>>] = c THEN NoConn ELSE peers[<<"device", d>>]
    BY DEF RemoveAliases, NamesOf, Names, PeersInv, TypeOK
  <1>5. TypeOK'
    BY <1>1, <1>2, <1>3, <1>4 DEF PeersInv, TypeOK
  <1>6. Owned'
    <2>1. phase[c] = "closing"
      BY DEF RemoveAliases
    <2> QED
      BY <1>1, <1>2, <1>3, <2>1 DEF PeersInv, Owned
  <1>7. ASSUME NEW e \in Devices \ stray
        PROVE  Held(e)' /\ Shown(e)'
    <2>1. Held(e) /\ Shown(e) /\ peers[<<"device", e>>] \in Conns \cup {NoConn}
      BY NameType DEF PeersInv, Bound
    <2>2. Held(e)'
      BY <1>1, <1>2, <1>4, <2>1 DEF Held
    <2>3. Shown(e)'
      <3>1. CASE peers[<<"device", e>>] = c
        <4>1. device[c] = e /\ e \in toReport'[c]
          BY <1>3, <2>1, <3>1, PeersAssumption DEF Held
        <4> QED
          BY <1>1, <4>1 DEF Shown
      <3>2. CASE peers[<<"device", e>>] # c /\ peers[<<"device", e>>] # NoConn
        BY <1>4, <3>2 DEF Shown
      <3>3. CASE peers[<<"device", e>>] = NoConn
        <4>1. toReport[c] = {}
          BY DEF RemoveAliases, PeersInv, Owned
        <4>2. \A x \in Conns : e \in toReport[x] => e \in toReport'[x]
          BY <1>3, <4>1
        <4> QED
          BY <1>1, <2>1, <3>3, <4>2 DEF Shown
      <3> QED
        BY <3>1, <3>2, <3>3
    <2> QED
      BY <2>2, <2>3
  <1>8. Bound'
    BY <1>1, <1>7 DEF Bound
  <1> QED
    BY <1>5, <1>6, <1>8 DEF PeersInv

\* A report ends what it announces; for the other devices nothing changes.
LEMMA ReportClosedKeepsInv ==
  ASSUME PeersInv, NEW c \in Conns, NEW d \in Devices, ReportClosed(c, d)
  PROVE  PeersInv'
  <1>1. UNCHANGED <<device, up, inFlight, current, unanswered, phase, reader, peers, stray>>
    BY DEF ReportClosed, deviceVars
  <1>2. /\ reported' = reported \ {d}
        /\ toReport' \in [Conns -> SUBSET Devices]
        /\ \A x \in Conns : toReport[x] \ {d} \subseteq toReport'[x]
        /\ \A x \in Conns : toReport'[x] \subseteq toReport[x]
    BY DEF ReportClosed, PeersInv, TypeOK
  <1>3. TypeOK'
    BY <1>1, <1>2 DEF PeersInv, TypeOK
  <1>4. Owned'
    <2>1. ASSUME NEW x \in Conns, phase[x] # "removed"
          PROVE  toReport'[x] = {}
      BY <1>2, <2>1 DEF PeersInv, Owned
    <2> QED
      BY <1>1, <2>1 DEF PeersInv, Owned
  <1>5. ASSUME NEW e \in Devices \ stray
        PROVE  Held(e)' /\ Shown(e)'
    <2>1. Held(e) /\ Shown(e)
      BY DEF PeersInv, Bound
    <2> QED
      BY <1>1, <1>2, <2>1 DEF Held, Shown
  <1>6. Bound'
    BY <1>1, <1>5 DEF Bound
  <1> QED
    BY <1>3, <1>4, <1>6 DEF PeersInv

\* A connection is forgotten when no name and no report refers to it.
LEMMA ForgetKeepsInv ==
  ASSUME PeersInv, NEW c \in Conns, Forget(c)
  PROVE  PeersInv'
  <1>1. UNCHANGED <<toReport, peers, reported, stray, up, current, unanswered>>
    BY DEF Forget
  <1>2. /\ phase' \in [Conns -> Phases] /\ phase'[c] = "unused"
        /\ device' \in [Conns -> Devices \cup {Nobody}]
        /\ \A x \in Conns \ {c} : phase'[x] = phase[x] /\ device'[x] = device[x]
    BY DEF Forget, PeersInv, TypeOK, Phases
  <1>3. /\ reader' \in [Readers -> ReaderSteps]
        /\ \A s \in Streams : reader'[<<c, s>>] = "none"
        /\ \A r \in Readers : reader'[r] # "none" => reader'[r] = reader[r]
    BY DEF Forget, PeersInv, TypeOK, Readers, ReaderSteps
  <1>4. inFlight' \in [Conns -> 0..MaxInFlight]
    BY PeersAssumption DEF Forget, PeersInv, TypeOK
  <1>5. TypeOK'
    BY <1>1, <1>2, <1>3, <1>4 DEF PeersInv, TypeOK
  <1>6. Owned'
    <2>1. toReport[c] = {}
      BY DEF Forget
    <2>2. ASSUME NEW x \in Conns
          PROVE  /\ phase'[x] # "unused" => device'[x] \in Devices
                 /\ phase'[x] # "removed" => toReport'[x] = {}
                 /\ \A s \in Streams : reader'[<<x, s>>] # "none" => phase'[x] # "unused"
      <3>1. CASE x = c
        BY <1>1, <1>2, <1>3, <2>1, <3>1
      <3>2. CASE x # c
        BY <1>1, <1>2, <1>3, <3>2 DEF PeersInv, Owned, Readers
      <3> QED
        BY <3>1, <3>2
    <2> QED
      BY <2>2 DEF Owned
  <1>7. ASSUME NEW e \in Devices \ stray
        PROVE  Held(e)' /\ Shown(e)'
    <2>1. Held(e) /\ Shown(e) /\ peers[<<"device", e>>] \in Conns \cup {NoConn}
      BY NameType DEF PeersInv, Bound
    <2>2. peers[<<"device", e>>] # c /\ toReport[c] = {}
      BY NameType DEF Forget, NamesOf, PeersInv
    <2> QED
      BY <1>1, <1>2, <2>1, <2>2 DEF Held, Shown
  <1>8. Bound'
    BY <1>1, <1>7 DEF Bound
  <1> QED
    BY <1>5, <1>6, <1>8 DEF PeersInv

----------------------------------------------------------------------------
LEMMA StutterKeepsInv == PeersInv /\ UNCHANGED vars => PeersInv'
  BY DEF vars, hostVars, deviceVars, PeersInv, TypeOK, Owned, Bound, Held, Shown

LEMMA NextKeepsInv == PeersInv /\ [Next]_vars => PeersInv'
  <1> SUFFICES ASSUME PeersInv, [Next]_vars
               PROVE  PeersInv'
    OBVIOUS
  <1>1. ASSUME NEW d \in Devices, Leave(d) \/ Send(d) \/ GiveUp(d)
        PROVE  PeersInv'
    BY <1>1, DeviceKeepsInv DEF Leave, GiveUp
  <1>2. ASSUME NEW d \in Devices, NEW c \in Conns, Dial(d, c)
        PROVE  PeersInv'
    BY <1>2, DialKeepsInv
  <1>3. ASSUME NEW c \in Conns, NEW s \in Streams, ReaderStep(c, s)
        PROVE  PeersInv'
    BY <1>3, TakeAnswerKeepsInv, BindKeepsInv, ReportKeepsInv, ClosersKeepInv DEF ReaderStep
  <1>4. ASSUME NEW c \in Conns, Accept(c) \/ WriterFails(c) \/ CloserStep(c)
        PROVE  PeersInv'
    BY <1>4, AcceptKeepsInv, ClosersKeepInv, RemoveKeepsInv, ReportClosedKeepsInv,
       ForgetKeepsInv DEF CloserStep
  <1> QED
    BY <1>1, <1>2, <1>3, <1>4, StutterKeepsInv DEF Next, Failure

\* The inductive invariant of the host's peers.
THEOREM PeersInvariant == Spec => []PeersInv
  BY InitPeersInv, NextKeepsInv, PTL DEF Spec

\* The types of the map, the connections and the devices.
THEOREM PeersTypeCorrect == Spec => []TypeOK
  BY PeersInvariant, PTL DEF PeersInv

\* handle_frame and close_peer: a device that is shown as connected has a
\* connection whose end will still be reported, unless a frame came too late.
THEOREM PeersReportedHasConnection == Spec => []ReportedHasConnection
  BY PeersInvariant, PeersInvReported, PTL

\* close_peer: only the connection that holds a name takes it out of the map.
THEOREM PeersCloseKeepsRebound == Spec => CloseKeepsRebound
  <1>1. ASSUME TypeOK, [Next]_vars, NEW n \in Names,
               peers[n] # NoConn, peers'[n] = NoConn
        PROVE  phase[peers[n]] = "closing" /\ phase'[peers[n]] = "removed"
    <2>1. ASSUME NEW c \in Conns, RemoveAliases(c)
          PROVE  phase[peers[n]] = "closing" /\ phase'[peers[n]] = "removed"
      <3>1. peers[n] = c
        BY <1>1, <2>1 DEF RemoveAliases, NamesOf
      <3> QED
        BY <1>1, <2>1, <3>1 DEF RemoveAliases, TypeOK
    <2>2. ASSUME NEW c \in Conns, Accept(c)
          PROVE  FALSE
      BY <1>1, <2>2, PeersAssumption DEF Accept, TypeOK
    <2>3. ASSUME NEW c \in Conns, NEW s \in Streams, Bind(c, s)
          PROVE  FALSE
      BY <1>1, <2>3, PeersAssumption DEF Bind, TypeOK
    <2>4. peers' # peers
      BY <1>1
    <2> QED
      BY <1>1, <2>1, <2>2, <2>3, <2>4 DEF Next, Failure, Leave, GiveUp, DropsConnection, Send, Dial,
         CloserStep, ReaderStep, Take, Report, Answer, ReaderEnds, LoopEnds, WriterFails,
         ReportClosed, Forget, hostVars, deviceVars, vars
  <1>2. TypeOK /\ [Next]_vars =>
            [\A n \in Names :
                 peers[n] # NoConn /\ peers'[n] = NoConn =>
                     phase[peers[n]] = "closing" /\ phase'[peers[n]] = "removed"]_vars
    BY <1>1
  <1> QED
    BY <1>2, PeersTypeCorrect, PTL DEF Spec, CloseKeepsRebound

-----------------------------------------------------------------------------
\* The transport they are made on (HostTransport).

\* A transport to be shut down is held by a task that has yet to do so, and
\* by no other.
OldOnce ==
    \A g \in Generations : old[g] # None =>
        /\ step[g] \in {"shutdown", "closing"}
        /\ step[old[g]] \in {"tell", "pair", "end"}
        /\ old[g] # slot
        /\ \A h \in Generations : old[h] = old[g] => h = g

\* The transport in use was stored by a task that told of it, or is about to.
SlotStored == slot # None => slot \in live /\ step[slot] \in {"tell", "pair", "end"}

\* A transport runs for as long as somebody has it, and no longer.
LiveHeld ==
    /\ \A g \in Generations : step[g] \in {"compare", "store"} => g \in live
    /\ \A g \in live :
          \/ g = slot \/ step[g] \in {"compare", "store"}
          \/ \E h \in Generations : old[h] = g

\* As long as nothing went astray, what the task of the newest generation has
\* come to, what the slot holds and what is shown agree.
Undisturbed ==
    /\ slot \in {None, generation}
    /\ generation > 0 =>
          /\ step[generation] \in {"shutdown", "look", "enter"} => slot = None
          /\ step[generation] \in {"connect", "compare", "store"} =>
                shown = [enabled |-> TRUE, status |-> "connecting"]
          /\ step[generation] = "tell" => slot = generation
          /\ shown.status = "connecting" => Working(generation)
    /\ slot # None =>
          /\ step[slot] = "tell" => shown.status \in {"connecting", "connected"}
          /\ step[slot] # "tell" => shown.status = "connected"
          /\ asked = "start" => shown.enabled
    /\ shown.status = "connected" => slot # None

\* A host that was switched off either is about to be stopped, or has nothing.
SwitchedOff ==
    ~enabled /\ asked # "stop" =>
        /\ slot = None
        /\ generation > 0 =>
              step[generation] \notin {"announce", "connect", "compare", "store", "tell"}

TransportInv ==
    /\ TransportTypeOK /\ OldOnce /\ SlotStored /\ LiveHeld
    /\ asked = "stop" => ~enabled
    /\ asked = "start" /\ ~enabled => generation = 0
    /\ ~astray => Undisturbed /\ SwitchedOff

\* A task that leaves nothing astray was not overtaken.
LEMMA NotOvertaken ==
  ASSUME NEW g, Overtaken(g), ~astray'
  PROVE  ~astray /\ g = generation
  BY Zenon DEF Overtaken, Current

LEMMA OvertakenType ==
  ASSUME NEW g, Overtaken(g)
  PROVE  astray' \in BOOLEAN
  BY Zenon DEF Overtaken, Current

\* What the host comes to show.
LEMMA ShowType ==
  ASSUME HostType, NEW status \in {"connecting", "connected", "failed", "stopped"}
  PROVE  /\ Show(status) \in Shows
         /\ Show(status).enabled = enabled /\ Show(status).status = status
  BY DEF Show, Shows, HostType

USE TransportAssumption DEF Generations, None, At, Current, IsStart, Unlock, userVars, slotVars, taskVars, pairVars

LEMMA InitTransportInv == TransportInit => TransportInv
  <1> SUFFICES ASSUME TransportInit PROVE TransportInv
    OBVIOUS
  <1>1. shown \in Shows /\ (shown.status = "connecting" \/ shown.status = "stopped")
    BY DEF TransportInit, Summary, Show, Shows
  <1>2. HostType
    <2>1. /\ enabled \in BOOLEAN /\ astray \in BOOLEAN
          /\ publishing \in BOOLEAN /\ paired \in BOOLEAN /\ copied \in {NoCopy}
      BY DEF TransportInit
    <2> QED
      BY <1>1, <2>1 DEF TransportInit, HostType
  <1>3. step \in [Generations -> AtWork \cup {"none", "closing", "pair", "end"}]
    BY DEF TransportInit
  <1>4. old \in [Generations -> 0..MaxGeneration]
    BY DEF TransportInit
  <1>5. TaskType
    BY <1>3, <1>4 DEF TransportInit, TaskType
  <1> QED
    BY <1>1, <1>2, <1>5 DEF TransportInit, TransportInv, TransportTypeOK, OldOnce, SlotStored, LiveHeld, Undisturbed, SwitchedOff

----------------------------------------------------------------------------
LEMMA ShutDownOldKeepsInv ==
  ASSUME TransportInv, NEW g \in Generations, ShutDownOld(g)
  PROVE  TransportInv'
  <1> USE DEF TransportInv, TransportTypeOK
  <1>1. PICK next \in {"look", "end"} :
          step[g] \in {"shutdown", "closing"} /\ step' = [step EXCEPT ![g] = next]
    BY DEF ShutDownOld
  <1>2. /\ live' = live \ {old[g]} /\ old' = [old EXCEPT ![g] = None]
        /\ UNCHANGED <<userVars, generation, slot, shown, lock, copied, pairVars, astray>>
    BY DEF ShutDownOld
  <1>3. HostType'
    BY <1>2 DEF HostType
  <1>4. /\ step'[g] = next /\ \A h \in Generations : h # g => step'[h] = step[h]
        /\ old'[g] = None /\ \A h \in Generations : h # g => old'[h] = old[h]
    BY <1>1, <1>2 DEF TaskType
  <1>5. TaskType'
    BY <1>1, <1>2, <1>4 DEF TaskType, HostType, AtWork
  <1>6. OldOnce' /\ SlotStored'
    BY <1>1, <1>2, <1>4 DEF HostType, TaskType, OldOnce, SlotStored
  <1>7. LiveHeld'
    <2>1. ASSUME NEW h \in Generations, step'[h] \in {"compare", "store"}
          PROVE  h \in live'
      <3>1. h # g /\ step[h] \in {"compare", "store"}
        BY <1>1, <1>4, <2>1
      <3>2. h # old[g]
        BY <3>1 DEF OldOnce
      <3> QED
        BY <1>2, <3>1, <3>2 DEF LiveHeld
    <2>2. ASSUME NEW x \in live', x # slot'
          PROVE  step'[x] \in {"compare", "store"} \/ \E h \in Generations : old'[h] = x
      BY <1>1, <1>2, <1>4, <2>2 DEF HostType, LiveHeld
    <2> QED
      BY <2>1, <2>2 DEF LiveHeld
  <1>8. ~astray' => Undisturbed' /\ SwitchedOff'
    BY <1>1, <1>2, <1>4 DEF ShutDownOld, HostType, SlotStored, Undisturbed, SwitchedOff, Working, AtWork
  <1> QED
    BY <1>2, <1>3, <1>5, <1>6, <1>7, <1>8

LEMMA LookKeepsInv ==
  ASSUME TransportInv, NEW g \in Generations, Look(g)
  PROVE  TransportInv'
  <1> USE DEF Look, TransportInv, TransportTypeOK
  <1>1. HostType'
    BY DEF HostType
  <1>2. TaskType'
    BY DEF HostType, TaskType, AtWork
  <1>3. OldOnce' /\ SlotStored' /\ LiveHeld'
    BY DEF HostType, TaskType, OldOnce, SlotStored, LiveHeld
  <1>4. ~astray' => Undisturbed' /\ SwitchedOff'
    BY DEF HostType, TaskType, SlotStored, Undisturbed, SwitchedOff, Working, AtWork
  <1> QED
    BY <1>1, <1>2, <1>3, <1>4

LEMMA EnterKeepsInv ==
  ASSUME TransportInv, NEW g \in Generations, Enter(g)
  PROVE  TransportInv'
  <1> USE DEF Enter, TransportInv, TransportTypeOK
  <1>1. HostType'
    BY DEF HostType
  <1>2. TaskType'
    BY DEF HostType, TaskType, AtWork
  <1>3. OldOnce' /\ SlotStored' /\ LiveHeld'
    BY DEF HostType, TaskType, OldOnce, SlotStored, LiveHeld
  <1>4. ~astray' => Undisturbed' /\ SwitchedOff'
    BY DEF HostType, TaskType, SlotStored, Undisturbed, SwitchedOff, Working, AtWork
  <1> QED
    BY <1>1, <1>2, <1>3, <1>4

LEMMA CheckKeepsInv ==
  ASSUME TransportInv, NEW g \in Generations, Check(g)
  PROVE  TransportInv'
  <1> USE DEF Check, TransportInv, TransportTypeOK
  <1>1. HostType'
    BY DEF HostType
  <1>2. TaskType'
    BY DEF HostType, TaskType, AtWork
  <1>3. OldOnce' /\ SlotStored' /\ LiveHeld'
    BY DEF HostType, TaskType, OldOnce, SlotStored, LiveHeld
  <1>4. ~astray' => Undisturbed' /\ SwitchedOff'
    BY DEF HostType, TaskType, SlotStored, Undisturbed, SwitchedOff, Working, AtWork
  <1> QED
    BY <1>1, <1>2, <1>3, <1>4

LEMMA AnnounceKeepsInv ==
  ASSUME TransportInv, NEW g \in Generations, Announce(g)
  PROVE  TransportInv'
  <1> USE DEF Announce, TransportInv, TransportTypeOK
  <1>1. HostType'
    BY OvertakenType DEF HostType, Shows
  <1>2. TaskType'
    BY DEF HostType, TaskType, AtWork
  <1>3. OldOnce' /\ SlotStored' /\ LiveHeld'
    BY DEF HostType, TaskType, OldOnce, SlotStored, LiveHeld
  <1>4. ASSUME ~astray'
        PROVE  Undisturbed' /\ SwitchedOff'
    BY <1>4, NotOvertaken DEF HostType, TaskType, SlotStored, Undisturbed, SwitchedOff, Working, AtWork
  <1> QED
    BY <1>1, <1>2, <1>3, <1>4

LEMMA ConnectKeepsInv ==
  ASSUME TransportInv, NEW g \in Generations, Connect(g)
  PROVE  TransportInv'
  <1> USE DEF Connect, TransportInv, TransportTypeOK
  <1>1. HostType'
    BY DEF HostType
  <1>2. TaskType'
    BY DEF HostType, TaskType, AtWork
  <1>3. OldOnce' /\ SlotStored' /\ LiveHeld'
    BY DEF HostType, TaskType, OldOnce, SlotStored, LiveHeld
  <1>4. ~astray' => Undisturbed' /\ SwitchedOff'
    BY DEF HostType, TaskType, SlotStored, Undisturbed, SwitchedOff, Working, AtWork
  <1> QED
    BY <1>1, <1>2, <1>3, <1>4

LEMMA ConnectOvertakenKeepsInv ==
  ASSUME TransportInv, NEW g \in Generations, ConnectOvertaken(g)
  PROVE  TransportInv'
  <1> USE DEF ConnectOvertaken, Returned, TransportInv, TransportTypeOK
  <1>1. HostType'
    BY DEF HostType
  <1>2. TaskType'
    BY DEF HostType, TaskType, AtWork
  <1>3. OldOnce' /\ SlotStored' /\ LiveHeld'
    BY DEF HostType, TaskType, OldOnce, SlotStored, LiveHeld
  <1>4. ~astray' => Undisturbed' /\ SwitchedOff'
    BY DEF HostType, TaskType, SlotStored, Undisturbed, SwitchedOff, Working, AtWork
  <1> QED
    BY <1>1, <1>2, <1>3, <1>4

LEMMA ConnectFailsKeepsInv ==
  ASSUME TransportInv, NEW g \in Generations, ConnectFails(g)
  PROVE  TransportInv'
  <1> USE DEF ConnectFails, TransportInv, TransportTypeOK
  <1>1. HostType'
    BY DEF HostType
  <1>2. TaskType'
    BY DEF HostType, TaskType, AtWork
  <1>3. OldOnce' /\ SlotStored' /\ LiveHeld'
    BY DEF HostType, TaskType, OldOnce, SlotStored, LiveHeld
  <1>4. ASSUME ~astray'
        PROVE  Undisturbed' /\ SwitchedOff'
    <2>1. ~astray /\ (g = generation => lock = g)
      BY <1>4, Zenon
    <2> QED
      BY <2>1 DEF HostType, TaskType, SlotStored, Undisturbed, SwitchedOff, Working, AtWork
  <1> QED
    BY <1>1, <1>2, <1>3, <1>4

LEMMA CompareKeepsInv ==
  ASSUME TransportInv, NEW g \in Generations, Compare(g)
  PROVE  TransportInv'
  <1> USE DEF Compare, TransportInv, TransportTypeOK
  <1>1. HostType'
    BY DEF HostType
  <1>2. TaskType'
    BY DEF HostType, TaskType, AtWork
  <1>3. OldOnce' /\ SlotStored' /\ LiveHeld'
    BY DEF HostType, TaskType, OldOnce, SlotStored, LiveHeld
  <1>4. ~astray' => Undisturbed' /\ SwitchedOff'
    BY DEF HostType, TaskType, SlotStored, Undisturbed, SwitchedOff, Working, AtWork
  <1> QED
    BY <1>1, <1>2, <1>3, <1>4

LEMMA CompareOvertakenKeepsInv ==
  ASSUME TransportInv, NEW g \in Generations, CompareOvertaken(g)
  PROVE  TransportInv'
  <1> USE DEF CompareOvertaken, Returned, TransportInv, TransportTypeOK
  <1>1. HostType'
    BY DEF HostType
  <1>2. TaskType'
    BY DEF HostType, TaskType, AtWork
  <1>3. OldOnce' /\ SlotStored' /\ LiveHeld'
    BY DEF HostType, TaskType, OldOnce, SlotStored, LiveHeld
  <1>4. ~astray' => Undisturbed' /\ SwitchedOff'
    BY DEF HostType, TaskType, SlotStored, Undisturbed, SwitchedOff, Working, AtWork
  <1> QED
    BY <1>1, <1>2, <1>3, <1>4

LEMMA StoreKeepsInv ==
  ASSUME TransportInv, NEW g \in Generations, Store(g)
  PROVE  TransportInv'
  <1> USE DEF Store, TransportInv, TransportTypeOK
  <1>1. HostType'
    BY OvertakenType DEF HostType
  <1>2. TaskType'
    BY DEF HostType, TaskType, AtWork
  <1>3. OldOnce' /\ SlotStored' /\ LiveHeld'
    BY DEF HostType, TaskType, OldOnce, SlotStored, LiveHeld
  <1>4. ASSUME ~astray'
        PROVE  Undisturbed' /\ SwitchedOff'
    BY <1>4, NotOvertaken DEF HostType, TaskType, SlotStored, Undisturbed, SwitchedOff, Working, AtWork
  <1> QED
    BY <1>1, <1>2, <1>3, <1>4

LEMMA TellKeepsInv ==
  ASSUME TransportInv, NEW g \in Generations, Tell(g)
  PROVE  TransportInv'
  <1> USE DEF Tell, Returned, TransportInv, TransportTypeOK
  <1>1. HostType'
    BY OvertakenType, ShowType DEF HostType
  <1>2. TaskType'
    BY DEF HostType, TaskType, AtWork
  <1>3. OldOnce' /\ SlotStored' /\ LiveHeld'
    BY DEF HostType, TaskType, OldOnce, SlotStored, LiveHeld
  <1>4. ASSUME ~astray'
        PROVE  Undisturbed' /\ SwitchedOff'
    BY <1>4, NotOvertaken, ShowType DEF HostType, TaskType, SlotStored, Undisturbed, SwitchedOff, Working, AtWork
  <1> QED
    BY <1>1, <1>2, <1>3, <1>4

LEMMA BlameKeepsInv ==
  ASSUME TransportInv, NEW g \in Generations, Blame(g)
  PROVE  TransportInv'
  <1> USE DEF Blame, TransportInv, TransportTypeOK
  <1>1. HostType'
    BY DEF HostType
  <1>2. TaskType'
    BY DEF HostType, TaskType, AtWork
  <1>3. OldOnce' /\ SlotStored' /\ LiveHeld'
    BY DEF HostType, TaskType, OldOnce, SlotStored, LiveHeld
  <1>4. ~astray' => Undisturbed' /\ SwitchedOff'
    BY DEF HostType, TaskType, SlotStored, Undisturbed, SwitchedOff, Working, AtWork
  <1> QED
    BY <1>1, <1>2, <1>3, <1>4

LEMMA FailKeepsInv ==
  ASSUME TransportInv, NEW g \in Generations, Fail(g)
  PROVE  TransportInv'
  <1> USE DEF Fail, TransportInv, TransportTypeOK
  <1>1. HostType'
    BY OvertakenType, ShowType DEF HostType
  <1>2. TaskType'
    BY DEF HostType, TaskType, AtWork
  <1>3. OldOnce' /\ SlotStored' /\ LiveHeld'
    BY DEF HostType, TaskType, OldOnce, SlotStored, LiveHeld
  <1>4. ASSUME ~astray'
        PROVE  Undisturbed' /\ SwitchedOff'
    BY <1>4, NotOvertaken, ShowType DEF HostType, TaskType, SlotStored, Undisturbed, SwitchedOff, Working, AtWork
  <1> QED
    BY <1>1, <1>2, <1>3, <1>4

LEMMA SetEnabledKeepsInv ==
  ASSUME TransportInv, SetEnabled
  PROVE  TransportInv'
  <1> USE DEF SetEnabled, TransportInv, TransportTypeOK
  <1>1. HostType'
    BY DEF HostType
  <1>2. TaskType'
    BY DEF HostType, TaskType, AtWork
  <1>3. OldOnce' /\ SlotStored' /\ LiveHeld'
    BY DEF HostType, TaskType, OldOnce, SlotStored, LiveHeld
  <1>4. ~astray' => Undisturbed' /\ SwitchedOff'
    BY DEF HostType, TaskType, SlotStored, Undisturbed, SwitchedOff, Working, AtWork
  <1> QED
    BY <1>1, <1>2, <1>3, <1>4

LEMMA StopKeepsInv ==
  ASSUME TransportInv, Stop
  PROVE  TransportInv'
  <1> USE DEF Stop, NextGeneration, TakeTransport, TransportInv, TransportTypeOK
  <1>1. HostType'
    <2>1. shown' \in Shows /\ astray' \in {FALSE}
      BY ShowType DEF HostType
    <2> QED
      BY <2>1 DEF HostType
  <1>2. TaskType'
    BY DEF HostType, TaskType, AtWork
  <1>3. OldOnce' /\ SlotStored' /\ LiveHeld'
    BY DEF HostType, TaskType, OldOnce, SlotStored, LiveHeld
  <1>4. ~astray' => Undisturbed' /\ SwitchedOff'
    BY ShowType DEF HostType, TaskType, SlotStored, Undisturbed, SwitchedOff, Working, AtWork
  <1> QED
    BY <1>1, <1>2, <1>3, <1>4

LEMMA StartKeepsInv ==
  ASSUME TransportInv, Start
  PROVE  TransportInv'
  <1> USE DEF Start, NextGeneration, Summary, Underway, TransportInv, TransportTypeOK
  <1>1. HostType'
    <2>1. shown' \in Shows
      <3>1. shown' = Show("connecting")
        OBVIOUS
      <3> QED
        BY <3>1, ShowType
    <2> QED
      BY <2>1 DEF HostType
  <1>2. TaskType'
    BY DEF HostType, TaskType, AtWork
  <1>3. OldOnce' /\ SlotStored' /\ LiveHeld'
    BY DEF HostType, TaskType, OldOnce, SlotStored, LiveHeld
  <1>4. shown'.status = "connecting"
    BY ShowType DEF HostType
  <1>5. ~astray => slot = None
    BY DEF HostType, TaskType, SlotStored, Undisturbed
  <1>6. ~astray' => Undisturbed' /\ SwitchedOff'
    BY <1>4, <1>5 DEF HostType, TaskType, SlotStored, Undisturbed, SwitchedOff, Working, AtWork
  <1> QED
    BY <1>1, <1>2, <1>3, <1>6

LEMMA StartFindsUnderwayKeepsInv ==
  ASSUME TransportInv, StartFindsUnderway
  PROVE  TransportInv'
  <1> USE DEF StartFindsUnderway, Underway, TransportInv, TransportTypeOK
  <1>1. HostType'
    BY DEF HostType
  <1>2. TaskType'
    BY DEF HostType, TaskType, AtWork
  <1>3. OldOnce' /\ SlotStored' /\ LiveHeld'
    BY DEF HostType, TaskType, OldOnce, SlotStored, LiveHeld
  <1>4. ~astray' => Undisturbed' /\ SwitchedOff'
    BY DEF HostType, TaskType, SlotStored, Undisturbed, SwitchedOff, Working, AtWork
  <1> QED
    BY <1>1, <1>2, <1>3, <1>4

LEMMA ReconnectKeepsInv ==
  ASSUME TransportInv, Reconnect
  PROVE  TransportInv'
  <1> USE DEF Reconnect, NextGeneration, TakeTransport, TransportInv, TransportTypeOK
  <1>1. HostType'
    <2>1. shown' \in Shows /\ astray' \in {FALSE}
      BY ShowType DEF HostType
    <2> QED
      BY <2>1 DEF HostType
  <1>2. TaskType'
    BY DEF HostType, TaskType, AtWork
  <1>3. OldOnce' /\ SlotStored' /\ LiveHeld'
    BY DEF HostType, TaskType, OldOnce, SlotStored, LiveHeld
  <1>4. ~astray' => Undisturbed' /\ SwitchedOff'
    BY ShowType DEF HostType, TaskType, SlotStored, Undisturbed, SwitchedOff, Working, AtWork
  <1> QED
    BY <1>1, <1>2, <1>3, <1>4

LEMMA PairKeepsInv ==
  ASSUME TransportInv, Pair
  PROVE  TransportInv'
  <1> USE DEF Pair, NextGeneration, TakeTransport, TransportInv, TransportTypeOK
  <1>1. HostType'
    <2>1. shown' \in Shows /\ astray' \in {FALSE}
      BY ShowType DEF HostType
    <2> QED
      BY <2>1 DEF HostType
  <1>2. TaskType'
    BY DEF HostType, TaskType, AtWork
  <1>3. OldOnce' /\ SlotStored' /\ LiveHeld'
    BY DEF HostType, TaskType, OldOnce, SlotStored, LiveHeld
  <1>4. shown' = [enabled |-> TRUE, status |-> "connecting"]
    BY DEF Show, HostType
  <1>5. Undisturbed' /\ SwitchedOff'
    BY <1>4 DEF HostType, TaskType, SlotStored, Undisturbed, SwitchedOff, Working, AtWork
  <1> QED
    BY <1>1, <1>2, <1>3, <1>5

\* What the end of a pairing leaves: "connected", with a transport unless
\* that went astray.
LEMMA ShownConnected ==
  ASSUME HostType, ShowConnected
  PROVE  /\ shown' \in Shows /\ astray' \in BOOLEAN
         /\ shown'.enabled = enabled /\ shown'.status = "connected"
         /\ ~astray' => ~astray /\ slot # None
  <1>1. shown' = Show("connected")
    BY DEF ShowConnected
  <1>2. astray' \in BOOLEAN /\ (~astray' => ~astray /\ slot # None)
    BY Zenon DEF ShowConnected
  <1> QED
    BY <1>1, <1>2, ShowType

LEMMA PublishKeepsInv ==
  ASSUME TransportInv, NEW g \in Generations, Publish(g)
  PROVE  TransportInv'
  <1> USE DEF Publish, TransportInv, TransportTypeOK
  <1>1. HostType'
    <2>1. paired' \in {TRUE}
      OBVIOUS
    <2> QED
      BY <2>1, ShownConnected DEF HostType
  <1>2. TaskType'
    BY DEF HostType, TaskType, AtWork
  <1>3. OldOnce' /\ SlotStored' /\ LiveHeld'
    BY DEF HostType, TaskType, OldOnce, SlotStored, LiveHeld
  <1>4. ASSUME ~astray'
        PROVE  Undisturbed' /\ SwitchedOff'
    BY <1>4, ShownConnected DEF HostType, TaskType, SlotStored, Undisturbed, SwitchedOff, Working, AtWork
  <1> QED
    BY <1>1, <1>2, <1>3, <1>4

LEMMA PairFailsKeepsInv ==
  ASSUME TransportInv, NEW g \in Generations, PairFails(g)
  PROVE  TransportInv'
  <1> USE DEF PairFails, TransportInv, TransportTypeOK
  <1>1. HostType'
    BY DEF HostType
  <1>2. TaskType'
    BY DEF HostType, TaskType, AtWork
  <1>3. OldOnce' /\ SlotStored' /\ LiveHeld'
    BY DEF HostType, TaskType, OldOnce, SlotStored, LiveHeld
  <1>4. ~astray' => Undisturbed' /\ SwitchedOff'
    BY DEF HostType, TaskType, SlotStored, Undisturbed, SwitchedOff, Working, AtWork
  <1> QED
    BY <1>1, <1>2, <1>3, <1>4

LEMMA PairReusesKeepsInv ==
  ASSUME TransportInv, PairReuses
  PROVE  TransportInv'
  <1> USE DEF PairReuses, TransportInv, TransportTypeOK
  <1>1. HostType'
    <2>1. publishing' \in {TRUE}
      OBVIOUS
    <2> QED
      BY <2>1 DEF HostType
  <1>2. TaskType'
    BY DEF HostType, TaskType, AtWork
  <1>3. OldOnce' /\ SlotStored' /\ LiveHeld'
    BY DEF HostType, TaskType, OldOnce, SlotStored, LiveHeld
  <1>4. ~astray' => Undisturbed' /\ SwitchedOff'
    BY DEF HostType, TaskType, SlotStored, Undisturbed, SwitchedOff, Working, AtWork
  <1> QED
    BY <1>1, <1>2, <1>3, <1>4

LEMMA PublishReusedKeepsInv ==
  ASSUME TransportInv, PublishReused
  PROVE  TransportInv'
  <1> USE DEF PublishReused, TransportInv, TransportTypeOK
  <1>1. HostType'
    <2>1. publishing' \in {FALSE}
      OBVIOUS
    <2>2. CASE ShowConnected /\ paired' \in {TRUE}
      BY <2>1, <2>2, ShownConnected DEF HostType
    <2>3. CASE UNCHANGED <<shown, paired, astray>>
      BY <2>1, <2>3 DEF HostType
    <2> QED
      BY <2>2, <2>3
  <1>2. TaskType'
    BY DEF HostType, TaskType, AtWork
  <1>3. OldOnce' /\ SlotStored' /\ LiveHeld'
    BY DEF HostType, TaskType, OldOnce, SlotStored, LiveHeld
  <1>4. ASSUME ~astray'
        PROVE  Undisturbed' /\ SwitchedOff'
    BY <1>4, ShownConnected DEF HostType, TaskType, SlotStored, Undisturbed, SwitchedOff, Working, AtWork
  <1> QED
    BY <1>1, <1>2, <1>3, <1>4

LEMMA EndPairingKeepsInv ==
  ASSUME TransportInv, EndPairing
  PROVE  TransportInv'
  <1> USE DEF EndPairing, TransportInv, TransportTypeOK
  <1>1. HostType'
    BY ShownConnected DEF HostType
  <1>2. TaskType'
    BY DEF HostType, TaskType, AtWork
  <1>3. OldOnce' /\ SlotStored' /\ LiveHeld'
    BY DEF HostType, TaskType, OldOnce, SlotStored, LiveHeld
  <1>4. ASSUME ~astray'
        PROVE  Undisturbed' /\ SwitchedOff'
    BY <1>4, ShownConnected DEF HostType, TaskType, SlotStored, Undisturbed, SwitchedOff, Working, AtWork
  <1> QED
    BY <1>1, <1>2, <1>3, <1>4

LEMMA CopySnapshotKeepsInv ==
  ASSUME TransportInv, CopySnapshot
  PROVE  TransportInv'
  <1> USE DEF CopySnapshot, Preserving, Summary, TransportInv, TransportTypeOK
  <1>1. HostType'
    <2>1. shown \in Shows /\ Preserving \in Shows
      BY ShowType DEF HostType
    <2> QED
      BY <2>1 DEF HostType
  <1>2. TaskType'
    BY DEF HostType, TaskType, AtWork
  <1>3. OldOnce' /\ SlotStored' /\ LiveHeld'
    BY DEF HostType, TaskType, OldOnce, SlotStored, LiveHeld
  <1>4. ~astray' => Undisturbed' /\ SwitchedOff'
    BY DEF HostType, TaskType, SlotStored, Undisturbed, SwitchedOff, Working, AtWork
  <1> QED
    BY <1>1, <1>2, <1>3, <1>4

LEMMA WriteBackKeepsInv ==
  ASSUME TransportInv, WriteBack
  PROVE  TransportInv'
  <1> USE DEF WriteBack, TransportInv, TransportTypeOK
  <1>1. HostType'
    <2>1. astray' \in BOOLEAN
      BY Zenon
    <2>2. copied \in Shows /\ shown' \in Shows /\ copied' \in {NoCopy}
      BY DEF HostType
    <2> QED
      BY <2>1, <2>2 DEF HostType
  <1>2. TaskType'
    BY DEF HostType, TaskType, AtWork
  <1>3. OldOnce' /\ SlotStored' /\ LiveHeld'
    BY DEF HostType, TaskType, OldOnce, SlotStored, LiveHeld
  <1>4. ASSUME ~astray'
        PROVE  Undisturbed' /\ SwitchedOff'
    <2>1. ~astray /\ shown' = shown
      BY <1>4, Zenon
    <2> QED
      BY <2>1 DEF HostType, TaskType, SlotStored, Undisturbed, SwitchedOff, Working, AtWork
  <1> QED
    BY <1>1, <1>2, <1>3, <1>4

----------------------------------------------------------------------------
LEMMA NextKeepsTransportInv ==
  ASSUME TransportInv, [TransportNext]_transportVars
  PROVE  TransportInv'
  <1>1. CASE UNCHANGED transportVars
    BY <1>1 DEF transportVars, TransportInv, TransportTypeOK, HostType, TaskType, OldOnce, SlotStored, LiveHeld,
       Undisturbed, SwitchedOff, Working
  <1>2. CASE SetEnabled \/ Follow \/ Reconnect \/ Pair
    BY <1>2, SetEnabledKeepsInv, StopKeepsInv, StartKeepsInv, StartFindsUnderwayKeepsInv,
       ReconnectKeepsInv, PairKeepsInv DEF Follow
  <1>3. CASE \E g \in Generations : TaskStep(g)
    <2>1. PICK g \in Generations : TaskStep(g)
      BY <1>3
    <2> QED
      BY <2>1, ShutDownOldKeepsInv, LookKeepsInv, EnterKeepsInv, CheckKeepsInv, AnnounceKeepsInv,
         ConnectKeepsInv, ConnectOvertakenKeepsInv, ConnectFailsKeepsInv, CompareKeepsInv,
         CompareOvertakenKeepsInv, StoreKeepsInv, TellKeepsInv, BlameKeepsInv, FailKeepsInv,
         PublishKeepsInv, PairFailsKeepsInv DEF TaskStep
  <1>4. CASE PairReuses \/ PublishReused \/ EndPairing \/ CopySnapshot \/ WriteBack
    BY <1>4, PairReusesKeepsInv, PublishReusedKeepsInv, EndPairingKeepsInv, CopySnapshotKeepsInv,
       WriteBackKeepsInv
  <1> QED
    BY <1>1, <1>2, <1>3, <1>4 DEF TransportNext

LEMMA TransportInvariant == TransportSpec => []TransportInv
  BY InitTransportInv, NextKeepsTransportInv, PTL DEF TransportSpec

\* The state is well formed, however many generations there are.
THEOREM TransportTypeCorrect == TransportSpec => []TransportTypeOK
  <1>1. TransportInv => TransportTypeOK
    BY DEF TransportInv
  <1> QED
    BY <1>1, TransportInvariant, PTL

\* The transport that send finds in the slot is running, and no task is about
\* to shut it down.
THEOREM SlotStaysAlive == TransportSpec => []SlotAlive
  <1>1. TransportInv => SlotAlive
    BY DEF TransportInv, SlotStored, OldOnce, SlotAlive
  <1> QED
    BY <1>1, TransportInvariant, PTL

\* A host that shows "connecting" has a task at work on it.
THEOREM ConnectingIsWorkedOn == TransportSpec => []ConnectingHasTask
  <1>1. TransportInv => ConnectingHasTask
    BY DEF TransportInv, Undisturbed, ConnectingHasTask
  <1> QED
    BY <1>1, TransportInvariant, PTL

\* A host at rest shows what it has, and nothing else is left running.
THEOREM RestIsTrue == TransportSpec => []QuietHostIsTrue
  <1>1. TransportInv => QuietHostIsTrue
    <2> SUFFICES ASSUME TransportInv, Idle, ~astray PROVE QuietHostIsTrue
      BY DEF QuietHostIsTrue
    <2> USE DEF TransportInv, TransportTypeOK
    <2>1. \A g \in Generations : step[g] \in {"none", "end"} /\ old[g] = None
      BY DEF Idle, Working, AtWork, TaskType, OldOnce
    <2>2. live \subseteq {slot}
      BY <2>1 DEF HostType, LiveHeld
    <2>3. shown.status = "connected" <=> slot # None
      BY <2>1 DEF HostType, SlotStored, Undisturbed
    <2>4. slot \in {None, generation} /\ (enabled \/ slot = None)
      BY DEF Undisturbed, SwitchedOff, Idle
    <2> QED
      BY <2>2, <2>3, <2>4 DEF QuietHostIsTrue
  <1> QED
    BY <1>1, TransportInvariant, PTL
=============================================================================
