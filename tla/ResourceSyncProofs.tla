------------------------- MODULE ResourceSyncProofs -------------------------
(***************************************************************************)
(* For any number of devices, tasks and changes, on connections that hold  *)
(* any number of messages, with queues of any capacity: once nothing is    *)
(* under way, every connected device that the host is sure to tell shows   *)
(* what the host has, for the resources whose number is taken before they  *)
(* are read.                                                               *)
(***************************************************************************)
EXTENDS ResourceSync, SequenceTheorems, TLAPS

Unstamped == \E t \in Tasks : task[t].step = "stamp" /\ task[t].change

\* What carries the newest number carries the newest content, unless a change
\* has yet to take its number.
Newest(number, payload) == number = version => payload = content \/ Unstamped

Carried ==
    /\ \A t \in Tasks : task[t].step = "send" => Newest(task[t].version, task[t].content)
    /\ \A d \in Devices : \A i \in 1..Len(link[d]) :
          Newest(link[d][i].version, link[d][i].content)

\* The devices that are told of changes.
Told == connected \ (wants \cup unsure)

\* They are subscribers, and no report is left that could end that; a connection
\* that has ended has the name of a device only as long as it has no other.
Subscribed ==
    /\ \A d \in Told : d \in subscribers /\ reports[d] = 0
    /\ connected \cap lost = {}

For(t, d) == task[t].change \/ task[t].source = d

\* The newest number is on its way to the device, or was the last it accepted.
Reached(d) ==
    \/ \E t \in Tasks : task[t].step = "stamp" /\ For(t, d)
    \/ \E t \in Tasks : task[t].step = "gather" /\ For(t, d) /\ task[t].version = version
    \/ \E t \in Tasks : /\ task[t].step \in {"read", "send"} /\ d \in task[t].to
                        /\ task[t].version = version
    \/ \E i \in 1..Len(link[d]) : link[d][i].version = version
    \/ seen[d] = version /\ shown[d] = content

SyncInv == TypeOK /\ Carried /\ Subscribed /\ \A d \in Told : Reached(d)

-----------------------------------------------------------------------------
USE SyncAssumption DEF Contents, hostVars, connectionVars, deviceVars, Told

\* Task t goes on as work says; the others stay where they are.
Turns(t, work) ==
    /\ task' \in [Tasks -> Works]
    /\ task'[t] = work
    /\ \A u \in Tasks : u # t => task'[u] = task[u]

LEMMA WorkOf ==
  ASSUME TaskType, NEW t \in Tasks
  PROVE  /\ task[t].step \in {"idle", "stamp", "gather", "read", "send"}
         /\ task[t].change \in BOOLEAN /\ task[t].source \in Devices \cup {Nobody}
         /\ task[t].to \subseteq Devices /\ task[t].content \in 0..MaxContent
         /\ task[t].version \in Nat /\ task[t].version <= version
  BY DEF TaskType, Works

LEMMA IdleType == Idle \in Works /\ Idle.step = "idle" /\ Idle.version = 0
  BY DEF Idle, Works

LEMMA Ended ==
  ASSUME TaskType, NEW t \in Tasks, Ends(t)
  PROVE  Turns(t, Idle)
  BY IdleType DEF TaskType, Ends, Turns

LEMMA WentOn ==
  ASSUME TaskType, NEW t \in Tasks, NEW step \in {"idle", "stamp", "gather", "read", "send"},
         NEW to \in SUBSET Devices, NEW number \in Nat, NEW payload \in Contents,
         GoesOn(t, step, to, number, payload)
  PROVE  \E work \in Works :
            /\ Turns(t, work)
            /\ work.step = step /\ work.to = to /\ work.version = number /\ work.content = payload
            /\ work.change = task[t].change /\ work.source = task[t].source
  <1> DEFINE work == [step |-> step, change |-> task[t].change, source |-> task[t].source,
                      to |-> to, version |-> number, content |-> payload]
  <1>1. work \in Works
    BY WorkOf DEF Works
  <1>2. Turns(t, work)
    BY <1>1 DEF GoesOn, TaskType, Turns
  <1> QED
    BY <1>1, <1>2

\* A task begins with a change, or with an answer.
LEMMA BeganChange ==
  ASSUME TaskType, StampFirst, NEW t \in Tasks, NEW source \in Devices \cup {Nobody},
         Begin(t, TRUE, source)
  PROVE  /\ task[t].step = "idle"
         /\ \E work \in Works :
               /\ Turns(t, work)
               /\ work.step = "stamp" /\ work.change = TRUE /\ work.source = source
               /\ work.version = 0
  <1> DEFINE work == [step |-> "stamp", change |-> TRUE, source |-> source,
                      to |-> {}, version |-> 0, content |-> 0]
  <1>1. work \in Works
    BY DEF Works
  <1>2. First = "stamp"
    BY DEF First
  <1>3. task[t] = Idle /\ task' = [task EXCEPT ![t] = work]
    BY <1>2, Zenon DEF Begin
  <1>4. Turns(t, work)
    BY <1>1, <1>3 DEF TaskType, Turns
  <1>5. work.step = "stamp" /\ work.change = TRUE /\ work.source = source /\ work.version = 0
    OBVIOUS
  <1> HIDE DEF work
  <1> QED
    BY <1>1, <1>3, <1>4, <1>5, IdleType

LEMMA BeganAnswer ==
  ASSUME TaskType, StampFirst, NEW t \in Tasks, NEW source \in Devices \cup {Nobody},
         Begin(t, FALSE, source)
  PROVE  /\ task[t].step = "idle"
         /\ \E work \in Works :
               /\ Turns(t, work)
               /\ work.step = "stamp" /\ work.change = FALSE /\ work.source = source
               /\ work.version = 0
  <1> DEFINE work == [step |-> "stamp", change |-> FALSE, source |-> source,
                      to |-> {}, version |-> 0, content |-> 0]
  <1>1. work \in Works
    BY DEF Works
  <1>2. First = "stamp"
    BY DEF First
  <1>3. task[t] = Idle /\ task' = [task EXCEPT ![t] = work]
    BY <1>2, Zenon DEF Begin
  <1>4. Turns(t, work)
    BY <1>1, <1>3 DEF TaskType, Turns
  <1>5. work.step = "stamp" /\ work.change = FALSE /\ work.source = source /\ work.version = 0
    OBVIOUS
  <1> HIDE DEF work
  <1> QED
    BY <1>1, <1>3, <1>4, <1>5, IdleType

LEMMA InitSyncInv == Init => SyncInv
  <1> SUFFICES ASSUME Init PROVE SyncInv
    OBVIOUS
  <1>1. HostType
    BY DEF Init, HostType
  <1>2. TaskType
    BY IdleType DEF Init, TaskType
  <1>3. DeviceType
    BY DEF Init, DeviceType
  <1>4. Carried /\ Subscribed
    BY IdleType DEF Init, Carried, Subscribed
  <1> QED
    BY <1>1, <1>2, <1>3, <1>4 DEF Init, SyncInv, TypeOK

-----------------------------------------------------------------------------
\* A change: the task that begins has yet to take its number.
LEMMA ChangeKeepsInv ==
  ASSUME SyncInv, StampFirst, NEW t \in Tasks, NEW source \in Devices \cup {Nobody}, Change(t, source)
  PROVE  SyncInv'
  <1> USE DEF SyncInv, TypeOK
  <1>1. PICK work \in Works :
          Turns(t, work) /\ work.step = "stamp" /\ work.change = TRUE /\ work.version = 0
    BY BeganChange DEF Change
  <1>2. UNCHANGED <<kind, version, subscribers, link, connectionVars, deviceVars>> /\ content' \in Contents
    BY DEF Change, HostType
  <1> USE <1>1, <1>2 DEF Turns
  <1>3. TypeOK'
    <2>1. HostType'
      BY DEF HostType
    <2>2. TaskType'
      BY DEF HostType, TaskType
    <2>3. DeviceType'
      BY DEF HostType, DeviceType
    <2> QED
      BY <2>1, <2>2, <2>3
  <1>4. Unstamped'
    BY DEF Unstamped
  <1>5. Carried' /\ Subscribed'
    BY <1>4 DEF Carried, Newest, Subscribed
  <1>6. \A d \in Devices : Reached(d)'
    BY DEF Reached, For
  <1> QED
    BY <1>3, <1>5, <1>6 DEF HostType

\* A task that begins with what is asked for touches nothing under way.
LEMMA AskedKeepsInv ==
  ASSUME SyncInv, NEW t \in Tasks, NEW work \in Works, task[t].step = "idle", Turns(t, work),
         work.step = "stamp", work.version = 0,
         UNCHANGED <<kind, content, version, link, connected, deviceVars>>,
         subscribers \subseteq subscribers', subscribers' \subseteq Devices,
         wants' \subseteq connected, UNCHANGED <<lost, reports>>, unsure' \subseteq Devices,
         \A d \in Told' : d \notin Told =>
            d \in subscribers' /\ reports[d] = 0 /\ work.source = d
  PROVE  SyncInv'
  <1> USE DEF SyncInv, TypeOK, Turns
  <1>1. TypeOK'
    <2>1. HostType'
      BY DEF HostType
    <2>2. TaskType'
      BY DEF HostType, TaskType
    <2>3. DeviceType'
      BY DEF HostType, DeviceType
    <2> QED
      BY <2>1, <2>2, <2>3
  <1>2. Unstamped => Unstamped'
    BY DEF Unstamped
  <1>3. Carried'
    BY <1>2 DEF Carried, Newest
  <1>4. Subscribed'
    BY DEF Subscribed
  <1>5. ASSUME NEW d \in Told'
        PROVE  Reached(d)'
    <2>1. CASE d \notin Told
      BY <1>5, <2>1 DEF Reached, For
    <2>2. CASE d \in Told
      BY <1>5, <2>2 DEF Reached, For
    <2> QED
      BY <2>1, <2>2
  <1> QED
    BY <1>1, <1>3, <1>4, <1>5

LEMMA AskKeepsInv ==
  ASSUME SyncInv, StampFirst, NEW t \in Tasks, NEW d \in Devices, Ask(t, d)
  PROVE  SyncInv'
  <1>1. task[t].step = "idle" /\ \E work \in Works : Turns(t, work) /\ work.step = "stamp" /\ work.version = 0
    BY BeganAnswer DEF Ask, SyncInv, TypeOK
  <1> QED
    BY <1>1, AskedKeepsInv DEF Ask, SyncInv, TypeOK, HostType

LEMMA SubscribeKeepsInv ==
  ASSUME SyncInv, StampFirst, NEW t \in Tasks, NEW d \in Devices, Subscribe(t, d)
  PROVE  SyncInv'
  <1>0. TaskType /\ d \in Devices \cup {Nobody} /\ Begin(t, FALSE, d)
    BY Zenon DEF Subscribe, SyncInv, TypeOK
  <1>1. /\ task[t].step = "idle"
        /\ \E work \in Works :
              /\ Turns(t, work)
              /\ work.step = "stamp" /\ work.source = d /\ work.version = 0
    <2>1. /\ task[t].step = "idle"
          /\ \E work \in Works :
                Turns(t, work) /\ work.step = "stamp" /\ work.version = 0
      BY <1>0, BeganAnswer
    <2>2. task' = [task EXCEPT ![t] = [step |-> "stamp", change |-> FALSE, source |-> d,
                                    to |-> {}, version |-> 0, content |-> 0]]
      BY <1>0 DEF Begin, First
    <2>3. task'[t].source = d
      BY <1>0, <2>2 DEF TaskType
    <2> QED
      BY <2>1, <2>3 DEF Turns
  <1>2. /\ subscribers' = subscribers \cup {d} /\ wants' = wants \ {d}
        /\ UNCHANGED <<kind, content, version, link, connected, lost, reports, deviceVars>>
        /\ unsure' \subseteq unsure \cup {d} /\ unsure \subseteq unsure' \cup {d}
        /\ d \notin unsure' => reports[d] = 0
    BY DEF Subscribe, SyncInv, TypeOK, HostType
  <1>3. \A e \in Told' : e \notin Told => e = d /\ reports[d] = 0
    BY <1>2
  <1> QED
    BY <1>1, <1>2, <1>3, AskedKeepsInv DEF SyncInv, TypeOK, HostType

-----------------------------------------------------------------------------
\* Whoever takes a number has to send to the devices it is for.
LEMMA StampKeepsInv ==
  ASSUME SyncInv, StampFirst, NEW t \in Tasks, Stamp(t)
  PROVE  SyncInv'
  <1> USE DEF SyncInv, TypeOK
  <1>1. /\ task[t].step = "stamp"
        /\ version' = Stamped(t) /\ version' \in Nat /\ version <= version'
        /\ task[t].change \in BOOLEAN
        /\ ~task[t].change => version' = version
        /\ task[t].change => version < version'
        /\ UNCHANGED <<kind, content, subscribers, link, connectionVars, deviceVars>>
    BY WorkOf DEF Stamp, Stamped, HostType
  <1>2. PICK work \in Works :
          /\ Turns(t, work) /\ work.step = "gather" /\ work.version = version'
          /\ work.change = task[t].change /\ work.source = task[t].source
    BY <1>1, WentOn, WorkOf DEF Stamp
  <1> USE <1>1, <1>2 DEF Turns
  <1>3. TypeOK'
    <2>1. HostType'
      BY DEF HostType
    <2>2. TaskType'
      <3>1. \A u \in Tasks : task'[u].version <= version'
        BY WorkOf DEF HostType, TaskType
      <3> QED
        BY <3>1 DEF TaskType
    <2>3. DeviceType'
      <3>1. \A d \in connected : seen[d] <= version'
        BY DEF HostType, DeviceType
      <3>2. ASSUME NEW d \in Devices, NEW i \in 1..Len(link[d])
            PROVE  link[d][i].version <= version'
        <4>1. link[d][i] \in Messages /\ link[d][i].version <= version
          BY <3>2 DEF DeviceType
        <4> QED
          BY <4>1 DEF Messages, HostType
      <3> QED
        BY <3>1, <3>2 DEF DeviceType
    <2> QED
      BY <2>1, <2>2, <2>3
  <1>4. Carried'
    <2>1. CASE task[t].change
      <3>1. \A u \in Tasks : task'[u].step = "send" => task'[u].version # version'
        BY <2>1, WorkOf DEF HostType
      <3>2. ASSUME NEW d \in Devices, NEW i \in 1..Len(link[d])
            PROVE  link[d][i].version # version'
        <4>1. link[d][i] \in Messages /\ link[d][i].version <= version
          BY DEF DeviceType
        <4> QED
          BY <2>1, <4>1 DEF Messages, HostType
      <3> QED
        BY <3>1, <3>2 DEF Carried, Newest
    <2>2. CASE ~task[t].change
      <3>1. Unstamped => Unstamped'
        BY <2>2 DEF Unstamped
      <3> QED
        BY <2>2, <3>1 DEF Carried, Newest
    <2> QED
      BY <2>1, <2>2
  <1>5. Subscribed'
    BY DEF Subscribed
  <1>6. ASSUME NEW d \in Told
        PROVE  Reached(d)'
    <2>1. CASE For(t, d)
      BY <2>1 DEF Reached, For
    <2>2. CASE ~For(t, d)
      BY <2>2 DEF Reached, For
    <2> QED
      BY <2>1, <2>2
  <1> QED
    BY <1>3, <1>4, <1>5, <1>6

LEMMA GatherKeepsInv ==
  ASSUME SyncInv, StampFirst, NEW t \in Tasks, Gather(t)
  PROVE  SyncInv'
  <1> USE DEF SyncInv, TypeOK
  <1>1. task[t].step = "gather" /\ UNCHANGED <<kind, hostVars, link, connectionVars, deviceVars>>
    BY DEF Gather
  <1>2. Recipients(t) \subseteq Devices
    BY WorkOf DEF Recipients, HostType
  <1>3. \A d \in Told : For(t, d) => d \in Recipients(t)
    BY DEF Recipients, For, Subscribed, HostType
  <1>4. PICK work \in Works :
          /\ Turns(t, work) /\ work.step \in {"idle", "read"} /\ work.version <= version
          /\ Recipients(t) # {} =>
                work.step = "read" /\ work.to = Recipients(t) /\ work.version = task[t].version
    <2>1. CASE Recipients(t) = {}
      BY <2>1, Ended, IdleType DEF Gather, HostType
    <2>2. CASE Recipients(t) # {}
      BY <1>2, <2>2, WentOn, WorkOf DEF Gather
    <2> QED
      BY <2>1, <2>2
  <1> USE <1>1, <1>4 DEF Turns
  <1>5. TypeOK'
    <2>1. HostType'
      BY DEF HostType
    <2>2. TaskType'
      BY DEF HostType, TaskType
    <2>3. DeviceType'
      BY DEF HostType, DeviceType
    <2> QED
      BY <2>1, <2>2, <2>3
  <1>6. Unstamped => Unstamped'
    BY DEF Unstamped
  <1>7. Carried' /\ Subscribed'
    BY <1>6 DEF Carried, Newest, Subscribed
  <1>8. ASSUME NEW d \in Told
        PROVE  Reached(d)'
    BY <1>3 DEF Reached, For
  <1> QED
    BY <1>5, <1>7, <1>8

\* What is read now is the newest.
LEMMA ReadKeepsInv ==
  ASSUME SyncInv, StampFirst, NEW t \in Tasks, Read(t)
  PROVE  SyncInv'
  <1> USE DEF SyncInv, TypeOK
  <1>1. task[t].step = "read" /\ UNCHANGED <<kind, hostVars, link, connectionVars, deviceVars>>
    BY DEF Read
  <1>2. PICK work \in Works :
          /\ Turns(t, work) /\ work.step = "send" /\ work.to = task[t].to
          /\ work.version = task[t].version /\ work.content = content
    BY <1>1, WentOn, WorkOf DEF Read, HostType
  <1> USE <1>1, <1>2 DEF Turns
  <1>3. TypeOK'
    <2>1. HostType'
      BY DEF HostType
    <2>2. TaskType'
      BY DEF HostType, TaskType
    <2>3. DeviceType'
      BY DEF HostType, DeviceType
    <2> QED
      BY <2>1, <2>2, <2>3
  <1>4. Unstamped => Unstamped'
    BY DEF Unstamped
  <1>5. Carried' /\ Subscribed'
    BY <1>4 DEF Carried, Newest, Subscribed
  <1>6. ASSUME NEW d \in Told
        PROVE  Reached(d)'
    BY DEF Reached, For
  <1> QED
    BY <1>3, <1>5, <1>6

LEMMA SendToKeepsInv ==
  ASSUME SyncInv, StampFirst, NEW t \in Tasks, NEW e \in Devices, SendTo(t, e)
  PROVE  SyncInv'
  <1> USE DEF SyncInv, TypeOK
  <1>1. /\ task[t].step = "send" /\ e \in task[t].to
        /\ UNCHANGED <<kind, hostVars, connected, wants, lost, reports, deviceVars>>
        /\ unsure \subseteq unsure' /\ unsure' \subseteq Devices
    BY DEF SendTo, HostType
  <1>2. PICK work \in Works :
          /\ Turns(t, work) /\ work.step \in {"idle", "read", "send"} /\ work.version <= version
          /\ task[t].to \ {e} # {} =>
                /\ work.step # "idle" /\ work.to = task[t].to \ {e}
                /\ work.version = task[t].version
          /\ work.step = "send" => work.version = task[t].version /\ work.content = task[t].content
    <2>1. CASE task[t].to \ {e} = {}
      BY <2>1, Ended, IdleType DEF SendTo, AfterSend, HostType
    <2>2. CASE task[t].to \ {e} # {}
      BY <2>2, WentOn, WorkOf DEF SendTo, AfterSend
    <2> QED
      BY <2>1, <2>2
  <1> DEFINE m == [version |-> task[t].version, content |-> task[t].content]
  <1>3. m \in Messages /\ m.version <= version /\ Newest(m.version, m.content)
    BY <1>1, WorkOf DEF Messages, Carried
  <1>4. /\ link' \in [Devices -> Seq(Messages)]
        /\ \A d \in Devices : d # e => link'[d] = link[d]
        /\ link'[e] = link[e] \/ link'[e] = Append(link[e], m)
        /\ e \in Told' => link'[e] = Append(link[e], m)
    <2>1. CASE link' = link /\ e \notin Told'
      BY <2>1 DEF DeviceType
    <2>2. CASE link' = [link EXCEPT ![e] = Append(@, m)]
      BY <1>3, <2>2 DEF DeviceType
    <2> QED
      BY <2>1, <2>2 DEF SendTo
  <1> HIDE DEF m
  <1>5. \A d \in Devices : link'[d] = link[d] \/ (d = e /\ link'[d] = Append(link[d], m))
    BY <1>4
  <1> USE <1>1, <1>2 DEF Turns
  <1>6. Unstamped => Unstamped'
    BY DEF Unstamped
  <1>7. ASSUME NEW d \in Devices, NEW i \in 1..Len(link'[d])
        PROVE  \/ i \in 1..Len(link[d]) /\ link'[d][i] = link[d][i]
               \/ link'[d][i] = m
    <2>1. link[d] \in Seq(Messages)
      BY DEF DeviceType
    <2>2. CASE link'[d] = Append(link[d], m)
      BY <1>3, <1>7, <2>1, <2>2, AppendProperties
    <2> QED
      BY <1>5, <1>7, <2>2
  <1>8. TypeOK'
    BY <1>3, <1>4, <1>7 DEF HostType, TaskType, DeviceType
  <1>9. Carried'
    BY <1>3, <1>6, <1>7 DEF Carried, Newest
  <1>10. Subscribed'
    BY DEF Subscribed
  <1>11. ASSUME NEW d \in Told'
         PROVE  Reached(d)'
    <2>0. d \in Devices /\ d \in Told
      BY DEF HostType
    <2>1. CASE \E i \in 1..Len(link[d]) : link[d][i].version = version
      <3>1. PICK i \in 1..Len(link[d]) : link[d][i].version = version
        BY <2>1
      <3>2. link[d] \in Seq(Messages)
        BY <2>0 DEF DeviceType
      <3>3. CASE link'[d] = Append(link[d], m)
        BY <1>3, <3>1, <3>2, <3>3, AppendProperties DEF Reached
      <3>4. CASE link'[d] = link[d]
        BY <3>1, <3>4 DEF Reached
      <3> QED
        BY <1>5, <2>0, <3>3, <3>4
    <2>2. CASE d = e /\ task[t].version = version
      <3>1. /\ Len(link'[d]) \in 1..Len(link'[d]) /\ link'[d][Len(link'[d])] = m
        BY <1>3, <1>4, <2>2 DEF DeviceType
      <3>2. m.version = version
        BY <2>2 DEF m
      <3> QED
        BY <3>1, <3>2 DEF Reached
    <2>3. CASE ~(\E i \in 1..Len(link[d]) : link[d][i].version = version)
               /\ ~(d = e /\ task[t].version = version)
      BY <2>3 DEF Reached, For
    <2> QED
      BY <2>1, <2>2, <2>3
  <1> QED
    BY <1>8, <1>9, <1>10, <1>11

-----------------------------------------------------------------------------
\* The device drops what has a smaller number than it has seen, so what it
\* drops is not the newest.
LEMMA DeliverKeepsInv ==
  ASSUME SyncInv, NEW e \in Devices, Deliver(e)
  PROVE  SyncInv'
  <1> USE DEF SyncInv, TypeOK
  <1> DEFINE m == Head(link[e])
  <1>1. /\ link[e] \in Seq(Messages) /\ link[e] # <<>>
        /\ UNCHANGED <<kind, hostVars, task, connectionVars>>
    BY DEF Deliver, DeviceType
  <1>2. /\ m \in Messages /\ 1 \in 1..Len(link[e]) /\ link[e][1] = m
        /\ Tail(link[e]) \in Seq(Messages) /\ Len(Tail(link[e])) = Len(link[e]) - 1
        /\ Len(link[e]) \in Nat
        /\ \A i \in 1..Len(Tail(link[e])) : Tail(link[e])[i] = link[e][i + 1]
    BY <1>1, HeadTailProperties
  <1>3. /\ m.version \in Nat /\ m.content \in Contents
        /\ m.version <= version /\ Newest(m.version, m.content)
    BY <1>2 DEF Messages, DeviceType, Carried
  <1>4. /\ link' \in [Devices -> Seq(Messages)] /\ link'[e] = Tail(link[e])
        /\ \A d \in Devices : d # e => link'[d] = link[d]
    BY <1>2 DEF Deliver, DeviceType
  <1>5. /\ seen' \in [Devices -> Nat] /\ shown' \in [Devices -> Contents]
        /\ \A d \in Devices : d # e => seen'[d] = seen[d] /\ shown'[d] = shown[d]
        /\ \/ m.version >= seen[e] /\ seen'[e] = m.version /\ shown'[e] = m.content
           \/ m.version < seen[e] /\ seen'[e] = seen[e] /\ shown'[e] = shown[e]
    <2>1. CASE Accepts(e, m)
      BY <1>3, <2>1 DEF Deliver, Accepts, DeviceType
    <2>2. CASE ~Accepts(e, m)
      BY <1>3, <2>2 DEF Deliver, Accepts, DeviceType
    <2> QED
      BY <2>1, <2>2
  <1> HIDE DEF m
  <1>6. ASSUME NEW d \in Devices, NEW i \in 1..Len(link'[d])
        PROVE  \E j \in 1..Len(link[d]) : link'[d][i] = link[d][j]
    <2>1. CASE d = e
      <3>1. i + 1 \in 1..Len(link[e]) /\ link'[e][i] = link[e][i + 1]
        BY <1>2, <1>4, <1>6, <2>1
      <3> QED
        BY <2>1, <3>1
    <2>2. CASE d # e
      BY <1>4, <1>6, <2>2
    <2> QED
      BY <2>1, <2>2
  <1>7. TypeOK'
    <2>1. HostType' /\ TaskType'
      BY <1>1 DEF HostType, TaskType
    <2>2. \A d \in connected' : seen'[d] <= version'
      BY <1>1, <1>3, <1>5 DEF HostType, DeviceType
    <2>3. \A d \in Devices : \A i \in 1..Len(link'[d]) : link'[d][i].version <= version'
      BY <1>1, <1>6 DEF DeviceType
    <2> QED
      BY <1>4, <1>5, <2>1, <2>2, <2>3 DEF DeviceType
  <1>8. Carried'
    <2>1. Unstamped' = Unstamped
      BY <1>1 DEF Unstamped
    <2>0. version' = version /\ content' = content /\ task' = task
      BY <1>1
    <2>2. \A t \in Tasks : (task[t].step = "send" => Newest(task[t].version, task[t].content))'
      BY <2>0, <2>1 DEF Carried, Newest
    <2>3. ASSUME NEW d \in Devices, NEW i \in 1..Len(link'[d])
          PROVE  Newest(link[d][i].version, link[d][i].content)'
      <3>1. PICK j \in 1..Len(link[d]) : link'[d][i] = link[d][j]
        BY <1>6
      <3>2. Newest(link[d][j].version, link[d][j].content)
        BY DEF Carried
      <3> QED
        BY <2>0, <2>1, <3>1, <3>2 DEF Newest
    <2> QED
      BY <2>2, <2>3 DEF Carried
  <1>9. Subscribed'
    BY <1>1 DEF Subscribed
  <1>10. ASSUME NEW d \in Told
         PROVE  Reached(d)'
    <2>0. d \in Devices
      BY DEF HostType
    <2>1. CASE d # e
      BY <1>1, <1>4, <1>5, <2>0, <2>1 DEF Reached, For
    <2>2. CASE d = e /\ m.version = version
      <3>1. seen'[d] = version /\ shown'[d] = m.content
        BY <1>1, <1>3, <1>5, <2>0, <2>2 DEF HostType, DeviceType
      <3>2. CASE m.content = content
        BY <1>1, <3>1, <3>2 DEF Reached
      <3>3. CASE Unstamped
        BY <1>1, <3>3 DEF Unstamped, Reached, For
      <3> QED
        BY <1>3, <2>2, <3>2, <3>3 DEF Newest
    <2>3. CASE d = e /\ m.version # version
      <3>1. CASE \E i \in 1..Len(link[e]) : link[e][i].version = version
        <4>1. PICK i \in 1..Len(link[e]) : link[e][i].version = version
          BY <3>1
        <4>2. i # 1
          BY <1>2, <2>3, <4>1
        <4>3. i - 1 \in 1..Len(link'[e]) /\ link'[e][i - 1] = link[e][i]
          BY <1>2, <1>4, <4>1, <4>2
        <4> QED
          BY <1>1, <2>3, <4>1, <4>3 DEF Reached
      <3>2. CASE seen[e] = version /\ shown[e] = content
        <4>1. m.version < seen[e]
          BY <1>3, <2>3, <3>2 DEF HostType
        <4>2. seen'[e] = seen[e] /\ shown'[e] = shown[e]
          BY <1>3, <1>5, <4>1 DEF DeviceType
        <4> QED
          BY <1>1, <2>3, <3>2, <4>2 DEF Reached
      <3>3. CASE \/ \E t \in Tasks : task[t].step = "stamp" /\ For(t, d)
                 \/ \E t \in Tasks : task[t].step = "gather" /\ For(t, d) /\ task[t].version = version
                 \/ \E t \in Tasks : /\ task[t].step \in {"read", "send"} /\ d \in task[t].to
                                     /\ task[t].version = version
        BY <1>1, <3>3 DEF Reached, For
      <3> QED
        BY <2>3, <3>1, <3>2, <3>3 DEF Reached
    <2> QED
      BY <2>1, <2>2, <2>3
  <1> QED
    BY <1>1, <1>7, <1>8, <1>9, <1>10

-----------------------------------------------------------------------------
\* A new connection wants to subscribe, and has seen no number.
LEMMA ConnectKeepsInv ==
  ASSUME SyncInv, NEW e \in Devices, Connect(e)
  PROVE  SyncInv'
  <1> USE DEF SyncInv, TypeOK
  <1>1. /\ e \notin connected /\ connected' = connected \cup {e} /\ wants' = wants \cup {e}
        /\ lost' = lost \ {e}
        /\ UNCHANGED <<kind, hostVars, task, link, reports, unsure, shown>>
        /\ seen' \in [Devices -> Nat] /\ seen'[e] = 0
        /\ \A d \in Devices : d # e => seen'[d] = seen[d]
    BY DEF Connect, ForgetVersions, DeviceType
  <1> USE <1>1
  <1>2. HostType' /\ TaskType'
    BY DEF HostType, TaskType
  <1>3. DeviceType'
    BY DEF HostType, DeviceType
  <1>4. Unstamped' = Unstamped
    BY DEF Unstamped
  <1>5. Carried'
    BY <1>4 DEF Carried, Newest
  <1>6. Subscribed'
    BY DEF Subscribed
  <1>7. \A d \in Told' : Reached(d)'
    BY DEF HostType, Reached, For
  <1> QED
    BY <1>2, <1>3, <1>5, <1>6, <1>7

LEMMA DisconnectKeepsInv ==
  ASSUME SyncInv, NEW e \in Devices, Disconnect(e)
  PROVE  SyncInv'
  <1> USE DEF SyncInv, TypeOK
  <1>1. /\ connected' = connected \ {e} /\ wants' = wants \ {e}
        /\ lost' = lost \cup {e} /\ unsure' = unsure \ {e}
        /\ UNCHANGED <<kind, hostVars, task, reports, deviceVars>>
    BY DEF Disconnect
  <1>2. /\ link' \in [Devices -> Seq(Messages)] /\ link'[e] = <<>>
        /\ \A d \in Devices : d # e => link'[d] = link[d]
    BY DEF Disconnect, DeviceType
  <1> USE <1>1, <1>2
  <1>3. ASSUME NEW d \in Devices, NEW i \in 1..Len(link'[d])
        PROVE  i \in 1..Len(link[d]) /\ link'[d][i] = link[d][i]
    BY <1>3
  <1>4. HostType' /\ TaskType'
    BY DEF HostType, TaskType
  <1>5. DeviceType'
    BY <1>3 DEF HostType, DeviceType
  <1>6. Unstamped' = Unstamped
    BY DEF Unstamped
  <1>7. Carried'
    BY <1>3, <1>6 DEF Carried, Newest
  <1>8. Subscribed'
    BY DEF Subscribed
  <1>9. ASSUME NEW d \in Told'
        PROVE  Reached(d)'
    <2>1. d \in Told /\ d # e /\ d \in Devices
      BY DEF HostType
    <2>2. Reached(d) /\ link'[d] = link[d]
      BY <2>1
    <2> QED
      BY <2>2 DEF Reached, For
  <1> QED
    BY <1>4, <1>5, <1>7, <1>8, <1>9

\* A connection that has ended has no device's name that is told of changes.
LEMMA RemoveAliasesKeepsInv ==
  ASSUME SyncInv, NEW e \in Devices, RemoveAliases(e)
  PROVE  SyncInv'
  <1> USE DEF SyncInv, TypeOK
  <1>1. /\ e \in lost /\ lost' = lost \ {e}
        /\ reports' \in [Devices -> Nat] /\ \A d \in Devices : d # e => reports'[d] = reports[d]
        /\ UNCHANGED <<kind, hostVars, task, link, connected, wants, unsure, deviceVars>>
    BY DEF RemoveAliases, HostType
  <1> USE <1>1
  <1>2. TypeOK'
    BY DEF HostType, TaskType, DeviceType
  <1>3. Unstamped' = Unstamped
    BY DEF Unstamped
  <1>4. Carried'
    BY <1>3 DEF Carried, Newest
  <1>5. Subscribed'
    BY DEF Subscribed, HostType
  <1>6. \A d \in Told' : Reached(d)'
    BY DEF Reached, For
  <1> QED
    BY <1>2, <1>4, <1>5, <1>6

\* Of a device that is told of changes no end is left to be reported.
LEMMA NoticeKeepsInv ==
  ASSUME SyncInv, NEW e \in Devices, Notice(e)
  PROVE  SyncInv'
  <1> USE DEF SyncInv, TypeOK
  <1>1. /\ reports[e] # 0 /\ subscribers' = subscribers \ {e}
        /\ reports' \in [Devices -> Nat] /\ \A d \in Devices : d # e => reports'[d] = reports[d]
        /\ UNCHANGED <<kind, content, version, task, link, connected, wants, lost, unsure, deviceVars>>
    BY DEF Notice, HostType
  <1> USE <1>1
  <1>2. TypeOK'
    BY DEF HostType, TaskType, DeviceType
  <1>3. Unstamped' = Unstamped
    BY DEF Unstamped
  <1>4. Carried'
    BY <1>3 DEF Carried, Newest
  <1>5. Subscribed'
    BY DEF Subscribed, HostType
  <1>6. \A d \in Told' : Reached(d)'
    BY DEF Reached, For
  <1> QED
    BY <1>2, <1>4, <1>5, <1>6

LEMMA RestartHostKeepsInv ==
  ASSUME SyncInv, RestartHost
  PROVE  SyncInv'
  <1> USE DEF SyncInv, TypeOK
  <1>1. /\ version' = 0 /\ subscribers' = {}
        /\ connected' = {} /\ wants' = {} /\ lost' = {} /\ unsure' = {}
        /\ reports' \in [Devices -> Nat]
        /\ UNCHANGED <<kind, content, deviceVars>>
    BY DEF RestartHost
  <1>2. task' \in [Tasks -> Works] /\ \A t \in Tasks : task'[t] = Idle
    BY IdleType DEF RestartHost
  <1>3. link' \in [Devices -> Seq(Messages)] /\ \A d \in Devices : link'[d] = <<>>
    BY DEF RestartHost
  <1> USE <1>1, <1>2, <1>3
  <1>4. HostType'
    BY DEF HostType
  <1>5. TaskType'
    BY IdleType DEF TaskType
  <1>6. DeviceType'
    BY DEF DeviceType
  <1>7. Carried' /\ Subscribed'
    BY IdleType DEF Carried, Subscribed
  <1> QED
    BY <1>4, <1>5, <1>6, <1>7

-----------------------------------------------------------------------------
LEMMA NextKeepsInv ==
  ASSUME SyncInv, StampFirst, [Next]_vars
  PROVE  SyncInv'
  <1>1. ASSUME NEW t \in Tasks, TaskStep(t)
        PROVE  SyncInv'
    BY <1>1, StampKeepsInv, GatherKeepsInv, ReadKeepsInv, SendToKeepsInv DEF TaskStep
  <1>2. ASSUME NEW t \in Tasks, NEW d \in Devices, Ask(t, d) \/ Subscribe(t, d)
        PROVE  SyncInv'
    BY <1>2, AskKeepsInv, SubscribeKeepsInv
  <1>3. ASSUME NEW t \in Tasks, NEW s \in Devices \cup {Nobody}, Change(t, s)
        PROVE  SyncInv'
    BY <1>3, ChangeKeepsInv
  <1>4. ASSUME NEW d \in Devices, Deliver(d) \/ Connect(d) \/ Disconnect(d)
                                 \/ RemoveAliases(d) \/ Notice(d)
        PROVE  SyncInv'
    BY <1>4, DeliverKeepsInv, ConnectKeepsInv, DisconnectKeepsInv, RemoveAliasesKeepsInv,
       NoticeKeepsInv
  <1>5. CASE RestartHost
    BY <1>5, RestartHostKeepsInv
  <1>6. CASE UNCHANGED vars
    <2> USE <1>6 DEF SyncInv, TypeOK, vars
    <2>1. TypeOK'
      BY DEF HostType, TaskType, DeviceType
    <2>2. Unstamped' = Unstamped
      BY DEF Unstamped
    <2>3. Carried' /\ Subscribed'
      BY <2>2 DEF Carried, Newest, Subscribed
    <2>4. \A d \in Told' : Reached(d)'
      BY DEF Reached, For
    <2> QED
      BY <2>1, <2>3, <2>4
  <1> QED
    BY <1>1, <1>2, <1>3, <1>4, <1>5, <1>6 DEF Next

\* The kind of a resource does not change.
LEMMA KindStays ==
  ASSUME [Next]_vars
  PROVE  kind' = kind
  BY Zenon DEF Next, TaskStep, Stamp, Gather, Read, SendTo, Ask, Subscribe, Change, Deliver,
               Connect, Disconnect, RemoveAliases, Notice, RestartHost, vars

\* In quiet nothing carries the newest number any more, so the device has it.
LEMMA QuietReached ==
  ASSUME SyncInv
  PROVE  QuietIsCurrent
  <1> SUFFICES ASSUME Quiet, NEW d \in connected \ unsure PROVE shown[d] = content
    BY DEF QuietIsCurrent
  <1>1. d \in Devices /\ d \in Told /\ Reached(d)
    BY DEF Quiet, SyncInv, TypeOK, HostType
  <1>2. \A t \in Tasks : task[t].step = "idle"
    BY IdleType DEF Quiet
  <1>3. Len(link[d]) = 0
    BY <1>1 DEF Quiet
  <1> QED
    BY <1>1, <1>2, <1>3 DEF Reached

-----------------------------------------------------------------------------
\* The invariant holds of every behaviour, where the number is taken first.
LEMMA SyncInvariant ==
  ASSUME Kinds \subseteq {"projects", "terminals"}
  PROVE  Spec => [](SyncInv /\ StampFirst)
  <1>1. Init => SyncInv /\ StampFirst
    BY InitSyncInv DEF Init, StampFirst
  <1>2. SyncInv /\ StampFirst /\ [Next]_vars => (SyncInv /\ StampFirst)'
    BY NextKeepsInv, KindStays DEF StampFirst
  <1> QED
    BY <1>1, <1>2, PTL DEF Spec

\* Once nothing is under way, every connected device that is not left unsure of
\* being told of changes shows what the host has: for the lists of projects and terminals, whose number is taken before they
\* are read (broadcast_project_list, broadcast_terminal_list).
THEOREM QuietStaysCurrent ==
  ASSUME Kinds \subseteq {"projects", "terminals"}
  PROVE  Spec => []QuietIsCurrent
  <1>1. SyncInv /\ StampFirst => QuietIsCurrent
    BY QuietReached
  <1> QED
    BY <1>1, SyncInvariant, PTL
=============================================================================
