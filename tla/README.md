# Codux in TLA+

Codux is a terminal for coding agents: a desktop application runs terminal
sessions and shares them with phones, with other desktops and with a headless
agent, over a peer-to-peer transport. This directory models the parts of it that
are concurrent or distributed, checks them with TLC on small instances and proves
the most important results with TLAPS for every value of the constants.

`PROJECT.json` is the index: components, runs, the source lines behind each
definition (`map`), hazards, findings, theorems, and for each property a mutated
definition under which the property fails (`mutants`). The mutated forms are
definitions of the modules, right above the definitions they stand in for; no
specification uses them.

To check a run: `tlc -config MCViewportViews.cfg MCViewportViews`. To check the
proofs of a module: `tlapm ViewportProofs.tla`.

Paths below are relative to `src/`; `host/` is
`apps/desktop/runtime/src/remote/host/`, `live/` is
`crates/codux-runtime-live/src/`, `core/` is `crates/codux-terminal-core/src/`,
`mobile/` is `apps/mobile/lib/`.

## 1. The system

```
  phone (mobile/)                        host (host/, live/)
  ---------------                        -------------------
  input sender      -- terminal.input --> handlers ----> PTY session
  output router     <-- terminal.output - batches  <---- output capture
  viewport controller <- viewport state - fan-out  <---- viewport lease
  sequence guard    <------ envelopes --> sequence guard
                                          |
            resource copies <---- lists, versions - subscriptions
                                          |
     dial, give up, redial ------- frames --> peers <--- host transport
                                          |
         session registry, agent worktrees, memory queue (SQLite)
```

Threads and tasks of the host share the viewport mutex of each session, the
subscription router (who views which terminal), the batches and the output
numbers of the terminals, the output history of each session (`output_commit`) and
the peers of the transport, each under a lock of its own; the handlers modelled
here take them one after the other. Each message from a device runs in a task of
its own (`host/transport.rs:298`). Hence the common shape of the models: a handler
is a sequence of atomic steps, one for each lock it takes.

### Components, their state and what makes them correct

| Component | State | Operations | What is hard | Correct if |
|---|---|---|---|---|
| Terminal viewport lease (`live/terminal_pty/session.rs`) | owner, explicit, expiry, grid, generation, label | claim (force, auto, passive), renew, reclaim on expiry, release, resize, label | the UI thread, message tasks and the watcher race | a takeover by the desktop user holds; an unexpired lease is kept; the generation orders all changes |
| State fan-out and device views (`host/terminal_state.rs`, `mobile/services/terminal_viewport_controller.dart`) | viewers, captured states, messages, accepted state | emit, subscribe, repeat with the output, deliver, reconnect | states are emitted outside the lock; messages are lost or overtaken | two devices never drive at one generation; views never step back; viewers converge |
| Terminal handlers (`host/terminal_dispatch.rs`, `host/terminal_buffer.rs`) | running tasks, subscriptions, connections | subscribe, baseline, input, resize, claim, keepalive, ack, release, unsubscribe, disconnect | tasks interleave lock by lock and outlive their device | the terminal changes hands on request only, and comes back |
| Terminal input (`mobile/services/terminal_input_reliable_sender.dart`, `host/terminal_dispatch.rs`) | pending inputs, timers, copies, acknowledgements | type, retry, acknowledge, write, clear | the timer races the acknowledgement; acknowledged before written | nothing lost by few losses, a Ctrl-C never repeated, nothing pending for ever |
| Terminal output (`live/terminal_pty/capture.rs`, `host/terminal_state.rs`, `core/output_sequence.rs`, `core/remote_output_router.rs`, `core/remote_pty.rs`) | history, batch, output number, baselines; shown text, watermark, held batches, request | commit, announce, flush, snapshot, gap, hold, merge, retry, give up, reconnect | snapshot and live output overlap; flushes overtake each other | the phone shows each character once, in order, and ends up with the end of the output |
| Sequence guard (`core/sequence_guard.rs`) | window of numbers for each device and kind | accept | reordering, duplicates, forgetting | each envelope once; state lists never go back |
| Memory extraction queue (`crates/codux-memory/src/queue`, `manual.rs`) | rows with status and time; lines seen of a transcript | scan, enqueue, pick, read, mark, settle, requeue, cancel, clear, retry, recover | passes and scans overlap, the agent writes on, crashes, SQLite locks | every row settles, settled rows stay, what counts as seen is extracted |
| Session registry (`live/terminal_pty/manager.rs`) | sessions, capabilities and AI bindings by terminal id | attach or create, replace, kill, close, exit | three tables under three locks; closing waits; check and insert are apart | no capability outlives its terminal, no process is forgotten, the tables agree |
| Host peers (`crates/codux-remote-transport/src/iroh_link.rs`) | connections by name, readers and writers of each connection | accept, read, bind, report, answer, swap, close | old connections end late; a reader goes on when the peer is closed | a device is reached over its live connection and reported when it is gone |
| Host transport (`host/mod.rs`, `host/transport.rs`, `host/pairing.rs`) | transport, generation, what is shown | start, stop, reconnect, pair, their tasks, device events | tasks are overtaken; copies of the status are written back | what is in use is alive; "connecting" does not last; at rest the host shows what it has |
| Subscriptions and state versions (`crates/codux-runtime-core/src/subscription.rs`, `host/send.rs`, `mobile/services/remote_state_versions.dart`) | version per resource, subscribers; remembered version | change, stamp, read, send, accept, reconnect, restart | the version is taken apart from the payload; versions start again | a device ends up with the newest state |
| Agent worktree tasks (`live/agent_worktree`) | operations in memory and in a file, monitors, delivery lock | create, wait, monitor, merge, remove, recover | an operation is asked for twice; saves fail; restarts; a monitor knows the request only | an operation is carried out once; what is recorded of a delivery is true; who waits is answered |
| Pane agent lifecycle (`apps/desktop/src/app/agent_lifecycle.rs`) | state and time for each pane | hook, probe, remote status, disconnect | several sources, no common order | a pane shows the last thing its agent said (not modelled) |

The other components (pairing, web tunnel, AI history, headless screen, git and
files, language-model client, protocol bindings, settings, user interfaces,
wrapper helper, metrics) are listed in `PROJECT.json` with the reason they are
not modelled: they are I/O, conversions of foreign formats or records written as
a whole.

## 2. The modules

| Module | Models | Uses |
|---|---|---|
| `ViewportOwnership` | the part of the lease that says who owns the terminal, how firmly and for how long | |
| `ViewportLease` | all the viewport mutex guards | extends `ViewportOwnership` |
| `ViewportViews` | emission, messages and the views of the devices, over the whole lease | extends `ViewportLease` |
| `ViewportHandlers` | the handlers of the host as tasks | extends `ViewportOwnership` |
| `TerminalInput` | an input from the key press to the write into the PTY | |
| `TerminalOutput` | the output from the PTY to the screen of a phone | |
| `SequenceGuard` | one channel of the duplicate guard | |
| `MemoryQueue` | the table of memory extraction tasks and its workers | |
| `MemoryEnqueue` | the scans that fill it and the transcript they read; implements `MemoryQueue` | extends it |
| `HostPeers` | the connections of the host's peers, their names and their ends | |
| `HostTransport` | starting, stopping, reconnecting and pairing of the host | |
| `ResourceSync` | one resource of the host and its copies on the devices | |
| `AgentWorktreeLife` | abstract specification: the life of a worktree task | |
| `AgentWorktrees` | the operations of an agent worktree task; implements `AgentWorktreeLife` | instantiates it |
| `TerminalRegistry` | the three tables under one terminal id | |
| `MC...` | bounds for TLC that the module itself does not have | extend the module |
| `...Proofs` | theorems; `ViewportProofs` on the four viewport modules, `HostProofs` on the two of the host, `InputProofs` on `SequenceGuard` and `TerminalInput` | extend the modules and `TLAPS` |

### Viewport: `ViewportOwnership`, `ViewportLease`

Each method of `session.rs` takes the viewport mutex once, so each is one action:
`Claim` is `claim_viewport_with` (an automatic claim takes the untouched default
desktop only, a passive one takes nothing), `Touch` `touch_viewport_lease`,
`Reclaim` `reclaim_expired_viewport_lease` with what its resolver answered,
`Release` `release_viewport`, `ResizeTo` and `ResizeFails` `resize_viewport`,
`SetOwnerLabel` `set_viewport_owner_label`. `owner`, `explicitOwner`, `grid`,
`generation` and `ownerLabel` are the fields of the mutex; `expires_at` is `ttl`, the
ticks that are left, and `Tick` is the clock. A grid is one number, clamped from
below as the columns and rows are. The PTY and the headless screen behind a resize
are left out, but that the PTY may refuse the size is an action.

`ViewportOwnership` is the half of these methods that concerns `owner`,
`explicitOwner` and `ttl`: the handlers look at no more, and so extend it alone. The
lease builds its methods from it. That every step of the lease is one of the ownership
is therefore no result, only a lemma (`LeaseKeepsOwnership`) by which `TakeoverHolds` and
`HeldUntilLapse` are proved once.

### What the devices see: `ViewportViews`

`ChangeLease` is any step of the lease; if it bumped the generation or changed the
label it leaves the new state in `emitting`, for the thread has let go of the mutex
before it calls the sink. `Emit` may take the states in any order. `Subscribe`,
`Reassert` (every eighth flush, to the viewers that are not the owner), `Deliver`,
`Lose`, `Unsubscribe` and `Reconnect` complete it; `Accepts` is the guard of the
phone, `applyRemoteState`.

### Handlers: `ViewportHandlers`

`Program` gives, for each kind of message, the sequence of lock-taking steps of its
handler; `task[t]` holds the device and the steps that are left, and each step is an
action (`Register`, `ClaimAnd`, `Demand`, `Look`, `Renew`, `Resize`, `Write`, `Signal`,
`GiveBack`, `Unregister`). An input looks at the owner, may claim, renews and writes in
separate steps; an interrupt sent as a signal looks at nothing. `drove` remembers of a task
that its device had the terminal at one of its steps, which is what `WritersDrove` demands
of one that is about to write. `Disconnect` removes the viewer and leaves the lease and
the tasks of the device alone, `HostReconnect` leaves the viewers as well
(`connection_generation` has advanced, so the "closed" is ignored). `Watch` is the
watcher with the resolver of `host/mod.rs`: any subscriber but the expired owner.

### Input: `TerminalInput`

The sender (`pending`, `armed`, `attempt`), the wire, the handler and the PTY. A
copy is an input and its attempt: the host treats each as a message of its own.
`HandleInput` checks the owner and acknowledges, `Write` or `WriteFails` comes
later. `Lose`, `Disconnect`, `SwitchSession`, `HandOver` and `SetWritable` are the
environment.

### Output: `TerminalOutput`

A character is its position in the output. The host: `Commit` and `Announce` (the reader
appends under `output_commit` and announces after it), `TakeBatch`, `NumberBatch`,
`SendBatch` (a flush takes the batch, a number and the send queue in steps that may
interleave with those of another flush), `Subscribe`, `Prepare` (number, then snapshot),
`Answer`, `Forget`. The phone: `Receive` (`Hold` or `Show` a live batch; `Restore` or
`Ignore` a baseline), `Refresh`, `GiveUp`, `Disconnect`, `Reconnect`, `Resubscribe`.
`link` is the phone's connection: "gone", or "back" when the host has taken the new one
for the phone's, or "bound" when the phone has been told what the host can do and has
subscribed. With "gone" whatever the host sends is dropped, and only then does the host
forget the viewer. A phone that already waits for a baseline when it binds subscribes
without asking for another (request 0), and a gap leads to a request only if the phone has
not just made one. `Merge` is `merge_baseline_content`, `AcceptLive` is `append_live` with
the gap detection of `output_sequence.rs`, `Replay` replays the held batches.

`mishaps` is a history variable: it remembers that a message was lost, that a flush
overtook an earlier one, that the phone gave up on a baseline, that too many batches
were held or that a batch is torn. The properties say which of them they except,
and section 6 says what happens then.

### `SequenceGuard`

`Accepts` and `Push` are `RemoteSequenceWindow::accept`. `channel` is chosen at the
start: whether the channel carries a state list (`requires_monotonic_state`) and
whether its envelopes arrive in order. `Deliver` may deliver any number again.

### `MemoryQueue` and `MemoryEnqueue`

A row is a source fingerprint; `older` is the order of `enqueued_at`. A worker is one
pass: `Pick`, `MarkRunning` and `WriteOutcome` are three statements and none of the
updates asks for the status the row has. `Requeue` is the outcome "the memories could
not be written for a lock", `OutcomeLocked` that the outcome itself meets the lock,
`GiveUp` that no provider is available or the mark failed. `Enqueue`, `Retry`,
`Clear`, `ClearFailures` and `Cancel` are the user and the detection of sessions,
`Crash` and `Start` the process; `Start` recovers running rows unless it meets a lock.

`MemoryEnqueue` says where the rows come from. A version of the transcript is its
length, and names its row. A scan (`enqueue_session_for_extraction`) goes through
`CheckActive`, `ReadSource` (the fingerprint), `ReadText` (the text of the preflight),
`CountLines` (the snapshot, which reads the file a third time), `Gate` (signal and growth,
of what these two read), `EnqueueRow`, `UpdateSource`, each a statement or a read of its
own with the agent writing in between; `ScanEnds` is an error or the cooldown. A text with a
line to be remembered passes the gate whatever its growth (`Allow`). A worker reads the
transcript when it comes to its row (`ReadTranscript`), and `Extract` is the outcome
"done". `extracted` and `skipped` are history variables. All steps are steps of
`MemoryQueue` or leave its variables alone.

### `HostPeers`

`peers` is the map from names (a node's key, a device's name) to connections. `Dial`,
`Send`, `Leave`, `GiveUp` are the device, which gives up a connection whose frames are
not answered and dials the next. A reader takes a frame (`Take`), binds the name of the
device to its connection (`Bind`, `BindIfFree`), reports the device (`Report`) and
hands the frame on (`Answer`); it does not look whether its connection has been closed.
`Swap`, `ReaderEnds`, `LoopEnds`, `WriterFails` are the ends of the five tasks of a
connection, each of which closes it; `RemoveAliases`, `ReportClosed` and `Forget` are
`close_peer`. `stray` remembers the devices one of whose frames came after the close.

### `HostTransport`

Every call of the user (`Start`, `Stop`, `Reconnect`, `Pair`) is one step, advances
`generation` and leaves a task; the task of generation g goes through `Look`, `Enter`,
`Check`, `Announce`, `Connect`, `Compare`, `Store`, `Tell`, or is found overtaken.
`slot` is the transport in use, `live` those that run, `lock`
`transport_start_lock`. A pairing goes on to `Publish` whatever its start came to, also
when it was overtaken, and shows "connected"; so do a pairing over the transport in use
(`PairReuses`, `PublishReused`) and the confirmation, cancellation and expiry of a pairing
(`EndPairing`), none of which compares a generation. `CopySnapshot` and `WriteBack` are the
copies of what is shown that are written back: for every message and state of a device,
and when the settings are read again (`Preserving`). `astray` remembers the disturbances
the properties except, until the next `take_transport` clears it: such a copy written over
another status, a task that touches the slot or the status after it was overtaken (it
compares its generation and acts in two steps), a pairing that failed to connect, and
"connected" shown for a pairing while there is no transport.

### `ResourceSync`

A task of the host goes through `Begin` (with or without a change), `Stamp`, `Gather`,
`Read`, `SendTo`; lists stamp before they read, Git states read before they stamp.
`Deliver` is the device's comparison with the number it has seen, `Connect` forgets the
numbers and takes the device's name from the connection before it, if the host has not
yet found that one at its end; if it has (`RemoveAliases`), the report is under way
(`reports`) and `Notice` removes whatever the device has subscribed by then. `SendTo` may
drop what finds the queue of the connection full. `unsure` remembers the devices that
subscribed before such a report, or for which a message was dropped, until they
subscribe again. `RestartHost` counts from zero.

### `AgentWorktreeLife`, `AgentWorktrees`

`AgentWorktreeLife` is what an agent may rely on: one task has one operation at a time,
in the phases none, working, completed or failed, merged, removed; a restart fails what
was under way and may take back what was not saved, never the order. `AgentWorktrees`
is the code: `Claim`, `CreateWorktree`, `MarkStarting`, `CreateTerminal`, `MarkReady`,
`SpawnMonitor`, `FinishFailed` and `Wait` are the thread of a create; `AgentWorks` to
`AgentFails` the monitor of an agent; `LookupMerge`, `MergeHost`, `MarkMerged` and their
like a delivery under `deliverer`, the delivery lock; `op` is memory and `disk` the
file, which a failing save leaves behind; `Crash` is a restart with its recovery. The
refinement maps an operation to its phase (`Phase`) and is the property `KeepsPromise`.

### `TerminalRegistry`

`entry`, `grant` and `binding` are what the map of sessions, the capabilities and the AI
runtime have under one terminal id. An attach goes through `Look`, `Check`, the removal
of an exited or differing session (`RemoveExited` to `KillOther`), `Grant`, `Spawn`,
`Bind`, `Insert`; kills and closes have steps of their own, and `CloseWaited` is the end
of the wait for the process. Every removal is by id or by session as the code has it.
`displaced` and `overlapped` are history variables.

## 3. The runs

All runs are exhaustive within their bounds. A state count is of distinct states.

| Run | Bounds | States | Shows |
|---|---|---|---|
| `views` | 2 devices, 1 name, 1 grid with minimum 2, TTL 1, generation up to 2, 2 messages on their way | 305,104 | `GenerationFences`, `TakeoverHolds`, `HeldUntilLapse`, `OneDriver`, `NonOwnerConverges` |
| `handlers` | 2 devices, 2 tasks, TTL 1 | 637,120 | `WritersDrove`, `OwnerOnRequest`, `TakeoverEndsByForce`, `GoneDeviceLosesTerminal` |
| `handlers_desktop_back` | 2 devices, 1 task, TTL 1 | | finding: `DesktopGetsItBack` fails |
| `input` | 2 inputs, one of them a Ctrl-C, 3 attempts, 2 losses | 199,080 | `InterruptsOnce`, `SurvivesLosses`, `InputSettles` |
| `output` | 3 characters, baselines of 2, a cache of 3, 2 held batches, 2 requests, 1 loss | 5,873,579 | `Ordered`, `CaughtUp`, `NeverBack` |
| `guard` | window 2, numbers up to 7 | 18,730 | `AcceptsOnce`, `DropsNothingNew` |
| `memory_queue` | 2 versions, 2 workers, 1 scan, growth of 1 line | 338,949 | `RunningHasWorker`, `SeenIsExtracted`, `SettledStaysSettled`, `TaskSettles` |
| `peers` | 1 device, 2 connections of 2 streams, 1 frame under way, 2 busy readers | 415,242 | `ReportedHasConnection`, `CloseKeepsRebound`, `SettlesOnCurrent`, `GoneIsReported` |
| `transport` | 3 calls, 1 pairing at a time over the transport in use, 1 copy | 318,750 | `SlotAlive`, `ConnectingHasTask`, `QuietHostIsTrue`, `ConnectingSettles` |
| `resources` | 1 device, 2 tasks, 2 changes, 1 lost connection, 2 messages on a link, a queue of 1 | 865,906 | `QuietIsCurrent`, `ConnectedConverges` |
| `worktrees` | 2 requests for one task, 2 threads, 2 attempts, 2 faults | 291,989 | `KeepsPromise`, `DeliveryIsTrue`, `UnfinishedHasWorker`, `MonitorWatchesOwn`, `WaiterReturns` |
| `registry` | 2 threads, 2 shapes of a terminal, 2 sessions | 257,460 | `GrantIsAlive`, `NoOrphan`, `AgreeAtRest`, `UnlistedEnds` |

The type invariants are proved for every component (section 4), that of the resources as
a part of `SyncInv`, for the resources it is about.

Beside the runs there are larger instances: `MCViewportLease.cfg` (the lease alone: 3
grids, TTL 2, 2 names, generation up to 5; 786 states), `MCMemoryQueue.cfg` (the table
alone: 3 rows, 2 workers; 32,048 states), `MCMemoryScans.cfg` (two scans at once, safety
only; 9,533,629 states).
And there are counterexamples to what one might expect of the code; section 5 and 6 tell
them: `MCViewportHandoffLost.cfg` (`AnyViewerConverges`), `MCInputTwice.cfg`
(`WrittenOnce`), `MCOutputRepair.cfg` (`BaselineRepairs`), `MCMemoryLocked.cfg`
(`LockedRowIsRetried`), `MCMemorySkipped.cfg` (`NothingSkipped`; module
`MCMemoryEnqueue`), `MCResourceStale.cfg` (`StampedIsCurrent`), `MCResourceLate.cfg`
(`SubscribedIsCurrent`) and `MCRegistryDisplaced.cfg` (`NoneDisplaced`). Each is checked
with the MC module of its component, or the component itself if it has none.

Why the bounds are enough:

- Two devices and the desktop are the three parties a change of owner can involve:
  the one that loses the terminal, the one that gets it and one that only asks. The
  safety of the viewport modules is proved for any number of devices; two are also
  what the resolver needs to hand the lease round.
- Two tasks give every overlap of two handlers, of one device or of two. The steps
  of a task see nothing but the lease and the viewers, so what a third could add to
  the state the two can see, the desktop, the watcher and the transport already do;
  the safety of the handlers is proved for any number of tasks.
- A generation of 2 gives three states of the lease on the wire at different ages, two
  messages one that overtakes the other. Two losses are fewer than the three copies an
  input has, as many as `SurvivesLosses` may tolerate.
- In the output, a window of 2 of 3 characters makes a baseline cut off the beginning;
  a cache of 3 is larger than a baseline, so `Merge` joins, nests and replaces; 2 held
  batches overflow with the third; 2 requests allow a retry whose first answer comes
  late, a gap, or a reconnect. The cache of a phone being smaller than its baseline
  is not checked.
- A guard of window 2 forgets its first number at the third, and 7 numbers leave room
  for numbers skipped by more than the window.
- Two versions, two workers and a scan: both workers on one row, each on one, a row that
  waits while the other is retried, growth between any two steps of a scan. More rows
  and more scans are in the larger instances, and the invariants are proved for any
  number.
- A device overlaps with itself through two connections: an old one that ends in each
  of its five ways while the new one is bound, used, and given up in turn. Devices
  share nothing but the map, and what another one could disturb is proved not to be
  (`CloseKeepsRebound`, for any number).
- Three calls make a task that is overtaken by one that is overtaken itself, and leave a
  pairing overtaken between a stop and the next start. One copy is written back at a time,
  over anything that came since.
- Two tasks of the host give a change that is stamped, read and sent between any two
  steps of another; two changes make the first of them stale. A queue of 1 on a link of 2
  drops the second message or lets it through.
- Two requests for one task, two threads and two attempts: an operation that is claimed
  again after it failed, while the first monitor or thread is still there; two faults
  are a failing save and a restart, in either order, or two of a kind.
- Two threads and two sessions of one id: the newcomer and the one it replaces, with a
  close, a kill and a start overlapping in pairs.

The check for deadlock is off for the output (`MCTerminalOutput.cfg`: its characters and
requests are used up), the worktrees (claims and faults are bounded) and the transport
(its calls are bounded).

### Fairness

| Module | Assumed | Because |
|---|---|---|
| `ViewportViews` | weak: clock, reclaim, emission, repetition; strong: the current state is delivered to a device | the watcher polls every second, a thread that captured a state calls the sink next, a viewed terminal goes on printing, and a link that loses messages does not lose every one |
| `ViewportHandlers` | weak: clock, watcher, every task | the watcher polls; the runtime runs a spawned task to its end |
| `TerminalInput` | weak: timers, handling, write, acknowledgement of each copy | timers fire; a message that is not lost arrives; a task ends |
| `MemoryEnqueue`, `MemoryQueue` | weak: start and every worker; strong: a worker that has picked a row marks it | the timer starts passes while rows are pending, every call of the provider has a timeout, and no provider is unavailable at each try; the user starts the application again |
| `HostPeers` | weak: the tasks of a connection, the device's probes; strong: a device gives up a connection that does not answer | the tasks are spawned and not cancelled; the phone probes after 8 s and gives up after 4 s more, by which time a frame that arrived is assumed to have been handled |
| `HostTransport` | weak: the task of each generation, the calls and the copies under way | spawned tasks run; connecting has a timeout |
| `ResourceSync` | weak: tasks, delivery, the next connection; strong: a device subscribes | tasks run, a link that stays delivers, the device dials again and asks on every connection |
| `AgentWorktrees` | weak: the threads; some agent that is watched completes or fails | threads run; an agent ends its work, fails or exits with its terminal |
| `TerminalRegistry` | weak: the threads; a killed process exits; an exit takes its capability back | threads run; the kill ends the process and the exit watcher sees it |

`SequenceGuard`, `ViewportLease` and `TerminalOutput` are checked for safety only. The
scans have no fairness: nothing depends on one.
`NonOwnerConverges` has as premise that the device stays a viewer and that another
owner keeps the terminal. `TaskSettles` has as premise that the
application stays up and that rows are requeued for locks finitely often.

## 4. The proofs

| Module | Theorems | For every |
|---|---|---|
| `ViewportProofs`, ownership | `OwnershipTypeCorrect`, `OwnershipTakeoverHolds`, `OwnershipHeldUntilLapse` | set of devices, TTL |
| lease and views | `LeaseTypeCorrect`, `LeaseFences`, `LeaseTakeoverHolds`, `LeaseIsHeldUntilLapse`, `ViewsInvariant`, `ViewsTypeCorrect`, `ViewsOneStatePerGeneration`, `ViewsOneDriver`, `ViewsNeverStepBack` | and set of grids, minimum, names, any number of messages |
| handlers | `HandlersTypeCorrect`, `HandlersWritersDrove`, `HandlersTakeoverEndsByForce`, `HandlersOwnerOnRequest` | set of devices and tasks, TTL |
| `InputProofs`, guard | `GuardInvariant`, `GuardTypeCorrect`, `GuardAcceptsOnce`, `GuardDropsNothingNew`, `GuardNeverBack` | window |
| input | `TypeCorrect`, `InterruptsAtMostOnce` | number of inputs, attempts, losses |
| `TerminalOutputProofs` | `OutputTypeCorrect`, `OutputOrdered`, `OutputNeverBack`, `OutputCaughtUp` | window, cache, number of held batches, characters, requests and losses |
| `MemoryQueueProofs` | `QueueTypeCorrect`, `QueueRunningHasWorker`, `QueueSettledStays`, `EnqueueIsQueue`, `EnqueueSeenIsExtracted` | set of rows, workers and scans |
| `HostProofs`, peers | `PeersTypeCorrect`, `PeersReportedHasConnection`, `PeersCloseKeepsRebound` | set of devices, connections and streams, number of frames |
| transport | `TransportTypeCorrect`, `SlotStaysAlive`, `ConnectingIsWorkedOn`, `RestIsTrue` | number of calls |
| `AgentWorktreesProofs` | `WorktreesTypeCorrect`, `WorktreesDeliveryIsTrue`, `WorktreesUnfinishedHasWorker`, `WorktreesMonitorWatchesOwn`, `WorktreesKeepPromise` | set of requests and threads, number of attempts and faults |
| `TerminalRegistryProofs` | `RegistryTypeCorrect`, `GrantStaysAlive`, `NobodyOrphaned`, `TablesAgree` | set of threads and shapes, number of sessions |
| `ResourceSyncProofs` | `QuietStaysCurrent` | set of devices and tasks, number of changes and losses, any number of messages on a link |

The assumptions are those on the constants, named in each module (`OwnershipAssumption`,
`LeaseAssumption`, `HandlersAssumption`, `InputAssumption`, `GuardAssumption`,
`OutputAssumption`, `QueueAssumption`, `EnqueueAssumption`, `PeersAssumption`,
`TransportAssumption`, `WorktreesAssumption`, `RegistryAssumption`, `SyncAssumption`); TLC
evaluates them in every run. `QuietStaysCurrent` assumes besides that `Kinds` holds the
lists of projects and terminals only: for the others it is false (`MCResourceStale.cfg`).
The definitions of two components that one module proves about have names of their own
(`HandlersSpec`, `TransportSpec`). The arguments:

- **Ownership and lease.** The types are inductive as they stand, and the action
  properties follow from one step by cases on the methods. A step of
  the lease is one of the ownership by construction (`LeaseKeepsOwnership`);
  `LeaseTakeoverHolds` and `LeaseIsHeldUntilLapse` are then those of the ownership.
- **Views.** `OneDriver` is not inductive: it says nothing of the states that are
  captured or on the wire. The invariant is `NoneAhead` (whatever is about is not
  ahead of the lease, and what has the current generation is the current state) and
  `OneStatePerGeneration` (no two states that are about share a generation and
  differ). The only new state a step can bring about is the current one
  (`KnownStep`), and `LeaseFences` says that it has a new generation if it is
  different; so the whole argument rests on the four places in `session.rs` that bump
  the generation and on no order of emission or delivery.
- **Handlers.** `WritersDrove` looks at a task that is about to write, `WriteOrder` at all
  the steps any task has left: those of an input that has not been checked yet are before
  the check, which lets only the owner through, and what is past it has driven. It is true
  of every program (`ProgramInOrder`) and kept by every step (`TaskKeepsOrder`), however
  the owner changes in between. That a takeover ends by force only
  is `CanClaim` read for each step of a program. A change of owner to a device is a claim
  of the device a task works for, or `NextOwner` of what the resolver found among the
  viewers (`HandlersOwnerOnRequest`).
- **Input.** `IInv`: what is pending has copies left (`PendingMaySend`), what has not
  been typed has not been sent (`UntypedUnsent`), an interrupt has one copy
  (`InterruptsSentOnce`), and every copy on the wire, accepted or written was sent
  (`CopiesWereSent`). `InterruptsOnce` alone is not inductive: it does not exclude a
  second copy on the wire.
- **Guard.** `WindowRises`: a number the window holds lies at least its distance from the
  end below the maximum. Hence a number that has been forgotten is a window behind the
  maximum and too old (`Covers`), and nothing gets through twice. Without order
  (and without a state list) `WindowRises` fails, and so does `AcceptsOnce`.
- **Output.** `Ordered` says nothing of what is under way; `OrderInv` does. A batch, a
  flush and a live message are each one unbroken stretch of output (`Run`), so its start
  follows from its end and its length, which is all `append_live` looks at
  (`UncoveredShape`). What a pane shows rises and ends at its watermark (`Sound`). The
  answer to the active request is never older than the pane (`FreshReply`,
  `FreshBaseline`): its snapshot is read after the request, and the pane stands still
  while the phone waits (`Waits`). So a baseline that is merged ends the text
  (`MergeCases`, `MergeOK`), held batches are appended like live ones (`ReplayOK`),
  and both theorems follow. All of it is under `Untorn`: a torn batch is no stretch, and
  giving up ends the watermark.
- **Output, caught up.** `CaughtUp` looks at the end only; `CoverInv` says on the way there
  where each character is that the pane does not show. The pieces under way are in an
  order, held before sent before flushed before filling, in text and in number
  (`StreamInOrder`). A baseline has all that carries its number or an earlier one
  (`AnswersKnow`), because the number is read before the snapshot and a number is given
  only to text that is announced. What a bound phone that waits for nothing does not show
  is in a piece (`Shows`); for one that waits the same holds of the answer
  (`AnswerReaches`). `AcceptCovers` is the one step a piece makes onto the screen, and
  `ReplayCovers` makes it for each held batch in turn. `FullRuns` is why the whole output
  is one stretch after a merge: a rising text with as many characters as positions up to
  its last one has no hole. The invariant is claimed while `mishaps` is empty; each member
  of that set breaks one of its parts.
- **Queue.** `TypeOK /\ RunningHasWorker` is inductive: a row gets the status running
  by `MarkRunning` alone, and a worker that lets go of a row takes it out of that
  status, or leaves it in `locked`.

- **Scans.** What holds of the row a scan has enqueued, and of the one marked as seen, is
  `Covers`: if the row is done, an extraction has read that far, and who works on the row
  has read that far. Of a scan `ScanOK` says that it counts at least the lines of the
  version it read first; what it marks beyond a version that had its row, or beyond a text
  without signal, is `skipped`. `CoversKept` shows that every step of any actor keeps it,
  from five facts of every step (`Advances`): no row goes, nothing gets shorter, a row
  becomes done only under a worker that has read, and a worker reads the whole transcript
  or keeps what it has read. `EnqueueIsQueue` then gives the module all theorems of the
  queue.
- **Peers.** `Held`: a device none of whose frames came late is bound, if at all, to an
  own connection that is still in the map; `Shown`: it is shown as connected only while
  bound or about to be reported. Every end of a connection is the same three steps, so
  the property is what becomes of the names of a connection when those are taken.
- **Worktrees.** The invariant follows an operation through the hands that may change it:
  the thread that makes it (`MakersOK`), then the monitor of its agent (`MonitorsOK`), then
  the one delivery under the lock; no two of them have one operation. The file holds an
  earlier state of what memory holds (`Earlier`), which is why a restart cannot claim a
  delivery that did not happen. `WorktreesKeepPromise` maps each step to one of
  `AgentWorktreeLife` or to a stutter.

- **Transport.** `OldOnce`: a transport that is to be shut down is held by one task, by
  no other, and is not in the slot; `SlotStored` and `LiveHeld`: whatever runs is in the
  slot or in the hands of a task that has yet to compare, store or shut it down. They
  hold whatever overlaps, and none of the steps of a pairing that has its transport touches
  them. As long as nothing went astray, `Undisturbed` ties the step of
  the newest task to the slot and to what is shown, and `SwitchedOff` says that a host
  that is switched off has no transport and no task that could store one. `SlotAlive` is
  not inductive without `OldOnce`: nothing in it keeps two tasks from one transport.
- **Registry.** `Fresh`: the session a call is about to spawn is nobody else's and has
  no process; `SeenExited`: who found a process exited is right for good. With these,
  `GrantIsAlive` and `NoOrphan` are inductive for any overlap of calls. `AgreeAtRest`
  needs `OneByOne`: as long as no two calls have overlapped, one call at most is under
  way, and `Midway` gives for each of its steps what the three tables hold.
- **Resources.** `Reached`: for every device whose subscribe was handled and that is not
  `unsure`, the newest number is still to be taken by a task that will send to it, is in
  the hands of one that has it to send to, is on the link, or is the last the device
  accepted, with the content of the host. `Carried`: what has the newest number has the
  newest content, unless a change has yet to take its number. This is where the order of
  the number and the reading matters: `ReadKeepsInv` has the content of the moment under
  a number that was taken before it. `Subscribed` is why a device that is `Told` stays a
  subscriber: no report of an earlier connection is left that could remove it, and none
  can come, for the name has passed to the new one.

Every safety invariant and every action property a passing run checks is the property of
a theorem. Only model-checked: all liveness (`NonOwnerConverges`, `GoneDeviceLosesTerminal`,
`SurvivesLosses`, `InputSettles`, `TaskSettles`, `SettlesOnCurrent`, `GoneIsReported`,
`ConnectingSettles`, `ConnectedConverges`, `WaiterReturns`, `UnlistedEnds`), because
TLAPS does not prove liveness under fairness nor anything about `ENABLED`. The library's
induction theorems cannot be used; where a recursive function has to be followed
(`ReplayUpTo`), `Induct` proves the induction over a set of numbers from `LeastElement`,
and `ReplayIsDefined` that the function exists.

## 5. Findings

Eight configurations show a behaviour of the code that a comment or document of the
repository excludes, or that its wording invites to exclude. The first is a run of
`PROJECT.json`, which quotes the line; the others are kept as counterexamples.

1. `handlers_desktop_back`. Subscriptions outlive their devices: a task that was
   started before the disconnect registers the viewer again, and a reconnect of the
   host ignores the "closed" of the devices of the old transport. Two that are left
   pass the expired lease to each other and it never reverts to the desktop.
2. `MCViewportHandoffLost.cfg`. The owner is repeated with the output to viewers that do
   not own the lease only (`host/terminal_state.rs:910`). A device that was handed the
   terminal and lost that message renews the lease with its output acks and is never
   told that it drives.
3. `MCInputTwice.cfg`. The host does not compare input ids: an input whose
   acknowledgement is later than the retry timer is written twice.
4. `MCMemoryLocked.cfg`. A row whose outcome, or whose recovery at the start, meets a
   lock stays running, and no pass selects it.
5. `MCOutputRepair.cfg`. A phone that reconnects and gets a live batch before its
   baseline has a hole that the baseline covers; `merge_baseline_content` throws the
   baseline away because its window lies inside what the phone holds.
6. `MCResourceStale.cfg`. A Git status (and a worktree list) is read before its number is
   taken (`host/send.rs:170`): of two overlapping reads the older can get the newer number,
   and the device keeps it until the next change.
7. `MCResourceLate.cfg`. The end of a connection is noticed, a new connection of the device
   subscribes, and then the end is reported: `remove_device` takes the new subscriptions
   (`iroh_link.rs:602-608` reports after the name was taken and outside the lock, and neither
   `host/transport.rs:164-175` nor `host/terminal_state.rs:692-706` compares connections). The
   device is no viewer any more and misses every change until it subscribes again.
8. `MCRegistryDisplaced.cfg`. Two starts of one terminal both find none, and the later
   insert replaces the session of the earlier one, whose process goes on in no table.

## 6. Further behaviours met while modelling

These are in the models or follow from the code; no property is stated of them, or
the properties except them.

- A baseline request claims the terminal by itself (the "automatic" claim before it is
  answered, `host/terminal_buffer.rs:90`), though `docs/protocol.md:86` says that
  requests "never implicitly steal ownership". Only the untouched desktop can lose the
  terminal this way (`TakeoverEndsByForce`).
- A full window forgets the number it has held longest, not the lowest
  (`core/sequence_guard.rs:66`, `docs/protocol.md:26`); after reordering, a duplicate
  passes. `AcceptsOnce` is therefore stated for the kept order and for state lists.
- `owner_label` is never cleared when the owner changes (`session.rs:772`), so the name
  of a device outlives its ownership.
- An input whose timer fires while another session is on the screen is not armed again:
  it stays pending, never sent, when the user comes back.
- The headless agent never calls `recover_interrupted_extraction_tasks`
  (`apps/agent/src/memory.rs`): its interrupted rows stay running.
- The first live batch after a baseline is accepted under whatever number it has
  (`core/output_sequence.rs:102`): a batch lost in between is a hole that is not
  noticed, although the comment at lines 26-28 promises a gap. `CaughtUp` excepts
  losses for this reason.
- Giving up on a baseline (`mobile/screens/home/home_controller.dart:420`) forgets the
  held batches and the watermark but not the request: its late answer is accepted, and
  the text can have a hole, be doubled or step back. All three properties of the output
  except it.
- When more than 2048 batches are held, the oldest are dropped and no gap is noticed on
  replay (`core/remote_pty.rs:184`).
- A phone that is forgotten and subscribes again within one batch interval gets a batch
  torn in the middle, whose position cannot be told from its end; its text can be doubled.
- A scan reads the transcript three times: its size and time for the fingerprint, its text
  for the preflight (`queue/enqueue.rs:22`), its lines for what is remembered as seen
  (`queue/source_state.rs:91`, `:300`). If the agent writes in between, and the version
  that was read first has its row already (it was extracted and failed, was cleared, or is
  done), no row is made for the growth, and it is marked as seen; the same happens when
  the text that was read has no signal and the lines counted after it do. The growth is
  extracted only when as much has been written again (`MCMemorySkipped.cfg`).
  `SeenIsExtracted` excepts both. A row that fails keeps its growth marked as seen as well
  (`queue/enqueue.rs:108`).
- The cooldown counts from the time a done row was enqueued, not from its completion
  (`queue/source_state.rs:54`). `enqueue_completed_session_if_ready` has no caller outside
  tests.
- A frame that is handled after its connection was closed binds the device to a dead peer
  and shows it as connected until the device dials again; `ReportedHasConnection` excepts it
  (`stray`). Two connections that steal the
  name of a device from each other for ever are excluded by the assumption on probes in
  section 3.
- A pairing shows "connected" without a look at the generation or the transport: when its
  own start was overtaken and returned Ok (`host/transport.rs:282`, `:331`,
  `host/pairing.rs:155`), and when a pairing is confirmed, found expired or cancelled
  (`host/pairing.rs:83`, `:199`, `:231`). A stop in the middle of a pairing therefore
  leaves a host that shows "connected" and has no transport. A device message that copies
  the status while a start, stop or failure is noted writes the old status back
  (`host/send.rs:360`, with no generation when it comes from `host/transport.rs:410`); a
  copy made of the settings between their change and the start that follows shows
  "connecting" before there is a task, and the start then takes itself to be under way. A
  pairing that cannot connect leaves "connecting" (`host/pairing.rs:126`), with the same
  effect. All of them set `astray`, so `ConnectingHasTask`, `QuietHostIsTrue` and
  `ConnectingSettles` say nothing of them; `SlotAlive` holds through all. The restart
  after a transport-wide "closed" never happens on the iroh host.
- A message for a connection whose queue is full is dropped (`iroh_link.rs:624`), and
  `host/send.rs` does not look at the result: a device that keeps its connection misses a
  change until the next one. `QuietIsCurrent` and `ConnectedConverges` except it and the late
  report of section 5 (`unsure`).
- An input is acknowledged before the terminal is started and written to
  (`host/terminal_dispatch.rs:346`); when that fails the phone has settled it.
- Between the check of an input and its write the terminal may be started and change hands
  (`host/terminal_dispatch.rs:324`): the write of a device that has lost it meanwhile still
  reaches the PTY. `WritersDrove` says that no other does.
- Two passes, or a pass and the user, may take one row; it is extracted twice and the later
  outcome replaces the earlier (`queue/process.rs:72`).
- Lists are numbered before they are read, so a device can show a newer list and then
  step back to an older one until the next arrives; at rest it has the newest.
  Removing a project or a session removes its versions on the host while the device's
  watermark stays.
- Two attaches that overlap may both start a session; the later insert displaces the
  other, whose process goes on. `kill_and_wait` removes by id after its wait, so a session
  started meanwhile drops out of the map with its process running; a revoke or unbind by
  id can hit a newer session. After a close whose wait expires, the session stays without
  its capability. All set `displaced` or `overlapped`.
- A runtime that stops between the making of a worktree and `mark_starting` leaves a
  worktree nobody tracks. A removal that was done and not saved leaves "merged" and is
  tried again; a merge whose save failed returns at once when it is asked for again,
  because memory says merged.
- A session created again under its id starts at generation 0 (`manager.rs:176`): a device
  that holds a higher one ignores every state until it reconnects. The exit of a terminal
  does not clear its pending batch (`host/terminal_state.rs:740`): output can follow
  "closed" and start a new numbering. A session that was left and is shown again from the
  phone's cache gets no baseline.
- Two flushes that overtake each other leave the text of the earlier one out. The
  watermark keeps the order (`Ordered`), nothing repairs the hole.

## 7. What is left out

- Of the viewport: query colours, scroll positions, the screen behind a resize.
- Of the handlers: create, list, close, upload and their answers; an input for a terminal
  that has no session, which is written without an owner to check
  (`host/terminal_dispatch.rs:324`, `Err(_) => true`).
- Of the input: the 2 ms batching of keys, and the headless agent's handler, which
  acknowledges after the write.
- Of the output: the keyframe of the visible rows, the chunks of a baseline and a
  baseline that fails, sessions the phone keeps but does not show, the exit of the
  terminal, paging back through the history.
- Of the memory queue: which sessions a scan picks, the seconds of the cooldown, the
  settings that turn the gate off, the hash of the transcript's first lines, the tail of
  it an extraction reads, what an extraction writes.
- Of the peers: the queues between the host and a peer (delivered or not), pairing tickets.
  Of the transport: the settings it saves, the relay (fixed), more than one pairing at once
  over the transport in use.
- Of the resources: more than one key; the removal of keys; the phone's choice of which
  resources it wants.
- Of the worktrees: the control connection an agent calls through, the check of its scope,
  the prompt file, the backup path of the file on Windows; a monitor that cannot be
  started ends its operation in one step.
- Of the registry: errors of a kill, terminals without a scope (which get no capability),
  listing, query colours.
- Below the envelopes, the terminal modules see the transport as an environment that
  loses, delays and reorders as far as its queues and streams allow; `HostPeers` is not
  composed with them.

### Not modelled

Of the rest of the repository (the component list of `PROJECT.json` names every part),
most is rendering, conversion of foreign formats, wrappers of Git, files and network
requests, or records written as a whole: there is no protocol to get wrong, and a model
would repeat the code. By lines that is nearly all of it (the user interfaces, settings,
the headless screen, history parsing), so the share of the implementation that the
modules map stays at about two per cent. Three parts have behaviour of the kind
modelled here and are left: the pane agent lifecycle, the reconciliation of hook and
probe events, and the desktop as a client of another host, which follows the protocol
the phone follows.

## 8. Plan

What could be added next, in this order:

1. **Composition of `TerminalRegistry` with `ViewportViews` and `TerminalOutput`**: a
   session that is created again starts at generation 0, and its exit leaves a batch
   behind; the two behaviours of section 6 as properties that fail.
2. **Pane agent lifecycle** (`agent_lifecycle.rs`): local hooks, probes, remote
   statuses and disconnects in any order. The change document
   `docs/spec/changes/add-agent-lifecycle-fsm-2026-07-04` has a finished agent decay to
   idle after three seconds; the code has no such timer.
3. **An abstract output stream**: what the phone shows as a subsequence of what was
   printed; `TerminalOutput` shown to implement it, with the sessions a phone keeps
   without showing them.
4. **Reconciliation of hook and probe events** (`live/ai_runtime/supervisor.rs`), if the
   foreign formats leave enough of it to model.
