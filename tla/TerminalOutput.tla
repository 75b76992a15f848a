--------------------------- MODULE TerminalOutput ---------------------------
(***************************************************************************)
(* What a terminal prints, from the PTY to the phone that watches it.      *)
(*                                                                         *)
(* The host commits what the process prints to the history, batches it for *)
(* its viewers and flushes a batch under the next output number            *)
(* (capture.rs, terminal_state.rs); a request for a baseline is answered   *)
(* with a snapshot of the history (terminal_buffer.rs).  The phone appends *)
(* live batches, notices a missing number, asks for a baseline, holds live *)
(* batches until it is there and merges it with what it has                *)
(* (output_sequence.rs, remote_output_router.rs, remote_pty.rs).           *)
(*                                                                         *)
(* One terminal, on the screen of one phone, for as long as it lives.  A   *)
(* character is its position in what the terminal has printed, so two      *)
(* texts are equal exactly if they are the same stretch of output.  The    *)
(* keyframe of the visible rows that a baseline carries is left out: it    *)
(* repaints those rows and changes nothing of the history.                 *)
(***************************************************************************)
EXTENDS Naturals, Sequences, SequencesExt, FiniteSetsExt

CONSTANTS
    MaxChars,       \* bound: characters printed
    Window,         \* characters of a baseline (maxChars)
    Cache,          \* characters the phone keeps (max_cached_chars)
    MaxHeld,        \* live batches held (MAX_HELD_LIVE)
    MaxRequests,    \* bound: baseline requests
    MaxLosses       \* bound: messages to the phone that are lost

ASSUME OutputAssumption ==
    /\ {MaxChars, MaxRequests, MaxLosses} \subseteq Nat
    /\ {Window, Cache, MaxHeld} \subseteq Nat \ {0}

VARIABLES
    history,        \* characters committed to the history (total_chars)
    announced,      \* those the reader has announced as well
    viewer,         \* the phone is subscribed to the terminal
    batch,          \* terminal_output_batches: its data
    flushes,        \* flushes that have taken a batch and not sent it
    outputSeq,      \* last output number given
    replies,        \* baseline requests being answered
    asks,           \* subscriptions on their way to the host: baseline requests,
                    \* and 0 for one that wants no baseline
    wire,           \* messages on their way to the phone
    pane,           \* what the phone shows and knows of its order
    awaiting,       \* awaiting_baseline
    held,           \* live batches held meanwhile
    request,        \* the active baseline request, 0 if there is none
    link,           \* "gone", "back" or "bound": the phone's connection
    lastRequest,    \* requests made so far
    losses,         \* messages lost so far
    mishaps         \* history: "lost", "overtaken", "gaveUp", "overflow", "torn"

hostVars == <<history, announced, viewer, batch, flushes, outputSeq, replies>>
phoneVars == <<pane, awaiting, held, request, link, lastRequest>>
vars == <<hostVars, asks, wire, phoneVars, losses, mishaps>>

Reply(id, step, n, end) == [id |-> id, step |-> step, seq |-> n, end |-> end]
Live(data, n) == [kind |-> "live", id |-> 0, data |-> data, end |-> Last(data), seq |-> n]

\* A pane that has seen no number.
Unordered(content, end) ==
    [content |-> content, end |-> end, seq |-> 0, rebase |-> FALSE, gap |-> FALSE]

Newest(s, n) == SubSeq(s, IF Len(s) > n THEN Len(s) - n + 1 ELSE 1, Len(s))
Printed(from, to) == [i \in 1..(to - from) |-> from + i]

Init ==
    /\ history = 0
    /\ announced = 0
    /\ viewer = FALSE
    /\ batch = <<>>
    /\ flushes = {}
    /\ outputSeq = 0
    /\ replies = {}
    /\ asks = {}
    /\ wire = <<>>
    /\ pane = Unordered(<<>>, 0)
    /\ awaiting = FALSE
    /\ held = {}
    /\ request = 0
    /\ link = "gone"
    /\ lastRequest = 0
    /\ losses = 0
    /\ mishaps = {}

----------------------------------------------------------------------------
(* The host. *)

\* A message enters the terminal stream of the phone's connection, or is dropped:
\* the phone is not there, or the queue is full.
Send(m, happened) ==
    \/ /\ link # "gone"
       /\ wire' = Append(wire, m)
       /\ mishaps' = mishaps \cup happened
       /\ UNCHANGED losses
    \/ /\ link = "gone"
       /\ mishaps' = mishaps \cup happened
       /\ UNCHANGED <<wire, losses>>
    \/ /\ link # "gone"
       /\ losses < MaxLosses
       /\ losses' = losses + 1
       /\ mishaps' = mishaps \cup happened \cup {"lost"}
       /\ UNCHANGED wire

\* The reader commits what it has read, under output_commit, ...
Commit ==
    /\ history = announced
    /\ history < MaxChars
    /\ history' = history + 1
    /\ UNCHANGED <<announced, viewer, batch, flushes, outputSeq, replies,
                   asks, wire, phoneVars, losses, mishaps>>

\* ... and announces it afterwards; with nobody watching it goes no further.
Announce ==
    /\ announced < history
    /\ announced' = history
    /\ batch' = IF viewer THEN Append(batch, history) ELSE batch
    /\ UNCHANGED <<history, viewer, flushes, outputSeq, replies,
                   asks, wire, phoneVars, losses, mishaps>>

\* A flush takes its number before, or is sent before, one of these, which has
\* taken an earlier batch.
Overtaking(f, others) ==
    IF \E g \in others : g.data[1] < f.data[1] THEN {"overtaken"} ELSE {}

\* The flush that was scheduled with the batch's first text takes the batch, ...
TakeBatch ==
    /\ batch # <<>>
    /\ batch' = <<>>
    /\ flushes' = flushes \cup {[data |-> batch, seq |-> 0]}
    /\ UNCHANGED <<history, announced, viewer, outputSeq, replies,
                   asks, wire, phoneVars, losses, mishaps>>

\* ... its number ...
NumberBatch(f) ==
    /\ f.seq = 0
    /\ outputSeq' = outputSeq + 1
    /\ flushes' = (flushes \ {f}) \cup {[data |-> f.data, seq |-> outputSeq']}
    /\ mishaps' = mishaps \cup Overtaking(f, {g \in flushes : g.seq = 0})
    /\ UNCHANGED <<history, announced, viewer, batch, replies,
                   asks, wire, phoneVars, losses>>

\* ... and is sent.
SendBatch(f) ==
    /\ f.seq > 0
    /\ flushes' = flushes \ {f}
    /\ Send(Live(f.data, f.seq), Overtaking(f, flushes))
    /\ UNCHANGED <<history, announced, viewer, batch, outputSeq, replies,
                   asks, phoneVars>>

\* A subscription makes the phone a viewer (a batch that has been waiting since
\* it was last one is torn).  A task of its own answers a baseline request: it ...
Subscribe(id) ==
    /\ id \in asks
    /\ asks' = asks \ {id}
    /\ viewer' = TRUE
    /\ replies' = IF id = 0 THEN replies ELSE replies \cup {Reply(id, "sequence", 0, 0)}
    /\ mishaps' = IF ~viewer /\ batch # <<>> THEN mishaps \cup {"torn"} ELSE mishaps
    /\ UNCHANGED <<history, announced, batch, flushes, outputSeq,
                   wire, phoneVars, losses>>

SnapshotFirst(r) ==
    \/ /\ r.step = "sequence"
       /\ replies' = (replies \ {r}) \cup {Reply(r.id, "snapshot", r.seq, history)}
    \/ /\ r.step = "snapshot"
       /\ replies' = (replies \ {r}) \cup {Reply(r.id, "send", outputSeq, r.end)}
\* ... reads the number of the output and then the history, ...
ReadBaseline(r) ==
    \/ /\ r.step = "sequence"
       /\ replies' = (replies \ {r}) \cup {Reply(r.id, "snapshot", outputSeq, r.end)}
    \/ /\ r.step = "snapshot"
       /\ replies' = (replies \ {r}) \cup {Reply(r.id, "send", r.seq, history)}

Prepare(r) ==
    /\ ReadBaseline(r)
    /\ UNCHANGED <<history, announced, viewer, batch, flushes, outputSeq,
                   asks, wire, phoneVars, losses, mishaps>>

\* ... and sends the last characters of the history under that number.
Baseline(r) ==
    [kind |-> "baseline", id |-> r.id, data |-> Newest(Printed(0, r.end), Window),
     end |-> r.end, seq |-> r.seq]

Answer(r) ==
    /\ r.step = "send"
    /\ replies' = replies \ {r}
    /\ Send(Baseline(r), {})
    /\ UNCHANGED <<history, announced, viewer, batch, flushes, outputSeq,
                   asks, phoneVars>>

----------------------------------------------------------------------------
(* The phone. *)

\* A new request replaces the active one; live batches are held from now on.
Request ==
    /\ lastRequest < MaxRequests
    /\ lastRequest' = lastRequest + 1
    /\ request' = lastRequest'
    /\ asks' = asks \cup {request'}
    /\ awaiting' = TRUE
    /\ held' = {}

Minus(a, b) == IF a > b THEN a - b ELSE 0

\* What of a batch the watermark does not cover; the batch is taken to be a
\* stretch of output that ends at m.end.
UncoveredAll(p, m) == m.data
Uncovered(p, m) ==
    LET covered == Min({Minus(p.end, Minus(m.end, Len(m.data))), Len(m.data)})
    IN  SubSeq(m.data, covered + 1, Len(m.data))

\* A live batch: a duplicate is dropped; a number that is left out is a gap,
\* unless this is the first batch after a baseline.
AcceptLive(p, m) ==
    IF m.seq <= p.seq
    THEN p
    ELSE [content |-> Newest(p.content \o Uncovered(p, m), Cache),
          end     |-> Max({p.end, m.end}),
          seq     |-> m.seq,
          rebase  |-> FALSE,
          gap     |-> p.gap \/ (~p.rebase /\ p.seq > 0 /\ m.seq > p.seq + 1)]

\* merge_baseline_content: two windows given by their last position; windows
\* that do not touch, or do not agree where they overlap, are not joined.
Merge(old, oldEnd, new, newEnd) ==
    LET oldStart == Minus(oldEnd, Len(old))
        newStart == Minus(newEnd, Len(new))
        Join(a, b, n) ==
            IF Newest(a, n) = SubSeq(b, 1, n)
            THEN a \o SubSeq(b, n + 1, Len(b))
            ELSE new
    IN  IF old = <<>> \/ oldEnd = 0 THEN new
        ELSE IF newStart >= oldStart /\ newEnd <= oldEnd THEN old
        ELSE IF newEnd < oldStart \/ oldEnd < newStart THEN new
        ELSE IF newStart >= oldStart THEN Join(old, new, oldEnd - newStart)
        ELSE Join(new, old, Min({newEnd - oldStart, Len(old)}))

\* An empty baseline leaves what is shown alone.
AcceptBaseline(p, m) ==
    [content |-> IF m.data = <<>> THEN p.content
                 ELSE Newest(Merge(p.content, p.end, m.data, m.end), Cache),
     end     |-> IF m.data = <<>> THEN p.end ELSE m.end,
     seq     |-> m.seq,
     rebase  |-> TRUE,
     gap     |-> FALSE]

\* The batch with number n, if it is there.
ReplayOne(p, batches, n) ==
    IF \E m \in batches : m.seq = n
    THEN AcceptLive(p, CHOOSE m \in batches : m.seq = n)
    ELSE p

ReplayUpTo(p, batches) ==
    LET upTo[n \in Nat] == IF n <= p.seq THEN p ELSE ReplayOne(upTo[n - 1], batches, n)
    IN  upTo

ReplayNone(p, batches) == p
\* The held batches that are newer than the baseline, in their order.
Replay(p, batches) ==
    LET newer == {m.seq : m \in batches} \ 0..p.seq
    IN  IF newer = {} THEN p ELSE ReplayUpTo(p, batches)[Max(newer)]

\* While the baseline is awaited live batches are held, each once, and of too
\* many the newest.
HeldWith(m) == IF \E h \in held : h.seq = m.seq THEN held ELSE held \cup {m}
HeldNewest(m) ==
    LET all    == HeldWith(m)
        oldest == CHOOSE h \in all : \A g \in all : h.seq <= g.seq
    IN  IF Cardinality(all) > MaxHeld THEN all \ {oldest} ELSE all

Hold(m) ==
    /\ awaiting
    /\ held' = HeldNewest(m)
    /\ mishaps' = IF held' = HeldWith(m) THEN mishaps ELSE mishaps \cup {"overflow"}
    /\ UNCHANGED <<pane, awaiting, request, lastRequest, asks>>

\* A new gap is a reason to ask, unless the phone has just asked for another
\* (_terminalBaselineResyncAllowed).
Show(m) ==
    /\ ~awaiting
    /\ pane' = AcceptLive(pane, m)
    /\ \/ pane'.gap /\ ~pane.gap /\ request = 0 /\ Request
       \/ UNCHANGED <<awaiting, held, request, lastRequest, asks>>
    /\ UNCHANGED mishaps

AnswersAny(m) == request # 0 \/ pane.content = <<>>
\* The baseline is the one asked for, or the pane has nothing to lose.
Answers(m) == IF request = 0 THEN pane.content = <<>> ELSE m.id = request

Restore(m) ==
    /\ Answers(m)
    /\ pane' = Replay(AcceptBaseline(pane, m), held)
    /\ \/ pane'.gap /\ Request
       \/ /\ request' = 0 /\ awaiting' = FALSE /\ held' = {}
          /\ UNCHANGED <<lastRequest, asks>>
    /\ UNCHANGED mishaps

Ignore(m) ==
    /\ ~Answers(m)
    /\ UNCHANGED <<pane, awaiting, held, request, lastRequest, asks, mishaps>>

Receive ==
    /\ wire # <<>>
    /\ wire' = Tail(wire)
    /\ LET m == Head(wire)
       IN  IF m.kind = "live" THEN Hold(m) \/ Show(m) ELSE Restore(m) \/ Ignore(m)
    /\ UNCHANGED <<hostVars, link, losses>>

\* The request has stalled, the slow heartbeat goes off, or the phone wants a
\* fresh baseline: it comes to the foreground, it has become the owner.
Refresh ==
    /\ link = "bound" \/ request # 0
    /\ Request
    /\ UNCHANGED <<hostVars, wire, pane, link, losses, mishaps>>

\* After the last retry the phone shows what it gets.  Retries are not counted:
\* the phone may give up whenever it waits, and ask once more.
GiveUp ==
    /\ awaiting
    /\ lastRequest < MaxRequests
    /\ pane' = Unordered(pane.content, 0)
    /\ awaiting' = FALSE
    /\ held' = {}
    /\ mishaps' = mishaps \cup {"gaveUp"}
    /\ UNCHANGED <<hostVars, asks, wire, request, link, lastRequest, losses>>

\* The transport closes: the request is forgotten, what was on its way is lost.
\* (Bound: a phone that leaves can come back.)
Disconnect ==
    /\ link # "gone"
    /\ lastRequest < MaxRequests
    /\ link' = "gone"
    /\ request' = 0
    /\ awaiting' = FALSE
    /\ held' = {}
    /\ wire' = <<>>
    /\ asks' \in {asks, {}}
    /\ UNCHANGED <<hostVars, pane, lastRequest, losses, mishaps>>

\* The host notices that the phone is gone, or never does; with a new connection
\* in its place the end of the old one is not reported.
Forget ==
    /\ link = "gone"
    /\ viewer
    /\ viewer' = FALSE
    /\ UNCHANGED <<history, announced, batch, flushes, outputSeq, replies,
                   asks, wire, phoneVars, losses, mishaps>>

\* The host hears of the phone on a new connection and takes it for the phone's.
Reconnect ==
    /\ link = "gone"
    /\ link' = "back"
    /\ UNCHANGED <<hostVars, asks, wire, pane, awaiting, held, request,
                   lastRequest, losses, mishaps>>

\* The phone is told what the host can do and subscribes: it forgets the order
\* and asks for a baseline, unless it waits for one already.
Resubscribe ==
    /\ link = "back"
    /\ link' = "bound"
    /\ IF request = 0
       THEN Request /\ pane' = Unordered(pane.content, pane.end)
       ELSE /\ asks' = asks \cup {0}
            /\ UNCHANGED <<pane, awaiting, held, request, lastRequest>>
    /\ UNCHANGED <<hostVars, wire, losses, mishaps>>

----------------------------------------------------------------------------

HostStep ==
    \/ Commit
    \/ Announce
    \/ TakeBatch
    \/ \E f \in flushes : NumberBatch(f) \/ SendBatch(f)
    \/ \E id \in asks : Subscribe(id)
    \/ \E r \in replies : Prepare(r) \/ Answer(r)
    \/ Forget

PhoneStep ==
    \/ Receive
    \/ Refresh
    \/ GiveUp
    \/ Disconnect
    \/ Reconnect
    \/ Resubscribe

Next == HostStep \/ PhoneStep

Spec == Init /\ [][Next]_vars

----------------------------------------------------------------------------

Positions == 1..MaxChars

TypeOK ==
    /\ announced \in 0..history
    /\ history \in 0..MaxChars
    /\ batch \in Seq(Positions)
    /\ \A f \in flushes : f.data \in Seq(Positions) /\ f.seq \in 0..outputSeq
    /\ \A r \in replies : r.seq \in 0..outputSeq /\ r.end \in 0..history
    /\ asks \subseteq 0..lastRequest
    /\ request \in 0..lastRequest
    /\ pane.content \in Seq(Positions)
    /\ pane.end \in 0..history
    /\ pane.seq \in 0..outputSeq
    /\ link \in {"gone", "back", "bound"}
    /\ held # {} => awaiting
    /\ Cardinality(held) <= MaxHeld
    /\ \A m \in held : m.kind = "live"
    /\ mishaps \subseteq {"lost", "overtaken", "gaveUp", "overflow", "torn"}

Whole(s) == \A i \in 1..(Len(s) - 1) : s[i + 1] = s[i] + 1

Untorn == mishaps \cap {"gaveUp", "torn"} = {}

\* Safety.  Whatever is lost, late or overtaken, and however often the phone
\* reconnects, nothing is shown twice and nothing before what came earlier: the
\* watermark cuts what a baseline has already brought (append_live,
\* remote_pty.rs), and of two baselines only the one asked for counts.
Ordered ==
    Untorn => \A i \in 1..(Len(pane.content) - 1) : pane.content[i + 1] > pane.content[i]

\* All is quiet: everything printed has been sent and has arrived, and the phone
\* waits for nothing.
Quiet ==
    /\ announced = history /\ batch = <<>> /\ flushes = {} /\ replies = {}
    /\ asks = {} /\ wire = <<>> /\ request = 0 /\ link = "bound"

\* Safety.  Between the number, the snapshot and the live batches nothing falls
\* through: after any number of baselines, retries and reconnects a phone for
\* which all is quiet shows the end of the output, and all of it while the
\* terminal has not printed more than a baseline holds.  (A lost message, a
\* flush that overtakes another, a baseline given up and an overflow of the held
\* batches are excepted: see BaselineRepairs and the README.)
CaughtUp ==
    Quiet /\ mishaps = {} =>
        /\ history > 0 => pane.content # <<>> /\ Last(pane.content) = history
        /\ history <= Window => Whole(pane.content)

\* Action property.  A step never takes back the end of what the phone shows: a
\* baseline that is older than the screen does not replace it.
NeverBack ==
    [][pane.content # <<>> /\ Untorn =>
        pane'.content # <<>> /\ Last(pane'.content) >= Last(pane.content)]_vars

\* What the comment on merge_baseline_content says (remote_pty.rs:413): a
\* baseline that cannot be aligned with what is shown replaces it, so that a
\* phone for which all is quiet has no hole in what it shows.
BaselineRepairs == Quiet /\ mishaps = {} => Whole(pane.content)
=============================================================================
