--------------------------- MODULE SequenceGuard ---------------------------
(***************************************************************************)
(* The receiver's guard against duplicate and old envelopes, one channel   *)
(* of it (crates/codux-terminal-core/src/sequence_guard.rs).  The sender   *)
(* numbers its envelopes with one counter for all channels, and a device   *)
(* that reconnects seeds it with the time, so the numbers of a channel go  *)
(* up by any amount.  An envelope may arrive several times.  Envelopes     *)
(* arrive in the order they were numbered (InOrder: one stream, numbered   *)
(* by one thread) or in any order: there are two streams, the host sends   *)
(* after it has let go of the counter's lock, and it handles each envelope *)
(* it receives in a task of its own.                                       *)
(***************************************************************************)
EXTENDS Naturals, Sequences

CONSTANT
    Window          \* max_entries_per_channel

ASSUME GuardAssumption == Window \in Nat \ {0}

VARIABLES
    channel,        \* what the channel carries, fixed from the start
    sent,           \* the numbers sent in this channel
    delivered,      \* those that have arrived at least once
    letThrough,     \* those the guard has let through
    seen,           \* RemoteSequenceWindow.seen
    maxSequence     \* RemoteSequenceWindow.max_sequence

guardVars == <<seen, maxSequence>>
envelopeVars == <<channel, sent, delivered, letThrough, guardVars>>

\* requires_monotonic_state(kind): the channel of a state list.
Monotonic == channel.monotonic

\* The envelopes arrive in the order of their numbers.
InOrder == channel.inOrder

GuardInit ==
    /\ channel \in [monotonic : BOOLEAN, inOrder : BOOLEAN]
    /\ sent = {}
    /\ delivered = {}
    /\ letThrough = {}
    /\ seen = <<>>
    /\ maxSequence = 0

\* The next envelope of this channel.
Send(n) ==
    /\ \A m \in sent : m < n
    /\ sent' = sent \cup {n}
    /\ UNCHANGED <<channel, delivered, letThrough, guardVars>>

----------------------------------------------------------------------------

Seen == {seen[i] : i \in DOMAIN seen}

\* RemoteSequenceWindow::accept.
TooOldByOne(n) == maxSequence > Window /\ n < maxSequence - Window
TooOld(n) == maxSequence > Window /\ n <= maxSequence - Window
StepsBack(n) == Monotonic /\ n < maxSequence

AcceptsEarly(n) == maxSequence <= Window /\ ~StepsBack(n) /\ n \notin Seen
Accepts(n) == ~TooOld(n) /\ ~StepsBack(n) /\ n \notin Seen

\* The window forgets the number it has held longest.
Push(n) == IF Len(seen) = Window THEN Tail(Append(seen, n)) ELSE Append(seen, n)

Take(n) ==
    /\ Accepts(n)
    /\ letThrough' = letThrough \cup {n}
    /\ seen' = Push(n)
    /\ maxSequence' = IF n > maxSequence THEN n ELSE maxSequence

Drop(n) ==
    /\ ~Accepts(n)
    /\ UNCHANGED <<letThrough, guardVars>>

\* An envelope arrives, for the first time or again.
Arrives(n) ==
    /\ n \in sent
    /\ InOrder /\ n \notin delivered => \A m \in sent \ delivered : n <= m
    /\ delivered' = delivered \cup {n}
    /\ UNCHANGED <<channel, sent>>

Deliver(n) == Arrives(n) /\ (Take(n) \/ Drop(n))

GuardNext == \E n \in Nat \ {0} : Send(n) \/ Deliver(n)

GuardSpec == GuardInit /\ [][GuardNext]_envelopeVars

----------------------------------------------------------------------------

GuardTypeOK ==
    /\ channel \in [monotonic : BOOLEAN, inOrder : BOOLEAN]
    /\ sent \subseteq Nat \ {0}
    /\ delivered \subseteq sent
    /\ letThrough \subseteq delivered
    /\ seen \in Seq(Nat)
    /\ Len(seen) <= Window
    /\ maxSequence \in Nat

\* No envelope is let through twice while the order is kept, and no state list
\* is in whatever order it arrives.
AcceptsOnce ==
    [][InOrder \/ Monotonic => \A n \in letThrough : ~Take(n)]_envelopeVars

\* An envelope that arrives for the first time is let through: the guard
\* costs nothing while the order is kept.
DropsNothingNew ==
    [][InOrder => \A n \in sent \ delivered : ~(Arrives(n) /\ Drop(n))]_envelopeVars

\* State lists (project.list, terminal.list, ...) never go back to an older
\* one, whatever the order they arrive in.
NeverBack ==
    [][Monotonic => \A n \in sent : Take(n) => \A m \in letThrough : m < n]_envelopeVars
============================================================================
