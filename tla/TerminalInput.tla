--------------------------- MODULE TerminalInput ---------------------------
(***************************************************************************)
(* What a phone types into one terminal, from the key press to the write   *)
(* into the PTY.  The phone keeps an input and sends it again until an     *)
(* acknowledgement names it, at most MaxAttempts times                     *)
(* (terminal_input_reliable_sender.dart); the host handles each copy in a  *)
(* task of its own, acknowledges it before it writes it, and refuses it    *)
(* when the device does not drive the terminal                             *)
(* (terminal_dispatch.rs, handle_terminal_input).  A copy is a new         *)
(* envelope with a number of its own, so the sequence guard lets each one  *)
(* through.  Keys are batched into inputs before they get here.            *)
(***************************************************************************)
EXTENDS Naturals

CONSTANTS
    MaxInputs,      \* bound: inputs typed in a behaviour
    MaxAttempts,    \* maxAttempts of the sender
    Interrupts,     \* the inputs that are a Ctrl-C
    MaxLosses       \* bound: messages lost on the way

ASSUME InputAssumption ==
    /\ MaxInputs \in Nat
    /\ MaxAttempts \in Nat \ {0}
    /\ Interrupts \subseteq 1..MaxInputs
    /\ MaxLosses \in Nat

Inputs == 1..MaxInputs

\* A copy of an input: the input and which of its copies it is.
Copies == [input : Inputs, attempt : 1..MaxAttempts]

VARIABLES
    typed,          \* number of inputs typed so far
    attempt,        \* _PendingTerminalInput.attempt
    pending,        \* TerminalInputReliableSender._pending
    armed,          \* those whose retryTimer runs
    onScreen,       \* the terminal is the phone's active session
    connected,      \* the phone's transport is up
    wire,           \* copies on their way to the host's handler
    owner,          \* who drives the terminal
    writable,       \* the terminal runs, or can be started, and takes input
    accepted,       \* copies a handler has accepted and not yet written
    written,        \* copies written into the PTY
    acks,           \* copies whose acknowledgement is on its way
    losses          \* messages lost so far

phoneVars == <<typed, attempt, pending, armed, onScreen, connected>>
hostVars == <<owner, writable, accepted, written>>
vars == <<phoneVars, wire, hostVars, acks, losses>>

\* The phone, the desktop by default, or "elsewhere": another device, or the
\* desktop after a takeover of its own.  An input takes the terminal over
\* from the second and is refused by the third.
Owners == {"device", "desktop", "elsewhere"}

Init ==
    /\ typed = 0
    /\ attempt = [i \in Inputs |-> 0]
    /\ pending = {}
    /\ armed = {}
    /\ onScreen = TRUE
    /\ connected = TRUE
    /\ wire = {}
    /\ owner \in Owners
    /\ writable = TRUE
    /\ accepted = {}
    /\ written = {}
    /\ acks = {}
    /\ losses = 0

----------------------------------------------------------------------------
(* The phone. *)

RetriesAll(i) == TRUE
\* retry: data != '\u0003'
Retries(i) == i \notin Interrupts

LastButOne(k) == k + 1 >= MaxAttempts
LastAttempt(k) == k >= MaxAttempts

KeepUnarmed(i, k) ==
    IF Retries(i) /\ ~LastAttempt(k)
    THEN pending' = pending \cup {i} /\ armed' = armed \ {i}
    ELSE pending' = pending \ {i} /\ armed' = armed \ {i}
\* What is sent stays pending, with its timer running, unless it is not to
\* be sent again.
Keep(i, k) ==
    IF Retries(i) /\ ~LastAttempt(k)
    THEN pending' = pending \cup {i} /\ armed' = armed \cup {i}
    ELSE pending' = pending \ {i} /\ armed' = armed \ {i}

\* The copy is dropped while the transport is down, and counts all the same.
SendPending(i, k) ==
    /\ attempt' = [attempt EXCEPT ![i] = k]
    /\ wire' = IF connected THEN wire \cup {[input |-> i, attempt |-> k]} ELSE wire
    /\ Keep(i, k)

Type ==
    /\ onScreen
    /\ typed < MaxInputs
    /\ typed' = typed + 1
    /\ SendPending(typed + 1, 1)
    /\ UNCHANGED <<onScreen, connected, hostVars, acks, losses>>

\* The timer of an input fires; off screen the input is neither sent nor
\* armed again.
TimerFires(i) ==
    /\ i \in armed
    /\ IF onScreen
       THEN SendPending(i, attempt[i] + 1)
       ELSE armed' = armed \ {i} /\ UNCHANGED <<attempt, pending, wire>>
    /\ UNCHANGED <<typed, onScreen, connected, hostVars, acks, losses>>

\* An acknowledgement settles its input whether it was accepted or refused.
HandleAck(c) ==
    /\ c \in acks
    /\ acks' = acks \ {c}
    /\ pending' = pending \ {c.input}
    /\ armed' = armed \ {c.input}
    /\ UNCHANGED <<typed, attempt, onScreen, connected, wire, hostVars, losses>>

SwitchSession ==
    /\ onScreen' = ~onScreen
    /\ UNCHANGED <<typed, attempt, pending, armed, connected, wire, hostVars, acks, losses>>

\* The transport closes: the sender is cleared; of what was on its way the
\* host may have got some, and the phone gets no answer.
Disconnect ==
    /\ connected
    /\ connected' = FALSE
    /\ pending' = {}
    /\ armed' = {}
    /\ wire' \in SUBSET wire
    /\ acks' = {}
    /\ UNCHANGED <<typed, attempt, onScreen, hostVars, losses>>

\* The terminal was closed, or its host says that it goes offline.
Clear ==
    /\ ~writable
    /\ pending' = {}
    /\ armed' = {}
    /\ UNCHANGED <<typed, attempt, onScreen, connected, wire, hostVars, acks, losses>>

Reconnect ==
    /\ ~connected
    /\ connected' = TRUE
    /\ UNCHANGED <<typed, attempt, pending, armed, onScreen, wire, hostVars, acks, losses>>

----------------------------------------------------------------------------
(* The host. *)

\* The check of the owner, with the claim it makes while the desktop drives,
\* and the acknowledgement that tells its result.
HandleInput(c) ==
    /\ c \in wire
    /\ wire' = wire \ {c}
    /\ acks' = acks \cup {c}
    /\ IF owner = "elsewhere"
       THEN UNCHANGED <<owner, accepted>>
       ELSE owner' = "device" /\ accepted' = accepted \cup {c}
    /\ UNCHANGED <<phoneVars, writable, written, losses>>

Write(c) ==
    /\ c \in accepted
    /\ writable
    /\ accepted' = accepted \ {c}
    /\ written' = written \cup {c}
    /\ UNCHANGED <<phoneVars, wire, owner, writable, acks, losses>>

\* The terminal cannot be started or written to; an error follows the
\* acknowledgement.
WriteFails(c) ==
    /\ c \in accepted
    /\ ~writable
    /\ accepted' = accepted \ {c}
    /\ UNCHANGED <<phoneVars, wire, owner, writable, written, acks, losses>>

\* Somebody else claims the terminal, or lets go of it.
HandOver(o) ==
    /\ owner' = o
    /\ UNCHANGED <<phoneVars, wire, writable, accepted, written, acks, losses>>

\* The process of the terminal exits or the terminal cannot be started; it is
\* started again.
SetWritable(b) ==
    /\ writable' = b
    /\ UNCHANGED <<phoneVars, wire, owner, accepted, written, acks, losses>>

\* A full queue of the host, or a link that is dead and not yet noticed.
Lose(c) ==
    /\ losses < MaxLosses
    /\ losses' = losses + 1
    /\ \/ c \in wire /\ wire' = wire \ {c} /\ UNCHANGED acks
       \/ c \in acks /\ acks' = acks \ {c} /\ UNCHANGED wire
    /\ UNCHANGED <<phoneVars, hostVars>>

----------------------------------------------------------------------------

PhoneStep ==
    \/ Type
    \/ \E i \in Inputs : TimerFires(i)
    \/ \E c \in Copies : HandleAck(c)
    \/ SwitchSession
    \/ Disconnect
    \/ Clear
    \/ Reconnect

HostStep ==
    \/ \E c \in Copies : HandleInput(c) \/ Write(c) \/ WriteFails(c)
    \/ \E o \in Owners : HandOver(o)
    \/ \E b \in BOOLEAN : SetWritable(b)

Next ==
    \/ PhoneStep
    \/ HostStep
    \/ \E c \in Copies : Lose(c)

Spec == Init /\ [][Next]_vars

\* Timers fire, what is on its way arrives, and a task that was started is
\* finished.
Fairness ==
    /\ \A i \in Inputs : WF_vars(TimerFires(i))
    /\ \A c \in Copies : /\ WF_vars(HandleInput(c))
                         /\ WF_vars(Write(c) \/ WriteFails(c))
                         /\ WF_vars(HandleAck(c))

FairSpec == Spec /\ Fairness

----------------------------------------------------------------------------

TypeOK ==
    /\ typed \in 0..MaxInputs
    /\ attempt \in [Inputs -> 0..MaxAttempts]
    /\ pending \subseteq Inputs
    /\ armed \subseteq pending
    /\ onScreen \in BOOLEAN
    /\ connected \in BOOLEAN
    /\ wire \subseteq Copies
    /\ owner \in Owners
    /\ writable \in BOOLEAN
    /\ accepted \subseteq Copies
    /\ written \subseteq Copies
    /\ acks \subseteq Copies
    /\ losses \in 0..MaxLosses

\* One Ctrl-C of the user interrupts at most once, whatever is lost, delayed
\* or reconnected (_sendInputNow does not have it sent again).
InterruptsOnce ==
    \A c, d \in written :
        c.input = d.input /\ c.input \in Interrupts => c = d

\* As long as fewer messages are lost than an input has copies, the link
\* stays up, the terminal is on the screen, the device may drive it and the
\* PTY takes what is written, every input but an interrupt reaches the PTY,
\* however late acknowledgements and handlers are (maxAttempts).
SurvivesLosses ==
    [](onScreen /\ connected /\ writable /\ owner # "elsewhere")
        => \A i \in Inputs \ Interrupts : typed >= i ~> \E c \in written : c.input = i

\* While its terminal stays on the screen no input is pending for ever: it is
\* acknowledged, given up or cleared.  (Off the screen it may be: a timer that
\* fires then is not armed again.)
InputSettles ==
    []onScreen => \A i \in Inputs : i \in pending ~> i \notin pending

\* An input reaches the PTY once (CHANGELOG.md:1356: input IDs and host-side
\* duplicate suppression); the host looks at no inputId.
WrittenOnce ==
    \A c, d \in written : c.input = d.input => c = d
============================================================================
