------------------------- MODULE ViewportOwnership -------------------------
(***************************************************************************)
(* The core of the viewport lease of a terminal session: who drives the    *)
(* grid of the PTY, the desktop (the default) or one remote device it was  *)
(* handed off to.  crates/codux-runtime-live/src/terminal_pty/session.rs   *)
(* keeps it in one mutex, TerminalViewportLease; every method below takes  *)
(* that mutex once, so each is one step.  ViewportLease adds the rest of   *)
(* what the mutex guards, ViewportHandlers the threads that call it.       *)
(*                                                                         *)
(* Time is the number of ticks the lease still has.                        *)
(***************************************************************************)
EXTENDS Naturals

CONSTANTS
    Desktop,        \* terminal_viewport_local_owner()
    Devices,        \* the remote owners, terminal_viewport_remote_owner(id)
    TTL,            \* TERMINAL_VIEWPORT_LEASE_TTL, in ticks of the watcher
    Nobody          \* the owner None

ASSUME OwnershipAssumption ==
    /\ Desktop \notin Devices
    /\ TTL \in Nat \ {0}
    /\ Nobody \notin Devices \cup {Desktop}

VARIABLES
    owner,          \* viewport.state.owner
    explicitOwner,  \* viewport.explicit_owner
    ttl             \* ticks until viewport.expires_at, 0 once it has passed

ownershipVars == <<owner, explicitOwner, ttl>>

Owners == Devices \cup {Desktop}

OwnershipInit ==
    /\ owner = Desktop
    /\ explicitOwner = FALSE
    /\ ttl = TTL

----------------------------------------------------------------------------

\* claim_viewport_with: an automatic claim takes only the untouched default
\* desktop owner, a passive one takes nothing.
CanClaimIgnoringExplicit(o, intent) ==
    \/ intent = "force"
    \/ owner = o
    \/ intent = "auto" /\ owner = Desktop

CanClaim(o, intent) ==
    \/ intent = "force"
    \/ owner = o
    \/ intent = "auto" /\ owner = Desktop /\ ~explicitOwner

\* A granted claim; one that is not granted changes nothing.
TakeOwnership(o, intent) ==
    /\ CanClaim(o, intent)
    /\ owner' = o
    /\ explicitOwner' = (intent = "force" \/ (owner = o /\ explicitOwner))
    /\ ttl' = TTL

\* touch_viewport_lease: traffic of the owner (input, output acks, a claim
\* with renew) keeps its lease alive.
RenewOwnership(o) ==
    /\ owner = o
    /\ ttl' = TTL
    /\ UNCHANGED <<owner, explicitOwner>>

\* What reclaim_expired_viewport_lease and release_viewport share: a new
\* owner that has not claimed the lease explicitly.
PassOwnership(o) ==
    /\ owner' = o
    /\ explicitOwner' = FALSE
    /\ ttl' = TTL

\* reclaim_expired_viewport_lease: the watcher finds the lease of a remote
\* owner expired and asks the resolver for another device.
ExpiredAnytime == owner # Desktop
Expired == owner # Desktop /\ ttl = 0

\* Nobody, the desktop, or the owner that has just lost the lease (the filter)
\* leave it to the desktop.
NextOwner(resolved) == IF resolved \in Devices \ {owner} THEN resolved ELSE Desktop

ReclaimOwnership(resolved) == Expired /\ PassOwnership(NextOwner(resolved))

\* release_viewport by the owner.
ReleaseOwnership(o) == owner = o /\ PassOwnership(Desktop)

\* One tick of the clock.
TickOwnership ==
    /\ ttl > 0
    /\ ttl' = ttl - 1
    /\ UNCHANGED <<owner, explicitOwner>>

\* The desktop pane claims passively while it paints and by force when the
\* user types or takes over; a device claims automatically when it starts to
\* view and by force when its user asks.
DesktopIntents == {"passive", "force"}
DeviceIntents == {"auto", "force"}

OwnershipNext ==
    \/ \E intent \in DesktopIntents : TakeOwnership(Desktop, intent)
    \/ \E d \in Devices, intent \in DeviceIntents : TakeOwnership(d, intent)
    \/ \E o \in Owners : RenewOwnership(o)
    \/ \E resolved \in Owners \cup {Nobody} : ReclaimOwnership(resolved)
    \/ \E d \in Devices : ReleaseOwnership(d)
    \/ TickOwnership

OwnershipSpec == OwnershipInit /\ [][OwnershipNext]_ownershipVars

----------------------------------------------------------------------------

\* The types of the ownership.
OwnershipTypeOK ==
    /\ owner \in Owners
    /\ explicitOwner \in BOOLEAN
    /\ ttl \in 0..TTL

\* A takeover by the desktop user (typing, "Take over") holds: from then on
\* only the explicit claim of a device takes the terminal away, no automatic
\* claim, renewal, expiry or resize does, whatever came before or after.
TakeoverHolds ==
    [][owner = Desktop /\ explicitOwner /\ ~(owner' = Desktop /\ explicitOwner')
          => \E d \in Devices : TakeOwnership(d, "force")]_ownershipVars

\* A device keeps the terminal until it gives it back, somebody takes it
\* explicitly, or its lease ran out without any traffic of its own.
HeldUntilLapse ==
    [][(owner \in Devices /\ owner' # owner /\ ttl > 0)
          => (ReleaseOwnership(owner) \/ \E o \in Owners : TakeOwnership(o, "force"))]_ownershipVars
============================================================================
