--------------------------- MODULE ViewportLease ---------------------------
(***************************************************************************)
(* All the state the viewport mutex of a terminal session guards: the      *)
(* ownership, the grid, the generation every change of owner or grid bumps *)
(* and the name of the owner.  Each method of session.rs is one action.    *)
(* Any thread of the host may call any of them at any time: the desktop UI *)
(* thread, one task per remote message and the lease watcher (manager.rs). *)
(*                                                                         *)
(* A grid is a number: resize_viewport clamps it from below (20 x 8 in the *)
(* code, MinGrid here).                                                    *)
(***************************************************************************)
EXTENDS ViewportOwnership

CONSTANTS
    Grids,          \* the grids a client may ask for
    MinGrid,        \* the smallest grid resize_viewport sets
    Names,          \* the friendly names devices have registered
    NoName          \* the label None

ASSUME LeaseAssumption ==
    /\ Grids \subseteq Nat
    /\ MinGrid \in Nat
    /\ NoName \notin Names

VARIABLES
    grid,           \* viewport.state.cols x rows
    generation,     \* viewport.state.generation
    ownerLabel      \* viewport.state.owner_label

leaseVars == <<ownershipVars, grid, generation, ownerLabel>>

\* resize_viewport: cols.max(20), rows.max(8).
ClampGrid(g) == IF g < MinGrid THEN MinGrid ELSE g

\* The grids a session can have: the one the terminal is launched with, or
\* one a resize has clamped.
SessionGrids == Grids \cup {ClampGrid(g) : g \in Grids}

LeaseInit ==
    /\ OwnershipInit
    /\ grid \in Grids
    /\ generation = 0
    /\ ownerLabel = NoName

----------------------------------------------------------------------------

\* state.generation.saturating_add(1), if the owner or the grid changes.
NoBump(changed) == generation
Bump(changed) == IF changed THEN generation + 1 ELSE generation

\* claim_viewport_with.
Claim(o, intent) ==
    /\ TakeOwnership(o, intent)
    /\ generation' = Bump(owner # o)
    /\ UNCHANGED <<grid, ownerLabel>>

\* touch_viewport_lease.
Touch(o) ==
    /\ RenewOwnership(o)
    /\ UNCHANGED <<grid, generation, ownerLabel>>

\* reclaim_expired_viewport_lease.
Reclaim(resolved) ==
    /\ ReclaimOwnership(resolved)
    /\ generation' = Bump(TRUE)
    /\ UNCHANGED <<grid, ownerLabel>>

\* release_viewport, called for a remote owner: the device's own request, or
\* release_all_remote_viewports when the host transport is lost.
Release(o) ==
    /\ ReleaseOwnership(o)
    /\ generation' = Bump(TRUE)
    /\ UNCHANGED <<grid, ownerLabel>>

\* resize_viewport by the owner.  Any other caller is refused (Ok(None)).
ResizeTo(o, g) ==
    /\ RenewOwnership(o)
    /\ grid' = ClampGrid(g)
    /\ generation' = Bump(grid # ClampGrid(g))
    /\ UNCHANGED ownerLabel

\* The PTY refuses the new size: the call returns an error, after it has
\* renewed the lease and before it has changed anything else.
ResizeFails(o, g) ==
    /\ grid # ClampGrid(g)
    /\ Touch(o)

\* set_viewport_owner_label: the name shown while a device owns the lease.
SetOwnerLabel(o, name) ==
    /\ owner = o
    /\ ownerLabel # name
    /\ ownerLabel' = name
    /\ UNCHANGED <<ownershipVars, grid, generation>>

\* The clock.
Tick ==
    /\ TickOwnership
    /\ UNCHANGED <<grid, generation, ownerLabel>>

----------------------------------------------------------------------------

LeaseNext ==
    \/ \E intent \in DesktopIntents : Claim(Desktop, intent)
    \/ \E d \in Devices, intent \in DeviceIntents : Claim(d, intent)
    \/ \E o \in Owners : Touch(o)
    \/ \E resolved \in Owners \cup {Nobody} : Reclaim(resolved)
    \/ \E d \in Devices : Release(d)
    \/ \E o \in Owners, g \in Grids : ResizeTo(o, g) \/ ResizeFails(o, g)
    \/ \E d \in Devices, name \in Names \cup {NoName} : SetOwnerLabel(d, name)
    \/ Tick

LeaseSpec == LeaseInit /\ [][LeaseNext]_leaseVars

----------------------------------------------------------------------------

LeaseTypeOK ==
    /\ OwnershipTypeOK
    /\ grid \in SessionGrids
    /\ generation \in Nat
    /\ ownerLabel \in Names \cup {NoName}

\* The generation is a fence: it never goes back, and no step changes the
\* owner or the grid under an unchanged generation.  It is what lets a viewer
\* order the states it is sent (session.rs bumps it in four methods).
GenerationFences ==
    [][/\ generation' >= generation
       /\ generation' = generation => owner' = owner /\ grid' = grid]_leaseVars
============================================================================
