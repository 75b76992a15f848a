--------------------------- MODULE ViewportViews ---------------------------
(***************************************************************************)
(* How the devices that watch a terminal learn who drives it.  A method of *)
(* the lease captures the new state under the mutex, drops the mutex, and  *)
(* only then hands the state to the event sink, so two threads may emit in *)
(* the order opposite to the one they changed the lease in.  The sink      *)
(* sends the state to the viewers of that moment; messages to one device   *)
(* may be lost or overtaken.  The device keeps the last state it accepted, *)
(* guarded by its generation (terminal_viewport_controller.dart).          *)
(***************************************************************************)
EXTENDS ViewportLease

VARIABLES
    emitting,   \* states captured by emit_viewport_state, not yet in the sink
    viewers,    \* terminal_output_viewers(session)
    sent,       \* viewport-state messages on their way, with their device
    view        \* what each device has accepted last

viewVars == <<emitting, viewers, sent, view>>
vars == <<leaseVars, viewVars>>

States == [owner : Owners, grid : SessionGrids, generation : Nat]
\* What a device knows before any state has arrived.
Unknown == [owner |-> Nobody, grid |-> 0, generation |-> 0]

\* viewport.state.clone() as far as a viewport-state message carries it.
Current == [owner |-> owner, grid |-> grid, generation |-> generation]

Send(devices, state) == {[to |-> d, state |-> state] : d \in devices}

Init ==
    /\ LeaseInit
    /\ emitting = {}
    /\ viewers = {}
    /\ sent = {}
    /\ view = [d \in Devices |-> Unknown]

----------------------------------------------------------------------------

\* Any method of the lease; it captures the state for the sink if it has
\* changed the owner, the grid or the label.
ChangeLease ==
    /\ LeaseNext
    /\ emitting' = IF generation' # generation \/ ownerLabel' # ownerLabel
                   THEN emitting \cup {Current'}
                   ELSE emitting
    /\ UNCHANGED <<viewers, sent, view>>

\* The sink: handle_terminal_event, TerminalEvent::Viewport.
Emit(state) ==
    /\ state \in emitting
    /\ emitting' = emitting \ {state}
    /\ sent' = sent \cup Send(viewers, state)
    /\ UNCHANGED <<leaseVars, viewers, view>>

\* The device becomes a viewer and is sent the state: terminal.subscribe, and
\* the reply that ends a claim, a resize or the renewal of a lost lease.
Subscribe(d) ==
    /\ viewers' = viewers \cup {d}
    /\ sent' = sent \cup Send({d}, Current)
    /\ UNCHANGED <<leaseVars, emitting, view>>

\* Every eighth flush of the output repeats the state to the viewers that do
\* not own the lease (flush_terminal_output_batch).
ReassertToOwner == viewers \cap {owner}
ReassertTo == viewers \ {owner}

Reassert ==
    /\ sent' = sent \cup Send(ReassertTo, Current)
    /\ UNCHANGED <<leaseVars, emitting, viewers, view>>

\* applyRemoteState: an older generation is ignored.
Accepts(d, state) == state.generation >= view[d].generation

Deliver(m) ==
    /\ m \in sent
    /\ sent' = sent \ {m}
    /\ view' = IF Accepts(m.to, m.state)
               THEN [view EXCEPT ![m.to] = m.state]
               ELSE view
    /\ UNCHANGED <<leaseVars, emitting, viewers>>

\* The message is lost on the wire or reaches a suspended app.
Lose(m) ==
    /\ m \in sent
    /\ sent' = sent \ {m}
    /\ UNCHANGED <<leaseVars, emitting, viewers, view>>

\* terminal.unsubscribe.
Unsubscribe(d) ==
    /\ viewers' = viewers \ {d}
    /\ UNCHANGED <<leaseVars, emitting, sent, view>>

\* The device reconnects: it forgets every state (resetSizes), whatever the
\* old transport still carried is dropped, and the host removes the viewer.
Reconnect(d) ==
    /\ viewers' = viewers \ {d}
    /\ sent' = {m \in sent : m.to # d}
    /\ view' = [view EXCEPT ![d] = Unknown]
    /\ UNCHANGED <<leaseVars, emitting>>

Next ==
    \/ ChangeLease
    \/ \E state \in emitting : Emit(state)
    \/ \E d \in Devices :
          Subscribe(d) \/ Unsubscribe(d) \/ Reconnect(d)
    \/ Reassert
    \/ \E m \in sent : Deliver(m) \/ Lose(m)

Spec == Init /\ [][Next]_vars

\* The clock runs and the watcher polls every second; a thread that captured
\* a state emits it; a viewed terminal keeps producing output; the link loses
\* messages but not every one.
DeliverCurrent(d) == \E m \in sent : m.to = d /\ m.state = Current /\ Deliver(m)

Fairness ==
    /\ WF_vars(Tick /\ ChangeLease)
    /\ WF_vars((\E resolved \in Owners \cup {Nobody} : Reclaim(resolved)) /\ ChangeLease)
    /\ WF_vars(\E state \in emitting : Emit(state))
    /\ WF_vars(Reassert)
    /\ \A d \in Devices : SF_vars(DeliverCurrent(d))

FairSpec == Spec /\ Fairness

----------------------------------------------------------------------------

TypeOK ==
    /\ LeaseTypeOK
    /\ emitting \subseteq States
    /\ viewers \subseteq Devices
    /\ sent \subseteq [to : Devices, state : States]
    /\ view \in [Devices -> States \cup {Unknown}]

\* Every state that is still about: captured, on the wire or accepted.
Known == emitting \cup {m.state : m \in sent} \cup ({view[d] : d \in Devices} \ {Unknown})

\* A state of the current generation is the current state; none is ahead.
NoneAhead ==
    \A s \in Known : /\ s.generation <= generation
                     /\ s.generation = generation => s = Current

\* A generation has one owner and one grid, also after it has passed.
OneStatePerGeneration ==
    \A s, t \in Known : s.generation = t.generation => s = t

\* At most one device believes it drives the terminal at any generation, and
\* one that is up to date is right, in whatever order threads emitted and the
\* wire delivered: the purpose of the generation (docs/protocol.md).
OneDriver ==
    /\ \A d, e \in Devices :
          (view[d].owner = d /\ view[e].owner = e
             /\ view[d].generation = view[e].generation) => d = e
    /\ \A d \in Devices :
          (view[d] # Unknown /\ view[d].generation = generation)
             => view[d] = Current

\* A device never steps back to an older state unless it starts over.
ViewNeverStepsBack ==
    [][\A d \in Devices : view'[d].generation < view[d].generation
          => Reconnect(d)]_vars

\* A viewer that stays a viewer while another keeps the lease learns who does,
\* even when every one-shot broadcast to it is lost.
NonOwnerConverges ==
    \A d \in Devices : \A o \in Owners \ {d} :
        <>[](d \in viewers /\ owner = o) => <>[](view[d].owner = o)

\* flush_terminal_output_batch: "Re-sending the current owner on the output
\* path makes any viewer converge on the next frame".
AnyViewerConverges ==
    \A d \in Devices : <>[](d \in viewers /\ owner = d)
                          => <>[](view[d].owner = owner)
============================================================================
