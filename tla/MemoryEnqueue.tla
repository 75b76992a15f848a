--------------------------- MODULE MemoryEnqueue ---------------------------
(***************************************************************************)
(* How the transcript of a session gets into the queue of MemoryQueue      *)
(* (codux-memory/src/manual.rs, queue/source_state.rs).  A scan looks for  *)
(* sessions to extract, by the timer of the desktop, by the user or for a  *)
(* remote controller; nothing keeps two from running at once, nor the      *)
(* agent from writing on.  It reads the transcript three times: its size   *)
(* goes into the fingerprint, its text decides whether there is anything   *)
(* worth extracting, its lines are counted, compared with those that were  *)
(* seen and remembered as seen once it is enqueued.  A worker reads the    *)
(* transcript when it comes to the row.                                    *)
(*                                                                         *)
(* There is one session.  Its transcript is a number of lines; a version   *)
(* of it, and the row for that version, is its length.                     *)
(***************************************************************************)
EXTENDS MemoryQueue

CONSTANTS
    Scans,          \* scans that may run at once
    Threshold       \* extraction_growth_threshold_lines

ASSUME EnqueueAssumption ==
    /\ Tasks \subseteq Nat \ {0} /\ 1 \in Tasks /\ NoTask = 0
    /\ Threshold \in Nat \ {0}

VARIABLES
    length,         \* the lines the agent has written
    signalAt,       \* the line that is worth remembering
    seen,           \* memory_extraction_source_state: lines and length
    scan,           \* what each scan is doing, and what it has read
    read,           \* what each worker has read for its row
    extracted,      \* the longest transcript an extraction has read
    skipped         \* what is marked as seen was written between a scan's reads

sourceVars == <<length, signalAt, seen, scan, read, extracted, skipped>>
allVars == <<vars, sourceVars>>

Longest(a, b) == IF a < b THEN b ELSE a

Away == [step |-> "away", source |-> 0, text |-> 0, lines |-> 0]
Unseen == [lines |-> 0, source |-> 0]

EnqueueInit ==
    /\ Init
    /\ length = 1 /\ signalAt \in Tasks
    /\ seen = Unseen
    /\ scan = [s \in Scans |-> Away]
    /\ read = [w \in Workers |-> 0]
    /\ extracted = 0 /\ skipped = FALSE

----------------------------------------------------------------------------
\* The agent.

Grow ==
    /\ length + 1 \in Tasks
    /\ length' = length + 1
    /\ UNCHANGED <<vars, signalAt, seen, scan, read, extracted, skipped>>

----------------------------------------------------------------------------
\* A scan: enqueue_session_for_extraction.

Moves(s, to) == scan' = [scan EXCEPT ![s] = to]
Step(s, step) == up /\ scan[s].step = step
Leaves(s) == Moves(s, Away)

\* has_active_extraction_for_session and recent_completed_extraction_within:
\* the session has no row that waits or runs; one that is done may be recent.
CheckActive(s) ==
    /\ Step(s, "away")
    /\ \A t \in Tasks : status[t] \notin {"pending", "running"}
    /\ Moves(s, [Away EXCEPT !.step = "checked"])
    /\ UNCHANGED <<vars, length, signalAt, seen, read, extracted, skipped>>

\* resolve_transcript_source.
ReadSource(s) ==
    /\ Step(s, "checked")
    /\ Moves(s, [Away EXCEPT !.step = "sourced", !.source = length])
    /\ UNCHANGED <<vars, length, signalAt, seen, read, extracted, skipped>>

\* extraction_preflight: resolve_transcript_for_task_with_settings.
ReadText(s) ==
    /\ Step(s, "sourced")
    /\ Moves(s, [scan[s] EXCEPT !.step = "texted", !.text = length])
    /\ UNCHANGED <<vars, length, signalAt, seen, read, extracted, skipped>>

\* source_snapshot, which reads the file once more to count its lines.
CountLines(s) ==
    /\ Step(s, "texted")
    /\ Moves(s, [scan[s] EXCEPT !.step = "counted", !.lines = length])
    /\ UNCHANGED <<vars, length, signalAt, seen, read, extracted, skipped>>

\* More lines than were seen, or another file than was seen.
GrownEnough(s) ==
    \/ seen = Unseen
    \/ scan[s].lines < seen.lines \/ scan[s].source < seen.source
    \/ scan[s].lines - seen.lines >= Threshold

\* source_gate: a text without signal is marked as seen, one with signal and
\* enough growth is enqueued, and so is one with a line like "remember: ..."
\* whatever its growth.
Quiet(s) == scan[s].text < signalAt /\ Moves(s, [scan[s] EXCEPT !.step = "quiet"])
Allow(s) == scan[s].text >= signalAt /\ Moves(s, [scan[s] EXCEPT !.step = "allowed", !.text = 0])
Refuse(s) == scan[s].text >= signalAt /\ ~GrownEnough(s) /\ Leaves(s)

\* Mutant: the gate marks as seen what it lets through.
GateMarks(s) ==
    /\ Step(s, "counted")
    /\ \/ (Quiet(s) \/ Refuse(s)) /\ UNCHANGED seen
       \/ Allow(s) /\ seen' = [lines |-> scan[s].lines, source |-> scan[s].source]
    /\ UNCHANGED <<vars, length, signalAt, read, extracted, skipped>>

Gate(s) ==
    /\ Step(s, "counted")
    /\ Quiet(s) \/ Allow(s) \/ Refuse(s)
    /\ UNCHANGED <<vars, length, signalAt, seen, read, extracted, skipped>>

\* enqueue_extraction_if_needed, for the version read first.
EnqueueRow(s) ==
    /\ Step(s, "allowed")
    /\ LET beyond == scan[s].lines > scan[s].source IN
       \/ /\ Enqueue(scan[s].source)
          /\ Moves(s, [scan[s] EXCEPT !.step = "seen"])
       \/ /\ status[scan[s].source] # "absent"
          /\ Moves(s, [scan[s] EXCEPT !.step = IF beyond THEN "beyond" ELSE "seen"])
          /\ UNCHANGED vars
    /\ UNCHANGED <<length, signalAt, seen, read, extracted, skipped>>

\* update_source_state, for what was enqueued or has no signal.  "skipped"
\* remembers that no row was made for some of these lines, for they were not yet
\* there when the version, or the text without signal, was read.
UpdateSource(s) ==
    /\ \E step \in {"seen", "beyond", "quiet"} : Step(s, step)
    /\ seen' = [lines |-> scan[s].lines, source |-> scan[s].source]
    /\ skipped' = (Step(s, "beyond") \/ (Step(s, "quiet") /\ scan[s].lines > scan[s].text))
    /\ Leaves(s)
    /\ UNCHANGED <<vars, length, signalAt, read, extracted>>

\* The cooldown holds, the file cannot be read, or a statement meets a lock or
\* the row another scan has inserted since it looked.
ScanEnds(s) ==
    /\ up /\ scan[s] # Away
    /\ Leaves(s)
    /\ UNCHANGED <<vars, length, signalAt, seen, read, extracted, skipped>>

ScanStep(s) ==
    \/ CheckActive(s) \/ ReadSource(s) \/ ReadText(s) \/ CountLines(s) \/ Gate(s)
    \/ EnqueueRow(s) \/ UpdateSource(s) \/ ScanEnds(s)

----------------------------------------------------------------------------
\* The queue, and what its workers extract.

\* process_extraction_task, at its beginning.
ReadTranscript(w) ==
    /\ Holds(w, "working") /\ read[w] = 0
    /\ read' = [read EXCEPT ![w] = length]
    /\ UNCHANGED <<vars, length, signalAt, seen, scan, extracted, skipped>>

Forgets(w) == read' = [read EXCEPT ![w] = 0]

Extract(w) ==
    /\ read[w] # 0 /\ WriteOutcome(w, "done")
    /\ extracted' = Longest(extracted, read[w])
    /\ Forgets(w)
    /\ UNCHANGED <<length, signalAt, seen, scan, skipped>>

\* The extraction is applied and the row is not marked for a lock.
ExtractLocked(w) ==
    /\ read[w] # 0 /\ OutcomeLocked(w)
    /\ extracted' \in {extracted, Longest(extracted, read[w])}
    /\ Forgets(w)
    /\ UNCHANGED <<length, signalAt, seen, scan, skipped>>

OtherOutcome(w) ==
    /\ WriteOutcome(w, "failed") \/ (read[w] # 0 /\ Requeue(w))
    /\ Forgets(w)
    /\ UNCHANGED <<length, signalAt, seen, scan, extracted, skipped>>

WorkerTurn(w) ==
    \/ (Pick(w) \/ GiveUp(w) \/ MarkRunning(w)) /\ UNCHANGED sourceVars
    \/ ReadTranscript(w) \/ Extract(w) \/ ExtractLocked(w) \/ OtherOutcome(w)

UserStep ==
    /\ (\E t \in Tasks : Retry(t) \/ Clear(t)) \/ ClearFailures \/ Cancel
    /\ UNCHANGED sourceVars

Stop ==
    /\ Crash
    /\ scan' = [s \in Scans |-> Away]
    /\ read' = [w \in Workers |-> 0]
    /\ UNCHANGED <<length, signalAt, seen, extracted, skipped>>

EnqueueNext ==
    \/ Grow
    \/ \E s \in Scans : ScanStep(s)
    \/ \E w \in Workers : WorkerTurn(w)
    \/ UserStep
    \/ Stop
    \/ Start /\ UNCHANGED sourceVars

EnqueueSpec == EnqueueInit /\ [][EnqueueNext]_allVars

EnqueueFairness ==
    /\ WF_vars(Start /\ UNCHANGED sourceVars)
    /\ \A w \in Workers :
          /\ WF_allVars(WorkerTurn(w))
          /\ \A t \in Tasks : SF_vars(Marks(w, t) /\ UNCHANGED sourceVars)

EnqueueFairSpec == EnqueueSpec /\ EnqueueFairness

----------------------------------------------------------------------------
ScanSteps == {"away", "checked", "sourced", "texted", "counted", "quiet", "allowed", "beyond", "seen"}
ScanStates == [step : ScanSteps, source : Tasks \cup {0},
               text : Tasks \cup {0}, lines : Tasks \cup {0}]

\* The types of what this module adds.
EnqueueTypeOK ==
    /\ length \in Tasks /\ signalAt \in Tasks /\ skipped \in BOOLEAN
    /\ seen \in [lines : Tasks \cup {0}, source : Tasks \cup {0}]
    /\ scan \in [Scans -> ScanStates]
    /\ read \in [Workers -> Tasks \cup {0}] /\ extracted \in Tasks \cup {0}

\* What the next scans will take for seen has been extracted, unless its own
\* row waits, runs, has failed or was cleared, or the agent wrote between the
\* reads of a scan that made no row for it (the version it read first had its
\* row already, or the text it read had no signal): whatever other scans,
\* workers and the user do to that row and to the others.
SeenIsExtracted ==
    seen.lines >= signalAt /\ seen.lines > extracted =>
        skipped \/ status[seen.source] \in {"pending", "running", "failed", "cleared"}

\* Of a transcript nothing is passed over.
NothingSkipped == ~skipped
============================================================================
