------------------------------- MODULE Session -------------------------------
(***************************************************************************)
(* The session writer of recorder/src/session.rs over the BufWriter and    *)
(* file every recorder gives it, the failures of that file, the death of   *)
(* the recorder at any point, the Drop guard, and the strict reader        *)
(* summarize_stream.                                                       *)
(*                                                                         *)
(* One action per call the writer makes on its sink, so that a failure or  *)
(* a death falls between any two of them.  A line is its kind and its      *)
(* counters.  The medium is the sequence of its lines and whether the last *)
(* one is whole ("eol"), is whole JSON that lacks its newline ("noeol"),   *)
(* or is cut short ("cut").  A short line waits in the buffer until it is  *)
(* flushed; a line longer than the buffer goes straight to the file.       *)
(***************************************************************************)
EXTENDS Naturals, Sequences, FiniteSets

CONSTANTS
    HeartbeatInterval,  \* HEARTBEAT_EVENT_INTERVAL
    MaxEvents,          \* bound: events handed to the writer
    MaxHeartbeats,      \* bound: heartbeats
    MaxFaults           \* bound: failing writes

ASSUME IntervalAssumption == HeartbeatInterval \in Nat \ {0}

VARIABLES
    medium,             \* [lines, tail]: what a reader of the file sees
    buffer,             \* lines in the BufWriter
    resume,             \* the first line in the buffer is already half on the medium
    events_emitted,
    heartbeats,
    last_heartbeat_events,
    pc,                 \* which call of the writer is next, and on whose behalf
    faults,             \* writes that have failed
    observed,           \* history: events handed to write_event
    acknowledged,       \* history: events for which write_event returned Ok
    declared            \* history: which finish_* was called

vars == <<medium, buffer, resume, events_emitted, heartbeats,
          last_heartbeat_events, pc, faults, observed, acknowledged, declared>>

sink == <<medium, buffer, resume, faults>>
counters == <<events_emitted, heartbeats, last_heartbeat_events>>

-----------------------------------------------------------------------------
(* Lines                                                                   *)

Line(kind, n, m) == [kind |-> kind, n |-> n, m |-> m]

StartLine == Line("session_start", 0, 0)
EventLine == Line("event", observed + 1, 0)
HeartbeatLine == Line("heartbeat", heartbeats + 1, events_emitted)
EndLine(verdict) == Line(verdict, events_emitted, heartbeats)
Garbage == Line("garbage", 0, 0)

EndKinds == {"complete", "partial"}

-----------------------------------------------------------------------------
(* The sink: a set of possible results for each call                       *)

Sink == [medium |-> medium, buffer |-> buffer, resume |-> resume, ok |-> TRUE]

\* Line l reaches the medium up to `tail`.  It continues the line already there
\* if `cont`; any other text after an unfinished line spoils that line.
Land(med, l, cont, tail) ==
    IF med.tail = "eol" THEN [lines |-> Append(med.lines, l), tail |-> tail]
    ELSE IF cont THEN [med EXCEPT !.tail = tail]
    ELSE [lines |-> [med.lines EXCEPT ![Len(med.lines)] = Garbage], tail |-> tail]

\* The medium after the first k lines of the buffer: what follows the first of
\* them starts on a line of its own.
LandAll(s, k) ==
    IF k = 0 THEN s.medium
    ELSE [lines |-> Land(s.medium, s.buffer[1], s.resume, "eol").lines
                      \o SubSeq(s.buffer, 2, k),
          tail |-> "eol"]

FlushOk(s) == [medium |-> LandAll(s, Len(s.buffer)), buffer |-> <<>>,
               resume |-> FALSE, ok |-> TRUE]

\* A flush that fails wrote some whole lines and perhaps part of the next one,
\* and the buffer keeps exactly what was not written.
FlushFails(s) ==
    UNION { LET med == LandAll(s, k)
                cont == k = 0 /\ s.resume
            IN  {[medium |-> med, buffer |-> SubSeq(s.buffer, k + 1, Len(s.buffer)),
                  resume |-> cont, ok |-> FALSE]}
                \cup
                {[medium |-> Land(med, s.buffer[k + 1], cont, t),
                  buffer |-> SubSeq(s.buffer, k + 1, Len(s.buffer)),
                  resume |-> TRUE, ok |-> FALSE] :
                    t \in IF cont /\ med.tail = "noeol" THEN {"noeol"}
                          ELSE {"cut", "noeol"}}
          : k \in 0..(Len(s.buffer) - 1) }

Flushes(s) == {FlushOk(s)} \cup FlushFails(s)

\* writeln! of a line that fits the buffer.  If the buffer is not empty the
\* line may not fit behind what is there, and the buffer is flushed first.
WritesShort(s, l) ==
    {[s EXCEPT !.buffer = Append(@, l)]}
    \cup IF s.buffer = <<>> THEN {}
         ELSE FlushFails(s) \cup {[FlushOk(s) EXCEPT !.buffer = <<l>>]}

\* writeln! of a line larger than the buffer: written through, and what a
\* failing write did not take is not kept for a later flush.
WritesLong(s, l) ==
    LET f == FlushOk(s) IN
    {[f EXCEPT !.medium = Land(f.medium, l, FALSE, "noeol"),
               !.buffer = <<l>>, !.resume = TRUE]}
    \cup {[f EXCEPT !.ok = FALSE],
          [f EXCEPT !.ok = FALSE, !.medium = Land(f.medium, l, FALSE, "cut")]}
    \cup FlushFails(s)

\* One call on the sink: take a result, and go on at `next` or, if it failed
\* (which uses up a fault), at `failing`.
Call(results, next, failing) ==
    \E s \in results :
        /\ s.ok \/ faults < MaxFaults
        /\ medium' = s.medium
        /\ buffer' = s.buffer
        /\ resume' = s.resume
        /\ faults' = IF s.ok THEN faults ELSE faults + 1
        /\ pc' = IF s.ok THEN next ELSE failing

Writes(l) == WritesShort(Sink, l) \cup WritesLong(Sink, l)

-----------------------------------------------------------------------------
Init == /\ medium = [lines |-> <<>>, tail |-> "eol"]
        /\ buffer = <<>>
        /\ resume = FALSE
        /\ events_emitted = 0
        /\ heartbeats = 0
        /\ last_heartbeat_events = 0
        /\ pc = "start"
        /\ faults = 0
        /\ observed = 0
        /\ acknowledged = 0
        /\ declared = "none"

(* SessionWriter::start: no writer exists until the first line is flushed, *)
(* so a failure here only drops the BufWriter.                             *)
StartWrites ==
    /\ pc = "start"
    /\ Call(Writes(StartLine), "start_flush", "unbuffer")
    /\ UNCHANGED <<counters, observed, acknowledged, declared>>

StartFlushes ==
    /\ pc = "start_flush"
    /\ Call(Flushes(Sink), "running", "unbuffer")
    /\ UNCHANGED <<counters, observed, acknowledged, declared>>

(* write_event: write, count, maybe a heartbeat, flush                     *)

MutantCountsFirst ==
    /\ pc = "running"
    /\ observed < MaxEvents
    /\ observed' = observed + 1
    /\ Call(Writes(EventLine), "counted", "drop")
    /\ events_emitted' = events_emitted + 1
    /\ UNCHANGED <<heartbeats, last_heartbeat_events, acknowledged, declared>>

MutantIgnoresError ==
    /\ pc = "running"
    /\ observed < MaxEvents
    /\ observed' = observed + 1
    /\ Call(Writes(EventLine), "counted", "counted")
    /\ events_emitted' = events_emitted + 1
    /\ UNCHANGED <<heartbeats, last_heartbeat_events, acknowledged, declared>>

WriteEvent ==
    /\ pc = "running"
    /\ observed < MaxEvents
    /\ observed' = observed + 1
    /\ Call(Writes(EventLine), "counted", "drop")
    /\ events_emitted' = IF pc' = "counted" THEN events_emitted + 1
                       ELSE events_emitted
    /\ UNCHANGED <<heartbeats, last_heartbeat_events, acknowledged, declared>>

HeartbeatDue == events_emitted - last_heartbeat_events >= HeartbeatInterval

\* maybe_heartbeat when neither threshold has been crossed.
NoHeartbeat ==
    /\ pc = "counted"
    /\ ~HeartbeatDue
    /\ pc' = "event_flush"
    /\ UNCHANGED <<sink, counters, observed, acknowledged, declared>>

(* heartbeat: called by maybe_heartbeat when enough events or enough time  *)
(* has passed (the clock may have crossed its threshold at any event), and *)
(* by the recorder's own wait loop.                                        *)

HeartbeatWrites(from, next) ==
    /\ pc = from
    /\ heartbeats < MaxHeartbeats
    /\ heartbeats' = heartbeats + 1
    /\ last_heartbeat_events' = events_emitted
    /\ Call(WritesShort(Sink, HeartbeatLine), next, "drop")
    /\ UNCHANGED <<events_emitted, observed, acknowledged, declared>>

HeartbeatFlushes(from, next) ==
    /\ pc = from
    /\ Call(Flushes(Sink), next, "drop")
    /\ UNCHANGED <<counters, observed, acknowledged, declared>>

MutantEventReturns ==
    /\ pc = "event_flush"
    /\ acknowledged' = observed
    /\ pc' = "running"
    /\ UNCHANGED <<sink, counters, observed, declared>>

EventFlushes ==
    /\ pc = "event_flush"
    /\ Call(Flushes(Sink), "running", "drop")
    /\ acknowledged' = IF pc' = "running" THEN observed ELSE acknowledged
    /\ UNCHANGED <<counters, observed, declared>>

(* finish_complete and finish_partial consume the writer: after a failure  *)
(* there is nothing left to call, and Drop runs.                           *)

FinishWrites(verdict) ==
    /\ pc = "running"
    /\ declared' = verdict
    /\ Call(WritesShort(Sink, EndLine(verdict)), "end_flush", "drop")
    /\ UNCHANGED <<counters, observed, acknowledged>>

EndFlushes ==
    /\ pc = "end_flush"
    /\ Call(Flushes(Sink), "returned", "drop")
    /\ UNCHANGED <<counters, observed, acknowledged, declared>>

(* A recorder that fails for another reason, or panics, drops the writer.  *)
Abandon ==
    /\ pc = "running"
    /\ pc' = "drop"
    /\ UNCHANGED <<sink, counters, observed, acknowledged, declared>>

(* Drop: the last-resort PARTIAL, whose errors are ignored; then the       *)
(* BufWriter's own drop tries to write what is left.                       *)

MutantDropVerdict == IF declared = "none" THEN "complete" ELSE declared

DropVerdict == "partial"

DropWrites ==
    /\ pc = "drop"
    /\ Call(WritesShort(Sink, EndLine(DropVerdict)), "drop_flush", "drop_flush")
    /\ declared' = IF declared = "none" THEN "partial" ELSE declared
    /\ UNCHANGED <<counters, observed, acknowledged>>

DropFlushes ==
    /\ pc = "drop_flush"
    /\ Call(Flushes(Sink), "unbuffer", "unbuffer")
    /\ UNCHANGED <<counters, observed, acknowledged, declared>>

Unbuffer ==
    /\ pc = "unbuffer"
    /\ Call(Flushes(Sink), "failed", "failed")
    /\ UNCHANGED <<counters, observed, acknowledged, declared>>

(* The recorder is killed: the buffer is gone, and a write that was under  *)
(* way may have reached the medium in part.                                *)
Stopped == {"returned", "failed", "dead"}

Killed ==
    /\ pc \notin Stopped
    /\ \E s \in Flushes(Sink) : medium' = s.medium
    /\ buffer' = <<>>
    /\ resume' = FALSE
    /\ pc' = "dead"
    /\ UNCHANGED <<counters, faults, observed, acknowledged, declared>>

Done == pc \in Stopped /\ UNCHANGED vars

Next ==
    \/ StartWrites
    \/ StartFlushes
    \/ WriteEvent
    \/ NoHeartbeat
    \/ HeartbeatWrites("counted", "beat_flush")
    \/ HeartbeatFlushes("beat_flush", "event_flush")
    \/ HeartbeatWrites("running", "forced_flush")
    \/ HeartbeatFlushes("forced_flush", "running")
    \/ EventFlushes
    \/ \E v \in EndKinds : FinishWrites(v)
    \/ EndFlushes
    \/ Abandon
    \/ DropWrites
    \/ DropFlushes
    \/ Unbuffer
    \/ Killed
    \/ Done

Spec == Init /\ [][Next]_vars

-----------------------------------------------------------------------------
(* The reader: summarize_stream                                            *)

Indices(kinds) == {i \in DOMAIN medium.lines : medium.lines[i].kind \in kinds}

OnMedium(l) == \E i \in DOMAIN medium.lines : medium.lines[i] = l

\* Every line parses: a line cut short or run together with another does not.
Parses == medium.tail # "cut" /\ Indices({"garbage"}) = {}

LastEnd == medium.lines[CHOOSE i \in Indices(EndKinds) :
                          \A j \in Indices(EndKinds) : j <= i]

MutantSummary ==
    IF ~Parses THEN "unreadable"
    ELSE IF Indices(EndKinds) = {} THEN "partial" ELSE LastEnd.kind

Summary == IF ~Parses \/ Indices(EndKinds) = {} THEN "unreadable"
           ELSE LastEnd.kind

\* The events that are whole on the medium.
EventsOnMedium ==
    Cardinality({i \in Indices({"event"}) :
                    i < Len(medium.lines) \/ medium.tail # "cut"})

-----------------------------------------------------------------------------
(* Properties                                                              *)

\* A reader is told "complete" only if finish_complete was called and the stream
\* holds every event the recorder was handed, each once and in order: no failed
\* write, retry by Drop or death of the recorder makes a lossy stream read as
\* whole.
CompleteIsWhole ==
    Summary = "complete" =>
        /\ declared = "complete"
        /\ \A n \in 1..observed : OnMedium(Line("event", n, 0))
        /\ \A i, j \in Indices({"event"}) :
              /\ medium.lines[i].n \in 1..observed
              /\ i < j => medium.lines[i].n < medium.lines[j].n

\* The events_emitted that a session_end carries is the number of events a
\* reader counts before it, also when the end was written by Drop after a
\* failed write left an event in the buffer.
EndCountIsTrue ==
    Parses => \A i \in Indices(EndKinds) :
        medium.lines[i].n = Cardinality({j \in Indices({"event"}) : j < i})

\* An event for which write_event returned is on the medium from then on: it
\* survives failures, drops and the death of the recorder.
AcknowledgedSurvives ==
    \A n \in 1..acknowledged : OnMedium(Line("event", n, 0))

\* Until the recorder has declared the end, and whatever happened before, a
\* reader is refused: a stream under way never reads as a clean short one.
RefusedUntilDeclared == declared = "none" => Summary = "unreadable"

\* What the stream promises its readers, as an abstract specification.
Promise == INSTANCE Evidence WITH kept <- EventsOnMedium, verdict <- Summary

KeepsPromise == Promise!Spec

=============================================================================
