----------------------------- MODULE AyaRecorder -----------------------------
(***************************************************************************)
(* A recording under the eBPF backend, from the kernel to the verdict:     *)
(* the probes of recorder/aya-ebpf/src/main.rs, the perf rings, one drain  *)
(* thread per ring, the channel to the recorder's loop, and the decision   *)
(* between complete and PARTIAL in recorder/src/aya.rs.                    *)
(*                                                                         *)
(* An event is a number.  What the merge stage does with the order of the  *)
(* records is module Merger; here drain_ready returns some of the records  *)
(* it holds.  How a session reaches the disk is module Session; here       *)
(* writing an event succeeds, or fails and drops the session.              *)
(***************************************************************************)
EXTENDS Naturals, Sequences, FiniteSets, Functions

CONSTANTS
    Pids,           \* process ids the kernel hands out
    Root,           \* the pid of the recorded command
    Cpus,           \* one ring and one drain thread each
    Lost,           \* a report of lost records in the channel
    MaxTracked,     \* capacity of TRACKED_PIDS
    RingSize,       \* records a ring holds
    EventCap,       \* config.event_cap
    TimeoutSet,     \* config.timeout is Some
    MaxEvents       \* bound: events in the kernel

ASSUME RootAssumption == Root \in Pids
ASSUME CapacityAssumption == MaxTracked \in Nat \ {0} /\ RingSize \in Nat \ {0}
ASSUME LostAssumption == Lost \notin Nat

VARIABLES
    proc,           \* what each pid is: unused, alive or exited in the tree, foreign
    tracked,        \* TRACKED_PIDS
    ring,           \* per cpu: records not yet read
    reports,        \* per cpu: how many reports of lost records lie among them
    owed,           \* per cpu: the kernel dropped records it has not reported yet
    drain,          \* per cpu: where the drain thread is
    channel,        \* mpsc channel from the drain threads to the loop
    stop,           \* the flag that ends the drain threads
    pc,             \* where record() is
    held,           \* records in the merger
    written,        \* events written to the session
    lost_records,   \* MergeStats.lost_records > 0
    timed_out, cap_reached, attach_failed,
    verdict,        \* how the session ended
    clock,          \* events so far
    unseen,         \* history: events of the tree no probe reported
    dropped,        \* history: records lost to a full ring
    foreign         \* history: events of processes outside the tree

kernel == <<proc, tracked, ring, reports, owed, clock, unseen, dropped, foreign>>
flags == <<timed_out, cap_reached, attach_failed>>
main == <<pc, held, written, lost_records, flags, verdict>>
vars == <<kernel, drain, channel, stop, main>>

-----------------------------------------------------------------------------
Init ==
    /\ proc = [p \in Pids |-> "unused"]
    /\ tracked = {}
    /\ ring = [c \in Cpus |-> <<>>]
    /\ reports = [c \in Cpus |-> 0]
    /\ owed = [c \in Cpus |-> FALSE]
    /\ drain = [c \in Cpus |-> "unopened"]
    /\ channel = <<>>
    /\ stop = FALSE
    /\ pc = "load"
    /\ held = {}
    /\ written = {}
    /\ lost_records = FALSE
    /\ timed_out = FALSE /\ cap_reached = FALSE /\ attach_failed = FALSE
    /\ verdict = "none"
    /\ clock = 0
    /\ unseen = {} /\ dropped = {} /\ foreign = {}

-----------------------------------------------------------------------------
(* The kernel                                                              *)

\* sched_process_fork: the child is tracked if its parent is and the map has
\* room; a failing insert is ignored.
Fork(p, q) ==
    /\ pc # "done"
    /\ proc[p] = "alive"
    /\ proc[q] = "unused"
    /\ proc' = [proc EXCEPT ![q] = "alive"]
    /\ tracked' = IF p \in tracked /\ Cardinality(tracked) < MaxTracked
                  THEN tracked \cup {q} ELSE tracked
    /\ UNCHANGED <<ring, reports, owed, clock, unseen, dropped, foreign, drain, channel,
                   stop, main>>

\* sched_process_exit does nothing: the pid stays tracked.
Exit(p) ==
    /\ proc[p] = "alive"
    /\ proc' = [proc EXCEPT ![p] = "exited"]
    /\ UNCHANGED <<tracked, ring, reports, owed, clock, unseen, dropped, foreign, drain,
                   channel, stop, main>>

\* The kernel reuses the pid of a reaped process for one outside the tree.  The
\* root is reaped when the loop ends.
Recycle(p) ==
    /\ proc[p] = "exited"
    /\ p = Root => pc \notin {"seed", "loop"}
    /\ proc' = [proc EXCEPT ![p] = "foreign"]
    /\ UNCHANGED <<tracked, ring, reports, owed, clock, unseen, dropped, foreign, drain,
                   channel, stop, main>>

\* Output to a perf ring.  A full ring drops the record, and the loss is only
\* reported in front of the next record that fits.
Output(c, e) ==
    LET reporting == IF owed[c] THEN 1 ELSE 0 IN
    IF Len(ring[c]) + reports[c] + reporting < RingSize
    THEN /\ ring' = [ring EXCEPT ![c] = Append(@, e)]
         /\ reports' = [reports EXCEPT ![c] = @ + reporting]
         /\ owed' = [owed EXCEPT ![c] = FALSE]
         /\ UNCHANGED dropped
    ELSE /\ owed' = [owed EXCEPT ![c] = TRUE]
         /\ dropped' = dropped \cup {e}
         /\ UNCHANGED <<ring, reports>>

\* A system call of interest on cpu c: every probe first asks whether the
\* process is tracked.
Syscall(p, c) ==
    /\ pc # "done"
    /\ proc[p] \in {"alive", "foreign"}
    /\ clock < MaxEvents
    /\ clock' = clock + 1
    /\ IF p \in tracked
       THEN Output(c, clock') /\ UNCHANGED unseen
       ELSE /\ unseen' = IF proc[p] = "alive" THEN unseen \cup {clock'} ELSE unseen
            /\ UNCHANGED <<ring, reports, owed, dropped>>
    /\ foreign' = IF proc[p] = "foreign" THEN foreign \cup {clock'} ELSE foreign
    /\ UNCHANGED <<proc, tracked, drain, channel, stop, main>>

-----------------------------------------------------------------------------
(* drain_cpu                                                               *)

DrainChecks(c) ==
    /\ drain[c] = "check"
    /\ drain' = [drain EXCEPT ![c] = IF stop THEN "stopped" ELSE "read"]
    /\ UNCHANGED <<kernel, channel, stop, main>>

\* read_events sums the reports up in events.lost, which is forwarded before the
\* records of the same read.
DrainReads(c) ==
    /\ drain[c] = "read"
    /\ channel' = channel \o (IF reports[c] > 0 THEN <<Lost>> ELSE <<>>) \o ring[c]
    /\ ring' = [ring EXCEPT ![c] = <<>>]
    /\ reports' = [reports EXCEPT ![c] = 0]
    /\ drain' = [drain EXCEPT ![c] = "check"]
    /\ UNCHANGED <<proc, tracked, owed, clock, unseen, dropped, foreign, stop, main>>

\* A read error ends the thread with a warning in the log.
DrainFails(c) ==
    /\ drain[c] = "read"
    /\ drain' = [drain EXCEPT ![c] = "failed"]
    /\ UNCHANGED <<kernel, channel, stop, main>>

Ended(c) == drain[c] \in {"unopened", "stopped", "failed"}

-----------------------------------------------------------------------------
(* record()                                                                *)

\* Every `?` after SessionWriter::start drops the session, whose Drop writes a
\* PARTIAL end.
SessionDropped == pc' = "done" /\ verdict' = "partial"

Loads ==
    /\ pc = "load"
    /\ \/ SessionDropped /\ UNCHANGED attach_failed     \* load, or no probe attached
       \/ /\ pc' = "buffers"
          /\ attach_failed' \in BOOLEAN
          /\ UNCHANGED verdict
    /\ UNCHANGED <<kernel, drain, channel, stop, held, written, lost_records,
                   timed_out, cap_reached>>

OpensBuffers ==
    /\ pc = "buffers"
    /\ \/ /\ SessionDropped            \* a ring is missing; earlier threads run on
          /\ \E opened \in SUBSET Cpus :
                drain' = [c \in Cpus |-> IF c \in opened THEN "check" ELSE "unopened"]
       \/ /\ pc' = "spawn"
          /\ drain' = [c \in Cpus |-> "check"]
          /\ UNCHANGED verdict
    /\ UNCHANGED <<kernel, channel, stop, held, written, lost_records, flags>>

\* The command's log files cannot be created; the drain threads run on.
LogFails ==
    /\ pc = "spawn"
    /\ SessionDropped
    /\ UNCHANGED <<kernel, drain, channel, stop, held, written, lost_records, flags>>

SpawnFails ==
    /\ pc = "spawn"
    /\ stop' = TRUE
    /\ pc' = "unspawned"
    /\ UNCHANGED <<kernel, drain, channel, held, written, lost_records, flags, verdict>>

JoinsUnspawned ==
    /\ pc = "unspawned"
    /\ \A c \in Cpus : Ended(c)
    /\ SessionDropped
    /\ UNCHANGED <<kernel, drain, channel, stop, held, written, lost_records, flags>>

Spawns ==
    /\ pc = "spawn"
    /\ proc' = [proc EXCEPT ![Root] = "alive"]
    /\ pc' = "seed"
    /\ UNCHANGED <<tracked, ring, reports, owed, clock, unseen, dropped, foreign, drain,
                   channel, stop, held, written, lost_records, flags, verdict>>

\* The command runs by now: what it did so far was filtered out.  A missing map
\* and a failing insert are ignored.
SeedsRoot ==
    /\ pc = "seed"
    /\ tracked' \in {tracked, tracked \cup {Root}}
    /\ pc' = "loop"
    /\ UNCHANGED <<proc, ring, reports, owed, clock, unseen, dropped, foreign, drain,
                   channel, stop, held, written, lost_records, flags, verdict>>

\* write_merged: writes until the cap, and reports that some were left over.
\* The rest of the batch is forgotten.
Write(batch) ==
    LET room == EventCap - Cardinality(written) IN
    \E kept \in SUBSET batch :
        /\ Cardinality(kept) = IF Cardinality(batch) <= room THEN Cardinality(batch) ELSE room
        /\ written' = written \cup kept
        /\ cap_reached' = (cap_reached \/ kept # batch)

\* One record off the channel and into the merger.
Feed ==
    /\ channel # <<>>
    /\ channel' = Tail(channel)
    /\ IF Head(channel) = Lost
       THEN lost_records' = TRUE /\ UNCHANGED held
       ELSE held' = held \cup {Head(channel)} /\ UNCHANGED lost_records

\* The loop: feed, drain_ready, write.  `fed` is what the merger then holds.
LoopReceives ==
    /\ pc = "loop"
    /\ channel # <<>>
    /\ channel' = Tail(channel)
    /\ lost_records' = (lost_records \/ Head(channel) = Lost)
    /\ LET fed == held \cup ({Head(channel)} \ {Lost}) IN
       \E ready \in SUBSET fed :
          /\ Write(ready)
          /\ held' = fed \ ready
    /\ UNCHANGED <<kernel, drain, stop, pc, timed_out, attach_failed, verdict>>

LoopWriteFails ==
    /\ pc = "loop"
    /\ channel # <<>>
    /\ SessionDropped
    /\ UNCHANGED <<kernel, drain, channel, stop, held, written, lost_records, flags>>

CommandExited ==
    /\ pc = "loop"
    /\ proc[Root] = "exited"
    /\ pc' = "grace"
    /\ UNCHANGED <<kernel, drain, channel, stop, held, written, lost_records, flags, verdict>>

WaitFails ==
    /\ pc = "loop"
    /\ stop' = TRUE
    /\ SessionDropped
    /\ UNCHANGED <<kernel, drain, channel, held, written, lost_records, flags>>

\* The timeout kills the root process only.
LoopTimesOut ==
    /\ pc = "loop"
    /\ TimeoutSet
    /\ timed_out' = TRUE
    /\ proc' = [proc EXCEPT ![Root] = "exited"]
    /\ pc' = "grace"
    /\ UNCHANGED <<tracked, ring, reports, owed, clock, unseen, dropped, foreign, drain,
                   channel, stop, held, written, lost_records, cap_reached,
                   attach_failed, verdict>>

\* Half a second more, feeding without draining the merger.
GraceReceives ==
    /\ pc = "grace"
    /\ Feed
    /\ UNCHANGED <<kernel, drain, stop, pc, written, flags, verdict>>

MutantGraceEnds ==
    /\ pc = "grace"
    /\ pc' = "join"
    /\ UNCHANGED <<kernel, drain, channel, stop, held, written, lost_records, flags, verdict>>

GraceEnds ==
    /\ pc = "grace"
    /\ stop' = TRUE
    /\ pc' = "join"
    /\ UNCHANGED <<kernel, drain, channel, held, written, lost_records, flags, verdict>>

Joins ==
    /\ pc = "join"
    /\ \A c \in Cpus : Ended(c)
    /\ pc' = "rest"
    /\ UNCHANGED <<kernel, drain, channel, stop, held, written, lost_records, flags, verdict>>

RestReceives ==
    /\ pc = "rest"
    /\ Feed
    /\ UNCHANGED <<kernel, drain, stop, pc, written, flags, verdict>>

MutantFinishes ==
    /\ pc = "rest"
    /\ Write(held)
    /\ held' = {}
    /\ pc' = "decide"
    /\ UNCHANGED <<kernel, drain, channel, stop, lost_records, timed_out,
                   attach_failed, verdict>>

\* merger.finish() and the last write_merged.
Finishes ==
    /\ pc = "rest"
    /\ channel = <<>>
    /\ Write(held)
    /\ held' = {}
    /\ pc' = "decide"
    /\ UNCHANGED <<kernel, drain, channel, stop, lost_records, timed_out,
                   attach_failed, verdict>>

FinishWriteFails ==
    /\ pc = "rest"
    /\ channel = <<>>
    /\ SessionDropped
    /\ UNCHANGED <<kernel, drain, channel, stop, held, written, lost_records, flags>>

MutantReasons == timed_out \/ cap_reached \/ attach_failed

Reasons == timed_out \/ cap_reached \/ lost_records \/ attach_failed

Decides ==
    /\ pc = "decide"
    /\ verdict' = IF Reasons THEN "partial" ELSE "complete"
    /\ pc' = "done"
    /\ UNCHANGED <<kernel, drain, channel, stop, held, written, lost_records, flags>>

Done == pc = "done" /\ UNCHANGED vars

Kernel == \/ \E p, q \in Pids : Fork(p, q)
          \/ \E p \in Pids : Exit(p)
          \/ \E p \in Pids : Recycle(p)
          \/ \E p \in Pids, c \in Cpus : Syscall(p, c)

Drain(c) == DrainChecks(c) \/ DrainReads(c) \/ DrainFails(c)

Main == \/ Loads \/ OpensBuffers \/ LogFails \/ SpawnFails \/ JoinsUnspawned \/ Spawns
        \/ SeedsRoot \/ LoopReceives \/ LoopWriteFails \/ CommandExited
        \/ WaitFails \/ LoopTimesOut \/ GraceReceives \/ GraceEnds \/ Joins
        \/ RestReceives \/ Finishes \/ FinishWriteFails \/ Decides

Next == Kernel \/ (\E c \in Cpus : Drain(c)) \/ Main \/ Done

Spec == Init /\ [][Next]_vars

\* The scheduler runs the recorder and every drain thread, and clocks advance:
\* the timeout and the end of the grace period come.  Nothing is asked of the
\* recorded processes.
Fairness ==
    /\ WF_vars(Main)
    /\ WF_vars(LoopTimesOut)
    /\ WF_vars(GraceEnds)
    /\ \A c \in Cpus : WF_vars(DrainChecks(c)) /\ WF_vars(DrainReads(c) \/ DrainFails(c))

FairSpec == Spec /\ Fairness

-----------------------------------------------------------------------------
(* Properties                                                              *)

Events == 1..clock

InRings == UNION {Range(ring[c]) : c \in Cpus}
InChannel == Range(channel) \ {Lost}

\* A recording declared complete holds every event a drain thread ever read:
\* what is missing was filtered out, dropped by a full ring, or is still in a
\* ring.  The channel and the merger are empty, and the cap cut nothing.
CompleteAccountsForAll ==
    verdict = "complete" =>
        /\ Events \ foreign \subseteq written \cup unseen \cup dropped \cup InRings
        /\ InChannel \cup held = {}

\* A loss the kernel reported and a drain thread forwarded forces PARTIAL, even
\* when the report is the last thing read before the threads stop: reports are
\* never left behind in the channel by a recording declared complete.
ReportedLossIsPartial ==
    verdict = "complete" => ~lost_records /\ Lost \notin Range(channel)

\* A recording with a timeout ends, whatever the recorded processes, the rings
\* and the drain threads do: joining them never waits for ever.
Terminates == <>(pc = "done")

=============================================================================
