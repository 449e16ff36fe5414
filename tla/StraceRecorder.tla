--------------------------- MODULE StraceRecorder ---------------------------
(***************************************************************************)
(* A recording under the strace backend: record() and kill_process_group() *)
(* of recorder/src/strace.rs, and the process tree they watch.             *)
(*                                                                         *)
(* strace follows every process of the tree and writes one trace file per  *)
(* pid; the recorder only reads the files once strace is gone.  An event   *)
(* is a number.  A trace file is the set of events in it, and is `ragged`  *)
(* when a line of it is cut or never completed.  What the parser makes of  *)
(* the lines is left out; here a whole line gives one event.  Writing to   *)
(* the session succeeds, or fails and drops the session (module Session).  *)
(***************************************************************************)
EXTENDS Naturals, FiniteSets

CONSTANTS
    Pids,           \* processes of the recorded tree
    Root,           \* the recorded command
    EventCap,       \* config.event_cap
    TimeoutSet,     \* config.timeout is Some
    TermEndsTracer, \* whether SIGTERM may end strace (with -o it is blocked)
    KillRuns,       \* whether the kill command can be run
    MaxEvents       \* bound: events in the tree

ASSUME RootAssumption == Root \in Pids
ASSUME CapAssumption == EventCap \in Nat /\ MaxEvents \in Nat
ASSUME FlagAssumption == {TimeoutSet, TermEndsTracer, KillRuns} \subseteq BOOLEAN

VARIABLES
    proc,           \* each process: unused, alive or dead
    group,          \* processes in strace's process group
    strace,         \* none, alive, or how it ended: exited with its tree, killed
                    \* by the recorder, died of another signal, or failed with
                    \* an exit status of its own
    trace,          \* per pid: events in its trace file
    filed,          \* pids that have a trace file
    ragged,         \* pids whose trace file has a line that never completed
    pc,             \* where record() is
    unread,         \* trace files still to be read
    written,        \* events written to the session
    timed_out, cap_reached,
    parse_gap,      \* the parser saw an error, a loss, an evasion or an unmatched line
    unreadable,     \* some trace file could not be read
    verdict,        \* how the session ended
    clock,          \* events so far
    missed          \* history: events no tracer saw

tree == <<proc, group, trace, filed, ragged, clock, missed>>
flags == <<timed_out, cap_reached, parse_gap, unreadable>>
main == <<pc, unread, written, flags, verdict>>
vars == <<tree, strace, main>>

-----------------------------------------------------------------------------
Init ==
    /\ proc = [p \in Pids |-> "unused"]
    /\ group = {}
    /\ strace = "none"
    /\ trace = [p \in Pids |-> {}]
    /\ filed = {}
    /\ ragged = {}
    /\ pc = "spawn"
    /\ unread = {}
    /\ written = {}
    /\ timed_out = FALSE /\ cap_reached = FALSE
    /\ parse_gap = FALSE /\ unreadable = FALSE
    /\ verdict = "none"
    /\ clock = 0
    /\ missed = {}

Alive == {p \in Pids : proc[p] = "alive"}

-----------------------------------------------------------------------------
(* The recorded tree and its tracer                                        *)

Fork(p, q) ==
    /\ proc[p] = "alive"
    /\ proc[q] = "unused"
    /\ proc' = [proc EXCEPT ![q] = "alive"]
    /\ group' = IF p \in group THEN group \cup {q} ELSE group
    /\ filed' = IF strace = "alive" THEN filed \cup {q} ELSE filed
    /\ UNCHANGED <<trace, ragged, clock, missed, strace, main>>

\* A detached child gets a session, and so a process group, of its own.
Setsid(p) ==
    /\ proc[p] = "alive"
    /\ p \in group
    /\ group' = group \ {p}
    /\ UNCHANGED <<proc, trace, filed, ragged, clock, missed, strace, main>>

Syscall(p) ==
    /\ proc[p] = "alive"
    /\ clock < MaxEvents
    /\ clock' = clock + 1
    /\ IF strace = "alive"
       THEN trace' = [trace EXCEPT ![p] = @ \cup {clock'}] /\ UNCHANGED missed
       ELSE missed' = missed \cup {clock'} /\ UNCHANGED trace
    /\ UNCHANGED <<proc, group, filed, ragged, strace, main>>

\* A process ends, possibly killed in the middle of a system call.
Exit(p) ==
    /\ proc[p] = "alive"
    /\ proc' = [proc EXCEPT ![p] = "dead"]
    /\ ragged' \in {ragged, ragged \cup ({p} \cap filed)}
    /\ UNCHANGED <<group, trace, filed, clock, missed, strace, main>>

\* strace exits once it has nothing left to trace; it ends itself by the signal
\* that ended the command, if one did.
StraceExits ==
    /\ strace = "alive"
    /\ Alive = {}
    /\ strace' \in {"exited", "died"}
    /\ UNCHANGED <<tree, main>>

\* Something kills strace, or it gives up with an error of its own: its tracees
\* run on, unseen, and the line of any call in progress is never completed.
StraceDies ==
    /\ strace = "alive"
    /\ strace' \in {"died", "failed"}
    /\ \E cut \in SUBSET (Alive \cap filed) : ragged' = ragged \cup cut
    /\ UNCHANGED <<proc, group, trace, filed, clock, missed, main>>

-----------------------------------------------------------------------------
(* record(): spawn and wait                                                *)

\* Every `?` after SessionWriter::start drops the session, whose Drop writes a
\* PARTIAL end; the early returns write one themselves.
SessionPartial == pc' = "done" /\ verdict' = "partial"

SpawnFails ==
    /\ pc = "spawn"
    /\ SessionPartial
    /\ UNCHANGED <<tree, strace, unread, written, flags>>

\* strace leads a new process group and starts the command in it.
Spawns ==
    /\ pc = "spawn"
    /\ strace' = "alive"
    /\ \/ /\ proc' = [proc EXCEPT ![Root] = "alive"]
          /\ group' = {Root}
          /\ filed' = {Root}
       \/ UNCHANGED <<proc, group, filed>>      \* strace cannot run it
    /\ pc' = "poll"
    /\ UNCHANGED <<trace, ragged, clock, missed, unread, written, flags, verdict>>

PollExited ==
    /\ pc = "poll"
    /\ strace \in {"exited", "died", "failed"}
    /\ pc' = "collect"
    /\ UNCHANGED <<tree, strace, unread, written, flags, verdict>>

\* try_wait fails, or the heartbeat cannot be written.
PollFails ==
    /\ pc = "poll"
    /\ SessionPartial
    /\ UNCHANGED <<tree, strace, unread, written, flags>>

\* kill -TERM -pgid: some members of the group end, others ignore it.  strace may
\* have exited since it was last polled.
TimesOut ==
    /\ pc = "poll"
    /\ TimeoutSet
    /\ timed_out' = TRUE
    /\ \E ended \in SUBSET (IF KillRuns THEN group \cap Alive ELSE {}) :
          proc' = [p \in Pids |-> IF p \in ended THEN "dead" ELSE proc[p]]
    /\ strace' \in IF strace = "alive" /\ TermEndsTracer /\ KillRuns
                 THEN {"alive", "died"} ELSE {strace}
    /\ pc' = "grace"
    /\ UNCHANGED <<group, trace, filed, ragged, clock, missed, unread, written,
                   cap_reached, parse_gap, unreadable, verdict>>

\* Within the grace period strace, the group's leader, is found gone.
GraceEnds ==
    /\ pc = "grace"
    /\ strace # "alive"
    /\ pc' = "collect"
    /\ UNCHANGED <<tree, strace, unread, written, flags, verdict>>

MutantKillsGroup ==
    /\ pc = "grace"
    /\ strace' = IF strace = "alive" THEN "killed" ELSE strace
    /\ \E cut \in SUBSET (Alive \cap filed) : ragged' = ragged \cup cut
    /\ pc' = "reap"
    /\ UNCHANGED <<proc, group, trace, filed, clock, missed, unread, written,
                   flags, verdict>>

MutantNoEscalation ==
    /\ pc = "grace"
    /\ pc' = "reap"
    /\ UNCHANGED <<tree, strace, unread, written, flags, verdict>>

\* The grace period is over: kill -KILL -pgid.
KillsGroup ==
    /\ pc = "grace"
    /\ IF KillRuns
       THEN /\ proc' = [p \in Pids |-> IF p \in group \cap Alive THEN "dead" ELSE proc[p]]
            /\ strace' = IF strace = "alive" THEN "killed" ELSE strace
            /\ \E cut \in SUBSET (Alive \cap filed) : ragged' = ragged \cup cut
       ELSE UNCHANGED <<proc, strace, ragged>>
    /\ pc' = "reap"
    /\ UNCHANGED <<group, trace, filed, clock, missed, unread, written, flags, verdict>>

\* child.wait()
Reaps ==
    /\ pc = "reap"
    /\ strace # "alive"
    /\ pc' = "collect"
    /\ UNCHANGED <<tree, strace, unread, written, flags, verdict>>

-----------------------------------------------------------------------------
(* record(): the trace files and the verdict                               *)

\* collect_trace_files; without any the recording ends here.
Collects ==
    /\ pc = "collect"
    /\ \/ SessionPartial /\ UNCHANGED unread      \* the directory is unreadable
       \/ /\ filed = {}
          /\ SessionPartial
          /\ UNCHANGED unread
       \/ /\ filed # {}
          /\ unread' = filed
          /\ pc' = "read"
          /\ UNCHANGED verdict
    /\ UNCHANGED <<tree, strace, written, flags>>

\* The parser emits events until the cap and drops the rest.  It always sees a
\* line that never completed, and may report evasion attempts or losses besides.
Reads(p) ==
    LET room == EventCap - Cardinality(written) IN
    /\ pc = "read"
    /\ p \in unread
    /\ unread' = unread \ {p}
    /\ \E kept \in SUBSET trace[p] :
          /\ Cardinality(kept) = IF Cardinality(trace[p]) <= room
                                 THEN Cardinality(trace[p]) ELSE room
          /\ written' = written \cup kept
          /\ cap_reached' = (cap_reached \/ kept # trace[p])
    /\ parse_gap' \in {parse_gap \/ p \in ragged, TRUE}
    /\ UNCHANGED <<tree, strace, pc, timed_out, unreadable, verdict>>

MutantReadFails(p) ==
    /\ pc = "read"
    /\ p \in unread
    /\ unread' = unread \ {p}
    /\ UNCHANGED <<tree, strace, pc, written, flags, verdict>>

ReadFails(p) ==
    /\ pc = "read"
    /\ p \in unread
    /\ unread' = unread \ {p}
    /\ unreadable' = TRUE
    /\ UNCHANGED <<tree, strace, pc, written, timed_out, cap_reached, parse_gap, verdict>>

WriteFails ==
    /\ pc = "read"
    /\ SessionPartial
    /\ UNCHANGED <<tree, strace, unread, written, flags>>

\* A signalled strace is a reason of its own unless the timeout already is; its
\* exit status is that of the command and says nothing.
Reasons == timed_out \/ cap_reached \/ parse_gap \/ unreadable \/ strace = "died"

Decides ==
    /\ pc = "read"
    /\ unread = {}
    /\ verdict' = IF Reasons THEN "partial" ELSE "complete"
    /\ pc' = "done"
    /\ UNCHANGED <<tree, strace, unread, written, flags>>

Done == pc = "done" /\ UNCHANGED vars

Tree == \/ \E p, q \in Pids : Fork(p, q)
        \/ \E p \in Pids : Setsid(p) \/ Syscall(p) \/ Exit(p)

Main == \/ SpawnFails \/ Spawns \/ PollExited \/ PollFails \/ TimesOut
        \/ GraceEnds \/ KillsGroup \/ Reaps \/ Collects
        \/ \E p \in Pids : Reads(p) \/ ReadFails(p)
        \/ WriteFails \/ Decides

Next == Tree \/ StraceExits \/ StraceDies \/ Main \/ Done

Spec == Init /\ [][Next]_vars

\* The recorder is scheduled and clocks advance, so the time limit and the end
\* of the grace period come.  Nothing is asked of the recorded tree.
Fairness == WF_vars(Main) /\ WF_vars(TimesOut) /\ WF_vars(KillsGroup)

FairSpec == Spec /\ Fairness

-----------------------------------------------------------------------------
(* Properties                                                              *)

\* A recording declared complete holds every event of every process of the
\* tree, detached ones included, and nothing of the tree is still running: no
\* time limit, killed tracer, unreadable file or full stream hides in it.  The
\* one exception is a strace that failed on its own, which record() takes for an
\* ordinary end.
CompleteIsWholeTree ==
    verdict = "complete" /\ strace # "failed" => Alive = {} /\ written = 1 .. clock

\* Once the time limit has been enforced no process of strace's group runs,
\* whichever of them ignored SIGTERM (kill_process_group escalates), as long as
\* strace, whose end cancels the escalation, did not end on its own.
TimeoutEndsGroup ==
    timed_out /\ pc \in {"collect", "read", "done"} /\ strace \notin {"died", "failed"}
        => group \cap Alive = {}

\* A recording with a time limit ends whatever the recorded tree does.
Terminates == <>(pc = "done")

=============================================================================
