------------------------------- MODULE Merger -------------------------------
(***************************************************************************)
(* The merge stage of the eBPF backend: recorder/src/merge.rs, driven the  *)
(* way the loop of recorder/src/aya.rs drives it.                          *)
(*                                                                         *)
(* Records come from one perf ring per CPU, so they arrive in any order.   *)
(* They wait in `pending` until they are older than the reorder window,    *)
(* and only when they are released, in timestamp order, do they touch the  *)
(* descriptor table `files`.  A write is not emitted by itself: it         *)
(* accumulates against its descriptor and one total is emitted when the    *)
(* descriptor is closed, reopened, or the recording finishes.              *)
(*                                                                         *)
(* What the data is abstracted to.  A record is one of four kinds: a       *)
(* successful open, a write, a close, and "plain" for everything that is   *)
(* passed through unchanged (failed opens, path operations, connects,      *)
(* execs).  A byte total is the set of write records it sums, so nothing   *)
(* is lost or counted twice exactly when those sets partition the writes.  *)
(* The returned batch is not a sequence: sort_by_key orders each batch by  *)
(* timestamp, so an event carries the number of the call that returned it, *)
(* and the stream is read by (batch, ktime).                               *)
(***************************************************************************)
EXTENDS Integers, FiniteSets

CONSTANTS
    Descriptors,    \* the (tgid, fd) pairs in use
    Paths,          \* the paths an open may name
    NoFile,         \* files[d] when d is not open
    NoPath,         \* the path of an event that has none
    NoDesc,         \* the descriptor of a record that has none
    Window,         \* REORDER_WINDOW_NS
    MaxPending,     \* MAX_PENDING
    MaxTime,        \* bound: kernel timestamps explored
    MaxRecords,     \* bound: records pushed
    MaxLost         \* bound: perf records reported lost

ASSUME WindowAssumption == Window \in Nat
ASSUME MaxPendingAssumption == MaxPending \in Nat
ASSUME BoundsAssumption == MaxTime \in Nat /\ MaxRecords \in Nat /\ MaxLost \in Nat

VARIABLES
    pending,        \* the reorder window: records not yet interpreted
    sequence,       \* disambiguates records that share a timestamp
    files,          \* what each descriptor points at
    last_released,  \* highest timestamp released by drain_ready
    stats,          \* MergeStats
    emitted,        \* every event returned so far, with the batch it came in
    newest,         \* newest_ktime of the recorder's loop
    cutoff,         \* local of the drain_ready call in progress
    batch,          \* number of drain_ready calls that have returned events
    pc,             \* where the call in progress stands
    pushed,         \* history: every record accepted
    skewed          \* history: some record arrived more than Window behind newest

vars == <<pending, sequence, files, last_released, stats, emitted, newest,
          cutoff, batch, pc, pushed, skewed>>

-----------------------------------------------------------------------------
(* Records and events                                                      *)

Shape == [kind : {"open"}, desc : Descriptors, path : Paths]
           \cup [kind : {"write", "close"}, desc : Descriptors, path : {NoPath}]
           \cup [kind : {"plain"}, desc : {NoDesc}, path : {NoPath}]

Record ==
    [ktime : Nat, seq : Nat, kind : {"open"}, desc : Descriptors, path : Paths]
      \cup [ktime : Nat, seq : Nat, kind : {"write", "close"},
            desc : Descriptors, path : {NoPath}]
      \cup [ktime : Nat, seq : Nat, kind : {"plain"},
            desc : {NoDesc}, path : {NoPath}]

OpenFile == [path : Paths \cup {NoPath}, writes : SUBSET Record, last : Nat]

ASSUME NoFileAssumption == NoFile \notin OpenFile
ASSUME NoDescAssumption == NoDesc \notin Descriptors
ASSUME NoPathAssumption == NoPath \notin Paths

Event == [batch : Nat, kind : {"record", "total"}, ktime : Nat,
          path : Paths \cup {NoPath}, from : SUBSET Record]

Stats == [accepted : Nat, released : Nat, late_events : Nat,
          forced_releases : Nat, writes_without_path : Nat,
          closes_without_open : Nat, lost_records : Nat]

\* The key order of the BTreeMap: timestamp, then sequence number.
Before(r, s) == \/ r.ktime < s.ktime
                \/ r.ktime = s.ktime /\ r.seq < s.seq

Oldest(r) == r \in pending /\ \A s \in pending \ {r} : Before(r, s)

\* An event that reports one record, with the record's own timestamp.
Single(r) == {[batch |-> batch, kind |-> "record", ktime |-> r.ktime,
               path |-> r.path, from |-> {r}]}

\* flush_file: nothing if the descriptor was never written, otherwise one
\* total that carries the timestamp of its last write.
Total(f) == IF f = NoFile THEN {}
            ELSE IF f.writes = {} THEN {}
            ELSE {[batch |-> batch, kind |-> "total", ktime |-> f.last,
                   path |-> f.path, from |-> f.writes]}

-----------------------------------------------------------------------------
Init == /\ pending = {}
        /\ sequence = 0
        /\ files = [d \in Descriptors |-> NoFile]
        /\ last_released = 0
        /\ stats = [accepted |-> 0, released |-> 0, late_events |-> 0,
                    forced_releases |-> 0, writes_without_path |-> 0,
                    closes_without_open |-> 0, lost_records |-> 0]
        /\ emitted = {}
        /\ newest = 0
        /\ cutoff = 0
        /\ batch = 0
        /\ pc = "idle"
        /\ pushed = {}
        /\ skewed = FALSE

(* push_fs, push_close, push_net, push_proc and enqueue *)

MutantLateCount(t) == 0

LateCount(t) == IF t < last_released THEN 1 ELSE 0

AcceptedStats == [stats EXCEPT !.accepted = @ + 1]

Push(s, t) ==
    /\ pc = "idle"
    /\ Cardinality(pushed) < MaxRecords
    /\ LET r == [ktime |-> t, seq |-> sequence + 1, kind |-> s.kind,
                 desc |-> s.desc, path |-> s.path]
       IN /\ pending' = pending \cup {r}
          /\ pushed' = pushed \cup {r}
    /\ sequence' = sequence + 1
    /\ stats' = [AcceptedStats EXCEPT !.late_events = @ + LateCount(t)]
    /\ newest' = IF t > newest THEN t ELSE newest
    /\ skewed' = (skewed \/ newest - t > Window)
    /\ UNCHANGED <<files, last_released, emitted, cutoff, batch, pc>>

NoteLost ==
    /\ pc = "idle"
    /\ stats.lost_records < MaxLost
    /\ stats' = [stats EXCEPT !.lost_records = @ + 1]
    /\ UNCHANGED <<pending, sequence, files, last_released, emitted, newest,
                   cutoff, batch, pc, pushed, skewed>>

(* process: what interpreting one released record does.  `s` is `stats`    *)
(* as the release loop has already updated it.                             *)

MutantReopen(r, s) ==
    /\ r.kind = "open"
    /\ emitted' = emitted \cup Single(r)
    /\ files' = [files EXCEPT ![r.desc] =
                    [path |-> r.path, writes |-> {}, last |-> r.ktime]]
    /\ stats' = s

ProcessOpen(r, s) ==
    /\ r.kind = "open"
    /\ emitted' = emitted \cup Total(files[r.desc]) \cup Single(r)
    /\ files' = [files EXCEPT ![r.desc] =
                    [path |-> r.path, writes |-> {}, last |-> r.ktime]]
    /\ stats' = s

ProcessWrite(r, s) ==
    /\ r.kind = "write"
    /\ files[r.desc] # NoFile
    /\ files' = [files EXCEPT ![r.desc] =
                    [path |-> @.path, writes |-> @.writes \cup {r},
                     last |-> r.ktime]]
    /\ stats' = s
    /\ UNCHANGED emitted

ProcessWriteUnknown(r, s) ==
    /\ r.kind = "write"
    /\ files[r.desc] = NoFile
    /\ emitted' = emitted \cup Single(r)
    /\ stats' = [s EXCEPT !.writes_without_path = @ + 1]
    /\ UNCHANGED files

MutantCloseLooksUp(r, s) ==
    /\ r.kind = "close"
    /\ files[r.desc] # NoFile
    /\ emitted' = emitted \cup Total(files[r.desc])
    /\ files' = files
    /\ stats' = s

MutantCloseKeepsEntry(r, s) ==
    /\ r.kind = "close"
    /\ files[r.desc] # NoFile
    /\ emitted' = emitted \cup Total(files[r.desc])
    /\ files' = [files EXCEPT ![r.desc].writes = {}]
    /\ stats' = s

ProcessClose(r, s) ==
    /\ r.kind = "close"
    /\ files[r.desc] # NoFile
    /\ emitted' = emitted \cup Total(files[r.desc])
    /\ files' = [files EXCEPT ![r.desc] = NoFile]
    /\ stats' = s

ProcessCloseUnknown(r, s) ==
    /\ r.kind = "close"
    /\ files[r.desc] = NoFile
    /\ stats' = [s EXCEPT !.closes_without_open = @ + 1]
    /\ UNCHANGED <<files, emitted>>

ProcessPlain(r, s) ==
    /\ r.kind = "plain"
    /\ emitted' = emitted \cup Single(r)
    /\ stats' = s
    /\ UNCHANGED files

Process(r, s) ==
    \/ ProcessOpen(r, s)
    \/ ProcessWrite(r, s)
    \/ ProcessWriteUnknown(r, s)
    \/ ProcessClose(r, s)
    \/ ProcessCloseUnknown(r, s)
    \/ ProcessPlain(r, s)

(* drain_ready: one step per turn of its two loops *)

MutantNoWindow == newest

MutantUnsaturatedCutoff == newest - Window

Cutoff == IF newest > Window THEN newest - Window ELSE 0

BeginDrain ==
    /\ pc = "idle"
    /\ cutoff' = Cutoff
    /\ pc' = "ready"
    /\ UNCHANGED <<pending, sequence, files, last_released, stats, emitted,
                   newest, batch, pushed, skewed>>

MutantForcedStats == [stats EXCEPT !.forced_releases = @ + 1]

ReleasedStats == [stats EXCEPT !.released = @ + 1]

ForcedStats == [ReleasedStats EXCEPT !.forced_releases = @ + 1]

RaiseReleased(r) ==
    last_released' = IF r.ktime > last_released THEN r.ktime ELSE last_released

Release(r, s) ==
    /\ pending' = pending \ {r}
    /\ Process(r, s)
    /\ UNCHANGED <<sequence, newest, cutoff, batch, pc, pushed, skewed>>

ReleaseReady(r) ==
    /\ pc = "ready"
    /\ Oldest(r)
    /\ r.ktime <= cutoff
    /\ RaiseReleased(r)
    /\ Release(r, ReleasedStats)

ReadyExhausted ==
    /\ pc = "ready"
    /\ \A r \in pending : r.ktime > cutoff
    /\ pc' = "forced"
    /\ UNCHANGED <<pending, sequence, files, last_released, stats, emitted,
                   newest, cutoff, batch, pushed, skewed>>

ReleaseForced(r) ==
    /\ pc = "forced"
    /\ Cardinality(pending) > MaxPending
    /\ Oldest(r)
    /\ RaiseReleased(r)
    /\ Release(r, ForcedStats)

EndDrain ==
    /\ pc = "forced"
    /\ Cardinality(pending) <= MaxPending
    /\ pc' = "idle"
    /\ cutoff' = 0
    /\ batch' = IF \E e \in emitted : e.batch = batch THEN batch + 1 ELSE batch
    /\ UNCHANGED <<pending, sequence, files, last_released, stats, emitted,
                   newest, pushed, skewed>>

(* finish: release what is pending, then flush every open descriptor *)

BeginFinish ==
    /\ pc = "idle"
    /\ pc' = "finish"
    /\ UNCHANGED <<pending, sequence, files, last_released, stats, emitted,
                   newest, cutoff, batch, pushed, skewed>>

ReleaseRest(r) ==
    /\ pc = "finish"
    /\ Oldest(r)
    /\ Release(r, ReleasedStats)
    /\ UNCHANGED last_released

MutantEndFinish ==
    /\ pc = "finish"
    /\ pending = {}
    /\ pc' = "done"
    /\ files' = [d \in Descriptors |-> NoFile]
    /\ UNCHANGED <<pending, sequence, last_released, stats, emitted, newest,
                   cutoff, batch, pushed, skewed>>

EndFinish ==
    /\ pc = "finish"
    /\ pending = {}
    /\ pc' = "done"
    /\ emitted' = emitted \cup UNION {Total(files[d]) : d \in Descriptors}
    /\ files' = [d \in Descriptors |-> NoFile]
    /\ UNCHANGED <<pending, sequence, last_released, stats, newest, cutoff,
                   batch, pushed, skewed>>

Done == pc = "done" /\ UNCHANGED vars

Next ==
    \/ \E s \in Shape, t \in 1..MaxTime : Push(s, t)
    \/ NoteLost
    \/ BeginDrain
    \/ \E r \in pending : ReleaseReady(r)
    \/ ReadyExhausted
    \/ \E r \in pending : ReleaseForced(r)
    \/ EndDrain
    \/ BeginFinish
    \/ \E r \in pending : ReleaseRest(r)
    \/ EndFinish
    \/ Done

Spec == Init /\ [][Next]_vars

-----------------------------------------------------------------------------
(* Properties                                                              *)

\* Every variable holds a value of its type; the cutoff in particular never
\* goes below zero.
TypeOK ==
    /\ pending \subseteq Record
    /\ sequence \in Nat
    /\ files \in [Descriptors -> OpenFile \cup {NoFile}]
    /\ last_released \in Nat
    /\ stats \in Stats
    /\ emitted \subseteq Event
    /\ newest \in Nat
    /\ cutoff \in Nat
    /\ batch \in Nat
    /\ pc \in {"idle", "ready", "forced", "finish", "done"}
    /\ pushed \subseteq Record
    /\ skewed \in BOOLEAN

\* The writes accumulated against descriptor d and not yet emitted.
Held(d) == IF files[d] = NoFile THEN {} ELSE files[d].writes

Reported(r) == \E e \in emitted : r \in e.from

\* No evidence is lost on the way through the merge stage: a record that has
\* left the window is in an emitted event or in the total its descriptor is
\* accumulating (a close has nothing to report).  Reopening a descriptor
\* without a close, and files never closed, are the cases the code comments on.
NothingLost ==
    \A r \in pushed \ pending :
        \/ r.kind = "close"
        \/ Reported(r)
        \/ \E d \in Descriptors : r \in Held(d)

\* No byte is counted twice: a record is in at most one event, and while it is
\* pending or held by a descriptor it is in none.
CountedOnce ==
    /\ \A e, f \in emitted : e # f => e.from \cap f.from = {}
    /\ \A e \in emitted : e.from \subseteq pushed \ pending
    /\ \A d \in Descriptors :
          /\ Held(d) \subseteq pushed \ pending
          /\ \A r \in Held(d) : r.desc = d /\ ~Reported(r)

\* After finish every record but a close has been reported: the totals of files
\* that were never closed are not lost.
FinishReportsAll ==
    pc = "done" => \A r \in pushed : r.kind = "close" \/ Reported(r)

\* MergeStats balances: what was accepted was released or is still pending,
\* whichever of the three release loops let it go.
StatsBalance == stats.accepted = stats.released + Cardinality(pending)

\* The stream of individually reported records never goes backwards unless
\* late_events says so: a forced release alone does not misorder it, because a
\* record that would then go backwards is itself counted late.
RecordsOrdered ==
    stats.late_events = 0 =>
        \A e, f \in emitted :
            /\ e.kind = "record"
            /\ f.kind = "record"
            /\ e.batch < f.batch
            => e.ktime <= f.ktime

\* The window is wide enough for what it promises: if no record arrives more
\* than Window behind the newest one seen and the cap forced nothing out, no
\* record is late.
WindowSuffices ==
    ~skewed /\ stats.forced_releases = 0 => stats.late_events = 0

\* The open a write belongs to when all records are read in timestamp order:
\* the last open of its descriptor before it, if no close comes between.
OpenerOf(w) ==
    {o \in pushed :
        /\ o.kind = "open"
        /\ o.desc = w.desc
        /\ Before(o, w)
        /\ ~\E x \in pushed : /\ x.kind \in {"open", "close"}
                              /\ x.desc = w.desc
                              /\ Before(o, x)
                              /\ Before(x, w)}

WritesOf(o) == {w \in pushed : w.kind = "write" /\ o \in OpenerOf(w)}

\* Windowed processing equals processing the whole recording sorted by time:
\* with no late record, the totals emitted are exactly one per open that was
\* written, with that open's path and all of its writes, and the unattributed
\* writes are exactly those with no opener.
AttributionMatchesSorted ==
    pc = "done" /\ stats.late_events = 0 =>
        /\ {<<e.path, e.from>> : e \in {f \in emitted : f.kind = "total"}}
             = {<<o.path, WritesOf(o)>> :
                   o \in {p \in pushed : p.kind = "open" /\ WritesOf(p) # {}}}
        /\ \A w \in pushed :
              w.kind = "write" =>
                  (OpenerOf(w) = {}
                     <=> \E e \in emitted : e.kind = "record" /\ w \in e.from)

=============================================================================
