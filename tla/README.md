# A verification project for InstallScope

InstallScope records what a package install does: which files it writes, which
addresses it contacts, which processes it starts.  Its value is one sentence in
a report, *this recording is complete*, and its own documents call a dead
recorder that reads as a clean install the worst outcome the project can have
(`recorder/src/session.rs:3-5`).  These modules are about that sentence: what
has to be true of the recorders, the stream and the registry for it to be
trusted, and under which failures it stays true.

## The system

| Component | State | Operations | Hard behaviour | Correct when |
|---|---|---|---|---|
| **Session writer** `recorder/src/session.rs` | buffered sink, `events_emitted`, heartbeat counters, `finished` | `start`, `write_event(s)`, `heartbeat`, `finish_*`, `Drop`; the reader `summarize_stream` | a write or flush that fails, writes short, or never returns; `Drop` writing a second end after a failed first | "complete" is read only when every event is there; the counts in the end are true; what was acknowledged survives a kill |
| **Merge stage** `recorder/src/merge.rs` | reorder window `pending`, descriptor table `files`, `MergeStats`, `last_released_ns` | `push_*`, `note_lost`, `drain_ready`, `finish` | out-of-order arrival, equal timestamps, a descriptor reused without a close, files never closed, the cap | nothing lost, nothing twice, right path, order or an honest counter |
| **aya recorder** `recorder/src/aya.rs`, `recorder/aya-ebpf/src/main.rs` | `TRACKED_PIDS`, one ring and one drain thread per CPU, a channel, the stop flag, the reasons for PARTIAL | probes, drain threads, the receive loop, grace period, join, `finish`, verdict | kernel, threads and loop interleave; a full ring; a failing thread; a timeout while the tree runs | complete implies everything the probes reported was written; the recording ends |
| **strace recorder** `recorder/src/strace.rs` | the child, its process group, the trace files, the reasons | spawn, poll, timeout and group kill, collect, read, verdict | timeout racing exit, SIGTERM ignored, strace killed, unreadable file | complete implies the whole tree; files settled before they are read; nothing of the group survives the timeout |
| **trace parser** `recorder/src/parser.rs`, `decode.rs`, `fdtable.rs` | unfinished calls, descriptor tables and cwd per pid, write totals, event cap | `feed_line`, `handle_call`, `finish`, `fork`, `process_exited` | files fed in pid order while calls are ordered in time; interrupted calls; pid reuse | attribution equals a time-ordered reading, or the gap is counted |
| **snapshot registry** `registry/src/{store,index,lib}.rs` | blobs by content address, the append-only index, open handles | `open`, `push`, `Store::write`, `Store::read`, `Index::load`, `Index::append` | kill between any two calls, two writers, damaged blobs, torn lines | what the index names is stored and complete; an acknowledged push stays |
| **kernel probes, translation** `recorder/aya-ebpf/src/main.rs`, `recorder/src/translate.rs` | `OPEN_INFLIGHT`, a record per call | enter and exit of `openat`, write, close, path-only calls, connect, exec; `to_event` | threads with opens in flight, a killed call, a full map, a path that does not fit | path and descriptor of one call joined; every write told; "Absolute" only if it is |
| **rules and findings** `core/src/{rules,findings,zones,catalog,coverage}.rs` | none (pure) | `evaluate`, `deduplicate`, `compute`, `select_bullets`, `placement_of` | zones inside zones, unresolved paths, classes a backend cannot see, truncated commands | nothing that scores is silent; nothing is found that was not done |
| **profiles and diff** `registry/src/{behavior,diff}.rs` | none (pure) | `profile_of`, `compare` | recordings made on different hosts, by different recorders, in part | the difference is the package's and not the hosts' |
| **lockfile diff** `lockfile/src/*.rs` | none (pure) | readers for npm v1 to v3 and pnpm 5, 6, 9; `diff`, `should_record` | aliases, workspace members, peer suffixes, same version with other bytes | code that comes in is never "nothing to record" |
| **parity** `recorder/src/parity.rs` | none (pure) | `facts_of`, `compare` | relative against absolute paths, kinds seen before or after the call | whole recordings of one install agree |
| **reports** `report/src/*.rs` | none | HTML, Markdown, SARIF, version diff | many surfaces for one verdict, caps on lists | PARTIAL on every surface; what is hidden is counted |
| **command line** `cli/src/main.rs` | exit code, files | `record`, `verify`, `report`, `snapshot`, `diff`, `parity`, `lockfile-diff` | which outcome maps to which exit code | PARTIAL is never a success by default |
| **actions** `action/{record,comment}/action.yml` | outputs of steps, artifacts, the comment | trigger, record, report, snapshot, upload, gate; download, validate, list, post | runs of several commits at once, cancelled jobs, failing requests, a gate in mid-job | a quiet pull request adds no code; a conclusion has its evidence; a report comes to be shown |
| **workflows, harness** `.github/`, `harness/` | files between jobs | shard, merge, summarize | resumed and sharded jobs | see *Not modelled* |

How they interact: a recorder owns a session writer and appends to one
`events.jsonl`; the aya recorder feeds records through the merge stage first,
the strace recorder feeds trace lines through the parser.  The verdict is
decided by the recorder and carried only by the last line of the stream.
Everything downstream (`verify`, `report`, `snapshot push`, `diff`) reads the
stream and trusts that line; the registry refuses a stream whose last end is
not complete and stores the rest by content address.  The record action asks
`lockfile-diff` whether to record at all, strings the other commands together
by their exit codes and leaves an artifact; the comment action turns that into
the one comment a pull request has.

The modules follow the same path, in three layers that share the stream:

| Layer | Modules | The stream is |
|---|---|---|
| from the kernel to the stream | `Probes`, `Merger`, `AyaRecorder`; `FdTable`, `Parser`, `TracedTree`, `StraceRecorder` | what was done, and which of it was written |
| the stream itself | `Session`, `Evidence`, `Registry` | lines on a medium that can fail |
| from the stream to the reader | `Rules`, `Profiles`, `Parity`, `Reports`, `Commands`, `Pipeline`; `Lockfile`, `Action` | a sequence of events, whole, partial or torn |

## Modules

### `Session.tla`, `Evidence.tla`

`Session` has one action per call the writer makes on its sink (`writeln!`,
`flush`, again in the heartbeat, in `write_end`, in `Drop`), so that a failure
or a kill falls between any two of them.  The sink is the `BufWriter` over a
file that every recorder passes in, modelled from how it is used: `Writes` and
`Flushes` are the sets of results a call may have, including a flush that
writes some lines and half of the next, and a buffer that is written out once
more when the writer is dropped (`Unbuffer`).  `medium` is what a reader of the
file finds; `Summary` is `summarize_stream` of it.

| TLA+ | code |
|---|---|
| `StartWrites`, `StartFlushes` | `SessionWriter::start` |
| `WriteEvent`, `NoHeartbeat`, `HeartbeatWrites`, `HeartbeatFlushes`, `EventFlushes` | `write_event`, `maybe_heartbeat`, `heartbeat` |
| `FinishWrites`, `EndFlushes` | `finish_complete`, `finish_partial`, `write_end` |
| `Abandon`, `DropWrites`, `DropFlushes`, `Unbuffer` | a `?` in the caller, `Drop`, the drop of the `BufWriter` |
| `Killed` | the process dies; the file keeps what was written to it |

Whether a heartbeat is due by time is a free choice.  A line and its newline
enter the buffer together.  Power loss is out of scope: the writer flushes to
the operating system and never calls fsync.

`Evidence` is the promise a stream makes to its readers, with no sink in it:
a reader is told "complete" only if the recorder declared it and everything it
observed is on the medium, and a reader once told "partial" is never told
"complete".  `Session` implements it with the refinement mapping
`kept <- EventsOnMedium, verdict <- Summary` (property `KeepsPromise`).

### `Merger.tla`

`drain_ready` and `finish` are split at each record they release, so that the
invariants are checked in the middle of a drain.  A byte total is the *set* of
the writes it sums: no byte is lost or counted twice exactly when those sets
partition the writes.  A returned event carries the number of the call that
returned it; the stable sort of a batch orders it by timestamp, so `(batch,
ktime)` is the order of the stream.

| TLA+ | code |
|---|---|
| `Push`, `NoteLost` | `push_*` and `enqueue`, `note_lost` |
| `Process` and its cases | `process`, `process_fs`, `accumulate_write`, `flush_file` |
| `BeginDrain`, `ReleaseReady`, `ReadyExhausted`, `ReleaseForced`, `EndDrain` | `drain_ready` |
| `BeginFinish`, `ReleaseRest`, `EndFinish` | `finish` |

### `AyaRecorder.tla`

The kernel side (`Fork`, `Exit`, `Recycle`, `Syscall`: the pid filter and the
ring), a drain thread per ring (`DrainChecks`, `DrainReads`, `DrainFails`) and
`record()` as a program counter that follows the function: load, buffers,
spawn, seed, loop, grace, join, rest, decide.  A ring holds records and, apart
from them, the number of reports of lost records among them (`reports`), which
a drain thread sums up and forwards first.  The insert that seeds the root may
fail, which the code ignores.  The merge stage is reduced to
what it owes here, a set that returns some of its records when drained, and the
session to writes that succeed or drop it; their own modules show that this is
all they do.  One read takes a whole ring: a thread reads sixteen records at a
time, more than a ring of the model holds.  Histories (`unseen`, `dropped`,
`foreign`) say what became of an event that is not in the stream.

### `StraceRecorder.tla`

The recorded tree and its process group, strace, and `record()`:
spawn, poll, the SIGTERM, grace and SIGKILL of `kill_process_group`, the
collection and reading of the trace files, the reasons and the verdict.  A
trace file is the set of events in it plus whether it is ragged: a line that is
cut or never completed, which the parser always counts.  strace may end before
its tree, by a signal (`died`) or by giving up with an exit status (`failed`);
the code tells only the first from an ordinary end.  `TermEndsTracer` and
`KillRuns` are facts about the environment: strace run with `-o` blocks
SIGTERM, and the `kill` command can be executed.

### `Registry.tla`

Users open the registry, push and close it; `Store::write` and `Index::append`
are split at every system call.  The index is a sequence of lines and an
unterminated rest, so that a killed append, and two appends whose text and
newline interleave, produce the files they really produce.  `Damage` is a blob
edited behind the registry's back.  The histories `cut` and `overlapped` say
that an append stopped half way or began inside another one: the index is only
claimed to be loadable without them.  The harness gives every shard an index
of its own (`harness/corpus/shard.mjs:22-28`), which rules the second one out
there.

### `FdTable.tla`, `Parser.tla`, `TracedTree.tla`

`FdTable` and `Parser` are `fdtable.rs` and `parser.rs` as operators from a
table, or a parser, to the one after the call: one operator per arm of
`handle_call`, `Feed` for `feed_line`, `Finish` for `finish`.  A line is
already split and decoded; its form says what splitting found (a whole call, a
half, an exit, a signal, a message of strace's own, garbage).

`TracedTree` is the other side: processes and threads that open, duplicate,
inherit, write, change directory, fork, exec and exit, each call printing its
line in the file of its process.  A call keeps in `real` the path it had in the
kernel, which the parser never reads.  When the tree stops, `Collect`,
`FeedLine` and `FinishParser` do what `record()` does: seed every file's
directory, feed the files in pid order, finish.  A byte total is the set of the
calls it adds up, as in `Merger`.  The history `blind` is true once a table or
directory changed in a way that the lines before it in the same file do not
tell (an inherited descriptor, a thread of another file); the paths are claimed
without it, the volumes also with it where strace annotated the descriptor.

### `Probes.tla`

The threads of recorded and other processes make calls; the probes send
records, `OPEN_INFLIGHT` being keyed by the thread as in the code, and each
record goes through the operators of `process_fs` and `to_event` as it is sent:
`merge` is what the merge stage holds then, `Merged` what `finish` would leave.
It is the composition with the merge stage that
`Merger` leaves out: there the records are given, here they come from calls
whose true path and descriptor are known.  The histories `hidden` and `leaked`
say that a descriptor ended without a record, or that a parked open outlived
its thread.

### `Rules.tla`, `Profiles.tla`, `Parity.tla`, `Reports.tla`, `Commands.tla`, `Pipeline.tla`

The first five are pure: each is the operators of its files, named as there.
A path is the sequence of its names, so that "starts with" and "lies in" are
`IsPrefix`; a host name the sequence of its labels; a command its words and, if
it is a shell, the stages of its script.  `Reports` keeps of each page the
sections and what they say: badge, score, bullets, how many were left out,
reasons, classes not watched.  `Commands` gives each command's exit status and
pages for a file `[lines, torn]`.

`Pipeline` composes them.  Two sides, the versions before and after, are
installed on a host each and recorded by a backend each.  A *deed* is something
an install does, told without host or recorder, with the rule it deserves;
`Happen` appends the events this recorder gives for it (`StraceEvents`,
`AyaEvents`: spelled or resolved path, origin, kind, whether an outcome is
known), `Lose` drops one the recorder knows it dropped, `End` and `Kill` end
the file with a verdict, without one or in the middle of a line.  The
properties compare what all readers say of the files with the deeds.  A deed
that puts a file is an `openat` and its writes, which both recorders trace.

### `Lockfile.tla`, `Action.tla`

`Lockfile` reads an npm lockfile in either layout and a pnpm lockfile in any of
its three dialects into packages, compares two and decides whether to record.
Text that the code takes apart (a pnpm key, an alias, a nested `node_modules`
path) is a sequence of its parts, and is taken apart in the model by the same
marks.

`Action` runs the record action once for every pushed commit and the comment
action for every concluded run, one action of the model per step of the yml
that decides or leaves something.  Runs share the artifacts and the comments;
a job may be cancelled at any step, an upload, a download or a request may
fail, the registry's list may fail to load, a report may fail to write its
pages.  A job that a step of its own fails (`failure`) is told from one that the
gate fails (`gated`): only the second has to leave its artifacts.  Commands are called through `Commands` and
`Lockfile`, so that a step sees the exit status that the code gives for these
very files.

### Proof modules

`MergerProofs`, `SessionProofs`, `AyaRecorderProofs`, `StraceRecorderProofs`,
`RegistryProofs`, `ProbesProofs`, `PipelineProofs` and `ActionProofs` extend the
module they are named after and hold its inductive invariant, the lemmas and
the theorems; see *Proofs*.

## Model checking

Every `MC*` module adds constants and symmetry and nothing else.

| Run | Checks | Instance |
|---|---|---|
| `merger` | `TypeOK`, `StatsBalance`, `CountedOnce`, `RecordsOrdered`, `WindowSuffices`, `NothingLost`, `FinishReportsAll`, `AttributionMatchesSorted` | 2 descriptors, 2 paths, 4 records, 3 times, window 1, cap 2, 1 loss |
| `session` | `CompleteIsWhole`, `EndCountIsTrue`, `AcknowledgedSurvives`, `RefusedUntilDeclared`, `KeepsPromise` | 4 events, heartbeat every 2, 4 faults |
| `aya_safe` | `CompleteAccountsForAll`, `ReportedLossIsPartial` | 2 pids, 2 rings of 2, 4 events, cap 3 |
| `aya_live` | `Terminates` | 1 pid, 2 rings of 1, 2 events |
| `probes` | `OpensPaired`, `WritesTold`, `AbsoluteIsTrue` | 6 mixes of calls, up to 3 threads of 2 processes, 5 calls, map of 1 |
| `strace` | `CompleteIsWholeTree`, `TimeoutEndsGroup`, `Terminates` | 2 pids, 4 events, cap 2 |
| `trace` | `VolumeIsExact`, `PathsAreTrue`, `QuietMeansWhole` | 14 mixes of calls, 2 pids in either order, up to 5 lines, event cap 3, annotations on and off |
| `registry` | `TypeOK`, `BlobsAreWhole`, `IndexedIsStored`, `VerifiedThenIndexed`, `HandleFollowsDisk`, `AckedIsDurable`, `UncutIndexLoads` | 2 users, 4 streams, 2 labels, 3 pushes, 3 faults |
| `registry_killed` | `SurvivesKill`, violated | 1 label, 2 pushes, 1 fault |
| `pipeline` | `NothingDeservedIsSilent`, `FindingsAreEarned`, `DiffIsOfThePackage`, `PartialReachesEveryReader`, `WholeRecordingsAgree` | 30 deeds, 2 of them in an execution, 3 settings of hosts and recorders, 1 loss |
| `action` | `QuietPullRequestAddsNoCode`, `ConclusionKeepsItsEvidence`, `ReportReachesThePullRequest` | 17 commits on 3 bases, 7 more changes with an alias, two entries of one identity or a link that becomes a package, and two recorded commits in a row; 5 recordings, threshold 20 |
| `lockfile_member` | `QuietPullRequestAddsNoCode`, violated | 1 commit that adds a package under a workspace member |

**Why the bounds are enough.**  The merge stage's cases need an open, a write,
a second open or a close with one of them out of place: four records on one
descriptor, and two descriptors to interfere; a cap of two is exceeded by the
third record.  A session needs a heartbeat in the middle, and a failed event, a
failed end and a failed `Drop` after each other, which is four faults.  Rings
of two records make a full ring, the delayed report of a loss and a report that
takes the last slot all happen.  The event cap is below the number of events,
so it is hit in the middle of a batch.  Two processes give strace a root and a
child that detached or did not.  Three pushes let two users collide on a blob
and a third find it there.  `aya_live` is smaller than `aya_safe` because
liveness is checked without symmetry: two threads, one of which fails, are
what its termination depends on.

**Deadlock** is checked except where the system really ends: in the registry's
runs the pushes are bounded and an index that was cut refuses every open; in
`trace`, `probes` and `pipeline` an execution is a bounded piece of an install
after which nothing is left to do; in `action` every job concludes.

**Fairness.**  The `Terminates` properties assume weak fairness of the recorder's
own steps, of the drain threads, and of the timeout and grace period: the
scheduler runs the threads and clocks advance.  The recorded command owes
nothing: it may never exit, which is what the timeout is for.  The properties
hold only with `TimeoutSet`; without a limit a recording waits for the install,
as the code intends.  `strace` also assumes that the `kill` command can be
run; otherwise `child.wait()` waits as long as the install does.  `action`
assumes weak fairness of the steps of a record job and of a comment job (its
runner executes what it started, within the job's time limit) and none of
pushes, cancellations or failing requests; a request that fails ends the job,
which the property allows for.

## Where the code and its comments differ

Two runs end in a violation, and each is a finding:

| Run | The comment | What happens |
|---|---|---|
| `registry_killed` | index.rs:3-5, the surviving lines are all still readable | `Index::load` refuses the whole file at the torn line |
| `lockfile_member` | model.rs:113-115, everything but a workspace link and a `file:` directory is worth recording | npm writes `packages/a/node_modules/ms` for a package that a member does not share with the root; npm.rs:190 takes every key that does not begin with `node_modules/` for a member's own entry, so the package is not external and the pull request that adds it passes unrecorded |

The following were met while modelling and have no run of their own.  In each
case the model follows the code.

*Recorders.*
merge.rs:397-400 has sorting the batch keep the stream monotonic; a total
flushed in a later batch carries the time of its last write and can be older
than an event already emitted.
aya.rs:537-539 has seeding close the race with the first forks; the root runs
before it is seeded, and what it forks meanwhile stays untracked.
aya.rs:334-336 has every failure path end with a reason; a drain thread that
stops on a read error (aya.rs:792) gives none.
aya-ebpf/src/main.rs:158-163 has nothing else's behaviour attributed to the
package, and 826-827 reads a full map as that many *concurrent* processes;
`sched_exit` (line 834) removes nothing, so finished pids fill the map and a
reused one is still tracked.
strace.rs:523 and 572-576 have every condition enumerated that could make the
stream a lie; a strace that gives up with an exit status of its own is not.
strace.rs:80 has `kill_process_group` terminate the entire process tree; a
process that moved to a group of its own survives the time limit, which is why
`TimeoutEndsGroup` speaks of the group.
session.rs:120-121 has `write_events` never leave a half-written line; the
sink may take part of a line before it fails, which is why `CompleteIsWhole`
is checked with torn writes.

*Parser and probes.*
fdtable.rs:227-228 has an unresolvable path be "deliberately *not* a guess";
the directory seeded for every file (strace.rs:452-466) is one where a child's
file is read before the fork that gave it another directory, which happens when
the child has the smaller pid; `blind` marks these executions.
aya gives no mode for a chmod (`try_path_only`), so the chmod rule cannot fire
on an aya recording and the escape is reported as a write; a path call or
connect that fails looks as if it had succeeded.  `IsAbout` says so with
`suspect`.

*Rules and reports.*
rules.rs:68-116 takes a word that begins with `sh` for a shell, `sha256sum`
included (`Stage.starts` against `Stage.names`).
`HOME` and the temporary directory are taken as the environment names them
while the project and cache are resolved, so that writes below a home that is
a symbolic link are escapes.
`clean_result_is_trustworthy` does not look at truncated commands.
The HTML page marks every row that names a finding's subject, whoever the
finding is about (`FindingOf`); its legend calls 0 to 9 nominal while a score of
1 to 9 is shown as notable (`Band`); its version diff says "identical" of a
comparison that is blocked (`DiffHtml`).
sarif.rs says that `warning` carries high and medium; high is an `error`.
The registry calls a summary line exactly the equality of behaviours; two
behaviours may share one.
`verify` of a file without a `session_end` is a failure (1), not partial (3).

*Parity.*
An upward relative path, and a path call or connect that failed, make two whole
recordings of one install differ; `WholeRecordingsAgree` leaves these out by
name.

*Lockfiles.*
A pnpm 5 key is cut at its first `_` (pnpm.rs:309-314), the name's included:
`/string_decoder/1.1.1` does not parse and `@types/babel__core` becomes
`@types/babel`.  Of two entries with one name and version only the first is
compared (diff.rs:290-296).  A `file:` directory is never a reason to record.
A hash that appears where there was none is taken for a difference of format.

*Actions.*
Nothing withdraws a comment when a later commit is not recorded or its job
fails, and the comment job of an older run may write over a newer one's, a
PARTIAL one included; two comment jobs that both list before either posts leave
two comments, where the marker is there "so a re-run updates the existing one
rather than adding a second".  `ReportReachesThePullRequest` claims only that a
report comes to be shown.  With `fail-above` set, any failure of `report` is
announced as a score above the threshold.  The workflow in README.md:222 runs
the comment job only after a success, so that a gated run has no comment;
action/README.md has no such condition, and the model follows it.

## Proofs

TLC explores the instances above; the theorems hold for every value of the
constants, under assumptions that are named in the module of the component:

| Module | Assumes |
|---|---|
| `Merger` | the window, the cap and the bounds are natural numbers; the sentinels are not data |
| `Session` | a heartbeat interval of at least one event (`IntervalAssumption`) |
| `AyaRecorder` | the root is a pid, the capacities are positive, a report of a loss is not a record |
| `StraceRecorder` | the root is a pid, cap and bound are natural numbers, the flags are Booleans |
| `Registry` | every end of a stream is complete or partial; damaged content and no content are no stream's; bounds are natural numbers |
| `Probes` | every task has a process; bounds are natural numbers; no path is empty, which the kernel refuses (ENOENT) |
| `Pipeline` | what a deed, a host, a place, a catalog and "deserves" are: five assumptions, see *From the stream to the reader* |
| `Action` | what is committed to the registry is whole, as `snapshot push` leaves it; a history pushes commits there are |

### From the kernel to the stream

**Probes** (`ProbesProofs`).  Every step is one of three: silent, a call no
record is sent of, or a call and its record (`Effects`).  The invariant:

* `Parked`: a parked open is that of a task which is still in it and writes,
  until a task dies in the middle of its open (`leaked`).  So the record that an
  exit sends has the path of the same call: `OpensArePaired`, whatever other
  threads of the process do.  `OpensPaired` speaks of records only and is not
  inductive without it.
* `BooksKept`: each write of a recorded process is in one event, or counted in
  one open file and in no event, and no other call is in either; the writes
  without a path are those of the events without one.  A write moves from a file
  to an event only whole, when the file is dropped: `WritesToldOnce`, which
  needs no condition, since a descriptor that changed hands unseen misplaces a
  write and does not lose it.
* `StageTrue`: while every end of a descriptor was reported, a file the merge
  stage has open is open in the kernel under the same path (`Behind`), so that
  each write it is told is told under the path the kernel used (`Faithful`):
  `AbsoluteIsTrusted`.

Descriptors are the lowest free ones, and that there is a free one in the range
of the model is the pigeonhole principle (`LowestIsFree`), from a bound on the
size of every table.

**Merge stage** (`MergerProofs`).

* `BalanceInv` counts: `pending` is finite, its sequence numbers are at most
  `sequence` (so a push never replaces a buffered record), and the statistics
  balance.  Gives `StatsBalanced`.
* `OrderInv` relates `last_released` to what was emitted and to what is still
  pending: while nothing was late, everything pending is at or above it.  The
  property itself says nothing about pending records, which is why it is not
  inductive.  Gives `RecordsStayOrdered`.
* `WindowInv` bounds `last_released` by the cutoff while no release was forced.
  Gives `WindowIsWideEnough`.
* `ConserveInv` is the partition: pending, held and reported records.  Losing
  nothing and counting nothing twice are only inductive together, because a
  close moves a whole set of writes at once.  Gives `NoRecordLost` and
  `NoRecordTwice`; with `FinishInv`, that nothing is pending or held once
  `finish` has returned, also `FinishReports`.
* `AttributionInv`: while nothing was late, the records released so far are the
  first ones in timestamp order (`KeyOrder`), and on them the descriptor table
  (`TableTrue`), the totals (`TotalsEarned`, `TotalsGiven`) and the writes
  without a path (`StraysAlone`) are those of a reading of the sorted recording.
  Once nothing is pending, that is `AttributionSorted`.

**aya recorder** (`AyaRecorderProofs`).  `AccountInv`: an event of the tree is
unseen, dropped by a ring, in a ring, in the channel, held by the merge stage or
written, unless the cap cut it off and the flag says so.  `VerdictInv`: once
the drain threads were joined nothing enters the channel, so that a complete
verdict, which is only reached with the channel empty, finds nothing in it.
Gives `CompleteAccounts` and `ReportedLossForcesPartial`.

**strace recorder** (`StraceRecorderProofs`).  `TracerInv` is what strace knows
of the tree: while it traces, each running process has a file, and it exits by
itself only after the last of them.  `RecordInv` is what `record()` relies on at
each place: the files are read once strace is gone, and what was written is what
the files read so far hold.  Gives `CompleteMeansWhole` and `TimeoutKillsGroup`.

### The stream itself

**Session** (`SessionProofs`).  The *text* of a sink is what is on the medium
followed by what waits in the buffer, a line that is half on the medium being
one line of it.  Every call on the sink either carries the text (a flush, in
whole or in part), adds a line to it, or spoils it (a line cut short that
nothing will complete, or two lines run together); this is shown of `Flushes`
and `Writes` once, for any buffer (`FlushesCarry`, `WritesLongAdd` and so on).
The invariant speaks of the text, because the medium alone says too little about
what comes next:

* the sink is spoilt only once the writer has given up, and then no event waits
  in the buffer (`SinkInv`);
* unless it is spoilt, the events of the text are the counted ones in their
  order, and every end in it comes after all of them, says how many there are,
  and says complete only if nothing observed went uncounted and no end before it
  said partial (`TextInv`);
* what was acknowledged is whole on the medium (`AckInv`), and the events on the
  medium are in order even when it is spoilt (`MediumInv`).

They give `CompleteStreamIsWhole`, `EndCountsTruly`, `AcknowledgedStays` and
`NothingReadEarly`.  `WriterKeepsPromise` is the refinement of `Evidence`, step
by step: events on the medium only become more; the step that declares an end is
not yet readable, as its line waits in the buffer; from then on no event is
observed; and a reader who was told partial is never told complete, since no
complete end follows another end.

**Registry** (`RegistryProofs`).  `PushInv` says what each stage of a push
owns (a temporary blob that is whole before the rename, a stored blob after
it); with `BlobsAreWhole` it is `StoreInv`.  `VerifyInv` adds what a push knows
of a blob it found absent.  `IndexInv` adds that the text of a push between its
two appends is already in the file.  `StepGrows` is the lemma all index
theorems use: the text in the index only grows, by the job of an appending
push, and a stored blob never becomes absent.  They give `BlobsStayWhole`,
`IndexedAfterVerification`, `IndexNamesStored`, `AcknowledgedPushIsDurable` and
`HandlesFollowDisk`, for any number of concurrent users, kills and failures.
`LineInv`, that without a cut or overlapping append every line parses and the
rest is empty or the whole entry of the one user about to end it, adds
`UncutIndexStaysLoadable`.

### From the stream to the reader

**Pipeline** (`PipelineProofs`).  `FileInv`: a file has a `session_end` only
once its recording ended, the last one says complete exactly when nothing was
lost, and only a kill tears a line.  `OneEnd` and `EventsEndNothing` say that
no deed's events hold an end.  A lemma for each reader (`VerifyTrusts`,
`PushTrusts`, `SummaryTrusts`, `DiffTrusts`, `ParityTrusts`, `ReportTells`)
shows which file it accepts, each by its own code.  `NothingPartialPasses` puts
them together for any deeds, hosts, recorders and catalog; `WholeIsAccepted` is
the converse for the readers that accept or refuse, so that the first does not
hold by refusing everything.

What the readers say of the deeds needs a second invariant, `TellInv`:

* `Begun`: the file's first line is the `session_start` of this side's host and
  recorder.  The analysis, the profile and the diff judge every other line by
  the zones and the backend they find there (`FirstLineIsRead`).
* `ToldOnly`: every line is that one, an end, or an event of a deed done on this
  side.
* `ToldAll`: unless something was lost, every deed's events are in the file.

`StepTells` shows that every step keeps it; the rest is about the readers, which
are pure.  It has three parts, each a case distinction over the kinds of deed
and the two recorders, then a lemma that puts the deeds of a file together:

* *Profiles* (`Tells`).  `DeedIsPlaced`: on every host, a path lies in the zone
  the deed was done in, because no zone that is looked for earlier holds it;
  `WriteIsTrue` and `ReadIsTrue`: so the behavior told of it names no host.
  `ProfileIsTrue` follows for a whole file with every path placed, and with the
  lemmas on blockers and caveats `DiffAttributesTruly`.
* *Findings* (`Answers`).  `WritesAnswer` and `OthersAnswer`: an event fires the
  rules of the deed's offences and none else, under the deed's name, or is a
  write that cannot be placed, which is counted.  Counting and ordering lose
  nothing: `DeduplicateKeepsAll`, and `SortKeepsAll`, which shows that the order
  of display is total on findings, so that each has one place (`EachHasAPlace`,
  by the number of findings before it).  `AyaSuspects`: what strace would find,
  aya finds under some rule unless it cannot see that kind of event at all;
  `UnseenIsSkipped`: then the report lists the rule as skipped.
  `AnalysisTells` gathers these; from it `NoFindingIsInvented` needs nothing of
  completeness, and `NothingGoesUnsaid` needs `TrustedIsWhole`: a file that
  lacks an event carries the badge.
* *The other recorder* (`Explained`).  `FlattenHolds`: a stream of streams holds
  what each holds, by the least place where it would not; `EndsAsSpelled`: a
  path below a directory ends as it is spelled from there, which is what the
  comparison pairs.  Gives `RecordersAgree`.

The assumptions, all true of the instance (TLC evaluates them):

* `DeedAssumption`: the shape of a deed.  One connects to a port (the kernel
  refuses 0) and runs a program by a name; the tool that `pipes` names is the one
  the profile's reading of the script takes, so what a shell does with a script
  that the code reads otherwise is not claimed.
* `HostAssumption`: the recorder is told the directories that are really the
  project, cache, home and tmp.  The command resolves project, cache and expected
  directories; home and tmp it takes from the environment as they are spelled,
  so hosts where one of them is a symbolic link are not covered: there strace's
  resolved paths lie in no zone, and what is written is reported as outside.
* `PlaceAssumption`: a deed's place is the innermost that holds its path.  This
  is what the word means; where one host nests its zones in another order, the
  same deed has another place, and the diff says so.
* `CatalogAssumption`: the catalog is one `Catalog::validate` accepts, and one
  that judges modes (`chmod_executable_outside_zones`) judges writes.  The second
  half is true of `rules/catalog.yaml` and needed: aya sees no mode, and with the
  first rule alone it would be silent about an executable left outside.
* `DeservesAssumption`: a deed deserves the rule that what strace sees of it
  breaks, and is suspected of what aya, seeing less, would take it for.  For
  files the rule follows from the *place*, not from what a reader computes; for
  connections, lookups and programs it is what the catalog's rule says of them,
  so there the theorems say that the finding arrives, not that the rule is wise.

**Action** (`ActionProofs`).  `Progress(r)` says what the steps that job `r` has
passed found and left behind: a report that was rendered from its recording
with success unless the gate will fail, an artifact from its upload on, a
registry from its upload on, entries that verify throughout.  No other run's
step changes any of it (`RecordStepIsOwn`), artifacts are written once, and a
cancelled job concludes nothing.  Gives `ConclusionsStand`, for any history of
pushes and any recordings, through what `Commands` says a successful report and
a successful verify are.

### Only model-checked

* `Terminates` of both recorders and `ReportReachesThePullRequest`: liveness.
* `VolumeIsExact`, `PathsAreTrue` and `QuietMeansWhole` of `TracedTree`: the
  parser reads whole files one after the other, each a fold over lines that were
  printed interleaved; what such a fold computes is induction over data.
* `QuietPullRequestAddsNoCode`: it is about what the lockfile readers make of
  the text of the instance's lockfiles, and is false for some lockfiles (see
  above).

The findings of the two violated runs are TLC's.

## Not modelled, and why

* `decode.rs`, `clock.rs`, the splitting of a trace line and of a lockfile's
  text, the ABI's layouts: conversions of one value without state.  The models
  take the value, and say what splitting found where the code acts on it.
* Path and argument capture in the probes beyond truncation, which is flagged.
* Calls that only strace traces: `creat`, `open`, `openat2`, the vectored and
  positioned writes, the `chown`s and what is done through a descriptor.  The table of probes (`aya.rs:94-165`) has none for them, so aya
  does not tell what an install does by them and no report says so; what
  `Pipeline` shows of aya is about the calls in that table.
* Markup, style, scripts and wording of the reports; the printed tables.
* Preflight checks (`check_available`), host facts, argument parsing,
  `snapshot list` and `snapshot verify` (the second is the digest check
  `Registry` models in `Verify`, printed).
* The corpus harness and the repository's own workflows: batch scripts over the
  commands, one after the other, with an index per shard.
* Installing the binary in the action, the package manager it then runs (by the
  lockfile's exact name, so that a pnpm lockfile of another directory is
  installed with npm), the input that names the lockfile, and what GitHub does
  with SARIF.
* The order of texts: the catalog of `MCPipeline` has its rules in the order of
  their ids, two subjects of one rule come in some fixed order, and a row of the
  HTML page is not matched against subjects that were cut short.  `Parity`
  compares names whole where parity.rs:432 compares the text, so that the model
  excuses fewer directories than the code.
* Power loss, and file systems that reorder what was written.

## Plan

1. *(done)* `Merger`, its order and conservation theorems.
2. *(done)* `Session` refining `Evidence`.
3. *(done)* `AyaRecorder`, `StraceRecorder` to the verdict.
4. *(done)* `Registry` and its theorems.
5. *(done)* `FdTable`, `Parser`, `TracedTree`; `Probes` with the merge stage.
6. *(done)* The readers of a recording and their composition, `Pipeline`.
7. *(done)* `Lockfile`, `Action`.
8. *(done)* Safety of both recorders, of the session and its refinement, of the
   probes, of what readers make of a partial recording, and of what a job
   concludes, as theorems.
9. *(done)* What findings, comparisons and the other recorder say of a recording,
   as theorems: `TellInv` and the five invariants of `Pipeline`.
10. The paths of `TracedTree` in a form that can be proved about: the directory
   and the descriptors that the parser holds after a line, against those the
   process had when it printed it.
11. Shard planning and resumption of the corpus harness.
