------------------------------- MODULE Probes -------------------------------
(***************************************************************************)
(* What the probes of recorder/aya-ebpf/src/main.rs report of the file     *)
(* calls of the recorded processes, and what merge.rs and translate.rs     *)
(* make of the reports.  An open is only reported when it returns: its     *)
(* path is parked in OPEN_INFLIGHT on entry and joined there with the      *)
(* descriptor on exit.                                                     *)
(*                                                                         *)
(* A task is a thread; group gives its process, and the key of its parked  *)
(* open is the task itself (pid_tgid).  Records are in the order of their  *)
(* timestamps and none is lost on the way: modules Merger and AyaRecorder  *)
(* are about that.  A path is [name, abs, long]: whether it starts with a  *)
(* slash, and whether it exceeds the probe's buffer.  A record keeps the   *)
(* number `call` of the system call it reports, which no program reads.    *)
(* The merge stage is fed each record as it is sent.                       *)
(***************************************************************************)
EXTENDS Naturals, Sequences, FiniteSets, SequencesExt, Functions

CONSTANTS
    Tasks,          \* thread ids the kernel hands out
    Group,          \* the process each of them belongs to
    Tracked,        \* processes in TRACKED_PIDS
    MaxInflight,    \* capacity of OPEN_INFLIGHT
    Mixes           \* bounds: [does, tasks, paths, calls], the kinds of call, the tasks and
                    \* paths an execution uses, and how many calls it makes

ASSUME GroupAssumption == DOMAIN Group = Tasks /\ Tracked \subseteq Range(Group)
ASSUME BoundAssumption ==
    MaxInflight \in Nat /\ \A m \in Mixes : m.calls \in Nat /\ m.tasks \subseteq Tasks
ASSUME PathAssumption ==
    \A m \in Mixes : \A p \in m.paths : {p.abs, p.long} \subseteq BOOLEAN /\ p.name # ""

NoFd == 0
Processes == {Group[t] : t \in Tasks}

VARIABLES
    task,       \* per task: idle, or the open it is in
    mix,        \* the member of Mixes this execution is
    open,       \* per process: descriptor -> the path and close-on-exec flag behind it
    inflight,   \* OPEN_INFLIGHT: task -> parked open
    records,    \* records sent, in time order
    merge,      \* what the merge stage has made of them: files, writes_without_path, events
    calls,      \* system calls made so far: what each did in the kernel
    hidden,     \* history: a descriptor was closed with no record of it
    leaked      \* history: an entry of OPEN_INFLIGHT outlived its task

kernel == <<task, open>>
stage == <<records, merge>>
vars == <<kernel, stage, mix, inflight, calls, hidden, leaked>>

Idle == [in |-> "idle"]

NewMerger == [files |-> <<>>, writes_without_path |-> {}, events |-> <<>>]

Init ==
    /\ mix \in Mixes
    /\ task = [t \in Tasks |-> Idle]
    /\ open = [p \in Processes |-> <<>>]
    /\ inflight = <<>>
    /\ records = <<>>
    /\ merge = NewMerger
    /\ calls = <<>>
    /\ hidden = FALSE
    /\ leaked = FALSE

-----------------------------------------------------------------------------
(* The merge stage and the translation, a record at a time                 *)

\* A function with one more entry, or another value of one.
Put(f, key, value) == [k \in DOMAIN f \cup {key} |-> IF k = key THEN value ELSE f[k]]
Without(f, key) == Restrict(f, DOMAIN f \ {key})

\* A relative or cut path is never trusted.
Origin(abs, truncated) == IF abs /\ ~truncated THEN "Absolute" ELSE "Unresolved"

Event(kind, path, abs, truncated, reported) ==
    [kind |-> kind, path |-> path, origin |-> Origin(abs, truncated), calls |-> reported]

Tell(l, event) == [l EXCEPT !.events = Append(@, event)]

Total(file) == Event("write", file.path, file.abs, file.truncated, file.calls)

FlushFile(l, key) ==
    LET gone == [l EXCEPT !.files = Without(@, key)]
    IN  IF l.files[key].calls = {} THEN gone ELSE Tell(gone, Total(l.files[key]))

EventOf(r) == Event(r.kind, r.path, r.abs, r.truncated, {r.call})
FileOf(r) == [path |-> r.path, abs |-> r.abs, truncated |-> r.truncated, calls |-> {}]

MutantMergeOpen(l, r) ==
    Tell([l EXCEPT !.files = IF r.failed THEN @ ELSE Put(@, <<r.tgid, r.fd>>, FileOf(r))], EventOf(r))
MergeOpen(l, r) ==
    LET key == <<r.tgid, r.fd>>
        flushed == IF key \in DOMAIN l.files THEN FlushFile(l, key) ELSE l
        registered == IF r.failed THEN l ELSE [flushed EXCEPT !.files = Put(@, key, FileOf(r))]
    IN  Tell(registered, EventOf(r))

MergeWrite(l, r) ==
    LET key == <<r.tgid, r.fd>>
    IN  IF key \in DOMAIN l.files
        THEN [l EXCEPT !.files[key].calls = @ \cup {r.call}]
        ELSE [Tell(l, EventOf(r)) EXCEPT !.writes_without_path = @ \cup {r.call}]

MutantMergeClose(l, r) == l
MergeClose(l, r) ==
    IF <<r.tgid, r.fd>> \in DOMAIN l.files THEN FlushFile(l, <<r.tgid, r.fd>>) ELSE l

\* A connect whose family the probe did not know leaves no event.
MergeOne(l, r) ==
    CASE r.kind = "open"  -> MergeOpen(l, r)
      [] r.kind = "write" -> MergeWrite(l, r)
      [] r.kind = "close" -> MergeClose(l, r)
      [] r.kind = "connect" /\ ~r.known -> l
      [] OTHER -> Tell(l, EventOf(r))

\* finish reports what is still open, in the order of the keys.
Merged ==
    LET left == SetToSeq({key \in DOMAIN merge.files : merge.files[key].calls # {}})
    IN  merge.events \o [i \in DOMAIN left |-> Total(merge.files[left[i]])]

-----------------------------------------------------------------------------
(* Records                                                                 *)

Record(t, kind) ==
    [kind |-> kind, tgid |-> Group[t], fd |-> NoFd, path |-> "", abs |-> FALSE,
     truncated |-> FALSE, failed |-> FALSE, known |-> TRUE, call |-> Len(calls) + 1]

\* What fits the buffer of a path that does not is another name.
Named(record, path) ==
    [record EXCEPT !.path = IF path.long THEN "cut" ELSE path.name,
                   !.abs = path.abs, !.truncated = path.long]

tracked(t) == Group[t] \in Tracked

\* Every probe but the exit of an open looks at the filter.
Send(record) == records' = Append(records, record) /\ merge' = MergeOne(merge, record)
Emit(t, record) == IF tracked(t) THEN Send(record) ELSE UNCHANGED stage

Free(t) == task[t] = Idle /\ Len(calls) < mix.calls
Did(what) == calls' = Append(calls, what)
NoPath == [name |-> "", abs |-> FALSE, long |-> FALSE]
Call(t, op, fd, path) == [op |-> op, tgid |-> Group[t], fd |-> fd, path |-> path]

Fds(t) == DOMAIN open[Group[t]]
LowestFree(t) == CHOOSE n \in 3..(mix.calls + 3) : n \notin Fds(t) /\ \A k \in 3..(n - 1) : k \in Fds(t)
Install(t, path, cloexec) ==
    open' = [open EXCEPT ![Group[t]] = Put(@, LowestFree(t), [path |-> path, cloexec |-> cloexec])]

-----------------------------------------------------------------------------
(* open                                                                    *)

\* pid_tgid: the thread, not the process.
MutantKey(t) == CHOOSE u \in Tasks : Group[u] = Group[t]
Key(t) == t

\* Entry.  A full map refuses a new key; an old entry under the key is replaced.
OpenEnter(t, path, writing, cloexec) ==
    /\ Free(t)
    /\ task' = [task EXCEPT ![t] = [in |-> "open", path |-> path, writing |-> writing, cloexec |-> cloexec]]
    /\ inflight' = IF /\ tracked(t) /\ writing
                      /\ Key(t) \in DOMAIN inflight \/ Cardinality(DOMAIN inflight) < MaxInflight
                   THEN Put(inflight, Key(t), path) ELSE inflight
    /\ UNCHANGED <<open, stage, calls, hidden, leaked>>

\* Exit.  The filter is not asked again: an entry under the task's key is enough.
OpenExit(t, ok) ==
    /\ task[t] # Idle
    /\ Len(calls) < mix.calls
    /\ task' = [task EXCEPT ![t] = Idle]
    /\ IF ok THEN Install(t, task[t].path, task[t].cloexec) ELSE UNCHANGED open
    /\ IF Key(t) \in DOMAIN inflight
       THEN /\ Send([Named(Record(t, "open"), inflight[Key(t)]) EXCEPT
                        !.failed = ~ok, !.fd = IF ok THEN LowestFree(t) ELSE NoFd])
            /\ inflight' = Without(inflight, Key(t))
       ELSE UNCHANGED <<stage, inflight>>
    /\ Did(Call(t, IF task[t].writing THEN "open" ELSE "read",
                IF ok THEN LowestFree(t) ELSE NoFd, task[t].path))
    /\ UNCHANGED <<hidden, leaked>>

\* A process is killed.  Its open in flight never returns, and no close is reported.
Killed(p) ==
    /\ task' = [t \in Tasks |-> IF Group[t] = p THEN Idle ELSE task[t]]
    /\ open' = [open EXCEPT ![p] = <<>>]
    /\ leaked' = (leaked \/ \E t \in DOMAIN inflight : Group[t] = p)
    /\ hidden' = (hidden \/ open[p] # <<>>)
    /\ UNCHANGED <<inflight, stage, calls>>

-----------------------------------------------------------------------------
(* Calls reported on entry                                                 *)

Write(t, fd) ==
    /\ Free(t)
    /\ fd \in Fds(t)
    /\ Emit(t, [Record(t, "write") EXCEPT !.fd = fd])
    /\ Did(Call(t, "write", fd, open[Group[t]][fd].path))
    /\ UNCHANGED <<kernel, inflight, hidden, leaked>>

Close(t, fd) ==
    /\ Free(t)
    /\ fd \in Fds(t)
    /\ Emit(t, [Record(t, "close") EXCEPT !.fd = fd])
    /\ Did(Call(t, "close", fd, open[Group[t]][fd].path))
    /\ open' = [open EXCEPT ![Group[t]] = Without(@, fd)]
    /\ UNCHANGED <<task, inflight, hidden, leaked>>

\* mkdir, rename, unlink, symlink, link, chmod, truncate: try_path_only.
PathOnly(t, path) ==
    /\ Free(t)
    /\ Emit(t, Named(Record(t, "mkdir"), path))
    /\ Did(Call(t, "mkdir", NoFd, path))
    /\ UNCHANGED <<kernel, inflight, hidden, leaked>>

Connect(t, known) ==
    /\ Free(t)
    /\ Emit(t, [Record(t, "connect") EXCEPT !.known = known])
    /\ Did(Call(t, "connect", NoFd, NoPath))
    /\ UNCHANGED <<kernel, inflight, hidden, leaked>>

\* execve is reported; the descriptors it closes are not.
Exec(t) ==
    /\ Free(t)
    /\ Emit(t, Record(t, "exec"))
    /\ Did(Call(t, "exec", NoFd, NoPath))
    /\ LET kept == {fd \in Fds(t) : ~open[Group[t]][fd].cloexec}
       IN  /\ open' = [open EXCEPT ![Group[t]] = Restrict(@, kept)]
           /\ hidden' = (hidden \/ kept # Fds(t))
    /\ UNCHANGED <<task, inflight, leaked>>

\* dup, pipe, socket and the like have no probe.
Untraced(t) ==
    /\ Free(t)
    /\ Install(t, NoPath, FALSE)
    /\ Did(Call(t, "pipe", LowestFree(t), NoPath))
    /\ UNCHANGED <<task, inflight, stage, hidden, leaked>>

May(what) == what \in mix.does

Step(t) ==
    \/ \E path \in mix.paths, writing, cloexec \in BOOLEAN :
           /\ ~writing => May("read")
           /\ cloexec => May("exec")
           /\ OpenEnter(t, path, writing, cloexec)
    \/ \E ok \in BOOLEAN : (~ok => May("fail")) /\ OpenExit(t, ok)
    \/ May("write") /\ \E fd \in Fds(t) : Write(t, fd)
    \/ May("close") /\ \E fd \in Fds(t) : Close(t, fd)
    \/ May("mkdir") /\ \E path \in mix.paths : PathOnly(t, path)
    \/ May("connect") /\ \E known \in BOOLEAN : Connect(t, known)
    \/ May("exec") /\ Exec(t)
    \/ May("pipe") /\ Untraced(t)

Next ==
    /\ \/ \E t \in mix.tasks : Step(t)
       \/ May("kill") /\ \E p \in Processes : Killed(p)
    /\ UNCHANGED mix

Spec == Init /\ [][Next]_vars

-----------------------------------------------------------------------------
(* Properties                                                              *)

\* An open record joins the path of a call with the descriptor of the same
\* call, whatever else the process's other threads have in flight.
OpensPaired ==
    ~leaked => \A r \in Range(records) : r.kind = "open" =>
        LET call == calls[r.call]
        IN  /\ call.op = "open" /\ call.tgid = r.tgid /\ call.fd = r.fd
            /\ r.path = Named(r, call.path).path

Unnamed(events) == UNION {e.calls : e \in {f \in Range(events) : f.kind = "write" /\ f.path = ""}}

\* Every write of a recorded process is told exactly once, in the total of a
\* file or as a write to an unknown descriptor, even where a descriptor changed
\* hands unseen.
WritesTold ==
    LET merged == Merged
        tellers(i) == {k \in DOMAIN merged : merged[k].kind = "write" /\ i \in merged[k].calls}
    IN  /\ \A i \in DOMAIN calls : calls[i].op = "write" =>
               Cardinality(tellers(i)) = IF calls[i].tgid \in Tracked THEN 1 ELSE 0
        /\ Unnamed(merged) = merge.writes_without_path

\* A path marked Absolute is the path the kernel used, as long as every
\* descriptor's end was reported.
AbsoluteIsTrue ==
    (~hidden /\ ~leaked) => \A e \in Range(Merged) : e.origin = "Absolute" =>
        \A i \in e.calls : calls[i].path.abs /\ calls[i].path.name = e.path
=============================================================================
