----------------------------- MODULE TracedTree -----------------------------
(***************************************************************************)
(* A process tree under strace -f -ff -yy, the trace files it leaves, and  *)
(* the part of record() in recorder/src/strace.rs that feeds those files   *)
(* to the parser, one after the other in the order of their pids.          *)
(*                                                                         *)
(* The tree makes its calls in real time; each prints one line, or two     *)
(* halves, in its own process's file.  The parser runs afterwards and sees *)
(* each file as a whole.  `real` is what a call did in the kernel.  Every  *)
(* recording is about one mix of calls, and either strace can annotate     *)
(* descriptors with their paths throughout it or it cannot.                *)
(***************************************************************************)
EXTENDS Parser

CONSTANTS
    Pids,       \* pids, as numbers: their order is the order of the files
    Roots,      \* which of them may be the recorded command
    Cwd,        \* config.cwd
    Places,     \* paths that calls name
    Mixes,      \* bound: the calls one recording makes, and how many lines of them
    Annotates   \* whether -yy finds the path of a descriptor: TRUE, FALSE or both

ASSUME PidAssumption == Pids \subseteq Nat \ {0} /\ Roots \subseteq Pids
ASSUME CapAssumption == EventCap \in Nat /\ \A m \in Mixes : m.lines \in Nat
ASSUME ChoiceAssumption == Annotates \subseteq BOOLEAN

VARIABLES
    proc,       \* unused, alive or dead
    owner,      \* whose descriptors and directory a process uses: its own, or
                \* those of the process it is a thread of
    open,       \* per owner: descriptor -> open file, pipe or socket
    dir,        \* per owner: current directory
    log,        \* all lines printed so far, in real time
    mix,        \* the calls this recording makes
    annotated,  \* whether -yy works in this recording
    blind,      \* history: a descriptor table or directory changed in a way that
                \* the lines before it in the process's own file do not tell
    phase,      \* run, feed or done
    unfed,      \* lines still to be fed
    ps          \* the parser

kernel == <<proc, owner, open, dir>>
choices == <<mix, annotated>>
vars == <<kernel, log, choices, blind, phase, unfed, ps>>

Opened(kind, path, cloexec) == [kind |-> kind, path |-> path, peer |-> NoPeer, cloexec |-> cloexec]

\* A command may start with a descriptor that no line of the trace opened.
Init ==
    \E root \in Roots :
        /\ mix \in Mixes
        /\ proc = [p \in Pids |-> IF p = root THEN "alive" ELSE "unused"]
        /\ owner = [p \in Pids |-> p]
        /\ open = [p \in Pids |-> IF p = root /\ "inherit" \in mix.calls
                                THEN 3 :> Opened("file", CHOOSE x \in Places : x.abs, FALSE) ELSE <<>>]
        /\ dir = [p \in Pids |-> Cwd]
        /\ log = <<>>
        /\ annotated \in Annotates
        /\ blind = ("inherit" \in mix.calls)
        /\ phase = "run"
        /\ unfed = <<>>
        /\ ps = NewParser

-----------------------------------------------------------------------------
(* Lines                                                                   *)

\* What a call is unless it says otherwise.
Call(op) ==
    [op |-> op, id |-> Len(log) + 1, ok |-> TRUE, fd |-> NoFd, new |-> NoFd,
     path |-> NoPath, ann |-> NoPath, dirfd |-> NoFd, dirann |-> NoPath,
     source |-> NoPath, srcfd |-> NoFd, srcann |-> NoPath, real |-> NoPath,
     realsource |-> NoPath, writing |-> TRUE, peer |-> NoPeer,
     decodable |-> TRUE, asks |-> FALSE, benign |-> FALSE]

Line(p, form, call) == [pid |-> p, form |-> form, call |-> call]

Busy(p, op) == phase = "run" /\ proc[p] = "alive" /\ op \in mix.calls /\ Len(log) < mix.lines

\* A call prints one line, or its head and then its tail.
Prints(p, call) ==
    \/ log' = Append(log, Line(p, "call", call))
    \/ /\ "split" \in mix.calls
       /\ log' = log \o <<Line(p, "head", call), Line(p, "tail", call)>>

-----------------------------------------------------------------------------
(* The kernel                                                              *)

Fds(p) == DOMAIN open[owner[p]]
Entry(p, fd) == open[owner[p]][fd]
FilesOf(p) == {fd \in Fds(p) : Entry(p, fd).kind = "file"}
LowestFree(p) == CHOOSE n \in 3..(Len(log) + 4) : n \notin Fds(p) /\ \A k \in 3..(n - 1) : k \in Fds(p)
Shared(p) == \E q \in Pids : q # p /\ owner[q] = owner[p]
Annotation(p, fd) == IF annotated /\ Entry(p, fd).kind = "file" THEN Entry(p, fd).path ELSE NoPath

\* Another thread's file does not show the change.
Changes(p) == blind' = (blind \/ Shared(p))

Install(p, fd, what) == open' = [open EXCEPT ![owner[p]] = (fd :> what) @@ @]

Open(p, named, cloexec, writing) ==
    /\ Busy(p, "open")
    /\ cloexec => "execve" \in mix.calls
    /\ ~writing => "read" \in mix.calls
    /\ LET path == Join(dir[owner[p]], named)
           fd == LowestFree(p)
       IN  /\ Install(p, fd, Opened("file", path, cloexec))
           /\ Prints(p, [Call("open") EXCEPT !.path = named, !.new = fd, !.real = path,
                             !.writing = writing, !.ann = IF annotated THEN path ELSE NoPath])
    /\ Changes(p)
    /\ UNCHANGED <<proc, owner, dir, choices, phase, unfed, ps>>

\* An open that fails is evidence too, of an attempt at its path.
OpenRefused(p, named) ==
    /\ Busy(p, "refused")
    /\ Prints(p, [Call("open") EXCEPT !.ok = FALSE, !.path = named, !.real = Join(dir[owner[p]], named)])
    /\ UNCHANGED <<kernel, choices, blind, phase, unfed, ps>>

\* pipe, accept, eventfd and their like are not traced.
Untraced(p) ==
    /\ Busy(p, "pipe")
    /\ \A fd \in Fds(p) : Entry(p, fd).kind # "pipe"    \* bound
    /\ Install(p, LowestFree(p), Opened("pipe", NoPath, FALSE))
    /\ Changes(p)
    /\ UNCHANGED <<proc, owner, dir, log, choices, phase, unfed, ps>>

Write(p, fd, ok) ==
    /\ Busy(p, "write")
    /\ fd \in Fds(p)
    /\ ok \/ "failed" \in mix.calls
    /\ Prints(p, [Call("write") EXCEPT !.fd = fd, !.ok = ok, !.ann = Annotation(p, fd),
                                      !.real = Entry(p, fd).path])
    /\ UNCHANGED <<kernel, choices, blind, phase, unfed, ps>>

Close(p, fd) ==
    /\ Busy(p, "close")
    /\ fd \in Fds(p)
    /\ open' = [open EXCEPT ![owner[p]] = Restrict(@, DOMAIN @ \ {fd})]
    /\ Prints(p, [Call("close") EXCEPT !.fd = fd, !.ann = Annotation(p, fd)])
    /\ Changes(p)
    /\ UNCHANGED <<proc, owner, dir, choices, phase, unfed, ps>>

Dup(p, fd) ==
    /\ Busy(p, "dup")
    /\ fd \in Fds(p)
    /\ Install(p, LowestFree(p), [Entry(p, fd) EXCEPT !.cloexec = FALSE])
    /\ Prints(p, [Call("dup") EXCEPT !.fd = fd, !.new = LowestFree(p)])
    /\ Changes(p)
    /\ UNCHANGED <<proc, owner, dir, choices, phase, unfed, ps>>

Chdir(p, named) ==
    /\ Busy(p, "chdir")
    /\ dir' = [dir EXCEPT ![owner[p]] = Join(@, named)]
    /\ Prints(p, [Call("chdir") EXCEPT !.path = named])
    /\ Changes(p)
    /\ UNCHANGED <<proc, owner, open, choices, phase, unfed, ps>>

Fchdir(p, fd) ==
    /\ Busy(p, "fchdir")
    /\ fd \in FilesOf(p)
    /\ dir' = [dir EXCEPT ![owner[p]] = Entry(p, fd).path]
    /\ Prints(p, [Call("fchdir") EXCEPT !.fd = fd])
    /\ Changes(p)
    /\ UNCHANGED <<proc, owner, open, choices, phase, unfed, ps>>

\* mkdir, or any call on one named path, relative to the directory.
Mutate(p, named, op) ==
    /\ Busy(p, op)
    /\ Prints(p, [Call(op) EXCEPT !.path = named, !.real = Join(dir[owner[p]], named)])
    /\ UNCHANGED <<kernel, choices, blind, phase, unfed, ps>>

MutateAt(p, fd, named, op) ==
    /\ Busy(p, op)
    /\ fd \in FilesOf(p)
    /\ Prints(p, [Call(op) EXCEPT !.path = named, !.dirfd = fd, !.dirann = Annotation(p, fd),
                                       !.real = Join(Entry(p, fd).path, named)])
    /\ UNCHANGED <<kernel, choices, blind, phase, unfed, ps>>

Rename(p, from, to, op) ==
    /\ Busy(p, op)
    /\ LET real(named) == Join(dir[owner[p]], named)
       IN  Prints(p, [Call(op) EXCEPT !.path = to, !.source = from,
                                     !.real = real(to), !.realsource = real(from)])
    /\ UNCHANGED <<kernel, choices, blind, phase, unfed, ps>>

RenameAt(p, fd, from, to, op) ==
    /\ Busy(p, op)
    /\ fd \in FilesOf(p)
    /\ LET base == Entry(p, fd).path
       IN  Prints(p, [Call(op) EXCEPT !.path = to, !.source = from, !.dirfd = fd, !.srcfd = fd,
                        !.dirann = Annotation(p, fd), !.srcann = Annotation(p, fd),
                        !.real = Join(base, to), !.realsource = Join(base, from)])
    /\ UNCHANGED <<kernel, choices, blind, phase, unfed, ps>>

MutateOpen(p, fd) ==
    /\ Busy(p, "fchmod")
    /\ fd \in FilesOf(p)
    /\ Prints(p, [Call("fchmod") EXCEPT !.fd = fd, !.ann = Annotation(p, fd), !.real = Entry(p, fd).path])
    /\ UNCHANGED <<kernel, choices, blind, phase, unfed, ps>>

MakeSocket(p) ==
    /\ Busy(p, "socket")
    /\ Install(p, LowestFree(p), Opened("socket", NoPath, FALSE))
    /\ Prints(p, [Call("socket") EXCEPT !.new = LowestFree(p)])
    /\ Changes(p)
    /\ UNCHANGED <<proc, owner, dir, choices, phase, unfed, ps>>

Connect(p, fd, port, ok) ==
    /\ Busy(p, "connect")
    /\ fd \in Fds(p)
    /\ Entry(p, fd).kind = "socket"
    /\ open' = IF ok THEN [open EXCEPT ![owner[p]][fd].peer = port] ELSE open
    /\ Prints(p, [Call("connect") EXCEPT !.fd = fd, !.peer = port, !.ok = ok])
    /\ Changes(p)
    /\ UNCHANGED <<proc, owner, dir, choices, phase, unfed, ps>>

\* A datagram, to the address it names or to the connected peer.
Send(p, fd, port, decodable) ==
    /\ Busy(p, "send")
    /\ fd \in Fds(p)
    /\ Entry(p, fd).kind = "socket"
    /\ port # NoPeer \/ Entry(p, fd).peer # NoPeer
    /\ Prints(p, [Call("send") EXCEPT !.fd = fd, !.peer = port, !.decodable = decodable,
                    !.asks = DnsPort = IF port # NoPeer THEN port ELSE Entry(p, fd).peer])
    /\ UNCHANGED <<kernel, choices, blind, phase, unfed, ps>>

\* The kernel closes the close-on-exec descriptors; no line says which.
Exec(p) ==
    /\ Busy(p, "execve")
    /\ ~Shared(p)
    /\ LET kept == {fd \in Fds(p) : ~Entry(p, fd).cloexec}
       IN  /\ open' = [open EXCEPT ![owner[p]] = Restrict(@, kept)]
           /\ blind' = (blind \/ kept # Fds(p))
    /\ Prints(p, Call("execve"))
    /\ UNCHANGED <<proc, owner, dir, choices, phase, unfed, ps>>

\* A child has copies; a thread shares.  A child whose pid is below its parent's,
\* as after the pids wrapped around, has its file read before the fork is.
Fork(p, q, thread) ==
    /\ Busy(p, IF thread THEN "thread" ELSE "fork")
    /\ proc[q] = "unused"
    /\ proc' = [proc EXCEPT ![q] = "alive"]
    /\ owner' = IF thread THEN [owner EXCEPT ![q] = owner[p]] ELSE owner
    /\ open' = [open EXCEPT ![q] = open[owner[p]]]
    /\ dir' = [dir EXCEPT ![q] = dir[owner[p]]]
    /\ Prints(p, [Call("clone") EXCEPT !.new = q])
    /\ blind' = (blind \/ q < p)
    /\ UNCHANGED <<choices, phase, unfed, ps>>

Ptrace(p, benign) ==
    /\ Busy(p, "ptrace")
    /\ Prints(p, [Call("ptrace") EXCEPT !.benign = benign])
    /\ UNCHANGED <<kernel, choices, blind, phase, unfed, ps>>

\* A process ends, or is killed in the middle of a write or of its line.
Exit(p, last) ==
    /\ Busy(p, "exit")
    /\ proc' = [proc EXCEPT ![p] = "dead"]
    /\ log' = log \o [i \in DOMAIN last |-> Line(p, last[i], Call("write"))]
    /\ UNCHANGED <<owner, open, dir, choices, blind, phase, unfed, ps>>

\* A signal notice, or a message of strace's own.
Notice(p, form) ==
    /\ Busy(p, "notice")
    /\ log' = Append(log, Line(p, form, Call("notice")))
    /\ UNCHANGED <<kernel, choices, blind, phase, unfed, ps>>

-----------------------------------------------------------------------------
(* record()                                                                *)

\* The files in the order of their pids; the pids whose directory is seeded are
\* the ones that have a file.
Collect ==
    /\ phase = "run"
    /\ phase' = "feed"
    /\ unfed' = FlattenSeq([p \in 1..Max(Pids) |-> SelectSeq(log, LAMBDA l : l.pid = p)])
    /\ ps' = [ps EXCEPT !.fds = FoldFunction(LAMBDA p, t : SeedCwd(t, p, Cwd), @,
                                             [p \in {l.pid : l \in ToSet(log)} |-> p])]
    /\ UNCHANGED <<kernel, log, choices, blind>>

FeedLine ==
    /\ phase = "feed"
    /\ unfed # <<>>
    /\ ps' = Feed(ps, Head(unfed))
    /\ unfed' = Tail(unfed)
    /\ UNCHANGED <<kernel, log, choices, blind, phase>>

FinishParser ==
    /\ phase = "feed"
    /\ unfed = <<>>
    /\ ps' = Finish(ps)
    /\ phase' = "done"
    /\ UNCHANGED <<kernel, log, choices, blind, unfed>>

Endings == {<<"exit">>, <<"bareExit">>, <<"garbage">>, <<"head">>, <<"head", "exit">>}

Step(p) ==
    \/ \E named \in Places, cloexec, writing \in BOOLEAN : Open(p, named, cloexec, writing)
    \/ \E named \in Places : OpenRefused(p, named) \/ Chdir(p, named)
    \/ \E named \in Places, op \in {"mkdir", "chmod"} : Mutate(p, named, op)
    \/ Untraced(p) \/ MakeSocket(p) \/ Exec(p)
    \/ \E fd \in Fds(p), ok \in BOOLEAN : Write(p, fd, ok)
    \/ \E fd \in Fds(p) : Close(p, fd) \/ Dup(p, fd) \/ Fchdir(p, fd) \/ MutateOpen(p, fd)
    \/ \E fd \in Fds(p), named \in Places, op \in {"mkdirat", "fchmodat"} : MutateAt(p, fd, named, op)
    \/ \E from, to \in Places, op \in {"rename", "symlink"} : Rename(p, from, to, op)
    \/ \E fd \in Fds(p), from, to \in Places, op \in {"renameat", "symlinkat"} :
            RenameAt(p, fd, from, to, op)
    \/ \E fd \in Fds(p), port \in {DnsPort, DnsPort + 1}, ok \in BOOLEAN : Connect(p, fd, port, ok)
    \/ \E fd \in Fds(p), port \in {NoPeer, DnsPort}, ok \in BOOLEAN : Send(p, fd, port, ok)
    \/ \E q \in Pids, thread \in BOOLEAN : Fork(p, q, thread)
    \/ \E benign \in BOOLEAN : Ptrace(p, benign)
    \/ \E last \in Endings : Exit(p, last)
    \/ \E form \in {"signal", "noise", "loss"} : Notice(p, form)

Next == (\E p \in Pids : Step(p)) \/ Collect \/ FeedLine \/ FinishParser

Spec == Init /\ [][Next]_vars

-----------------------------------------------------------------------------
(* Properties                                                              *)

\* record() finds no reason of the parser's to call the recording partial.
Quiet(q) ==
    /\ \A counter \in {"parse_errors", "diagnostic_data_loss", "unmatched_unfinished",
                       "evasion_attempts"} : q.stats[counter] = 0
    /\ ~q.cap_reached

Events == ToSet(ps.events)
Lines == ToSet(log)
Calls == {l.call : l \in {m \in Lines : m.form \in {"call", "tail"}}}
Reports(call) == {i \in DOMAIN ps.events : call.id \in ps.events[i].calls}

\* Every successful write to a file is in exactly one byte total, and that total
\* names the file the kernel wrote; a write to a pipe or socket is in none.  So
\* no close, descriptor reuse, dup, fork, exit or end of trace loses bytes, adds
\* them twice or moves them to another file.  It holds of every write strace
\* annotated, and of all writes where the process's own lines tell its
\* descriptors.  (parser.rs: WriteAccumulator, flush_pid_writes, finish.)
VolumeIsExact ==
    phase = "done" /\ ~ps.cap_reached =>
        \A c \in {d \in Calls : d.op = "write"} :
            c.ann.abs \/ ~blind =>
                IF c.ok /\ c.real.abs
                THEN \E i \in DOMAIN ps.events :
                        Reports(c) = {i} /\ ps.events[i].target.path = c.real
                ELSE Reports(c) = {}

\* A path an event claims to have resolved is the path the kernel used, unless a
\* descriptor table or directory changed where the lines before it do not tell.
\* (fdtable.rs: resolve, fork, process_exited; strace.rs: the seeded directory.)
PathsAreTrue ==
    ~blind =>
        \A e \in Events : \A c \in {d \in Calls : d.id \in e.calls} :
            /\ e.target.origin \notin {"none", "Unresolved"} => e.target.path = c.real
            /\ e.source.origin \notin {"none", "Unresolved"} => e.source.path = c.realsource

\* A trace that gives no reason to call the recording partial has no cut, lost or
\* half line, and each of its calls that must leave an event left one: every
\* mutation, write-open, credential read, exec and connect, and every question to a
\* resolver except those counted as undecodable.  (parser.rs: ParseStats.)
QuietMeansWhole ==
    phase = "done" /\ Quiet(ps) =>
        /\ \A l \in Lines : l.form \notin {"loss", "garbage"}
        /\ \A l \in Lines : l.form = "head" => l.call \in Calls
        /\ \A c \in Calls :
              \/ /\ c.op \in {"open", "mkdir", "chmod", "rename", "symlink", "execve", "connect"}
                 /\ c.op = "open" => c.writing \/ c.real \in OfInterest
              \/ /\ c.op \in {"fchmod", "mkdirat", "fchmodat", "renameat", "symlinkat"}
                 /\ c.ann.abs \/ c.dirann.abs \/ ~blind
              \/ c.asks /\ c.decodable /\ ~blind
              => Reports(c) # {}
        /\ ~blind => ps.stats.dns_undecodable = Cardinality({c \in Calls : c.asks /\ ~c.decodable})
=============================================================================
