------------------------------- MODULE Parser -------------------------------
(***************************************************************************)
(* The strace parser, recorder/src/parser.rs: Feed is feed_line, Finish is *)
(* finish, as operators from a parser to the parser after the call.        *)
(*                                                                         *)
(* A line is [pid, form, call].  Its form says what splitting it finds:    *)
(*   call   a whole call          head, tail  the two halves of one that   *)
(*   exit, bareExit  "+++"                    was printed in two lines     *)
(*   signal "---"                 garbage  none of these                   *)
(*   noise, loss  strace's own messages, the second about lost data        *)
(* where bareExit has no timestamp.  A call carries its decoded arguments  *)
(* and result, its number id, and the path `real` it had in the kernel,    *)
(* which the parser never reads.  An event keeps the numbers of the calls  *)
(* it reports; a byte total is the set of calls whose bytes it adds up.    *)
(***************************************************************************)
EXTENDS FdTable

CONSTANTS
    EventCap,   \* event_cap
    OfInterest  \* paths whose reads are recorded

DnsPort == 53

Stats == [lines_seen |-> 0, lines_parsed |-> 0, parse_errors |-> 0,
          unmatched_unfinished |-> 0, signals |-> 0, exits |-> 0,
          diagnostics |-> 0, diagnostic_data_loss |-> 0,
          dns_undecodable |-> 0, evasion_attempts |-> 0]

NewParser == [fds |-> EmptyTable, pending |-> <<>>, writes |-> <<>>,
              stats |-> Stats, events |-> <<>>, cap_reached |-> FALSE]

Count(ps, counter) == [ps EXCEPT !.stats[counter] = @ + 1]

-----------------------------------------------------------------------------
(* Emitting                                                                *)

\* events_emitted counts the events of the stream, so their number stands for it.
Emit(ps, event) ==
    IF Len(ps.events) >= EventCap THEN [ps EXCEPT !.cap_reached = TRUE]
    ELSE [ps EXCEPT !.events = Append(@, event)]

Event(kind, target, calls) ==
    [kind |-> kind, target |-> target, source |-> NoTarget, calls |-> calls]

\* The total is gone from the accumulators whether or not the cap lets it out.
FlushWrite(ps, key) ==
    Emit([ps EXCEPT !.writes = Restrict(@, DOMAIN @ \ {key})],
         Event("write", ps.writes[key].target, ps.writes[key].calls))

FlushWrites(ps, keys) ==
    FoldLeft(FlushWrite, ps,
             SetToSortSeq(keys, LAMBDA a, b : a[1] < b[1] \/ (a[1] = b[1] /\ a[2] < b[2])))

FlushPidWrites(ps, pid) == FlushWrites(ps, {k \in DOMAIN ps.writes : k[1] = pid})

-----------------------------------------------------------------------------
(* The calls                                                               *)

\* The annotation of the descriptor argument if it is a path, or the table's file.
DescriptorTarget(ps, pid, c) ==
    LET entry == Get(ps.fds, pid, c.fd)
    IN  CASE c.ann.abs -> TracedPath(c.ann, "Kernel")
          [] ~c.ann.abs /\ entry.kind = "file" -> TracedPath(entry.path, entry.origin)
          [] OTHER -> NoTarget

EmitAt(ps, kind, target, c) ==
    IF target = NoTarget THEN ps ELSE Emit(ps, Event(kind, target, {c.id}))

OpenCall(ps, pid, c) ==
    LET target == Resolve(ps.fds, pid, c.dirfd, c.dirann, c.path, c.ann)
        opened == IF c.ok
                  THEN [ps EXCEPT !.fds = OpenFile(@, pid, c.new, target.path, target.origin)]
                  ELSE ps
    IN  CASE target = NoTarget -> ps
          [] target # NoTarget /\ c.writing -> EmitAt(opened, "open", target, c)
          [] target # NoTarget /\ ~c.writing /\ target.path \in OfInterest ->
                EmitAt(opened, "read", target, c)
          [] OTHER -> opened

\* A total whose descriptor now means another path is emitted, and a new one begun.
WriteCall(ps, pid, c) ==
    LET key == <<pid, c.fd>>
        target == DescriptorTarget(ps, pid, c)
        begin(q) == [q EXCEPT !.writes = (key :> [target |-> target, calls |-> {c.id}]) @@ @]
    IN  CASE ~c.ok \/ target = NoTarget -> ps
          [] c.ok /\ target # NoTarget /\ key \notin DOMAIN ps.writes -> begin(ps)
          [] c.ok /\ target # NoTarget /\ key \in DOMAIN ps.writes ->
                IF ps.writes[key].target.path = target.path
                THEN [ps EXCEPT !.writes[key].calls = @ \cup {c.id}]
                ELSE begin(FlushWrite(ps, key))

\* Mutant: a close forgets the descriptor and its total.
MutantCloseCall(ps, pid, c) ==
    [ps EXCEPT !.fds = CloseFd(@, pid, c.fd), !.writes = Restrict(@, DOMAIN @ \ {<<pid, c.fd>>})]

\* Even a close that failed forgets the descriptor.
CloseCall(ps, pid, c) ==
    LET key == <<pid, c.fd>>
        flushed == IF key \in DOMAIN ps.writes THEN FlushWrite(ps, key) ELSE ps
    IN  [flushed EXCEPT !.fds = CloseFd(@, pid, c.fd)]

DupCall(ps, pid, c) ==
    LET entry == Get(ps.fds, pid, c.fd)
    IN  IF c.ok /\ entry # Missing
        THEN [ps EXCEPT !.fds = Put(@, pid, c.new, entry)] ELSE ps

ChdirCall(ps, pid, c) ==
    LET known == c.path.abs \/ pid \in DOMAIN ps.fds.cwd
        base == IF c.path.abs THEN Path(<<>>) ELSE ps.fds.cwd[pid]
    IN  IF c.ok /\ known
        THEN [ps EXCEPT !.fds = SetCwd(@, pid, Join(base, c.path))] ELSE ps

FchdirCall(ps, pid, c) ==
    LET entry == Get(ps.fds, pid, c.fd)
    IN  IF c.ok /\ entry.kind = "file"
        THEN [ps EXCEPT !.fds = SetCwd(@, pid, entry.path)] ELSE ps

\* truncate, mkdir, rmdir, unlink.
PathCall(ps, pid, c) ==
    EmitAt(ps, c.op, Resolve(ps.fds, pid, NoFd, NoPath, c.path, NoPath), c)

\* mkdirat, unlinkat: the same through a directory descriptor.
AtCall(ps, pid, c) ==
    EmitAt(ps, c.op, Resolve(ps.fds, pid, c.dirfd, c.dirann, c.path, NoPath), c)

\* chmod, chown, lchown.
ModeCall(ps, pid, c) == PathCall(ps, pid, c)

\* fchmodat, fchownat.
ModeAtCall(ps, pid, c) == AtCall(ps, pid, c)

\* rename, link, symlink: placed at the destination.  The source is resolved only
\* if it is absolute; what a symbolic link holds is no path to resolve.
RenameCall(ps, pid, c) ==
    LET target == Resolve(ps.fds, pid, NoFd, NoPath, c.path, NoPath)
        source == IF c.op # "symlink" /\ c.source.abs
                  THEN TracedPath(Normalize(c.source), "Absolute")
                  ELSE TracedPath(c.source, "Unresolved")
    IN  IF target = NoTarget THEN ps
        ELSE Emit(ps, [Event(c.op, target, {c.id}) EXCEPT !.source = source])

\* renameat, renameat2, linkat, symlinkat: source and destination each have a
\* directory descriptor, but for the contents of a symbolic link.
RenameAtCall(ps, pid, c) ==
    LET target == Resolve(ps.fds, pid, c.dirfd, c.dirann, c.path, NoPath)
        source == IF c.op = "symlinkat" THEN TracedPath(c.source, "Unresolved")
                  ELSE Resolve(ps.fds, pid, c.srcfd, c.srcann, c.source, NoPath)
    IN  IF target = NoTarget THEN ps
        ELSE Emit(ps, [Event(c.op, target, {c.id}) EXCEPT !.source = source])

\* fchmod, fchown, ftruncate.
DescriptorCall(ps, pid, c) == EmitAt(ps, c.op, DescriptorTarget(ps, pid, c), c)

SocketCall(ps, pid, c) ==
    IF c.ok THEN [ps EXCEPT !.fds = OpenSocket(@, pid, c.new)] ELSE ps

\* A family the decoder knows gives an event whether or not the call succeeded.
ConnectCall(ps, pid, c) ==
    LET peered == IF c.ok THEN [ps EXCEPT !.fds = SetSocketPeer(@, pid, c.fd, c.peer)] ELSE ps
    IN  Emit(peered, Event("connect", NoTarget, {c.id}))

\* A datagram to the resolver's port, named in the call or by an earlier connect.
SendCall(ps, pid, c) ==
    LET entry == Get(ps.fds, pid, c.fd)
        recorded == IF entry.kind = "socket" THEN entry.peer ELSE NoPeer
        port == IF c.peer # NoPeer THEN c.peer ELSE recorded
    IN  CASE port # DnsPort -> ps
          [] port = DnsPort /\ c.decodable -> Emit(ps, Event("dns", NoTarget, {c.id}))
          [] OTHER -> Count(ps, "dns_undecodable")

\* The descriptor table is left as it was.
ExecCall(ps, pid, c) == Emit(ps, Event("exec", NoTarget, {c.id}))

CloneCall(ps, pid, c) ==
    IF c.ok THEN [ps EXCEPT !.fds = ForkTable(@, pid, c.new)] ELSE ps

PtraceCall(ps, c) == IF c.benign THEN ps ELSE Count(ps, "evasion_attempts")

HandleCall(ps, pid, c) ==
    CASE c.op = "open"     -> OpenCall(ps, pid, c)
      [] c.op = "write"    -> WriteCall(ps, pid, c)
      [] c.op = "close"    -> CloseCall(ps, pid, c)
      [] c.op = "dup"      -> DupCall(ps, pid, c)
      [] c.op = "chdir"    -> ChdirCall(ps, pid, c)
      [] c.op = "fchdir"   -> FchdirCall(ps, pid, c)
      [] c.op = "mkdir"    -> PathCall(ps, pid, c)
      [] c.op = "mkdirat"  -> AtCall(ps, pid, c)
      [] c.op \in {"rename", "symlink"}     -> RenameCall(ps, pid, c)
      [] c.op \in {"renameat", "symlinkat"} -> RenameAtCall(ps, pid, c)
      [] c.op = "chmod"    -> ModeCall(ps, pid, c)
      [] c.op = "fchmodat" -> ModeAtCall(ps, pid, c)
      [] c.op = "fchmod"   -> DescriptorCall(ps, pid, c)
      [] c.op = "socket"   -> SocketCall(ps, pid, c)
      [] c.op = "connect"  -> ConnectCall(ps, pid, c)
      [] c.op = "send"     -> SendCall(ps, pid, c)
      [] c.op = "execve"   -> ExecCall(ps, pid, c)
      [] c.op = "clone"    -> CloneCall(ps, pid, c)
      [] c.op = "ptrace"   -> PtraceCall(ps, c)
      [] OTHER -> ps

-----------------------------------------------------------------------------
(* The lines                                                               *)

\* A head of the same process and call that is still pending is replaced.
HeadLine(ps, line) ==
    [ps EXCEPT !.pending = (<<line.pid, line.call.op>> :> line.call) @@ @]

\* The resumed line brings the rest of the arguments and the result.
TailLine(ps, line) ==
    LET key == <<line.pid, line.call.op>>
        resumed == [ps EXCEPT !.pending = Restrict(@, DOMAIN @ \ {key})]
    IN  IF key \in DOMAIN ps.pending
        THEN HandleCall(Count(resumed, "lines_parsed"), line.pid, line.call)
        ELSE Count(ps, "unmatched_unfinished")

ExitLine(ps, line) ==
    LET q == FlushPidWrites(Count(ps, "exits"), line.pid)
    IN  [q EXCEPT !.fds = ProcessExited(@, line.pid)]

\* An exit notice without a timestamp leaves the totals to finish.
BareExitLine(ps, line) ==
    LET q == Count(ps, "exits") IN [q EXCEPT !.fds = ProcessExited(@, line.pid)]

Feed(ps, line) ==
    LET seen == Count(ps, "lines_seen")
    IN  CASE line.form = "noise" -> Count(seen, "diagnostics")
          [] line.form = "loss" -> Count(Count(seen, "diagnostics"), "diagnostic_data_loss")
          [] line.form = "bareExit" -> BareExitLine(seen, line)
          [] line.form = "garbage" -> Count(seen, "parse_errors")
          [] line.form = "exit" -> ExitLine(seen, line)
          [] line.form = "signal" -> Count(seen, "signals")
          [] line.form = "tail" -> TailLine(seen, line)
          [] line.form = "head" -> HeadLine(seen, line)
          [] OTHER -> HandleCall(Count(seen, "lines_parsed"), line.pid, line.call)

\* Mutant: calls that never completed are forgotten.
MutantFinish(ps) == FlushWrites(ps, DOMAIN ps.writes)

Finish(ps) ==
    LET q == [ps EXCEPT !.stats.unmatched_unfinished = @ + Cardinality(DOMAIN ps.pending),
                        !.pending = <<>>]
    IN  FlushWrites(q, DOMAIN q.writes)
=============================================================================
