------------------------------ MODULE FdTable ------------------------------
(***************************************************************************)
(* The descriptor table and path resolution of recorder/src/fdtable.rs, as *)
(* operators over a table                                                  *)
(*                                                                         *)
(*   files : pid -> descriptor -> target, for the pids it has a table of   *)
(*   cwd   : pid -> directory, for the pids whose directory it knows       *)
(*                                                                         *)
(* A path is [abs, names]: whether it starts with a slash, and its         *)
(* components.  NoPath stands for an argument or annotation that is not    *)
(* there, or that does not name a path.  A socket's peer is the port it    *)
(* was connected to, or NoPeer.                                            *)
(***************************************************************************)
EXTENDS Naturals, Sequences, SequencesExt

Path(names) == [abs |-> TRUE, names |-> names]
Relative(names) == [abs |-> FALSE, names |-> names]
NoPath == Relative(<<>>)
NoPeer == 0
NoFd == 0

File(path, origin) == [kind |-> "file", path |-> path, origin |-> origin]
Socket(peer) == [kind |-> "socket", peer |-> peer]
Missing == [kind |-> "none"]

EmptyTable == [files |-> <<>>, cwd |-> <<>>]

-----------------------------------------------------------------------------
(* The table                                                               *)

Descriptors(t, pid) == IF pid \in DOMAIN t.files THEN t.files[pid] ELSE <<>>

Get(t, pid, fd) ==
    IF fd \in DOMAIN Descriptors(t, pid) THEN t.files[pid][fd] ELSE Missing

Put(t, pid, fd, target) ==
    [t EXCEPT !.files = (pid :> ((fd :> target) @@ Descriptors(t, pid))) @@ @]

OpenFile(t, pid, fd, path, origin) == Put(t, pid, fd, File(path, origin))

OpenSocket(t, pid, fd) == Put(t, pid, fd, Socket(NoPeer))

\* The entry is made if there is none, and replaced if it is a file.
SetSocketPeer(t, pid, fd, peer) == Put(t, pid, fd, Socket(peer))

CloseFd(t, pid, fd) ==
    IF pid \in DOMAIN t.files
    THEN [t EXCEPT !.files[pid] = Restrict(@, DOMAIN @ \ {fd})]
    ELSE t

\* Mutant: a child keeps the directory that was seeded for it.
MutantForkTable(t, parent, child) ==
    IF parent \in DOMAIN t.files
    THEN [t EXCEPT !.files = (child :> t.files[parent]) @@ @] ELSE t

\* A child's own table and directory are kept only where the parent has none.
ForkTable(t, parent, child) ==
    LET copy(f) == IF parent \in DOMAIN f THEN (child :> f[parent]) @@ f ELSE f
    IN  [files |-> copy(t.files), cwd |-> copy(t.cwd)]

ProcessExited(t, pid) ==
    [files |-> Restrict(t.files, DOMAIN t.files \ {pid}),
     cwd   |-> Restrict(t.cwd, DOMAIN t.cwd \ {pid})]

SetCwd(t, pid, dir) == [t EXCEPT !.cwd = (pid :> dir) @@ @]
SeedCwd(t, pid, dir) == [t EXCEPT !.cwd = @ @@ (pid :> dir)]

-----------------------------------------------------------------------------
(* Paths                                                                   *)

\* ".." goes up, except above the root (dropped) and above the start of a
\* relative path (kept).
Normalize(p) ==
    LET step(stack, part) ==
          CASE part = "." -> stack
            [] part = ".." /\ (\/ stack # <<>> /\ Last(stack) = ".."
                               \/ ~p.abs /\ stack = <<>>) -> Append(stack, part)
            [] part = ".." /\ stack = <<>> -> stack
            [] part = ".." -> Front(stack)
            [] OTHER -> Append(stack, part)
    IN  [p EXCEPT !.names = FoldLeft(step, <<>>, @)]

Join(base, relative) ==
    IF relative.abs THEN Normalize(relative)
    ELSE Normalize([base EXCEPT !.names = @ \o relative.names])

TracedPath(path, origin) == [path |-> path, origin |-> origin]
NoTarget == TracedPath(NoPath, "none")

\* dirfd is NoFd for AT_FDCWD and for the calls without such an argument;
\* dirann is its annotation, ann the annotation of the returned descriptor.
Resolve(t, pid, dirfd, dirann, raw, ann) ==
    CASE ann.abs -> TracedPath(Normalize(ann), "Kernel")
      [] ~ann.abs /\ raw = NoPath -> NoTarget
      [] ~ann.abs /\ raw.abs -> TracedPath(Normalize(raw), "Absolute")
      [] OTHER ->
           LET entry == Get(t, pid, dirfd)
               base == CASE dirfd # NoFd /\ dirann.abs -> dirann
                         [] dirfd # NoFd /\ ~dirann.abs /\ entry.kind = "file" -> entry.path
                         [] dirfd = NoFd /\ pid \in DOMAIN t.cwd -> t.cwd[pid]
                         [] OTHER -> NoPath
           IN  IF base = NoPath THEN TracedPath(raw, "Unresolved")
               ELSE TracedPath(Join(base, raw), "ResolvedFromDirfd")
=============================================================================
