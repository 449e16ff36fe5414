---------------------------- MODULE MCTracedTree ----------------------------
(* Instances of TracedTree: what a recording may do, one mix at a time. *)
EXTENDS TracedTree

MCCwd == Path(<<"w">>)
MCPlaces == {Path(<<"x", "d">>), Relative(<<"..", "y">>)}
MCOfInterest == {Path(<<"x", "d">>)}

Mix(calls, lines) == [calls |-> calls, lines |-> lines]

MCMixes == {
    Mix({"open", "write", "close"}, 5),
    Mix({"open", "write", "dup", "failed"}, 4),
    Mix({"open", "write", "execve", "pipe"}, 4),
    Mix({"open", "write", "fork", "close"}, 4),
    Mix({"inherit", "open", "write", "thread", "close"}, 5),
    Mix({"inherit", "write", "split", "exit", "notice", "fork"}, 4),
    Mix({"open", "read", "fork", "refused"}, 4),
    Mix({"chdir", "mkdir", "fork", "thread"}, 4),
    Mix({"open", "fchdir", "mkdir", "mkdirat", "fchmod"}, 4),
    Mix({"open", "execve", "chmod", "fchmodat"}, 4),
    Mix({"chdir", "rename", "symlink"}, 4),
    Mix({"open", "renameat", "symlinkat", "execve"}, 3),
    Mix({"socket", "connect", "send", "ptrace"}, 4),
    Mix({"socket", "connect", "send", "fork", "thread"}, 4)}

=============================================================================
