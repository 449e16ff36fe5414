------------------------------ MODULE MCProbes ------------------------------
(* An instance of Probes: a recorded process of two threads and another. *)
EXTENDS Probes

MCPath(name, abs, long) == [name |-> name, abs |-> abs, long |-> long]
MCPaths == {MCPath("/a", TRUE, FALSE), MCPath("b", FALSE, FALSE), MCPath("/c", TRUE, TRUE)}
MCTwo == {MCPath("/a", TRUE, FALSE), MCPath("/d", TRUE, FALSE)}
MCGroup == (1 :> "npm") @@ (2 :> "npm") @@ (3 :> "agent")

Mix(does, tasks, paths, most) == [does |-> does, tasks |-> tasks, paths |-> paths, calls |-> most]

MCMixes == {
    Mix({"write", "close"}, {1, 2}, MCTwo, 4),
    Mix({"write", "close", "read", "fail"}, {1}, MCTwo, 5),
    Mix({"write", "exec", "pipe"}, {1}, MCTwo, 5),
    Mix({"read", "kill", "write"}, {1, 2}, MCTwo, 3),
    Mix({"write", "mkdir", "connect", "fail"}, {1}, MCPaths, 4),
    Mix({"write", "mkdir", "fail"}, {1, 3}, MCPaths, 3)}
=============================================================================
