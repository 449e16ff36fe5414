------------------------------- MODULE Parity -------------------------------
(***************************************************************************)
(* Whether two recordings of one workload, one of each backend, say the    *)
(* same: recorder/parity.rs.                                               *)
(***************************************************************************)
EXTENDS Rules

\* What a stream asserts, without times, pids and byte counts.
Facts(e) ==
    CASE e.op = "fs_write" ->
            IF e.failed THEN {}
            ELSE {[is |-> "Wrote", kind |-> e.kind, abs |-> e.path.abs, names |-> e.path.names]}
      [] e.op = "fs_read" ->
            IF e.failed THEN {} ELSE {[is |-> "Read", abs |-> e.path.abs, names |-> e.path.names]}
      [] e.op = "net_connect" ->
            IF e.failed \/ e.ip = "none" THEN {} ELSE {[is |-> "Connected", ip |-> e.ip, port |-> e.port]}
      [] e.op = "dns_query" -> {[is |-> "Resolved", qname |-> e.qname]}
      [] e.op = "proc_spawn" -> IF e.bin = "none" THEN {} ELSE {[is |-> "Spawned", bin |-> e.bin]}
      [] OTHER -> {}
FactsOf(stream) == UNION {Facts(stream[i]) : i \in DOMAIN stream}

\* Opening, writing, creating and truncating may be told apart by when a backend looks.
KindMatches(a, b) == a = b \/ {a, b} \subseteq {"Open", "Write", "Create", "Truncate"}

\* The same write, spelled from the working directory by one backend and resolved by the other.
Pair(absolute, relative) ==
    /\ absolute.abs /\ ~relative.abs
    /\ relative.names # <<>> /\ IsSuffix(relative.names, absolute.names)
MutantHasCounterpart(fact, others) ==
    \E other \in others : other.is = "Wrote" /\ KindMatches(fact.kind, other.kind) /\ Pair(fact, other)
HasCounterpart(fact, others) ==
    \E other \in others :
        /\ other.is = "Wrote" /\ KindMatches(fact.kind, other.kind)
        /\ Pair(fact, other) \/ Pair(other, fact)

\* Files the shell or the recorder opened before the exec.
IsInherited(fact) ==
    fact.abs /\ (fact.names = <<"dev", "null">> \/ Last(fact.names) \in {"command-stderr.log", "command-stdout.log"})

ExpectedMissingFromAya(fact, aya) ==
    CASE fact.is = "Wrote" -> IsInherited(fact) \/ ~fact.abs \/ HasCounterpart(fact, aya)
      [] fact.is = "Connected" -> FALSE
      [] OTHER -> TRUE

\* A directory above something else that was written: mkdir -p, seen before its outcome is known.
\* Names are compared whole; of an absolute path the code compares the text, so that
\* it also takes /w/a for a directory above /w/ab.
IsComponent(fact, facts) ==
    \E other \in facts :
        /\ other.is = "Wrote" /\ <<other.abs, other.names>> # <<fact.abs, fact.names>>
        /\ IF fact.abs THEN other.abs /\ IsPrefix(fact.names, other.names)
           ELSE \E i \in (IF other.abs THEN 0 ELSE 1)..(Len(other.names) - Len(fact.names)) :
                    SubSeq(other.names, i + 1, i + Len(fact.names)) = fact.names

ExpectedMissingFromStrace(fact, strace, aya) ==
    CASE fact.is = "Wrote" ->
            HasCounterpart(fact, strace) \/ (fact.kind = "Mkdir" /\ IsComponent(fact, strace \cup aya))
      [] fact.is = "Spawned" -> TRUE
      [] OTHER -> FALSE

Unexplained(strace, aya) ==
    LET here == FactsOf(strace)
        there == FactsOf(aya)
    IN  {f \in here \ there : ~ExpectedMissingFromAya(f, there)}
        \cup {f \in there \ here : ~ExpectedMissingFromStrace(f, here, there)}

\* A partial input fails the comparison whatever it holds.
ParityPassed(strace, aya) ==
    /\ ~Completeness(strace).partial
    /\ ~Completeness(aya).partial
    /\ Unexplained(strace, aya) = {}
=============================================================================
