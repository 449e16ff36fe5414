-------------------------------- MODULE Rules --------------------------------
(***************************************************************************)
(* From a stream of events to an analysis: core/zones.rs, catalog.rs,      *)
(* rules.rs, findings.rs and coverage.rs.                                  *)
(*                                                                         *)
(* A path is [abs, names], its components in a sequence; a host is the     *)
(* sequence of its labels; a port is a string.  A spawn has its executable *)
(* (bin), its words (argv, the first a basename) and, after -c, its script *)
(* in stages, cut at the pipes: each [gets, starts, names], the download   *)
(* tool it names, whether its text starts with the name of an interpreter, *)
(* and whether an interpreter is one of its words.  A zone that is unset,  *)
(* empty or the root directory is the empty sequence.  An event is a       *)
(* record with an op and a backend, and the fields of core/events.rs.      *)
(* A subject is a text, as the sequence of its parts.                      *)
(***************************************************************************)
EXTENDS Naturals, Sequences, FiniteSets, SequencesExt, FiniteSetsExt, Functions

IsFraming(e) == e.op \in {"session_start", "heartbeat", "session_end"}
Observations(stream) == SelectSeq(stream, LAMBDA e : ~IsFraming(e))
\* Mutant: a relative path is placed as it stands.
MutantIsResolved(path, origin) == TRUE
IsResolved(path, origin) == origin # "Unresolved" /\ path.abs

\* What a rule and a report call the thing an event is about.
Subject(e) ==
    CASE e.op \in {"fs_write", "fs_read"} -> IF e.path.abs THEN <<"/">> \o e.path.names ELSE e.path.names
      [] e.op = "net_connect" -> <<e.ip, e.port>>
      [] e.op = "dns_query" -> e.qname
      [] e.op = "proc_spawn" -> e.words

-----------------------------------------------------------------------------
(* zones.rs                                                                *)

Within(path, prefix) == prefix # <<>> /\ IsPrefix(prefix, path.names)

RuntimeRoots == {<<"proc">>, <<"sys">>, <<"dev">>, <<"run">>, <<"var", "run">>}
IsRuntime(path) == \E root \in RuntimeRoots : IsPrefix(root, path.names)

\* The first zone that holds the path.  Project and cache may lie inside home or tmp.
ZoneOrder == <<"project", "cache", "home", "tmp">>

Placement(path, origin, zones) ==
    LET first == SelectInSeq(ZoneOrder, LAMBDA z : Within(path, zones[z]))
    IN  CASE ~IsResolved(path, origin) -> "Unresolvable"
          [] IsResolved(path, origin) /\ IsRuntime(path) -> "Runtime"
          [] OTHER -> IF first # 0 THEN ZoneOrder[first]
                      ELSE IF \E x \in zones.extra : Within(path, x) THEN "declared" ELSE "Outside"

-----------------------------------------------------------------------------
(* catalog.rs                                                              *)

\* A suffix holds whole labels; case and the final dot are not in the labels.
IsRegistryHost(catalog, host) ==
    \/ host \in catalog.registry_hosts
    \/ \E suffix \in catalog.registry_suffixes : IsSuffix(suffix, host)
IsBinaryHost(catalog, host) ==
    \E suffix \in catalog.binary_suffixes : IsSuffix(suffix, host)

IsCredential(catalog, path) ==
    \/ \E i \in 1..(Len(path.names) - 1) : path.names[i] \in catalog.credential_dirs
    \/ path.names # <<>> /\ Last(path.names) \in catalog.credential_files

\* Why a catalog is refused before anything is analysed.
ValidCatalog(catalog) ==
    /\ catalog.version = 1
    /\ \A i, j \in DOMAIN catalog.rules : catalog.rules[i].id = catalog.rules[j].id => i = j
    /\ \E i \in DOMAIN catalog.rules : catalog.rules[i].enabled

\* The first enabled rule of a kind, as a set of at most one.
RuleFor(catalog, kind) ==
    LET enabled == {i \in DOMAIN catalog.rules :
                       catalog.rules[i].enabled /\ catalog.rules[i].kind = kind}
    IN  {catalog.rules[i] : i \in {first \in enabled : \A j \in enabled : first <= j}}

ObservationClass(kind) ==
    CASE kind \in {"write_outside_zones", "chmod_executable_outside_zones"} -> "filesystem writes"
      [] kind \in {"credential_read", "credential_read_failed", "npmrc_read"} -> "credential reads"
      [] kind \in {"dns_outside_registry", "dns_binary_distribution"} -> "DNS queries"
      [] kind \in {"connect_unusual_port", "connect_external"} -> "network connections"
      [] OTHER -> "process spawns"

-----------------------------------------------------------------------------
(* coverage.rs                                                             *)

Classes == {"filesystem writes", "credential reads", "network connections",
            "DNS queries", "process spawns", "write byte volumes"}

Unobserved(backend, class) == backend = "aya" /\ class \in {"credential reads", "DNS queries"}

BlindSpots(backend) == {class \in Classes : Unobserved(backend, class)}

-----------------------------------------------------------------------------
(* rules.rs: which rule an event fires, as a set of at most one            *)
(* [kind, subject]                                                         *)

Fires(kind, subject) == {[kind |-> kind, subject |-> subject]}

\* Port 0 is a resolver probing, no port is nothing to judge.
OrdinaryPorts == {"0", "80", "443"}
NoPort == "none"

PipesToShell(spawn) ==
    /\ ~spawn.truncated
    /\ spawn.words # <<>> /\ Head(spawn.words) \in {"sh", "bash", "dash", "zsh", "ksh"}
    /\ \E i \in DOMAIN spawn.script : spawn.script[i].gets # "nothing"
    /\ \E i \in 2..Len(spawn.script) : spawn.script[i].starts

EvaluateWrite(write, placement) ==
    IF placement # "Outside" THEN {}
    ELSE IF write.kind = "Chmod" /\ write.exec THEN Fires("chmod_executable_outside_zones", Subject(write))
    ELSE Fires("write_outside_zones", Subject(write))

EvaluateRead(catalog, read) ==
    IF \E config \in {".npmrc", ".yarnrc"} : IsSuffix(<<config>>, Tail(Subject(read)))
    THEN Fires("npmrc_read", Subject(read))
    ELSE IF ~IsCredential(catalog, read.path) THEN {}
    ELSE IF read.failed THEN Fires("credential_read_failed", Subject(read))
    ELSE Fires("credential_read", Subject(read))

EvaluateConnect(connect) ==
    IF connect.loopback \/ connect.private \/ connect.failed \/ connect.ip = "none" THEN {}
    ELSE IF connect.port \in OrdinaryPorts \cup {NoPort}
         THEN Fires("connect_external", Subject(connect))
         ELSE Fires("connect_unusual_port", Subject(connect))

\* A single label is search-domain noise.
EvaluateDns(catalog, query) ==
    IF IsRegistryHost(catalog, query.qname) \/ Len(query.qname) = 1 THEN {}
    ELSE IF IsBinaryHost(catalog, query.qname) THEN Fires("dns_binary_distribution", Subject(query))
    ELSE Fires("dns_outside_registry", Subject(query))

EvaluateSpawn(catalog, spawn) ==
    IF PipesToShell(spawn) THEN Fires("download_piped_to_shell", Subject(spawn))
    ELSE IF spawn.bin \in catalog.network_tools THEN Fires("spawn_network_tool", <<spawn.bin>>)
    ELSE IF spawn.bin \notin catalog.expected_spawns \cup {"none"} THEN Fires("spawn_unexpected", <<spawn.bin>>)
    ELSE {}

Evaluate(catalog, zones, e) ==
    CASE e.op = "fs_write" ->
            IF e.failed THEN {} ELSE EvaluateWrite(e, Placement(e.path, e.origin, zones))
      [] e.op = "fs_read" -> EvaluateRead(catalog, e)
      [] e.op = "net_connect" -> EvaluateConnect(e)
      [] e.op = "dns_query" -> EvaluateDns(catalog, e)
      [] e.op = "proc_spawn" -> EvaluateSpawn(catalog, e)
      [] OTHER -> {}

\* A disabled or absent rule finds nothing.
Emit(catalog, fired) ==
    UNION {{[rule |-> r.id, severity |-> r.severity, subject |-> f.subject]
               : r \in RuleFor(catalog, f.kind)} : f \in fired}

-----------------------------------------------------------------------------
(* findings.rs                                                             *)

Severities == <<"critical", "high", "medium", "low">>
Rank(severity) == CHOOSE i \in DOMAIN Severities : Severities[i] = severity
Weight(severity) == CASE severity = "critical" -> 40 [] severity = "high" -> 15
                      [] severity = "medium" -> 5 [] OTHER -> 1
Contributes(severity) == severity # "low"
ScoreCap == 100
MaxBullets == 3
MaxEvidence == 5
AtMost(n, cap) == IF n < cap THEN n ELSE cap

\* raw[i] is what event i was found to be.  What is found again, under one rule and
\* about one subject, is one finding with a count.
Deduplicate(raw) ==
    LET times(f) == Cardinality({i \in DOMAIN raw : f \in raw[i]})
    IN  {[rule |-> f.rule, severity |-> f.severity, subject |-> f.subject,
          occurrences |-> times(f), evidence |-> AtMost(times(f), MaxEvidence)] : f \in UNION Range(raw)}

\* Severity, then frequency, then the rule's id; two subjects of one rule in a fixed
\* order.  Texts have no order here: the catalog has its rules in the order of their ids.
ShownBefore(catalog, subjects, a, b) ==
    LET place(id) == CHOOSE i \in DOMAIN catalog.rules : catalog.rules[i].id = id
        rank(subject) == CHOOSE i \in DOMAIN subjects : subjects[i] = subject
    IN  \/ Rank(a.severity) < Rank(b.severity)
        \/ a.severity = b.severity /\ a.occurrences > b.occurrences
        \/ /\ a.severity = b.severity /\ a.occurrences = b.occurrences
           /\ \/ place(a.rule) < place(b.rule)
              \/ a.rule = b.rule /\ rank(a.subject) < rank(b.subject)

\* A set of findings as the sequence in which each has before it what comes before it.
SortForDisplay(catalog, findings) ==
    LET subjects == SetToSeq({f.subject : f \in findings})
        preceding(f) == {g \in findings : ShownBefore(catalog, subjects, g, f)}
    IN  [n \in 1..Cardinality(findings) |->
            CHOOSE f \in findings : Cardinality(preceding(f)) = n - 1]

ScoreOf(findings) ==
    LET count(s) == Cardinality({i \in DOMAIN findings : findings[i].severity = s})
        scored(s) == IF Contributes(s) THEN Weight(s) * count(s) ELSE 0
        raw == scored("critical") + scored("high") + scored("medium") + scored("low")
    IN  [value |-> AtMost(raw, ScoreCap), raw |-> raw,
         counts |-> [s \in Range(Severities) |-> count(s)]]

SelectBullets(findings) ==
    LET scorable == SelectSeq(findings, LAMBDA f : Contributes(f.severity))
        pool == IF scorable = <<>> THEN findings ELSE scorable
    IN  SubSeq(pool, 1, AtMost(Len(pool), MaxBullets))

-----------------------------------------------------------------------------
(* rules.rs: the analysis of a stream                                      *)

NoZones == [project |-> <<>>, cache |-> <<>>, home |-> <<>>, tmp |-> <<>>, extra |-> {}]

DetectBackend(stream) == IF stream = <<>> THEN "strace" ELSE Head(stream).backend

SessionZones(stream) ==
    LET starts == {i \in DOMAIN stream : stream[i].op = "session_start"}
    IN  IF starts = {} THEN NoZones ELSE stream[Min(starts)].zones

SessionEnds(stream) == {i \in DOMAIN stream : stream[i].op = "session_end"}
LastEnd(stream) == stream[Max(SessionEnds(stream))]
Terminated(stream) == SessionEnds(stream) # {}

\* The last session_end decides; none at all is partial.
Completeness(stream) ==
    IF ~Terminated(stream) THEN [partial |-> TRUE, reasons |-> {"no session_end"}]
    ELSE [partial |-> ~LastEnd(stream).complete, reasons |-> LastEnd(stream).reasons]

Analysis(catalog, stream) ==
    LET backend == DetectBackend(stream)
        zones == SessionZones(stream)
        unplaceable(e) == e.op = "fs_write" /\ Placement(e.path, e.origin, zones) = "Unresolvable"
        skipped == {r \in Range(catalog.rules) :
                       r.enabled /\ Unobserved(backend, ObservationClass(r.kind))}
        raw == [i \in DOMAIN stream |->
                   {f \in Emit(catalog, Evaluate(catalog, zones, stream[i])) :
                       f.rule \notin {r.id : r \in skipped}}]
        findings == SortForDisplay(catalog, Deduplicate(raw))
        whole == Completeness(stream)
    IN  [findings |-> findings,
         score |-> ScoreOf(findings),
         backend |-> backend,
         partial |-> whole.partial,
         partial_reasons |-> whole.reasons,
         skipped_rules |-> {r.id : r \in skipped},
         unresolved_paths |-> Cardinality({i \in DOMAIN stream : unplaceable(stream[i])}),
         observations |-> Len(Observations(stream))]

MutantTrustworthy(a) == ~a.partial /\ BlindSpots(a.backend) = {} /\ a.observations > 0
CleanResultIsTrustworthy(a) ==
    /\ ~a.partial
    /\ BlindSpots(a.backend) = {}
    /\ a.unresolved_paths = 0
    /\ a.observations > 0
=============================================================================
