------------------------------ MODULE Profiles ------------------------------
(***************************************************************************)
(* What two recordings of one package can be compared on: the registry's   *)
(* behavior.rs, diff.rs and the parts of lib.rs that read streams, and the *)
(* stream summary of recorder/session.rs.                                  *)
(*                                                                         *)
(* A behavior is a sequence: what it is, then what tells it from others of *)
(* its kind.  A path inside a zone is its names below the zone.            *)
(***************************************************************************)
EXTENDS Rules

-----------------------------------------------------------------------------
(* behavior.rs                                                             *)

\* The names below the zone's prefix; a declared zone has no single prefix, and keeps them all.
RelativeTo(path, zone, zones) ==
    IF zone = "declared" THEN path.names ELSE SubSeq(path.names, Len(zones[zone]) + 1, Len(path.names))

\* A write, placed: the class comes first, so that no two classes are confused.
WriteBehavior(write, placement, zones) ==
    CASE placement = "Outside" -> <<"WroteOutside", write.kind>> \o write.path.names
      [] placement = "Runtime" -> <<"WroteRuntime", write.kind>> \o write.path.names
      [] placement = "Unresolvable" -> <<"WroteUnresolved", write.kind>> \o Subject(write)
      [] OTHER -> <<"Wrote", write.kind, placement>> \o RelativeTo(write.path, placement, zones)

\* A read keeps one text for its path, whatever its placement.
ReadBehavior(read, placement, zones) ==
    IF placement \in {"Outside", "Runtime", "Unresolvable"} THEN <<"ReadCredential">> \o Subject(read)
    ELSE <<"ReadCredential", placement>> \o RelativeTo(read.path, placement, zones)

\* By port, never by address; port 0 is a resolver probing.
ConnectBehaviors(connect) ==
    IF connect.unix THEN {<<"ConnectedUnix", connect.ip>>}
    ELSE IF connect.port \in {"0", NoPort} THEN {}
    ELSE {<<"Connected", connect.port,
            IF connect.loopback THEN "loopback" ELSE IF connect.private THEN "private" ELSE "public">>}

ShellPipelines(spawn) ==
    IF Len(spawn.script) > 1 /\ Head(spawn.script).gets # "nothing"
       /\ \E i \in 2..Len(spawn.script) : spawn.script[i].names
    THEN {<<"SpawnedShellPipeline", Head(spawn.script).gets>>}
    ELSE {}

SpawnBehaviors(spawn) ==
    ShellPipelines(spawn) \cup (IF spawn.bin = "none" THEN {} ELSE {<<"Spawned", spawn.bin>>})

\* A failed write has changed nothing; a failed read still went looking.
Behaviors(e, zones) ==
    CASE e.op = "fs_write" ->
            IF e.failed THEN {} ELSE {WriteBehavior(e, Placement(e.path, e.origin, zones), zones)}
      [] e.op = "fs_read" -> {ReadBehavior(e, Placement(e.path, e.origin, zones), zones)}
      [] e.op = "net_connect" -> ConnectBehaviors(e)
      [] e.op = "dns_query" -> {<<"Resolved">> \o e.qname}
      [] e.op = "proc_spawn" -> SpawnBehaviors(e)
      [] OTHER -> {}

BehaviorClass(behavior) ==
    CASE Head(behavior) = "WroteOutside" -> "writes outside expected directories"
      [] Head(behavior) = "ReadCredential" -> "credential reads"
      [] Head(behavior) \in {"Resolved", "Connected", "ConnectedUnix"} -> "network"
      [] Head(behavior) \in {"Spawned", "SpawnedShellPipeline"} -> "processes"
      [] OTHER -> "filesystem"

\* The rendered line: opening, writing and creating a file all read "wrote".
Summary(behavior) ==
    IF BehaviorClass(behavior) \in {"filesystem", "writes outside expected directories"}
       /\ behavior[2] \in {"Open", "Write", "Create"}
    THEN [behavior EXCEPT ![2] = "wrote"]
    ELSE behavior

\* The recorder that made it, as the last session_start says.
AgentVersion(stream) ==
    LET starts == SelectSeq(stream, LAMBDA e : e.op = "session_start")
    IN  IF starts = <<>> THEN "unknown" ELSE Last(starts).agent

ProfileOf(stream) ==
    LET zones == SessionZones(stream)
        unplaceable(e) ==
            /\ e.op = "fs_read" \/ (e.op = "fs_write" /\ ~e.failed)
            /\ Placement(e.path, e.origin, zones) = "Unresolvable"
    IN  [backend |-> DetectBackend(stream),
         agent |-> AgentVersion(stream),
         complete |-> Terminated(stream) /\ LastEnd(stream).complete,
         behaviors |-> UNION {Behaviors(stream[i], zones) : i \in DOMAIN stream},
         unresolved_paths |-> Cardinality({i \in DOMAIN stream : unplaceable(stream[i])})]

-----------------------------------------------------------------------------
(* diff.rs                                                                 *)

Sides == {"before", "after"}

\* Why nothing can be said about the package.
Mismatch(recording) ==
    IF recording["before"].backend = recording["after"].backend THEN {} ELSE {<<"BackendMismatch">>}
MutantBlockers(recording) == Mismatch(recording)
Blockers(recording) ==
    Mismatch(recording)
    \cup {<<"PartialRecording", side>> : side \in {s \in Sides : ~recording[s].complete}}

\* Why less can be said than it seems.
Caveats(recording) ==
    {<<"AgentVersionDiffers">> : side \in {s \in Sides : recording[s].agent # recording["before"].agent}}
    \cup {<<"UnresolvedPaths", side>> : side \in {s \in Sides : recording[s].unresolved_paths > 0}}
    \cup {<<"BackendBlindSpots", class>> : class \in
            IF recording["before"].backend = recording["after"].backend
            THEN BlindSpots(recording["before"].backend) ELSE {}}

Compare(recording) ==
    LET old == recording["before"].behaviors
        new == recording["after"].behaviors
    IN  [added |-> new \ old, removed |-> old \ new, unchanged |-> Cardinality(new \cap old),
         blockers |-> Blockers(recording), caveats |-> Caveats(recording)]

Comparable(comparison) == comparison.blockers = {}
IsIdentical(comparison) == comparison.added = {} /\ comparison.removed = {}
Headline(comparison) ==
    CASE ~Comparable(comparison) -> "cannot be compared"
      [] Comparable(comparison) /\ IsIdentical(comparison) -> "behaved identically"
      [] OTHER -> "behavior changed"

\* The classes of a page, worst first, that have something to show.
ClassOrder == <<"writes outside expected directories", "credential reads", "network", "processes",
                "filesystem">>
InClass(behaviors, class) == {b \in behaviors : BehaviorClass(b) = class}
ChangedClasses(comparison) ==
    SelectSeq(ClassOrder, LAMBDA class : InClass(comparison.added \cup comparison.removed, class) # {})

-----------------------------------------------------------------------------
(* lib.rs: what the index says of a stream; session.rs: its summary.  A    *)
(* file whose last line is torn parses for nobody.                         *)

StreamFacts(stream) ==
    [complete |-> Terminated(stream) /\ LastEnd(stream).complete,
     events |-> Len(Observations(stream))]

\* Refused before anything is written.
PushRefused(file) == file.torn \/ ~StreamFacts(file.lines).complete

\* What the store holds, per entry of the index; a file that does not parse is named, not counted.
CorpusSummary(files) ==
    LET readable == {i \in DOMAIN files : ~files[i].torn}
        profile == [i \in readable |-> ProfileOf(files[i].lines)]
    IN  [snapshots |-> Len(files), readable |-> Cardinality(readable),
         observations |-> MapThenSumSet(LAMBDA i : Cardinality(profile[i].behaviors), readable),
         distinct |-> Cardinality(UNION {{Summary(b) : b \in profile[i].behaviors} : i \in readable}),
         incomplete |-> Cardinality({i \in readable : ~profile[i].complete})]
IsIntact(summary) == summary.readable = summary.snapshots /\ summary.incomplete = 0

\* No session_end is an error, not a summary.
SummarizeStream(file) ==
    [error |-> file.torn \/ ~Terminated(file.lines),
     partial |-> ~Terminated(file.lines) \/ ~LastEnd(file.lines).complete,
     events |-> Len(Observations(file.lines))]
=============================================================================
