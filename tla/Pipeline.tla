------------------------------ MODULE Pipeline ------------------------------
(***************************************************************************)
(* Two versions of a package are installed and recorded, one after the     *)
(* other and perhaps on different hosts and with different recorders; the  *)
(* recordings are analysed, reported, stored and compared.                 *)
(*                                                                         *)
(* What an install does is a sequence of deeds.  A deed names a place by   *)
(* its role (a zone, "runtime", or "outside"), so that one deed is the     *)
(* same on every host; the host's layout says which path that is.  What a  *)
(* deed deserves to be found is said with the deed.                        *)
(***************************************************************************)
EXTENDS Commands

CONSTANTS
    Catalog,    \* the rules and lists of rules/catalog.yaml
    Deeds,      \* what an install may do
    Settings,   \* where each side is installed and what records it:
                \*   [host : side -> [real, named, cache_given, expected], backend : side -> name]
    MaxDeeds,   \* most deeds of the two installs together
    MaxLost     \* most of them that a recorder loses

OnFiles(deed) == deed.does \in {"put", "alter", "consult"}
Places == Range(ZoneOrder) \cup {"runtime", "outside"}

\* One connects to a port and runs a program; a piped tool is the one whose output
\* a later stage of the script, an interpreter, reads.
ASSUME DeedAssumption ==
    \A deed \in Deeds :
        /\ deed.does \in {"put", "alter", "consult", "connect", "lookup", "spawn"}
        /\ OnFiles(deed) \/ deed.does = "connect" => deed.failed \in BOOLEAN
        /\ deed.does = "alter" => deed.exec \in BOOLEAN
        /\ OnFiles(deed) => /\ deed.place \in Places
                            /\ deed.names \in Seq(Range(deed.names))
                            /\ deed.relative \in BOOLEAN
        /\ deed.does = "connect" => deed.port \notin {"0", NoPort}
        /\ deed.does = "spawn" =>
               /\ deed.bin # "none"
               /\ deed.pipes = IF \E i \in 2..Len(deed.script) : deed.script[i].names
                               THEN {Head(deed.script).gets} \ {"nothing"} ELSE {}

VARIABLES
    host,       \* where each side is installed
    backend,    \* what records it
    truth,      \* the deeds of each side, in order
    lost,       \* how many of them its recording lacks
    phase,      \* per side, "waiting", "recording", "ended" or "killed"
    file        \* per side, [lines, torn]

vars == <<host, backend, truth, lost, phase, file>>

-----------------------------------------------------------------------------
(* The events a recorder gives for a deed                                  *)

At(place, on) ==
    CASE place = "outside" -> <<>>
      [] place = "runtime" -> <<"proc">>
      [] OTHER -> on.real[place]
RealPath(deed, on) == [abs |-> TRUE, names |-> At(deed.place, on) \o deed.names]

Hosts == {setting.host[side] : setting \in Settings, side \in Sides}

\* The zones a recorder is told are where the host's directories really are.
ASSUME HostAssumption ==
    /\ \A setting \in Settings, side \in Sides : setting.backend[side] \in {"strace", "aya"}
    /\ \A on \in Hosts, zone \in Range(ZoneOrder) :
          /\ on.real[zone] \in Seq(Range(on.real[zone])) /\ on.real[zone] # <<>>
          /\ ZonesOf(on)[zone] = on.real[zone]

\* A deed's place is the innermost that holds its path: on no host does it lie in
\* one that is looked for earlier.
ASSUME PlaceAssumption ==
    \A on \in Hosts, deed \in {d \in Deeds : OnFiles(d)} :
        LET path == RealPath(deed, on)
        IN  /\ deed.place # "runtime" => ~IsRuntime(path)
            /\ \A i \in DOMAIN ZoneOrder :
                  deed.place = "outside" \/ (\E j \in DOMAIN ZoneOrder : j > i /\ deed.place = ZoneOrder[j])
                  => ~Within(path, on.real[ZoneOrder[i]])
            /\ deed.place = "outside" => \A prefix \in on.expected : ~Within(path, prefix)

\* Installs run in the project; other places are reached upwards.
SpelledPath(deed, on) ==
    CASE ~deed.relative -> RealPath(deed, on)
      [] deed.relative /\ deed.place = "project" -> [abs |-> FALSE, names |-> deed.names]
      [] OTHER -> [abs |-> FALSE, names |-> <<"..">> \o deed.names]

WriteEvent(by, kind, path, origin, exec, failed) ==
    [op |-> "fs_write", backend |-> by, path |-> path, origin |-> origin, kind |-> kind,
     exec |-> exec, failed |-> failed]

ConnectEvent(by, deed, failed) ==
    [op |-> "net_connect", backend |-> by, ip |-> deed.ip, port |-> deed.port,
     loopback |-> deed.loopback, private |-> deed.private, failed |-> failed, unix |-> FALSE]

SpawnEvent(by, deed) ==
    [op |-> "proc_spawn", backend |-> by, bin |-> deed.bin, words |-> deed.words,
     script |-> deed.script, truncated |-> deed.truncated]

\* strace: a descriptor is annotated with its path.  The path of a call without
\* one is placed by the caller's directory, when that is known (placed).
StraceEvents(deed, on, placed) ==
    LET path == IF placed THEN RealPath(deed, on) ELSE SpelledPath(deed, on)
        origin == CASE ~deed.relative -> "Absolute"
                    [] deed.relative /\ placed -> "ResolvedFromDirfd"
                    [] OTHER -> "Unresolved"
    IN  CASE deed.does = "put" /\ deed.failed ->
                <<WriteEvent("strace", "Open", path, origin, FALSE, TRUE)>>
          [] deed.does = "put" /\ ~deed.failed ->
                <<WriteEvent("strace", "Open", RealPath(deed, on), "Kernel", FALSE, FALSE),
                  WriteEvent("strace", "Write", RealPath(deed, on), "Kernel", FALSE, FALSE)>>
          [] deed.does = "alter" ->
                <<WriteEvent("strace", deed.kind, path, origin, deed.exec, deed.failed)>>
          [] deed.does = "consult" ->
                <<[op |-> "fs_read", backend |-> "strace", path |-> RealPath(deed, on),
                   origin |-> IF deed.failed THEN "Absolute" ELSE "Kernel", failed |-> deed.failed]>>
          [] deed.does = "connect" -> <<ConnectEvent("strace", deed, deed.failed)>>
          [] deed.does = "lookup" -> <<[op |-> "dns_query", backend |-> "strace", qname |-> deed.qname]>>
          [] deed.does = "spawn" -> <<SpawnEvent("strace", deed)>>

\* aya: the path of the call as it was spelled; only an open has an outcome and
\* no change of mode has its mode; reads and lookups are not seen.
AyaEvents(deed, on) ==
    LET path == SpelledPath(deed, on)
        origin == IF path.abs THEN "Absolute" ELSE "Unresolved"
    IN  CASE deed.does = "put" ->
                <<WriteEvent("aya", "Open", path, origin, FALSE, deed.failed)>>
                \o (IF deed.failed THEN <<>>
                    ELSE <<WriteEvent("aya", "Write", path, origin, FALSE, FALSE)>>)
          [] deed.does = "alter" -> <<WriteEvent("aya", deed.kind, path, origin, FALSE, FALSE)>>
          [] deed.does \in {"consult", "lookup"} -> <<>>
          [] deed.does = "connect" -> <<ConnectEvent("aya", deed, FALSE)>>
          [] deed.does = "spawn" -> <<SpawnEvent("aya", deed)>>

Events(deed, by, on, placed) ==
    IF by = "aya" THEN AyaEvents(deed, on) ELSE StraceEvents(deed, on, placed)

-----------------------------------------------------------------------------
(* What a deed deserves                                                    *)

SeenFailing(deed, by) == deed.failed /\ (by = "strace" \/ deed.does = "put")

\* The kinds of rule that what a recorder sees of the deed breaks.  A write breaks
\* one by the place it was done in; the others by what they are, wherever that is.
Offences(deed, by, on) ==
    IF deed.does \in {"put", "alter"}
    THEN IF SeenFailing(deed, by) \/ deed.place # "outside" THEN {}
         ELSE {IF deed.does = "alter" /\ deed.kind = "Chmod" /\ deed.exec /\ by = "strace"
               THEN "chmod_executable_outside_zones" ELSE "write_outside_zones"}
    ELSE {f.kind : f \in UNION {Evaluate(Catalog, NoZones, e) : e \in Range(Events(deed, by, on, TRUE))}}
RulesOf(kinds) == {r.id : r \in UNION {RuleFor(Catalog, kind) : kind \in kinds}}

\* Another catalog is refused; a severity is one of four.  A catalog that judges
\* modes judges writes: to aya, which sees no mode, the one is the other.
ASSUME CatalogAssumption ==
    /\ ValidCatalog(Catalog) /\ Catalog.rules \in Seq(Range(Catalog.rules))
    /\ \A r \in Range(Catalog.rules) : r.severity \in Range(Severities)
    /\ RuleFor(Catalog, "chmod_executable_outside_zones") # {} => RuleFor(Catalog, "write_outside_zones") # {}

\* A deed deserves the rule it breaks, on any host; aya, which may miss that a call
\* failed or what mode it set, suspects that one or another.
ASSUME DeservesAssumption ==
    \A deed \in Deeds, on \in Hosts :
        /\ RulesOf(Offences(deed, "strace", on)) = {deed.deserves} \ {"none"}
        /\ RulesOf(Offences(deed, "aya", on)) \subseteq {deed.deserves, deed.suspect}

StartEvent(by, on) ==
    [op |-> "session_start", backend |-> by, zones |-> ZonesOf(on), agent |-> "1"]
EndEvent(by, missing) ==
    [op |-> "session_end", backend |-> by, complete |-> missing = 0,
     reasons |-> IF missing = 0 THEN {} ELSE {"lost"}]

-----------------------------------------------------------------------------

Init ==
    /\ \E setting \in Settings : host = setting.host /\ backend = setting.backend
    /\ truth = [side \in Sides |-> <<>>]
    /\ lost = [side \in Sides |-> 0]
    /\ phase = [side \in Sides |-> "waiting"]
    /\ file = [side \in Sides |-> [lines |-> <<>>, torn |-> FALSE]]

Total(f) == f["before"] + f["after"]
Done == [side \in Sides |-> Len(truth[side])]

Append1(side, events) == file' = [file EXCEPT ![side].lines = @ \o events]

\* The earlier version is recorded first.
Start(side) ==
    /\ phase[side] = "waiting"
    /\ side = "after" => phase["before"] \in {"ended", "killed"}
    /\ phase' = [phase EXCEPT ![side] = "recording"]
    /\ Append1(side, <<StartEvent(backend[side], host[side])>>)
    /\ UNCHANGED <<host, backend, truth, lost>>

Happen(side, deed, placed) ==
    /\ phase[side] = "recording"
    /\ Total(Done) < MaxDeeds
    /\ ~placed => deed.does \in {"put", "alter"} /\ deed.relative /\ backend[side] = "strace"
    /\ truth' = [truth EXCEPT ![side] = Append(@, deed)]
    /\ Append1(side, Events(deed, backend[side], host[side], placed))
    /\ UNCHANGED <<host, backend, lost, phase>>

\* A deed whose events the recorder drops, and knows it: past the cap, in a full
\* ring, in a trace file that cannot be read.
Lose(side, deed) ==
    /\ phase[side] = "recording"
    /\ Total(Done) < MaxDeeds /\ Total(lost) < MaxLost
    /\ truth' = [truth EXCEPT ![side] = Append(@, deed)]
    /\ lost' = [lost EXCEPT ![side] = @ + 1]
    /\ UNCHANGED <<host, backend, phase, file>>

End(side) ==
    /\ phase[side] = "recording"
    /\ phase' = [phase EXCEPT ![side] = "ended"]
    /\ Append1(side, <<EndEvent(backend[side], lost[side])>>)
    /\ UNCHANGED <<host, backend, truth, lost>>

\* The recorder is killed, perhaps while it writes a line.
Kill(side) ==
    /\ phase[side] = "recording"
    /\ phase' = [phase EXCEPT ![side] = "killed"]
    /\ \E torn \in BOOLEAN : file' = [file EXCEPT ![side].torn = torn]
    /\ UNCHANGED <<host, backend, truth, lost>>

Next ==
    \E side \in Sides :
        \/ Start(side)
        \/ \E deed \in Deeds, placed \in BOOLEAN : Happen(side, deed, placed)
        \/ \E deed \in Deeds : Lose(side, deed)
        \/ End(side)
        \/ Kill(side)

Spec == Init /\ [][Next]_vars

-----------------------------------------------------------------------------
(* What the files should be read as                                        *)

Whole(side) == phase[side] = "ended" /\ lost[side] = 0
Readable(side) == phase[side] \in {"ended", "killed"} /\ ~file[side].torn

SeverityOf(id) == (CHOOSE r \in Range(Catalog.rules) : r.id = id).severity
Deserved(deed) == deed.deserves # "none" /\ Contributes(SeverityOf(deed.deserves))

\* The text a finding about the deed goes by.
NameOf(deed, on) ==
    CASE deed.does \in {"put", "alter", "consult"} -> {<<"/">> \o RealPath(deed, on).names}
      [] deed.does = "connect" -> {<<deed.ip, deed.port>>}
      [] deed.does = "lookup" -> {deed.qname}
      [] deed.does = "spawn" -> {deed.words, <<deed.bin>>}

IsAbout(finding, deed, side) ==
    /\ finding.rule = deed.deserves \/ (backend[side] = "aya" /\ finding.rule = deed.suspect)
    /\ finding.subject \in NameOf(deed, host[side])

ReportOf(side) == Report(Catalog, file[side], NoThreshold)
AnalysisOf(side) == Analysis(Catalog, file[side].lines)

\* What a deed is, told without the host.
TrueWrite(deed, kind) ==
    CASE deed.place = "outside" -> <<"WroteOutside", kind>> \o deed.names
      [] deed.place = "runtime" -> <<"WroteRuntime", kind, "proc">> \o deed.names
      [] OTHER -> <<"Wrote", kind, deed.place>> \o deed.names
TrueRead(deed) ==
    CASE deed.place = "outside" -> <<"ReadCredential", "/">> \o deed.names
      [] deed.place = "runtime" -> <<"ReadCredential", "/", "proc">> \o deed.names
      [] OTHER -> <<"ReadCredential", deed.place>> \o deed.names
TrueBehaviors(deed, by) ==
    CASE deed.does = "put" ->
            IF SeenFailing(deed, by) THEN {}
            ELSE {TrueWrite(deed, "Open"), TrueWrite(deed, "Write")}
      [] deed.does = "alter" -> IF SeenFailing(deed, by) THEN {} ELSE {TrueWrite(deed, deed.kind)}
      [] deed.does = "consult" -> IF by = "aya" THEN {} ELSE {TrueRead(deed)}
      [] deed.does = "connect" ->
            {<<"Connected", deed.port, IF deed.loopback THEN "loopback"
                                       ELSE IF deed.private THEN "private" ELSE "public">>}
      [] deed.does = "lookup" -> IF by = "aya" THEN {} ELSE {<<"Resolved">> \o deed.qname}
      [] deed.does = "spawn" ->
            {<<"Spawned", deed.bin>>}
            \cup {<<"SpawnedShellPipeline", tool>> : tool \in deed.pipes}
TrueProfile(side) == UNION {TrueBehaviors(deed, backend[side]) : deed \in Range(truth[side])}

\* A whole recording of what a side did, by either recorder.
StreamBy(by, side) ==
    <<StartEvent(by, host[side])>>
    \o FlattenSeq([i \in DOMAIN truth[side] |-> Events(truth[side][i], by, host[side], TRUE)])
    \o <<EndEvent(by, 0)>>

-----------------------------------------------------------------------------
(* Properties                                                              *)

\* No deed that deserves a scoring finding goes unsaid: it is found, or the page
\* tells why it may be missing (the recording is partial, paths could not be
\* placed, the recorder cannot see the class); and a page that says nothing
\* unexpected happened, without a caveat, is about an install that did nothing
\* unexpected.
NothingDeservedIsSilent ==
    \A side \in Sides : Readable(side) =>
        LET a == AnalysisOf(side)
            page == MarkdownPage(a)
        IN  \A deed \in Range(truth[side]) : Deserved(deed) =>
                /\ \/ page.badge
                   \/ \E f \in Range(a.findings) : IsAbout(f, deed, side)
                   \/ page.unresolved > 0 /\ deed.does \in {"put", "alter"} /\ deed.relative
                   \/ deed.deserves \in page.skipped
                /\ Verdict(a) # "Clean"

\* Every finding that scores is about something the install really did, under a
\* rule that this deserves and with its true name, on any host and even from a
\* recording that was cut short.
FindingsAreEarned ==
    \A side \in Sides : Readable(side) =>
        \A f \in Range(AnalysisOf(side).findings) :
            Contributes(f.severity) => \E deed \in Range(truth[side]) : IsAbout(f, deed, side)

\* What a comparison attributes to the package is exactly what the package did
\* differently: never what differs between the hosts, nor what one recording
\* missed.
DiffIsOfThePackage ==
    LET comparison == DiffVersions(file)
    IN  (/\ \A side \in Sides : Readable(side)
         /\ Comparable(comparison)
         /\ \A side \in Sides : <<"UnresolvedPaths", side>> \notin comparison.caveats) =>
            /\ comparison.added = TrueProfile("after") \ TrueProfile("before")
            /\ comparison.removed = TrueProfile("before") \ TrueProfile("after")

\* A recording that lacks anything is taken for whole by no reader: not by
\* verify, the registry or the comparisons, nor on any surface of the report.
PartialReachesEveryReader ==
    \A side \in Sides : phase[side] \in {"ended", "killed"} /\ ~Whole(side) =>
        LET report == ReportOf(side)
        IN  /\ Verify(file[side], FALSE) # EXIT_SUCCESS
            /\ Record(backend[side], file[side], FALSE) # EXIT_SUCCESS
            /\ SnapshotPush(file[side]) # EXIT_SUCCESS
            /\ SnapshotSummarize(<<file[side]>>) # EXIT_SUCCESS
            /\ phase["after"] \in {"ended", "killed"} => Diff(file, FALSE).exit # EXIT_SUCCESS
            /\ ParityOf(file[side], file[side]) # EXIT_SUCCESS
            /\ report.written =>
                   /\ report.markdown.badge /\ report.html.card.badge /\ report.html.log.cut_short
                   /\ report.html.footer # "cleanly"
                   /\ ~report.sarif.execution_successful
                   /\ report.partial

\* Two whole recordings of one install, one by each recorder, agree, but for
\* what the recorders are known to tell apart: outcomes only strace sees, and
\* paths spelled upwards or as the directory itself.
WholeRecordingsAgree ==
    \A side \in Sides : phase[side] = "ended" =>
        \/ \E deed \in Range(truth[side]) :
               \/ deed.does \in {"alter", "connect"} /\ deed.failed
               \/ /\ deed.does \in {"put", "alter"} /\ deed.relative
                  /\ deed.place # "project" \/ deed.names = <<>>
        \/ ParityPassed(StreamBy("strace", side), StreamBy("aya", side))

=============================================================================
