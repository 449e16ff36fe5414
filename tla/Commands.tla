------------------------------ MODULE Commands ------------------------------
(***************************************************************************)
(* The commands of cli/main.rs that read recordings, by the exit status    *)
(* and the pages they leave.  A file is [lines, torn]: the events of its   *)
(* lines, and whether the last line was cut short.                         *)
(***************************************************************************)
EXTENDS Reports, Parity

EXIT_SUCCESS == 0
EXIT_FAILURE == 1
EXIT_PARTIAL == 3

Passes(condition) == IF condition THEN EXIT_SUCCESS ELSE EXIT_FAILURE

-----------------------------------------------------------------------------
(* record                                                                  *)

\* The zones a recording is given: project, cache and expected directories
\* without symbolic links, home and tmp as the environment names them.
ZonesOf(host) ==
    [project |-> host.real["project"],
     cache |-> IF host.cache_given THEN host.real["cache"] ELSE host.named["home"] \o <<".npm">>,
     home |-> host.named["home"], tmp |-> host.named["tmp"],
     extra |-> host.expected]

\* What the file on disk says, read back when the recording has ended, and by verify.
SummaryExit(file, fail_on_partial) ==
    LET summary == SummarizeStream(file)
    IN  IF summary.error THEN EXIT_FAILURE
        ELSE IF ~summary.partial THEN EXIT_SUCCESS
        ELSE IF fail_on_partial THEN EXIT_FAILURE ELSE EXIT_PARTIAL

RecordStrace(file, fail_on_partial) == SummaryExit(file, fail_on_partial)
RecordAya(file, fail_on_partial) == SummaryExit(file, fail_on_partial)
Record(backend, file, fail_on_partial) ==
    IF backend = "aya" THEN RecordAya(file, fail_on_partial) ELSE RecordStrace(file, fail_on_partial)
Verify(file, fail_on_partial) == SummaryExit(file, fail_on_partial)

-----------------------------------------------------------------------------
(* report                                                                  *)

NoThreshold == ScoreCap

\* Nothing is written for a stream or a catalog that cannot be read; the score
\* gates only after the pages are written.
Report(catalog, file, fail_above) ==
    IF file.torn \/ ~ValidCatalog(catalog) THEN [exit |-> EXIT_FAILURE, written |-> FALSE]
    ELSE LET a == Analysis(catalog, file.lines)
         IN  [exit |-> Passes(a.score.value <= fail_above), written |-> TRUE,
              markdown |-> MarkdownPage(a), sarif |-> SarifDocument(a),
              html |-> HtmlPage(a, file.lines),
              score |-> a.score.value, partial |-> a.partial, findings |-> Len(a.findings)]

-----------------------------------------------------------------------------
(* snapshot and diff                                                       *)

SnapshotPush(file) == Passes(~PushRefused(file))

SnapshotSummarize(files) == Passes(IsIntact(CorpusSummary(files)))

DiffVersions(files) == Compare([side \in Sides |-> ProfileOf(files[side].lines)])

\* An unanswerable question fails, whatever was asked for.
Diff(files, fail_on_change) ==
    IF \E side \in Sides : files[side].torn THEN [exit |-> EXIT_FAILURE, written |-> FALSE]
    ELSE LET comparison == DiffVersions(files)
         IN  [exit |-> Passes(Comparable(comparison) /\ (fail_on_change => IsIdentical(comparison))),
              written |-> TRUE, markdown |-> DiffMarkdown(comparison), html |-> DiffHtml(comparison)]

-----------------------------------------------------------------------------
(* parity                                                                  *)

ParityOf(strace, aya) ==
    Passes(~strace.torn /\ ~aya.torn /\ ParityPassed(strace.lines, aya.lines))
=============================================================================
