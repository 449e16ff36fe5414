------------------------------- MODULE Reports -------------------------------
(***************************************************************************)
(* What each surface tells its reader: report/lib.rs, markdown.rs,         *)
(* sarif.rs, html.rs and diff.rs.  A page is the record of the facts it    *)
(* carries; their wording and layout are left out.                         *)
(***************************************************************************)
EXTENDS Profiles

-----------------------------------------------------------------------------
(* lib.rs                                                                  *)

Scorable(a) == SelectSeq(a.findings, LAMBDA f : Contributes(f.severity))

\* Incomplete before anything else; a caveat before clean.
MutantVerdict(a) ==
    CASE a.score.value > 0 -> "Findings"
      [] a.score.value = 0 /\ a.partial -> "Partial"
      [] OTHER -> IF CleanResultIsTrustworthy(a) THEN "Clean" ELSE "CleanWithCaveat"
Verdict(a) ==
    CASE a.partial -> "Partial"
      [] ~a.partial /\ a.score.value > 0 -> "Findings"
      [] OTHER -> IF CleanResultIsTrustworthy(a) THEN "Clean" ELSE "CleanWithCaveat"
ShowsPartialBadge(a) == Verdict(a) = "Partial"

\* The raw sum is shown once the cap has hidden it.
ShownScore(score) == [value |-> score.value, raw |-> IF score.raw > ScoreCap THEN {score.raw} ELSE {}]

\* The findings a short surface lists, and how many it does not.
Bullets(a) == SelectSeq(SelectBullets(a.findings), LAMBDA f : Contributes(f.severity))
Hidden(a) == Len(Scorable(a)) - Len(Bullets(a))

-----------------------------------------------------------------------------
(* markdown.rs: the comment on a pull request                              *)

MarkdownPage(a) ==
    [badge |-> ShowsPartialBadge(a), score |-> ShownScore(a.score),
     reasons |-> IF ShowsPartialBadge(a) THEN a.partial_reasons ELSE {},
     bullets |-> Bullets(a), hidden |-> Hidden(a),
     headline |-> IF Bullets(a) = <<>> THEN {Verdict(a)} ELSE {},
     not_checked |-> BlindSpots(a.backend), unresolved |-> a.unresolved_paths,
     skipped |-> a.skipped_rules]

-----------------------------------------------------------------------------
(* sarif.rs: the document for code scanning                                *)

Level(severity) ==
    CASE severity \in {"critical", "high"} -> "error" [] severity = "medium" -> "warning"
      [] OTHER -> "note"

Results(a) ==
    [i \in DOMAIN a.findings |->
        [rule |-> a.findings[i].rule, level |-> Level(a.findings[i].severity),
         subject |-> a.findings[i].subject, occurrences |-> a.findings[i].occurrences]]

Notifications(a) ==
    (IF a.partial THEN {<<"partial_recording", a.partial_reasons>>} ELSE {})
    \cup (IF BlindSpots(a.backend) # {} THEN {<<"backend_coverage", BlindSpots(a.backend)>>} ELSE {})
    \cup {<<"rule_not_run", {rule}>> : rule \in a.skipped_rules}
    \cup (IF a.unresolved_paths > 0 THEN {<<"unresolved_paths", {a.unresolved_paths}>>} ELSE {})

SarifDocument(a) ==
    [execution_successful |-> ~a.partial, recording_complete |-> ~a.partial,
     rules |-> {f.rule : f \in Range(a.findings)}, results |-> Results(a),
     score |-> a.score, notifications |-> Notifications(a)]

-----------------------------------------------------------------------------
(* html.rs: the evidence page, with a row per observation                  *)

\* The name a spawn finding goes by; every subject is searched under it.
LeadingName(e) ==
    CASE e.op \in {"fs_write", "fs_read"} -> IF e.path.names = <<>> THEN <<>> ELSE <<Last(e.path.names)>>
      [] e.op = "proc_spawn" -> IF e.words = <<>> THEN <<>> ELSE <<Head(e.words)>>
      [] OTHER -> Subject(e)

\* The worst finding that names the row's subject, or else its leading name; of equal
\* ones the first, as findings are sorted.
FindingOf(a, e) ==
    LET named == SelectSeq(a.findings, LAMBDA f : f.subject = Subject(e))
    IN  IF named # <<>> THEN <<Head(named)>>
        ELSE LET led == SelectSeq(a.findings, LAMBDA f : f.subject = LeadingName(e))
             IN  IF led = <<>> THEN <<>> ELSE <<Head(led)>>

PathOrigin(e) == IF e.op \in {"fs_write", "fs_read"} THEN {e.origin} ELSE {}
Failed(e) == e.op \in {"fs_write", "fs_read", "net_connect"} /\ e.failed

Row(a, e) ==
    [subject |-> Subject(e), failed |-> Failed(e), origin |-> PathOrigin(e),
     rule |-> {f.rule : f \in Range(FindingOf(a, e))},
     severity |-> {f.severity : f \in Range(FindingOf(a, e))}]

CountOf(a, severity) == Len(SelectSeq(a.findings, LAMBDA f : f.severity = severity))

\* The list of reasons under the badge.
PartialWarning(a) == IF ShowsPartialBadge(a) THEN a.partial_reasons ELSE {}

\* A score of 1 to 9 is already notable.
Band(a) ==
    CASE ShowsPartialBadge(a) -> "PARTIAL"
      [] ~ShowsPartialBadge(a) /\ a.score.value = 0 -> "NOMINAL"
      [] OTHER -> IF a.score.value < 25 THEN "NOTABLE" ELSE IF a.score.value < 60 THEN "ELEVATED"
                  ELSE "CRITICAL"

ScoreCard(a) ==
    [badge |-> ShowsPartialBadge(a), score |-> ShownScore(a.score), band |-> Band(a),
     signals |-> a.observations, findings |-> Len(Scorable(a)),
     critical |-> CountOf(a, "critical"), high |-> CountOf(a, "high"),
     not_seen |-> Cardinality(BlindSpots(a.backend))]

PriorityItem(finding) ==
    [rule |-> finding.rule, severity |-> finding.severity, subject |-> finding.subject,
     times |-> IF finding.occurrences > 1 THEN {finding.occurrences} ELSE {}]
PriorityFindings(a) ==
    [headline |-> IF Bullets(a) = <<>> THEN {Verdict(a)} ELSE {},
     items |-> [i \in DOMAIN Bullets(a) |-> PriorityItem(Bullets(a)[i])],
     hidden |-> Hidden(a)]

PageCaveats(a) == [not_checked |-> BlindSpots(a.backend), unresolved |-> a.unresolved_paths]

\* A row per observation, and after the last the note that more is missing.
SignalLog(a, stream) ==
    LET shown == Observations(stream)
    IN  [rows |-> [i \in DOMAIN shown |-> Row(a, shown[i])], cut_short |-> a.partial]

CoverageTable(a) == [class \in Classes |-> ~Unobserved(a.backend, class)]
SkippedRules(a) == a.skipped_rules

Footer(stream) ==
    IF ~Terminated(stream) THEN "unterminated"
    ELSE IF LastEnd(stream).complete THEN "cleanly" ELSE "INCOMPLETE"

HtmlPage(a, stream) ==
    [warning |-> PartialWarning(a), card |-> ScoreCard(a), priority |-> PriorityFindings(a),
     caveats |-> PageCaveats(a), log |-> SignalLog(a, stream), observed |-> CoverageTable(a),
     skipped |-> SkippedRules(a), footer |-> Footer(stream)]

-----------------------------------------------------------------------------
(* diff.rs: the comparison of two versions                                 *)

MARKDOWN_PER_CLASS_CAP == 8

\* A short list of behaviors and how many are left out.
Capped(behaviors) ==
    [shown |-> AtMost(Cardinality(behaviors), MARKDOWN_PER_CLASS_CAP),
     hidden |-> Cardinality(behaviors) - AtMost(Cardinality(behaviors), MARKDOWN_PER_CLASS_CAP)]

DiffMarkdown(comparison) ==
    [headline |-> Headline(comparison), warned |-> comparison.blockers,
     same |-> Comparable(comparison) /\ IsIdentical(comparison),
     classes |-> [i \in DOMAIN ChangedClasses(comparison) |->
        LET class == ChangedClasses(comparison)[i]
        IN  [class |-> class, added |-> Capped(InClass(comparison.added, class)),
             removed |-> Capped(InClass(comparison.removed, class))]],
     caveats |-> comparison.caveats]

\* The artifact lists everything.
DiffHtml(comparison) ==
    [headline |-> Headline(comparison), warned |-> comparison.blockers,
     same |-> IsIdentical(comparison),
     columns |-> [i \in DOMAIN ChangedClasses(comparison) |->
        LET class == ChangedClasses(comparison)[i]
        IN  [before |-> {Summary(b) : b \in InClass(comparison.removed, class)},
             after |-> {Summary(b) : b \in InClass(comparison.added, class)}]],
     caveats |-> comparison.caveats]
=============================================================================
