------------------------------- MODULE Action -------------------------------
(***************************************************************************)
(* A pull request under the two actions: action/record runs once for every *)
(* commit that is pushed to it and leaves an artifact, action/comment runs *)
(* when a record job has concluded and writes the comment.                 *)
(*                                                                         *)
(* Jobs of different commits run side by side on runners of their own;     *)
(* what they share is the store of artifacts and the pull request's        *)
(* comments.  A job may be cancelled at any step, an upload, a download or *)
(* a request may fail, and the recording is whatever the recorder left.    *)
(***************************************************************************)
EXTENDS Commands, Lockfile

CONSTANTS
    Catalog,     \* the rule catalog
    Content,     \* what each commit is: [event, base_ref, npm, pnpm, fetches]; npm and
                 \*   pnpm are lockfiles [missing, ecosystem, file], and fetches is what
                 \*   its install brings in from outside: name, version, the place and the
                 \*   bytes, "any" if they are not pinned
    Histories,   \* what may be pushed to which base: [base, commits], the commits in order
    File,        \* the files a recorder may leave, each under a name
    Committed,   \* the registry in the repository, oldest first: [version, file]
    FailAbove    \* the input fail-above, or NoThreshold

\* Whoever committed to the registry pushed to it with the program.
ASSUME CommittedAssumption ==
    /\ Committed \in Seq([version : Nat, file : DOMAIN File])
    /\ \A i \in DOMAIN Committed : Verify(File[Committed[i].file], FALSE) = EXIT_SUCCESS
ASSUME HistoryAssumption == \A history \in Histories : history.commits \in Seq(DOMAIN Content)

Runs == UNION {DOMAIN history.commits : history \in Histories}
Nothing == [made |-> FALSE]

VARIABLES
    base,       \* the commit the pull request is compared against
    pushed,     \* the commits pushed, one run of the record action for each
    job,        \* per run, [at, recording, report, fail_requested, stored, diff]
    artifact,   \* per run, the report artifact, or Nothing
    uploaded,   \* per run, the registry artifact, or Nothing
    post,       \* per run, the comment job: [at, existing]
    comments    \* the bot's comments on the pull request, oldest first

vars == <<base, pushed, job, artifact, uploaded, post, comments>>

NewJob == [at |-> "decide", recording |-> "none", report |-> Nothing, fail_requested |-> FALSE,
           stored |-> Committed, diff |-> Nothing]
NewPost == [at |-> "waiting", existing |-> 0]

Init ==
    /\ base \in {history.base : history \in Histories}
    /\ pushed = <<>>
    /\ job = [r \in Runs |-> NewJob]
    /\ artifact = [r \in Runs |-> Nothing]
    /\ uploaded = [r \in Runs |-> Nothing]
    /\ post = [r \in Runs |-> NewPost]
    /\ comments = <<>>

\* The next commit of a history that what was pushed is the beginning of.
Push(history) ==
    /\ history.base = base
    /\ Len(pushed) < Len(history.commits) /\ IsPrefix(pushed, history.commits)
    /\ pushed' = Append(pushed, history.commits[Len(pushed) + 1])
    /\ UNCHANGED <<base, job, artifact, uploaded, post, comments>>

At(r, step) == r \in DOMAIN pushed /\ job[r].at = step

\* A job fails in a step of its own, or, when all of them are done, by the gate.
Concluded(r) == job[r].at \in {"success", "failure", "gated", "cancelled"}

\* A job's record with some of its fields changed.
With(record, fields) ==
    [name \in DOMAIN record |-> IF name \in DOMAIN fields THEN fields[name] ELSE record[name]]

\* A step that ends the job or hands over to the next one.
Step(r, fields) ==
    /\ job' = [job EXCEPT ![r] = With(@, fields)]
    /\ UNCHANGED <<base, pushed, post, comments>>
Becomes(r, fields) == Step(r, fields) /\ UNCHANGED <<artifact, uploaded>>

-----------------------------------------------------------------------------
(* action/record                                                           *)

UnsafeTriggers == {"pull_request_target", "issue_comment", "workflow_run"}

\* pnpm's lockfile first: it is the one an install would use.  The input that names
\* another lockfile is left at its default.
Ecosystem(commit) ==
    CASE ~commit.pnpm.missing -> "pnpm" [] commit.pnpm.missing /\ ~commit.npm.missing -> "npm"
      [] OTHER -> "none"

\* The copy of the base's lockfile has a name that says nothing.
Trigger ==
    LET Copy(side) == [side EXCEPT !.ecosystem = "none"]
    IN  [from \in DOMAIN Content |-> [to \in DOMAIN Content |->
            LET ecosystem == Ecosystem(Content[to])
            IN  IF ecosystem = "none" THEN EXIT_NOTHING_TO_RECORD
                ELSE LockfileDiff(Copy(Content[from][ecosystem]), Content[to][ecosystem]).exit]]

\* Refuse an unsafe trigger and a missing base; then let lockfile-diff decide.
\* With nothing to record, every other step is skipped.
AfterTrigger(exit) ==
    CASE exit = EXIT_SUCCESS -> "record" [] exit = EXIT_NOTHING_TO_RECORD -> "success" [] OTHER -> "failure"
Decide(r) ==
    /\ At(r, "decide")
    /\ LET commit == Content[pushed[r]]
           refused == commit.event \in UnsafeTriggers \/ ~commit.base_ref
       IN  Becomes(r, [at |-> IF refused THEN "failure" ELSE AfterTrigger(Trigger[base][pushed[r]])])

\* A partial recording is carried on; one that failed, or that verify cannot
\* read, ends the job.
RecordInstall(r, name) ==
    /\ At(r, "record")
    /\ LET statuses == {Record("strace", File[name], FALSE), Verify(File[name], FALSE)}
       IN  Becomes(r, [at |-> IF statuses \subseteq {EXIT_SUCCESS, EXIT_PARTIAL} THEN "report" ELSE "failure",
                       recording |-> name])

Reports == [name \in DOMAIN File |-> Report(Catalog, File[name], FailAbove)]
PagesOf(report) ==
    [made |-> TRUE, score |-> report.score, partial |-> report.partial, badge |-> report.markdown.badge]

\* With a threshold any failure of report is taken for a score above it, and the
\* job goes on; a report that cannot write its pages (works) fails as well.
MutantRender(r, works) ==
    /\ At(r, "report")
    /\ LET report == Reports[job[r].recording]
           failed == ~works \/ report.exit # EXIT_SUCCESS
           gated == failed /\ FailAbove # NoThreshold
       IN  Becomes(r, [at |-> IF gated THEN "gated" ELSE IF failed THEN "failure" ELSE "snapshot",
                       report |-> IF works THEN PagesOf(report) ELSE Nothing,
                       fail_requested |-> gated])
Render(r, works) ==
    /\ At(r, "report")
    /\ LET report == Reports[job[r].recording]
           failed == ~works \/ report.exit # EXIT_SUCCESS
           gated == failed /\ FailAbove # NoThreshold
       IN  Becomes(r, [at |-> IF failed /\ ~gated THEN "failure" ELSE "snapshot",
                       report |-> IF works THEN PagesOf(report) ELSE Nothing,
                       fail_requested |-> gated])

\* What snapshot push takes.
Accepted == {name \in DOMAIN File : SnapshotPush(File[name]) = EXIT_SUCCESS}

Comparisons ==
    [old \in DOMAIN File |-> [new \in DOMAIN File |->
        Diff([side \in Sides |-> IF side = "before" THEN File[old] ELSE File[new]], FALSE)]]

\* The snapshot goes to the runner's copy of the registry, and is compared with
\* the last other version there.  Neither the push nor the comparison may fail the
\* job; the list between them may (lists).
StoreSnapshot(r, lists) ==
    /\ At(r, "snapshot")
    /\ LET name == job[r].recording
           accepted == name \in Accepted
           stored == IF accepted THEN Append(job[r].stored, [version |-> r, file |-> name]) ELSE job[r].stored
           previous == SelectSeq(stored, LAMBDA entry : entry.version # r)
           compared == accepted /\ lists /\ previous # <<>>
       IN  Becomes(r, [at |-> IF accepted /\ ~lists THEN "failure" ELSE "upload", stored |-> stored,
                       diff |-> IF compared /\ Comparisons[Last(previous).file][name].written
                                THEN [made |-> TRUE, against |-> Last(previous).version] ELSE Nothing])

\* A step that uploads: it goes on to the next one, or it fails and ends the job.
Upload(r, at, next, works) == At(r, at) /\ Step(r, [at |-> IF works THEN next ELSE "failure"])

\* Whatever pages there are, with the number of the pull request if there is one.
UploadArtifact(r, works) ==
    /\ Upload(r, "upload", "registry", works)
    /\ artifact' = [artifact EXCEPT ![r] =
                        IF works THEN [made |-> TRUE, pr |-> Content[pushed[r]].event = "pull_request",
                                       report |-> job[r].report, diff |-> job[r].diff]
                        ELSE @]
    /\ UNCHANGED uploaded

UploadRegistry(r, works) ==
    /\ Upload(r, "registry", "sarif", works)
    /\ uploaded' = [uploaded EXCEPT ![r] = IF works THEN [made |-> TRUE, entries |-> job[r].stored] ELSE @]
    /\ UNCHANGED artifact

\* To code scanning, if that is asked for; what is kept there is not modelled.
UploadSarif(r, works) ==
    /\ Upload(r, "sarif", "gate", works)
    /\ UNCHANGED <<artifact, uploaded>>

FailTheBuild(r) ==
    /\ At(r, "gate")
    /\ Becomes(r, [at |-> IF job[r].fail_requested THEN "gated" ELSE "success"])

\* By a user, or with its runner.
Cancel(r) ==
    /\ r \in DOMAIN pushed /\ ~Concluded(r)
    /\ Becomes(r, [at |-> "cancelled"])

-----------------------------------------------------------------------------
(* action/comment                                                          *)

PostStep(r, fields) ==
    /\ post' = [post EXCEPT ![r] = With(@, fields)]
    /\ UNCHANGED <<base, pushed, job, artifact, uploaded>>

\* A concluded record job starts it, however it concluded.  A download that fails
\* reads as no artifact.
Download(r, works) ==
    /\ r \in DOMAIN pushed /\ Concluded(r)
    /\ post[r].at = "waiting"
    /\ PostStep(r, [at |-> IF works /\ artifact[r].made THEN "validate"
                           ELSE IF works THEN "nothing" ELSE "unreachable"])
    /\ UNCHANGED comments

\* An artifact with a number must have its page.
Validate(r) ==
    /\ post[r].at = "validate"
    /\ PostStep(r, [at |-> CASE ~artifact[r].pr -> "nothing"
                             [] artifact[r].pr /\ ~artifact[r].report.made -> "incomplete"
                             [] OTHER -> "list"])
    /\ UNCHANGED comments

\* The first comment that begins with the marker, if any.
ListComments(r) ==
    /\ post[r].at = "list"
    /\ PostStep(r, [at |-> "post", existing |-> IF comments = <<>> THEN 0 ELSE 1])
    /\ UNCHANGED comments

Body(r) ==
    [run |-> r, badge |-> artifact[r].report.badge, diff |-> artifact[r].diff]

\* By the list this job has read, which another job may have added to since.
MutantPost(r) ==
    /\ post[r].at = "post"
    /\ PostStep(r, [at |-> "done"])
    /\ comments' = IF post[r].existing # 0 THEN comments ELSE Append(comments, Body(r))
Post(r) ==
    /\ post[r].at = "post"
    /\ PostStep(r, [at |-> "done"])
    /\ comments' = IF post[r].existing # 0 THEN [comments EXCEPT ![post[r].existing] = Body(r)]
                   ELSE Append(comments, Body(r))

RequestFails(r) ==
    /\ post[r].at \in {"list", "post"}
    /\ PostStep(r, [at |-> "unreachable"])
    /\ UNCHANGED comments

-----------------------------------------------------------------------------

RecordStep(r) ==
    \/ Decide(r)
    \/ \E name \in DOMAIN File : RecordInstall(r, name)
    \/ \E works \in BOOLEAN : Render(r, works)
    \/ \E lists \in BOOLEAN : StoreSnapshot(r, lists)
    \/ \E works \in BOOLEAN : UploadArtifact(r, works)
    \/ \E works \in BOOLEAN : UploadRegistry(r, works)
    \/ \E works \in BOOLEAN : UploadSarif(r, works)
    \/ FailTheBuild(r)

CommentStep(r) ==
    \/ \E works \in BOOLEAN : Download(r, works)
    \/ Validate(r)
    \/ ListComments(r)
    \/ Post(r)

Next ==
    \/ \E history \in Histories : Push(history)
    \/ \E r \in Runs : RecordStep(r) \/ Cancel(r) \/ CommentStep(r) \/ RequestFails(r)

Spec == Init /\ [][Next]_vars

\* A job that was started is run to its end: by its runner, within its time limit.
FairSpec == Spec /\ \A r \in Runs : WF_vars(RecordStep(r)) /\ WF_vars(CommentStep(r))

-----------------------------------------------------------------------------
(* Properties                                                              *)

\* The same bytes, or whatever one place has.
SameCode(fetch, other) ==
    /\ fetch.name = other.name /\ fetch.version = other.version
    /\ IF "any" \in {fetch.bytes, other.bytes} THEN fetch.place = other.place
       ELSE fetch.bytes = other.bytes

\* A pull request that passes without a recording brings in no code: everything
\* its install fetches from outside, the base's install already fetched.
\* (trigger and lockfile-diff together, over both readers.)
QuietPullRequestAddsNoCode ==
    \A r \in DOMAIN pushed :
        job[r].at = "success" /\ job[r].recording = "none" =>
            \A fetch \in Content[pushed[r]].fetches : \E other \in Content[base].fetches : SameCode(fetch, other)

\* The conclusion of a recorded run stands on evidence that can be looked up: a
\* success has a report that is within the threshold and says partial if verify
\* does; a build that the gate fails leaves the artifact and the registry behind
\* all the same; and no registry that is left holds a recording that is not whole.
ConclusionKeepsItsEvidence ==
    \A r \in DOMAIN pushed :
        /\ job[r].recording # "none" /\ job[r].at = "success" =>
              /\ artifact[r].made /\ artifact[r].report.made /\ uploaded[r].made
              /\ artifact[r].report.score <= FailAbove
              /\ artifact[r].report.partial <=> Verify(File[job[r].recording], FALSE) = EXIT_PARTIAL
        /\ job[r].at = "gated" => artifact[r].made /\ uploaded[r].made
        /\ uploaded[r].made =>
              \A i \in DOMAIN uploaded[r].entries :
                  Verify(File[uploaded[r].entries[i].file], FALSE) = EXIT_SUCCESS

\* A report that was left for the pull request comes to be shown on it, unless a
\* later run's is, whatever the jobs of other runs write meanwhile; or the platform
\* fails the job.  (How long it stays is another matter: an older run's job may
\* write over it.)
ReportReachesThePullRequest ==
    \A r \in Runs :
        (artifact[r].made /\ artifact[r].pr /\ artifact[r].report.made /\ post[r].at # "done") ~>
            \/ post[r].at = "unreachable"
            \/ \E i \in DOMAIN comments : comments[i].run >= r
=============================================================================
