---------------------------- MODULE ActionProofs ----------------------------
(***************************************************************************)
(* The conclusion of a record job stands on evidence, for any commits,     *)
(* recordings, catalog, committed registry and threshold, whatever jobs    *)
(* run side by side, are cancelled, or fail to upload, to download or to   *)
(* post.                                                                   *)
(*                                                                         *)
(* The argument: a job passes its steps in order, and what each step found *)
(* or left behind is still so at the later ones (Progress): only the job   *)
(* itself writes its record and its artifacts, and each artifact once.     *)
(***************************************************************************)
EXTENDS Action, TLAPS

-----------------------------------------------------------------------------
(* The commands a job runs                                                 *)

Stored(name) == Verify(File[name], FALSE) = EXIT_SUCCESS
Readable(name) == Verify(File[name], FALSE) \in {EXIT_SUCCESS, EXIT_PARTIAL}

\* The registry accepts what verify calls whole.
LEMMA AcceptedIsWhole ==
    ASSUME NEW file, SnapshotPush(file) = EXIT_SUCCESS
    PROVE  Verify(file, FALSE) = EXIT_SUCCESS
<1>1. StreamFacts(file.lines).complete <=> Terminated(file.lines) /\ LastEnd(file.lines).complete
  BY DEF StreamFacts
<1>2. ~PushRefused(file)
  BY DEF SnapshotPush, Passes, EXIT_SUCCESS, EXIT_FAILURE
<1>3. ~file.torn /\ Terminated(file.lines) /\ LastEnd(file.lines).complete
  BY <1>1, <1>2 DEF PushRefused
<1>4. ~SummarizeStream(file).error /\ ~SummarizeStream(file).partial
  BY <1>3 DEF SummarizeStream
<1> QED BY <1>4 DEF Verify, SummaryExit

\* A report that succeeds is within the threshold and has its pages.
LEMMA SuccessfulReport ==
    ASSUME NEW name \in DOMAIN File, Reports[name].exit = EXIT_SUCCESS
    PROVE  /\ Reports[name].score <= FailAbove
           /\ Reports[name].partial = Completeness(File[name].lines).partial
<1> DEFINE file == File[name]
           a == Analysis(Catalog, file.lines)
<1>1. Reports[name] = Report(Catalog, file, FailAbove)
  BY DEF Reports
<1>2. ~file.torn /\ ValidCatalog(Catalog)
  BY <1>1 DEF Report, EXIT_SUCCESS, EXIT_FAILURE
<1>3. /\ Reports[name].exit = Passes(a.score.value <= FailAbove)
      /\ Reports[name].score = a.score.value /\ Reports[name].partial = a.partial
  BY <1>1, <1>2 DEF Report
<1>4. a.partial = Completeness(file.lines).partial
  BY DEF Analysis
<1> HIDE DEF a
<1>5. a.score.value <= FailAbove
  BY <1>3 DEF Passes, EXIT_SUCCESS, EXIT_FAILURE
<1> QED BY <1>3, <1>4, <1>5

\* Of a recording that verify can read, the report says partial when verify does.
LEMMA PartialAlike ==
    ASSUME NEW name \in DOMAIN File, Readable(name)
    PROVE  Completeness(File[name].lines).partial <=> Verify(File[name], FALSE) = EXIT_PARTIAL
<1> DEFINE file == File[name]
           summary == SummarizeStream(file)
<1>1. /\ summary.error <=> file.torn \/ ~Terminated(file.lines)
      /\ summary.partial <=> ~Terminated(file.lines) \/ ~LastEnd(file.lines).complete
  BY DEF SummarizeStream
<1>2. Verify(file, FALSE) = IF summary.error THEN 1 ELSE IF ~summary.partial THEN 0 ELSE 3
  BY DEF Verify, SummaryExit, EXIT_SUCCESS, EXIT_FAILURE, EXIT_PARTIAL
<1>3. Completeness(file.lines).partial <=> ~Terminated(file.lines) \/ ~LastEnd(file.lines).complete
  <2>1. CASE ~Terminated(file.lines)
    BY <2>1 DEF Completeness
  <2>2. CASE Terminated(file.lines)
    BY <2>2 DEF Completeness
  <2> QED BY <2>1, <2>2
<1>4. 1 # 0 /\ 3 # 0 /\ 3 # 1
  OBVIOUS
<1>5. Verify(file, FALSE) = 0 \/ Verify(file, FALSE) = 3
  BY DEF Readable, EXIT_SUCCESS, EXIT_PARTIAL
<1> HIDE DEF summary
<1>6. Verify(file, FALSE) = 3 <=> summary.partial
  BY <1>2, <1>4, <1>5, Zenon
<1>7. ~summary.error
  BY <1>2, <1>4, <1>5, Zenon
<1> QED BY <1>1, <1>3, <1>6, <1>7 DEF EXIT_PARTIAL

-----------------------------------------------------------------------------
(* The record of a job                                                     *)

JobFields == {"at", "recording", "report", "fail_requested", "stored", "diff"}
Working == {"snapshot", "upload", "registry", "sarif", "gate"}

Entries == [version : Nat, file : DOMAIN File]
AllStored(entries) == \A i \in DOMAIN entries : Stored(entries[i].file)

\* What its steps up to now have found and left behind.
Progress(r) ==
    /\ DOMAIN job[r] = JobFields
    /\ job[r].fail_requested \in BOOLEAN
    /\ job[r].stored \in Seq(Entries) /\ AllStored(job[r].stored)
    /\ job[r].at \in {"decide", "record"} => job[r].recording = "none" /\ ~job[r].fail_requested
    /\ job[r].at \in {"report"} \cup Working =>
          job[r].recording \in DOMAIN File /\ Readable(job[r].recording)
    /\ job[r].at = "report" => ~job[r].fail_requested
    /\ job[r].at \in Working /\ ~job[r].fail_requested =>
          job[r].report = PagesOf(Reports[job[r].recording])
          /\ Reports[job[r].recording].exit = EXIT_SUCCESS
    /\ job[r].at \in {"registry", "sarif", "gate"} => artifact[r].made /\ artifact[r].report = job[r].report
    /\ job[r].at \in {"sarif", "gate"} => uploaded[r].made
    /\ uploaded[r].made => AllStored(uploaded[r].entries)
    /\ job[r].at = "gated" => artifact[r].made /\ uploaded[r].made
    /\ job[r].at = "success" /\ job[r].recording # "none" =>
          /\ job[r].recording \in DOMAIN File /\ Readable(job[r].recording)
          /\ Reports[job[r].recording].exit = EXIT_SUCCESS
          /\ artifact[r].made /\ uploaded[r].made
          /\ artifact[r].report = PagesOf(Reports[job[r].recording])

Stores == DOMAIN job = Runs /\ DOMAIN artifact = Runs /\ DOMAIN uploaded = Runs
PushedRuns == pushed \in Seq(DOMAIN Content) /\ DOMAIN pushed \subseteq Runs

EvidenceHolds == PushedRuns /\ Stores /\ \A r \in Runs : Progress(r)

\* Runs are counted from 1.
LEMMA RunsAreNumbers == Runs \subseteq Nat
  BY HistoryAssumption DEF Runs

\* Appending a whole recording leaves every entry whole.
LEMMA StillAllStored ==
    ASSUME NEW entries \in Seq(Entries), AllStored(entries), NEW entry \in Entries, Stored(entry.file)
    PROVE  Append(entries, entry) \in Seq(Entries) /\ AllStored(Append(entries, entry))
<1> DEFINE more == Append(entries, entry)
<1>1. more \in Seq(Entries) /\ DOMAIN entries = 1 .. Len(entries) /\ DOMAIN more = 1 .. Len(entries) + 1
  OBVIOUS
<1>2. ASSUME NEW i \in DOMAIN more PROVE Stored(more[i].file)
  <2>1. CASE i \in 1 .. Len(entries)
    BY <2>1, <1>1 DEF AllStored
  <2>2. CASE i = Len(entries) + 1
    BY <2>2
  <2> QED BY <1>1, <2>1, <2>2
<1> QED BY <1>1, <1>2 DEF AllStored

\* A step of a job changes its own record, and there only the fields it names.
LEMMA StepOf ==
    ASSUME NEW r \in Runs, NEW fields, Stores, Step(r, fields), DOMAIN fields \subseteq DOMAIN job[r]
    PROVE  /\ DOMAIN job' = Runs /\ pushed' = pushed
           /\ \A s \in Runs \ {r} : job'[s] = job[s]
           /\ DOMAIN job'[r] = DOMAIN job[r]
           /\ \A name \in DOMAIN fields : job'[r][name] = fields[name]
           /\ \A name \in DOMAIN job[r] \ DOMAIN fields : job'[r][name] = job[r][name]
  BY DEF Step, Stores, With

\* A run whose record and artifacts a step leaves alone has made the progress it had.
LEMMA OtherRun ==
    ASSUME NEW s \in Runs, Progress(s),
           job'[s] = job[s], artifact'[s] = artifact[s], uploaded'[s] = uploaded[s]
    PROVE  Progress(s)'
  BY DEF Progress, Working

-----------------------------------------------------------------------------
(* The steps                                                               *)

\* No job has begun.
LEMMA EvidenceAtFirst == Init => EvidenceHolds
<1> SUFFICES ASSUME Init PROVE EvidenceHolds
  OBVIOUS
<1>1. Stores /\ PushedRuns
  BY DEF Init, Stores, PushedRuns
<1>2. Committed \in Seq(Entries) /\ AllStored(Committed)
  BY CommittedAssumption DEF Entries, AllStored, Stored
<1>3. ASSUME NEW r \in Runs PROVE Progress(r)
  <2>1. /\ job[r].at = "decide" /\ job[r].recording = "none" /\ job[r].fail_requested = FALSE
        /\ job[r].stored = Committed /\ DOMAIN job[r] = JobFields /\ uploaded[r].made = FALSE
    BY DEF Init, NewJob, JobFields, Nothing
  <2> QED BY <2>1, <1>2 DEF Progress, Working
<1> QED BY <1>1, <1>3 DEF EvidenceHolds

\* A push adds a run that some history has room for.
LEMMA PushKeepsRuns ==
    ASSUME NEW history \in Histories, PushedRuns, Push(history)
    PROVE  PushedRuns'
<1>1. history.commits \in Seq(DOMAIN Content)
  BY HistoryAssumption
<1>2. /\ pushed \in Seq(DOMAIN Content) /\ Len(pushed) < Len(history.commits)
      /\ pushed' = Append(pushed, history.commits[Len(pushed) + 1])
  BY DEF Push, PushedRuns
<1>3. history.commits[Len(pushed) + 1] \in DOMAIN Content
  BY <1>1, <1>2
<1>4. pushed' \in Seq(DOMAIN Content) /\ Len(pushed') <= Len(history.commits)
  BY <1>1, <1>2, <1>3
<1>5. DOMAIN pushed' \subseteq DOMAIN history.commits
  BY <1>1, <1>4
<1> QED BY <1>4, <1>5 DEF PushedRuns, Runs

\* Decide: a job ends or goes on to record.
LEMMA DecideKeeps ==
    ASSUME NEW r \in Runs, Stores, Progress(r), Decide(r) PROVE Progress(r)'
<1>1. PICK at : at \in {"record", "success", "failure"} /\ Becomes(r, [at |-> at])
  BY DEF Decide, AfterTrigger
<1>2. job[r].at = "decide"
  BY DEF Decide, At
<1>3. /\ job'[r].at = at /\ DOMAIN job'[r] = JobFields
      /\ job'[r].recording = job[r].recording /\ job'[r].fail_requested = job[r].fail_requested
      /\ job'[r].stored = job[r].stored
  BY <1>1, StepOf DEF Becomes, Progress, JobFields
<1>4. artifact' = artifact /\ uploaded' = uploaded
  BY <1>1 DEF Becomes
<1> QED BY <1>1, <1>2, <1>3, <1>4 DEF Progress, Working

\* The recording is made; only one that verify can read is carried on.
LEMMA RecordKeeps ==
    ASSUME NEW r \in Runs, NEW name \in DOMAIN File, Stores, Progress(r), RecordInstall(r, name)
    PROVE  Progress(r)'
<1>1. PICK at : /\ at \in {"report", "failure"} /\ Becomes(r, [at |-> at, recording |-> name])
                /\ at = "report" => Readable(name)
  <2> DEFINE statuses == {Record("strace", File[name], FALSE), Verify(File[name], FALSE)}
             at == IF statuses \subseteq {EXIT_SUCCESS, EXIT_PARTIAL} THEN "report" ELSE "failure"
  <2>1. Becomes(r, [at |-> at, recording |-> name])
    BY DEF RecordInstall
  <2>2. at = "report" => Readable(name)
    BY DEF Readable
  <2>3. at \in {"report", "failure"}
    OBVIOUS
  <2> HIDE DEF at
  <2> QED BY <2>1, <2>2, <2>3
<1>2. job[r].at = "record"
  BY DEF RecordInstall, At
<1>3. /\ job'[r].at = at /\ DOMAIN job'[r] = JobFields
      /\ job'[r].recording = name /\ job'[r].fail_requested = job[r].fail_requested
      /\ job'[r].stored = job[r].stored
  BY <1>1, StepOf DEF Becomes, Progress, JobFields
<1>4. artifact' = artifact /\ uploaded' = uploaded
  BY <1>1 DEF Becomes
<1> QED BY <1>1, <1>2, <1>3, <1>4 DEF Progress, Working

\* The report is made; a failure of it is remembered or ends the job.
LEMMA RenderKeeps ==
    ASSUME NEW r \in Runs, NEW works \in BOOLEAN, Stores, Progress(r), Render(r, works)
    PROVE  Progress(r)'
<1> DEFINE report == Reports[job[r].recording]
           failed == ~works \/ report.exit # EXIT_SUCCESS
           gated == failed /\ FailAbove # NoThreshold
           pages == IF works THEN PagesOf(report) ELSE Nothing
           at == IF failed /\ ~gated THEN "failure" ELSE "snapshot"
<1>1. Becomes(r, [at |-> at, report |-> pages, fail_requested |-> gated])
  BY DEF Render
<1>2. job[r].at = "report"
  BY DEF Render, At
<1>3. gated \in BOOLEAN
  OBVIOUS
<1>4. at = "snapshot" /\ ~gated => pages = PagesOf(report) /\ report.exit = EXIT_SUCCESS
  OBVIOUS
<1>5. at \in {"failure", "snapshot"} /\ (at = "failure" => ~gated)
  OBVIOUS
<1> HIDE DEF failed, gated, pages, at
<1>6. /\ job'[r].at = at /\ DOMAIN job'[r] = JobFields
      /\ job'[r].recording = job[r].recording /\ job'[r].fail_requested = gated
      /\ job'[r].stored = job[r].stored /\ job'[r].report = pages
  BY <1>1, StepOf DEF Becomes, Progress, JobFields
<1>7. artifact' = artifact /\ uploaded' = uploaded
  BY <1>1 DEF Becomes
<1> QED BY <1>2, <1>3, <1>4, <1>5, <1>6, <1>7 DEF Progress, Working

\* A snapshot that the registry accepts is of a whole recording.
LEMMA SnapshotKeeps ==
    ASSUME NEW r \in Runs, NEW lists \in BOOLEAN, Stores, Progress(r), StoreSnapshot(r, lists)
    PROVE  Progress(r)'
<1> DEFINE name == job[r].recording
           accepted == name \in Accepted
           entry == [version |-> r, file |-> name]
           stored == IF accepted THEN Append(job[r].stored, entry) ELSE job[r].stored
           at == IF accepted /\ ~lists THEN "failure" ELSE "upload"
<1>1. PICK diff : Becomes(r, [at |-> at, stored |-> stored, diff |-> diff])
  BY DEF StoreSnapshot
<1>2. job[r].at = "snapshot" /\ name \in DOMAIN File
  BY DEF StoreSnapshot, At, Progress, Working
<1>3. stored \in Seq(Entries) /\ AllStored(stored)
  <2>1. job[r].stored \in Seq(Entries) /\ AllStored(job[r].stored)
    BY DEF Progress
  <2>2. entry \in Entries /\ entry.file = name
    BY <1>2, RunsAreNumbers DEF Entries
  <2>3. accepted => Stored(name)
    BY AcceptedIsWhole DEF Stored, Accepted
  <2> HIDE DEF entry, accepted, name
  <2> QED BY <2>1, <2>2, <2>3, StillAllStored
<1>4. at \in {"upload", "failure"}
  OBVIOUS
<1> HIDE DEF stored, at
<1>5. /\ job'[r].at = at /\ DOMAIN job'[r] = JobFields
      /\ job'[r].recording = job[r].recording /\ job'[r].fail_requested = job[r].fail_requested
      /\ job'[r].stored = stored /\ job'[r].report = job[r].report
  BY <1>1, StepOf DEF Becomes, Progress, JobFields
<1>6. artifact' = artifact /\ uploaded' = uploaded
  BY <1>1 DEF Becomes
<1> QED BY <1>2, <1>3, <1>4, <1>5, <1>6 DEF Progress, Working

\* The artifact holds the report the job has made.
LEMMA UploadKeeps ==
    ASSUME NEW r \in Runs, NEW works \in BOOLEAN, Stores, Progress(r), UploadArtifact(r, works)
    PROVE  Progress(r)'
<1>1. PICK at : /\ Step(r, [at |-> at]) /\ at = IF works THEN "registry" ELSE "failure"
                /\ job[r].at = "upload" /\ uploaded' = uploaded
  BY DEF UploadArtifact, Upload, At
<1>2. /\ works => artifact'[r].made = TRUE /\ artifact'[r].report = job[r].report
      /\ ~works => artifact'[r] = artifact[r]
  BY DEF UploadArtifact, Stores
<1>3. /\ job'[r].at = at /\ DOMAIN job'[r] = JobFields
      /\ job'[r].recording = job[r].recording /\ job'[r].fail_requested = job[r].fail_requested
      /\ job'[r].stored = job[r].stored /\ job'[r].report = job[r].report
  BY <1>1, StepOf DEF Progress, JobFields
<1>4. CASE works
  BY <1>1, <1>2, <1>3, <1>4 DEF Progress, Working
<1>5. CASE ~works
  BY <1>1, <1>2, <1>3, <1>5 DEF Progress, Working
<1> QED BY <1>4, <1>5

\* The registry that is left is the one the job has stored into.
LEMMA RegistryKeeps ==
    ASSUME NEW r \in Runs, NEW works \in BOOLEAN, Stores, Progress(r), UploadRegistry(r, works)
    PROVE  Progress(r)'
<1>1. PICK at : /\ Step(r, [at |-> at]) /\ at = IF works THEN "sarif" ELSE "failure"
                /\ job[r].at = "registry" /\ artifact' = artifact
  BY DEF UploadRegistry, Upload, At
<1>2. /\ works => uploaded'[r].made = TRUE /\ uploaded'[r].entries = job[r].stored
      /\ ~works => uploaded'[r] = uploaded[r]
  BY DEF UploadRegistry, Stores
<1>3. /\ job'[r].at = at /\ DOMAIN job'[r] = JobFields
      /\ job'[r].recording = job[r].recording /\ job'[r].fail_requested = job[r].fail_requested
      /\ job'[r].stored = job[r].stored /\ job'[r].report = job[r].report
  BY <1>1, StepOf DEF Progress, JobFields
<1>4. CASE works
  BY <1>1, <1>2, <1>3, <1>4 DEF Progress, Working
<1>5. CASE ~works
  BY <1>1, <1>2, <1>3, <1>5 DEF Progress, Working
<1> QED BY <1>4, <1>5

\* Code scanning is told, and nothing else changes.
LEMMA SarifKeeps ==
    ASSUME NEW r \in Runs, NEW works \in BOOLEAN, Stores, Progress(r), UploadSarif(r, works)
    PROVE  Progress(r)'
<1>1. PICK at : /\ Step(r, [at |-> at]) /\ at = IF works THEN "gate" ELSE "failure"
                /\ job[r].at = "sarif" /\ artifact' = artifact /\ uploaded' = uploaded
  BY DEF UploadSarif, Upload, At
<1>2. artifact'[r] = artifact[r] /\ uploaded'[r] = uploaded[r]
  BY <1>1
<1>3. /\ job'[r].at = at /\ DOMAIN job'[r] = JobFields
      /\ job'[r].recording = job[r].recording /\ job'[r].fail_requested = job[r].fail_requested
      /\ job'[r].stored = job[r].stored /\ job'[r].report = job[r].report
  BY <1>1, StepOf DEF Progress, JobFields
<1>4. CASE works
  BY <1>1, <1>2, <1>3, <1>4 DEF Progress, Working
<1>5. CASE ~works
  BY <1>1, <1>2, <1>3, <1>5 DEF Progress, Working
<1> QED BY <1>4, <1>5

\* The gate, and a cancellation at any step, change only where the job is.
LEMMA ConclusionKeeps ==
    ASSUME NEW r \in Runs, Stores, Progress(r), FailTheBuild(r) \/ Cancel(r) PROVE Progress(r)'
<1>1. PICK at : /\ Becomes(r, [at |-> at])
                /\ \/ at = "cancelled"
                   \/ /\ job[r].at = "gate"
                      /\ at = IF job[r].fail_requested THEN "gated" ELSE "success"
  BY DEF FailTheBuild, Cancel, At
<1>2. /\ job'[r].at = at /\ DOMAIN job'[r] = JobFields
      /\ job'[r].recording = job[r].recording /\ job'[r].fail_requested = job[r].fail_requested
      /\ job'[r].stored = job[r].stored /\ job'[r].report = job[r].report
  BY <1>1, StepOf DEF Becomes, Progress, JobFields
<1>3. artifact' = artifact /\ uploaded' = uploaded
  BY <1>1 DEF Becomes
<1>4. CASE at = "cancelled"
  BY <1>2, <1>3, <1>4 DEF Progress, Working
<1>5. CASE job[r].at = "gate" /\ job[r].fail_requested /\ at = "gated"
  BY <1>2, <1>3, <1>5 DEF Progress, Working
<1>6. CASE job[r].at = "gate" /\ ~job[r].fail_requested /\ at = "success"
  BY <1>2, <1>3, <1>6 DEF Progress, Working
<1> QED BY <1>1, <1>4, <1>5, <1>6 DEF Progress

\* A step of the record job of r.
LEMMA RecordStepKeeps ==
    ASSUME NEW r \in Runs, Stores, Progress(r), RecordStep(r) \/ Cancel(r) PROVE Progress(r)'
  BY DecideKeeps, RecordKeeps, RenderKeeps, SnapshotKeeps, UploadKeeps, RegistryKeeps, SarifKeeps,
     ConclusionKeeps DEF RecordStep

\* It leaves the other runs, and what was pushed, alone.
LEMMA RecordStepIsOwn ==
    ASSUME NEW r \in Runs, Stores, RecordStep(r) \/ Cancel(r)
    PROVE  /\ Stores' /\ pushed' = pushed
           /\ \A s \in Runs \ {r} :
                  job'[s] = job[s] /\ artifact'[s] = artifact[s] /\ uploaded'[s] = uploaded[s]
<1>0. Decide(r) => \E fields : Becomes(r, fields)
  BY DEF Decide
<1>1. \E fields : Step(r, fields)
  BY <1>0 DEF RecordStep, Cancel, RecordInstall, Render, StoreSnapshot, Upload, UploadArtifact,
         UploadRegistry, UploadSarif, FailTheBuild, Becomes
<1>2. DOMAIN job' = Runs /\ pushed' = pushed /\ \A s \in Runs \ {r} : job'[s] = job[s]
  BY <1>1 DEF Step, Stores
<1>3. \/ artifact' = artifact
      \/ \E a : artifact' = [artifact EXCEPT ![r] = a]
  BY <1>0 DEF RecordStep, Cancel, RecordInstall, Render, StoreSnapshot, Upload, UploadArtifact,
         UploadRegistry, UploadSarif, FailTheBuild, Becomes
<1>4. \/ uploaded' = uploaded
      \/ \E u : uploaded' = [uploaded EXCEPT ![r] = u]
  BY <1>0 DEF RecordStep, Cancel, RecordInstall, Render, StoreSnapshot, Upload, UploadArtifact,
         UploadRegistry, UploadSarif, FailTheBuild, Becomes
<1>5. DOMAIN artifact' = Runs /\ \A s \in Runs \ {r} : artifact'[s] = artifact[s]
  BY <1>3 DEF Stores
<1>6. DOMAIN uploaded' = Runs /\ \A s \in Runs \ {r} : uploaded'[s] = uploaded[s]
  BY <1>4 DEF Stores
<1> QED BY <1>2, <1>5, <1>6 DEF Stores

\* No step takes from a run the evidence it has.
LEMMA EvidenceStays == EvidenceHolds /\ [Next]_vars => EvidenceHolds'
<1> SUFFICES ASSUME EvidenceHolds, [Next]_vars PROVE EvidenceHolds'
  OBVIOUS
<1>0. PushedRuns /\ Stores /\ \A r \in Runs : Progress(r)
  BY DEF EvidenceHolds
<1>1. ASSUME NEW history \in Histories, Push(history) PROVE EvidenceHolds'
  <2>1. PushedRuns'
    BY <1>0, <1>1, PushKeepsRuns
  <2>2. job' = job /\ artifact' = artifact /\ uploaded' = uploaded
    BY <1>1 DEF Push
  <2>3. Stores' /\ \A r \in Runs : Progress(r)'
    BY <1>0, <2>2, OtherRun DEF Stores
  <2> QED BY <2>1, <2>3 DEF EvidenceHolds
<1>2. ASSUME NEW r \in Runs, RecordStep(r) \/ Cancel(r) PROVE EvidenceHolds'
  <2>1. Progress(r)'
    BY <1>0, <1>2, RecordStepKeeps
  <2>2. /\ Stores' /\ pushed' = pushed
        /\ \A s \in Runs \ {r} :
               job'[s] = job[s] /\ artifact'[s] = artifact[s] /\ uploaded'[s] = uploaded[s]
    BY <1>0, <1>2, RecordStepIsOwn
  <2>3. \A s \in Runs \ {r} : Progress(s)'
    BY <1>0, <2>2, OtherRun
  <2>4. PushedRuns'
    BY <1>0, <2>2 DEF PushedRuns
  <2> QED BY <2>1, <2>2, <2>3, <2>4 DEF EvidenceHolds
<1>3. ASSUME NEW r \in Runs, CommentStep(r) \/ RequestFails(r) PROVE EvidenceHolds'
  <2>1. pushed' = pushed /\ job' = job /\ artifact' = artifact /\ uploaded' = uploaded
    BY <1>3 DEF CommentStep, Download, Validate, ListComments, Post, RequestFails, PostStep
  <2>2. \A s \in Runs : Progress(s)'
    BY <1>0, <2>1, OtherRun
  <2> QED BY <1>0, <2>1, <2>2 DEF EvidenceHolds, PushedRuns, Stores
<1>4. CASE UNCHANGED vars
  <2>1. pushed' = pushed /\ job' = job /\ artifact' = artifact /\ uploaded' = uploaded
    BY <1>4 DEF vars
  <2>2. \A s \in Runs : Progress(s)'
    BY <1>0, <2>1, OtherRun
  <2> QED BY <1>0, <2>1, <2>2 DEF EvidenceHolds, PushedRuns, Stores
<1> QED BY <1>1, <1>2, <1>3, <1>4 DEF Next

-----------------------------------------------------------------------------

\* The conclusion of a recorded run stands on evidence that can be looked up: a
\* success has a report that is within the threshold and says partial if verify
\* does; a build that the gate fails leaves the artifact and the registry behind
\* all the same; and no registry that is left holds a recording that is not whole
\* (action/record, with report, verify and snapshot push).
THEOREM ConclusionsStand == Spec => []ConclusionKeepsItsEvidence
<1>1. ASSUME EvidenceHolds PROVE ConclusionKeepsItsEvidence
  <2> SUFFICES ASSUME NEW r \in DOMAIN pushed
               PROVE  /\ job[r].recording # "none" /\ job[r].at = "success" =>
                            /\ artifact[r].made /\ artifact[r].report.made /\ uploaded[r].made
                            /\ artifact[r].report.score <= FailAbove
                            /\ artifact[r].report.partial <=>
                                  Verify(File[job[r].recording], FALSE) = EXIT_PARTIAL
                      /\ job[r].at = "gated" => artifact[r].made /\ uploaded[r].made
                      /\ uploaded[r].made =>
                            \A i \in DOMAIN uploaded[r].entries :
                                Verify(File[uploaded[r].entries[i].file], FALSE) = EXIT_SUCCESS
    BY DEF ConclusionKeepsItsEvidence
  <2>1. Progress(r)
    BY <1>1 DEF EvidenceHolds, PushedRuns
  <2>2. ASSUME job[r].recording # "none", job[r].at = "success"
        PROVE  /\ artifact[r].made /\ artifact[r].report.made /\ uploaded[r].made
               /\ artifact[r].report.score <= FailAbove
               /\ artifact[r].report.partial <=>
                     Verify(File[job[r].recording], FALSE) = EXIT_PARTIAL
    <3> DEFINE name == job[r].recording
    <3>1. /\ name \in DOMAIN File /\ Readable(name) /\ Reports[name].exit = EXIT_SUCCESS
          /\ artifact[r].made /\ artifact[r].report = PagesOf(Reports[name]) /\ uploaded[r].made
      BY <2>1, <2>2 DEF Progress
    <3> HIDE DEF name
    <3>2. /\ artifact[r].report.made = TRUE
          /\ artifact[r].report.score = Reports[name].score
          /\ artifact[r].report.partial = Reports[name].partial
      BY <3>1 DEF PagesOf
    <3>3. /\ Reports[name].score <= FailAbove
          /\ Reports[name].partial = Completeness(File[name].lines).partial
      BY <3>1, SuccessfulReport
    <3>4. Completeness(File[name].lines).partial <=> Verify(File[name], FALSE) = EXIT_PARTIAL
      BY <3>1, PartialAlike
    <3> QED BY <3>1, <3>2, <3>3, <3>4 DEF name
  <2>3. /\ job[r].at = "gated" => artifact[r].made /\ uploaded[r].made
        /\ uploaded[r].made => AllStored(uploaded[r].entries)
    BY <2>1 DEF Progress
  <2> QED BY <2>2, <2>3 DEF AllStored, Stored
<1>2. Spec => []EvidenceHolds
  BY EvidenceAtFirst, EvidenceStays, PTL DEF Spec
<1> QED BY <1>1, <1>2, PTL
=============================================================================
