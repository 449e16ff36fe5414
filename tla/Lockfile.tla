------------------------------ MODULE Lockfile ------------------------------
(***************************************************************************)
(* The lockfile crate: npm.rs and pnpm.rs read a file into packages,       *)
(* diff.rs says what changed between two of them.                          *)
(*                                                                         *)
(* A text is the sequence of its parts, empty when the file has none: a    *)
(* name, a version, a hash, an address.  An npm key is cut at its slashes, *)
(* a pnpm key also at the marks @ _ ( that the notations give a meaning.   *)
(* Entries come in the order of their keys, which the parsers restore by   *)
(* sorting.  Malformed JSON or YAML is left out; so is the order of the    *)
(* changes, which only a report shows.                                     *)
(***************************************************************************)
EXTENDS Naturals, Sequences, FiniteSets, SequencesExt, FiniteSetsExt

-----------------------------------------------------------------------------
(* model.rs                                                                *)

Source(kind, at, integrity) == [kind |-> kind, at |-> at, integrity |-> integrity]
IsExternal(package) == package.source.kind \in {"remote", "git", "unknown"}
Identity(package) == [name |-> package.name, version |-> package.version]

LockfileOf(ecosystem, packages) == [error |-> FALSE, ecosystem |-> ecosystem, packages |-> packages]
Unreadable == [error |-> TRUE, ecosystem |-> "none", packages |-> <<>>]

Before(text, n) == SubSeq(text, 1, n - 1)
After(text, n) == SubSeq(text, n + 1, Len(text))
\* The part of a text before a mark, or all of it.
UpTo(text, mark) ==
    LET at == SelectInSeq(text, LAMBDA part : part = mark)
    IN  IF at = 0 THEN text ELSE Before(text, at)

-----------------------------------------------------------------------------
(* npm.rs                                                                  *)

IsGitUrl(text) ==
    text # <<>> /\ Head(text) \in {"git+ssh", "git+https", "git+http", "git+file", "git"}

RemoteSource(resolved, integrity) ==
    IF IsGitUrl(resolved) THEN Source("git", resolved, <<>>) ELSE Source("remote", resolved, integrity)

\* The forms dir/* and dir/name of a workspace.
GlobMatches(glob, path) ==
    IF glob.star THEN IsPrefix(glob.dir, path) /\ Len(path) = Len(glob.dir) + 1 ELSE path = glob.dir
LinkSource(path, globs) ==
    Source(IF \E glob \in globs : GlobMatches(glob, path) THEN "workspace" ELSE "directory", path, <<>>)

\* What follows the last node_modules, or the whole key.
InstallName(key) == After(key, SelectLastInSeq(key, LAMBDA part : part = "node_modules"))
PublishedName(entry) == IF entry.name # <<>> THEN entry.name ELSE InstallName(entry.key)

\* A key that does not begin with node_modules is taken for a member of the workspace.
IsOwn(entry) == Head(entry.key) # "node_modules"

PathPackage(entry, entries, globs) ==
    LET targets == SelectSeq(entries, LAMBDA other : entry.link /\ other.key = entry.resolved)
    IN  [name |-> PublishedName(entry),
         version |-> IF ~entry.link THEN entry.version
                     ELSE IF targets = <<>> THEN <<>> ELSE Head(targets).version,
         source |-> IF entry.link THEN LinkSource(entry.resolved, globs)
                    ELSE IF IsOwn(entry) THEN LinkSource(entry.key, globs)
                    ELSE RemoteSource(entry.resolved, entry.integrity),
         groups |-> [dev |-> entry.dev \/ entry.dev_optional,
                     optional |-> entry.optional \/ entry.dev_optional]]

\* A link and its target make one package; the root entry is the project.
FromPaths(file) ==
    LET linked == {entry.resolved : entry \in {other \in Range(file.packages) : other.link}}
        kept == SelectSeq(file.packages, LAMBDA entry : entry.key # <<>> /\ entry.key \notin linked)
    IN  IF \E entry \in Range(kept) : PublishedName(entry) = <<>> THEN Unreadable
        ELSE LockfileOf("npm", [i \in DOMAIN kept |-> PathPackage(kept[i], file.packages, file.workspaces)])

\* Version 1 writes an alias into the version, as npm:name@version.
AliasAt(text) ==
    IF text # <<>> /\ Head(text) = "npm:" THEN SelectLastInSeq(text, LAMBDA part : part = "@") ELSE 0

\* An entry of the version 1 tree, by the names from the root down to it; the
\* groups of every entry above it are its own.
TreePackage(entry, entries) ==
    LET aliased == AliasAt(entry.version) > 2
        version == IF aliased THEN After(entry.version, AliasAt(entry.version)) ELSE entry.version
        above == {other \in Range(entries) : IsPrefix(other.path, entry.path)}
    IN  [name |-> IF aliased THEN Tail(Before(entry.version, AliasAt(entry.version))) ELSE <<Last(entry.path)>>,
         version |-> version,
         source |-> IF IsGitUrl(version) THEN Source("git", version, <<>>)
                    ELSE RemoteSource(entry.resolved, entry.integrity),
         groups |-> [dev |-> \E other \in above : other.dev \/ other.dev_optional,
                     optional |-> \E other \in above : other.optional \/ other.dev_optional]]

FromTree(file) ==
    LockfileOf("npm", [i \in DOMAIN file.dependencies |-> TreePackage(file.dependencies[i], file.dependencies)])

\* A version 2 file has both; the flat one is read.
ParseNpm(file) ==
    CASE file.version \notin {"1", "2", "3"} -> Unreadable
      [] file.version \in {"1", "2", "3"} /\ file.packages = <<>> -> FromTree(file)
      [] OTHER -> FromPaths(file)

-----------------------------------------------------------------------------
(* pnpm.rs                                                                 *)

\* Looked for in this order, wherever in the key each is.
SplitMarks == <<"@file:", "@https://", "@http://">>
SplitMark(key) ==
    LET present == SelectSeq(SplitMarks, LAMBDA mark : mark \in Range(key))
    IN  IF present = <<>> THEN 0 ELSE SelectInSeq(key, LAMBDA part : part = Head(present))

StripPeerSuffix(body, dialect) == UpTo(body, IF dialect = "5" THEN "_" ELSE "(")

Named(name, version, raw) == [ok |-> TRUE, name |-> name, version |-> version, raw |-> raw]
NameAndVersion(body, cut) ==
    IF cut > 1 /\ cut < Len(body) THEN Named(Before(body, cut), After(body, cut), <<>>)
    ELSE [ok |-> FALSE, name |-> <<>>, version |-> <<>>, raw |-> <<>>]
\* A mark that begins the body is the one of a scope.
SplitBody(body, dialect) ==
    NameAndVersion(body, SelectLastInSeq(body, LAMBDA part : part = IF dialect = "5" THEN "/" ELSE "@"))

\* What a key says, by the first notation it fits.
SplitKey(key, dialect) ==
    LET slashed == key # <<>> /\ Head(key) = "/"
        mark == SplitMark(key)
    IN  CASE key # <<>> /\ Head(key) = "file:" -> Named(<<Last(key)>>, <<>>, Tail(key))
          [] mark # 0 -> Named(IF slashed THEN Tail(Before(key, mark)) ELSE Before(key, mark), <<>>,
                               After(key, mark))
          [] mark = 0 /\ ~slashed /\ "/" \in Range(key) /\ "@" \notin Range(key) -> Named(key, <<>>, key)
          [] OTHER -> SplitBody(StripPeerSuffix(IF slashed THEN Tail(key) ELSE key, dialect), dialect)

SourceOf(resolution, raw) ==
    CASE resolution.directory # <<>> -> Source("directory", resolution.directory, <<>>)
      [] resolution.directory = <<>> /\ resolution.kind = "directory" -> Source("directory", raw, <<>>)
      [] OTHER -> IF resolution.repo # <<>> THEN Source("git", resolution.repo \o resolution.commit, <<>>)
                  ELSE IF resolution.tarball # <<>> \/ resolution.integrity # <<>>
                  THEN Source("remote", resolution.tarball, resolution.integrity)
                  ELSE Source("unknown", raw, <<>>)

\* The ways an importer may spell a version that a key gives bare.
WithoutName(bare, at) == IF at > 1 THEN After(bare, at) ELSE bare
BareVersion(text) ==
    LET bare == IF text # <<>> /\ Head(text) = "/" THEN Tail(text) ELSE text
    IN  WithoutName(bare, SelectLastInSeq(bare, LAMBDA part : part = "@"))
VersionSpellings(resolved) ==
    {resolved} \cup ({UpTo(resolved, "("), BareVersion(UpTo(resolved, "("))} \ {<<>>})

\* An importer's line is [name, resolved, section].  Development only if no
\* production line names it; a package no line names is transitive.
GroupsOf(entry, name, version, file) ==
    LET naming == {line \in file.importers :
                    line.name = name /\ version \in VersionSpellings(line.resolved)}
        sections == {line.section : line \in naming}
    IN  IF file.dialect # "9" THEN [dev |-> entry.dev, optional |-> entry.optional]
        ELSE [dev |-> sections = {"dev"},
              optional |-> "optional" \in sections \/ entry.optional \/ entry.key \in file.optional_snapshots]

PnpmPackage(entry, split, file) ==
    LET name == IF entry.name # <<>> THEN entry.name ELSE split.name
        version == IF entry.version # <<>> THEN entry.version ELSE split.version
    IN  [name |-> name, version |-> version, source |-> SourceOf(entry.resolution, split.raw),
         groups |-> GroupsOf(entry, name, version, file)]

ParsePnpm(file) ==
    IF \/ file.dialect \notin {"5", "6", "9"}
       \/ \E entry \in Range(file.packages) : ~SplitKey(entry.key, file.dialect).ok
    THEN Unreadable
    ELSE LockfileOf("pnpm", [i \in DOMAIN file.packages |->
            PnpmPackage(file.packages[i], SplitKey(file.packages[i].key, file.dialect), file)])

\* The name of the file chooses the parser.
Parse(ecosystem, file) ==
    CASE ecosystem = "npm" -> ParseNpm(file) [] ecosystem = "pnpm" -> ParsePnpm(file) [] OTHER -> Unreadable

-----------------------------------------------------------------------------
(* diff.rs                                                                 *)

Identities(lockfile) == {Identity(package) : package \in {p \in Range(lockfile.packages) : IsExternal(p)}}

\* The first external package of an identity stands for all of them.
Entry(lockfile, identity) ==
    SelectSeq(lockfile.packages, LAMBDA p : IsExternal(p) /\ Identity(p) = identity)[1]

\* An address that one side does not give is no difference.
SameSourceKind(before, after) ==
    /\ before.kind = after.kind
    /\ \/ before.at = after.at
       \/ before.kind = "remote" /\ <<>> \in {before.at, after.at}

MutantIntegrityDiffers(before, after) == FALSE
IntegrityDiffers(before, after) ==
    <<>> \notin {before.integrity, after.integrity} /\ before.integrity # after.integrity

Change(kind, identity) == [kind |-> kind, identity |-> identity]
CompareSameIdentity(identity, before, after) ==
    {Change(kind, identity) : kind \in
        {k \in {"IntegrityChanged", "SourceChanged", "GroupsChanged"} :
            CASE k = "IntegrityChanged" -> IntegrityDiffers(before.source, after.source)
              [] k = "SourceChanged" -> ~SameSourceKind(before.source, after.source)
              [] k = "GroupsChanged" -> before.groups # after.groups}}

\* Of a name's identities on one side only, as many as both sides have are
\* versions that changed; SetToSeq stands for the order of the versions' texts.
PairByName(added, removed) ==
    LET Of(side, name) == SetToSeq({identity \in side : identity.name = name})
        Paired(name) == LET a == Len(Of(added, name)) r == Len(Of(removed, name)) IN IF a < r THEN a ELSE r
        names == {identity.name : identity \in added \cup removed}
    IN  UNION {{Change(IF i <= Paired(name) THEN "VersionChanged" ELSE "Added", Of(added, name)[i])
                    : i \in DOMAIN Of(added, name)}
               \cup {Change("Removed", Of(removed, name)[i])
                    : i \in {j \in DOMAIN Of(removed, name) : j > Paired(name)}} : name \in names}

DiffLockfiles(before, after) ==
    LET old == Identities(before)
        new == Identities(after)
    IN  [changes |-> PairByName(new \ old, old \ new)
                     \cup UNION {CompareSameIdentity(identity, Entry(before, identity), Entry(after, identity))
                                    : identity \in new \cap old},
         ecosystem_changed |-> before.ecosystem # after.ecosystem]

IntroducesCode(change) == change.kind \in {"Added", "VersionChanged", "IntegrityChanged", "SourceChanged"}
ShouldRecord(diff) == \E change \in diff.changes : IntroducesCode(change)
Recordable(diff) == {change.identity : change \in {c \in diff.changes : IntroducesCode(c)}}

-----------------------------------------------------------------------------
(* cli/main.rs: the lockfile-diff command                                  *)

EXIT_NOTHING_TO_RECORD == 4

\* A file the base did not have reads as an empty lockfile.  A copy whose name
\* says nothing is read as the other side's ecosystem.
LoadSide(side, fallback) ==
    IF side.missing THEN LockfileOf(fallback, <<>>)
    ELSE Parse(IF side.ecosystem = "none" THEN fallback ELSE side.ecosystem, side.file)

Answer(diff) ==
    [exit |-> IF ShouldRecord(diff) THEN 0 ELSE EXIT_NOTHING_TO_RECORD, record |-> Recordable(diff)]
AnswerFor(old, new) ==
    IF new.error \/ old.error THEN [exit |-> 1, record |-> {}] ELSE Answer(DiffLockfiles(old, new))
LockfileDiff(before, after) ==
    LET new == Parse(after.ecosystem, after.file) IN AnswerFor(LoadSide(before, new.ecosystem), new)
=============================================================================
