------------------------------ MODULE MCAction ------------------------------
(* A pull request of two pushes, over npm and pnpm lockfiles.               *)
EXTENDS Action

Rule(id, kind, severity) == [id |-> id, kind |-> kind, severity |-> severity, enabled |-> TRUE]
MCCatalog ==
    [version |-> 1, rules |-> <<Rule("write_outside_expected_dirs", "write_outside_zones", "critical")>>,
     registry_hosts |-> {}, registry_suffixes |-> {}, binary_suffixes |-> {},
     credential_dirs |-> {}, credential_files |-> {}, network_tools |-> {}, expected_spawns |-> {}]

-----------------------------------------------------------------------------
(* A resolved dependency: where it is installed, and what is fetched        *)

Resolved(key, name, version, url, hash) ==
    [key |-> key, name |-> name, version |-> version, url |-> url, hash |-> hash]
Top(name) == <<"node_modules", name>>
ms1 == Resolved(Top("ms"), "ms", "1", "https", "h1")
ms1Other == Resolved(Top("ms"), "ms", "1", "https", "h2")
ms1Unhashed == Resolved(Top("ms"), "ms", "1", "https", "none")
ms1Elsewhere == Resolved(Top("ms"), "ms", "1", "mirror", "none")
ms2 == Resolved(Top("ms"), "ms", "2", "https", "h3")
msGit == Resolved(Top("ms"), "ms", "1", "git+ssh", "none")
ms2Nested == Resolved(<<"node_modules", "debug", "node_modules", "ms">>, "ms", "2", "https", "h3")
\* Installed under another name, by an alias.
ms1Alias == Resolved(Top("x"), "ms", "1", "https", "h1")
ms1OtherAlias == Resolved(Top("x"), "ms", "1", "https", "h2")
ms1AliasElsewhere == Resolved(Top("x"), "ms", "1", "mirror", "none")
ms1AliasUnhashed == Resolved(Top("x"), "ms", "1", "https", "none")
\* A package of the name that a member of the workspace has.
aPublished == Resolved(Top("a"), "a", "0", "https", "h4")
ms2InMember == Resolved(<<"packages", "a", "node_modules", "ms">>, "ms", "2", "https", "h3")

\* What an install of them brings in, whoever asks for it.
Fetches(deps) ==
    {[name |-> d.name, version |-> d.version, place |-> d.url,
      bytes |-> IF d.hash = "none" THEN "any" ELSE d.hash] : d \in deps}

Text(part) == IF part = "none" THEN <<>> ELSE <<part>>
IsAlias(d) == Last(d.key) # d.name
PathEntry(key, version, resolved, integrity, link) ==
    [key |-> key, name |-> <<>>, version |-> version, resolved |-> resolved, integrity |-> integrity,
     link |-> link, dev |-> FALSE, optional |-> FALSE, dev_optional |-> FALSE]
PathEntryOf(d) ==
    [PathEntry(d.key, Text(d.version), Text(d.url), Text(d.hash), FALSE) EXCEPT
        !.name = IF IsAlias(d) THEN <<d.name>> ELSE <<>>]
Member == <<PathEntry(<<"node_modules", "a">>, <<>>, <<"packages", "a">>, <<>>, TRUE),
            PathEntry(<<"packages", "a">>, <<"0">>, <<>>, <<>>, FALSE)>>

\* With a member of the workspace or without; versions 2 and 3.
NpmFlat(deps, members) ==
    [version |-> "3", workspaces |-> {[dir |-> <<"packages">>, star |-> TRUE]}, dependencies |-> <<>>,
     packages |-> <<PathEntry(<<>>, <<>>, <<>>, <<>>, FALSE)>>
                  \o SetToSeq({PathEntryOf(d) : d \in deps}) \o members]
\* Version 1: a git dependency's version is its address, an alias's has the name in it.
NpmTree(deps) ==
    LET IsGit(d) == d.url = "git+ssh"
        EntryOf(d) == [path |-> SelectSeq(d.key, LAMBDA part : part # "node_modules"),
                       version |-> IF IsGit(d) THEN <<"git+ssh", d.version>>
                                   ELSE IF IsAlias(d) THEN <<"npm:", d.name, "@", d.version>> ELSE Text(d.version),
                       resolved |-> IF IsGit(d) THEN <<>> ELSE Text(d.url), integrity |-> Text(d.hash),
                       dev |-> FALSE, optional |-> FALSE, dev_optional |-> FALSE]
    IN  [version |-> "1", workspaces |-> {}, packages |-> <<>>,
         dependencies |-> SetToSeq({EntryOf(d) : d \in deps})]
Pnpm(dialect, deps) ==
    LET KeyOf(d) == CASE dialect = "5" -> <<"/", d.name, "/", d.version, "_", "peer">>
                      [] dialect = "6" -> <<"/", d.name, "@", d.version>>
                      [] dialect = "9" -> <<d.name, "@", d.version, "(", "peer">>
        EntryOf(d) == [key |-> KeyOf(d), name |-> <<>>, version |-> <<>>, dev |-> FALSE, optional |-> FALSE,
                       resolution |-> [integrity |-> Text(d.hash), tarball |-> <<>>, directory |-> <<>>,
                                       kind |-> "none", repo |-> <<>>, commit |-> <<>>]]
    IN  [dialect |-> dialect, packages |-> SetToSeq({EntryOf(d) : d \in deps}), optional_snapshots |-> {},
         importers |-> {[name |-> <<d.name>>, resolved |-> <<d.version, "(", "peer">>, section |-> "dev"] : d \in deps}]

-----------------------------------------------------------------------------

Missing == [missing |-> TRUE, ecosystem |-> "none", file |-> "none"]
Present(ecosystem, file) == [missing |-> FALSE, ecosystem |-> ecosystem, file |-> file]
Commit(event, base_ref, npm, pnpm, deps) ==
    [event |-> event, base_ref |-> base_ref, npm |-> npm, pnpm |-> pnpm, fetches |-> Fetches(deps)]
Pull(npm, pnpm, deps) == Commit("pull_request", TRUE, npm, pnpm, deps)

Flat(deps) == Pull(Present("npm", NpmFlat(deps, <<>>)), Missing, deps)
WithMember(deps) == Pull(Present("npm", NpmFlat(deps, Member)), Missing, deps)
Tree(deps) == Pull(Present("npm", NpmTree(deps)), Missing, deps)
OnPnpm(dialect, deps) == Pull(Missing, Present("pnpm", Pnpm(dialect, deps)), deps)

Npm(deps) == Present("npm", NpmFlat(deps, <<>>))
MCContent ==
    [flat |-> Flat({ms1}), tree |-> Tree({ms1Unhashed}), pnpm5 |-> OnPnpm("5", {ms1}),
     member |-> WithMember({ms1}), republished |-> Flat({ms1Other}), nested |-> Flat({ms1, ms2Nested}),
     mirrored |-> Tree({ms1Elsewhere}), forked |-> Tree({msGit}), pnpm6 |-> OnPnpm("6", {ms1}),
     pnpm9 |-> OnPnpm("9", {ms1, ms2}), pnpm_republished |-> OnPnpm("5", {ms1Other}), emptied |-> Flat({}),
     both |-> Pull(Npm({ms1}), Present("pnpm", Pnpm("9", {ms2})), {ms2}),
     push |-> Commit("push", TRUE, Npm({ms2}), Missing, {ms2}),
     push_without_base |-> Commit("push", FALSE, Npm({ms2}), Missing, {ms2}),
     unsafe |-> Commit("pull_request_target", TRUE, Npm({ms2}), Missing, {ms2}),
     aliased |-> Flat({ms1, ms1Alias}), alias_republished |-> Flat({ms1OtherAlias}),
     alias_tree |-> Tree({ms1AliasUnhashed}), alias_mirrored |-> Tree({ms1AliasElsewhere}),
     unlinked |-> Flat({ms1, aPublished}),
     without |-> Pull(Missing, Missing, {}),
     in_member |-> WithMember({ms1, ms2InMember})]

\* Any commit on any base; aliases, two entries of one identity and a link that
\* becomes a package, on the bases they change; and two commits that are recorded, one
\* after the other.  A dependency that the member does not share with the root is in
\* a run of its own.
History(from, commits) == [base |-> from, commits |-> commits]
OnTheirBase ==
    {<<"flat", "aliased">>, <<"aliased", "flat">>, <<"flat", "alias_republished">>, <<"tree", "alias_tree">>,
     <<"tree", "alias_mirrored">>, <<"member", "unlinked">>, <<"unlinked", "member">>}
NotOnAnyBase == {"aliased", "alias_republished", "alias_tree", "alias_mirrored", "unlinked", "in_member"}
MCHistories ==
    {History(from, <<commit>>) : from \in {"flat", "tree", "pnpm5"}, commit \in DOMAIN MCContent \ NotOnAnyBase}
    \cup {History(pair[1], <<pair[2]>>) : pair \in OnTheirBase}
    \cup {History("flat", <<"nested", "republished">>)}
MCMemberHistories == {History("flat", <<"in_member">>)}

-----------------------------------------------------------------------------

Zones == [project |-> <<"w">>, cache |-> <<"w", "home", ".npm">>, home |-> <<"w", "home">>, tmp |-> <<"tmp">>,
          extra |-> {}]
StartLine == [op |-> "session_start", backend |-> "strace", zones |-> Zones, agent |-> "1"]
EndLine(reasons) ==
    [op |-> "session_end", backend |-> "strace", complete |-> reasons = {}, reasons |-> reasons]
WriteLine(names) ==
    [op |-> "fs_write", backend |-> "strace", path |-> [abs |-> TRUE, names |-> names],
     origin |-> "Absolute", kind |-> "Write", exec |-> FALSE, failed |-> FALSE]
Recording(events, reasons) ==
    [lines |-> <<StartLine>> \o events \o <<EndLine(reasons)>>, torn |-> FALSE]

Quiet == <<WriteLine(<<"w", "a">>)>>
Noisy == <<WriteLine(<<"w", "b">>), WriteLine(<<"etc", "x">>)>>
MCFile ==
    [quiet |-> Recording(Quiet, {}), noisy |-> Recording(Noisy, {}),
     quiet_partial |-> Recording(Quiet, {"timeout"}), noisy_partial |-> Recording(Noisy, {"timeout"}),
     torn |-> [lines |-> <<StartLine>>, torn |-> TRUE]]
MCCommitted == <<[version |-> 0, file |-> "quiet"]>>
=============================================================================
