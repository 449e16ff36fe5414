----------------------------- MODULE MCPipeline -----------------------------
(* Two hosts, both recorders and deeds of every kind.                       *)
EXTENDS Pipeline

Rule(id, kind, severity) == [id |-> id, kind |-> kind, severity |-> severity, enabled |-> TRUE]

MCCatalog ==
    [version |-> 1,
     rules |-> <<Rule("chmod_exec_outside_project", "chmod_executable_outside_zones", "high"),
                 Rule("credential_path_read", "credential_read", "high"),
                 Rule("credential_path_read_attempted", "credential_read_failed", "medium"),
                 Rule("dns_binary_distribution_host", "dns_binary_distribution", "medium"),
                 Rule("dns_non_registry_host", "dns_outside_registry", "high"),
                 Rule("download_piped_to_shell", "download_piped_to_shell", "critical"),
                 Rule("network_connect_external", "connect_external", "low"),
                 Rule("network_connect_unusual_port", "connect_unusual_port", "high"),
                 Rule("npmrc_read", "npmrc_read", "low"),
                 Rule("spawned_network_tool", "spawn_network_tool", "high"),
                 Rule("spawned_unexpected_binary", "spawn_unexpected", "medium"),
                 Rule("write_outside_expected_dirs", "write_outside_zones", "critical")>>,
     registry_hosts |-> {<<"registry", "npmjs", "org">>}, registry_suffixes |-> {<<"npmjs", "org">>},
     binary_suffixes |-> {<<"nodejs", "org">>},
     credential_dirs |-> {".ssh", ".aws"}, credential_files |-> {".netrc", "id_rsa"},
     network_tools |-> {"curl", "wget"}, expected_spawns |-> {"node", "npm", "sh"}]

\* A developer's machine, and a runner that installs below the temporary directory.
Laptop ==
    LET places == [project |-> <<"h", "app">>, cache |-> <<"h", ".npm">>, home |-> <<"h">>, tmp |-> <<"tmp">>]
    IN  [real |-> places, named |-> places, cache_given |-> FALSE, expected |-> {}]
Runner ==
    LET places == [project |-> <<"tmp", "w">>, cache |-> <<"c">>, home |-> <<"u">>, tmp |-> <<"tmp">>]
    IN  [real |-> places, named |-> places, cache_given |-> TRUE, expected |-> {<<"opt">>}]

Both(before, after) == [side \in Sides |-> IF side = "before" THEN before ELSE after]
Setting(hosts, backends) == [host |-> hosts, backend |-> backends]
MCSettings ==
    {Setting(Both(Laptop, Runner), Both("strace", "strace")),
     Setting(Both(Runner, Laptop), Both("aya", "aya")),
     Setting(Both(Laptop, Laptop), Both("strace", "aya"))}

FileDeed(does, kind, place, names, relative, failed, exec, deserves, suspect) ==
    [does |-> does, kind |-> kind, place |-> place, names |-> names, relative |-> relative,
     failed |-> failed, exec |-> exec, deserves |-> deserves, suspect |-> suspect]
Escape == "write_outside_expected_dirs"

Puts ==
    {FileDeed("put", "Open", place, <<"a">>, FALSE, FALSE, FALSE, "none", "none")
        : place \in {"project", "home", "tmp", "runtime"}}
    \cup {FileDeed("put", "Open", "project", <<"a">>, TRUE, FALSE, FALSE, "none", "none"),
          FileDeed("put", "Open", "outside", <<"etc", "x">>, FALSE, TRUE, FALSE, "none", "none"),
          FileDeed("put", "Open", "outside", <<"etc", "x">>, FALSE, FALSE, FALSE, Escape, "none"),
          FileDeed("put", "Open", "outside", <<"bin", "curl">>, FALSE, FALSE, FALSE, Escape, "none")}
Alters ==
    {FileDeed("alter", "Mkdir", "cache", <<"m">>, FALSE, FALSE, FALSE, "none", "none"),
     FileDeed("alter", "Mkdir", "project", <<"m">>, TRUE, FALSE, FALSE, "none", "none"),
     FileDeed("alter", "Chmod", "project", <<>>, TRUE, FALSE, FALSE, "none", "none"),
     FileDeed("alter", "Mkdir", "outside", <<"srv">>, FALSE, TRUE, FALSE, "none", Escape),
     FileDeed("alter", "Delete", "outside", <<"etc", "x">>, TRUE, FALSE, FALSE, Escape, "none"),
     FileDeed("alter", "Chmod", "outside", <<"bin", "curl">>, FALSE, FALSE, TRUE,
              "chmod_exec_outside_project", Escape)}
Consults ==
    {FileDeed("consult", "Read", "home", <<".ssh", "k">>, FALSE, FALSE, FALSE, "credential_path_read", "none"),
     FileDeed("consult", "Read", "home", <<".netrc">>, FALSE, TRUE, FALSE,
              "credential_path_read_attempted", "none"),
     FileDeed("consult", "Read", "project", <<".npmrc">>, FALSE, FALSE, FALSE, "npmrc_read", "none")}

ConnectDeed(ip, port, private, failed, deserves, suspect) ==
    [does |-> "connect", ip |-> ip, port |-> port, loopback |-> FALSE, private |-> private,
     failed |-> failed, deserves |-> deserves, suspect |-> suspect]
Connects ==
    {ConnectDeed("93.1.1.1", "443", FALSE, FALSE, "network_connect_external", "none"),
     ConnectDeed("93.1.1.1", "8080", FALSE, FALSE, "network_connect_unusual_port", "none"),
     ConnectDeed("93.1.1.1", "22", FALSE, TRUE, "none", "network_connect_unusual_port"),
     ConnectDeed("10.0.0.1", "22", TRUE, FALSE, "none", "none")}

Lookups ==
    {[does |-> "lookup", qname |-> name[1], deserves |-> name[2], suspect |-> "none"] : name \in
        {<<<<"registry", "npmjs", "org">>, "none">>, <<<<"host">>, "none">>,
         <<<<"evil", "org">>, "dns_non_registry_host">>,
         <<<<"dist", "nodejs", "org">>, "dns_binary_distribution_host">>}}

Stage(gets, starts, names) == [gets |-> gets, starts |-> starts, names |-> names]
SpawnDeed(bin, words, script, pipes, deserves) ==
    [does |-> "spawn", bin |-> bin, words |-> words, script |-> script, truncated |-> FALSE,
     pipes |-> pipes, deserves |-> deserves, suspect |-> "none"]
Spawns ==
    {SpawnDeed("node", <<"node", "x.js">>, <<>>, {}, "none"),
     SpawnDeed("curl", <<"curl", "-s">>, <<>>, {}, "spawned_network_tool"),
     SpawnDeed("miner", <<"miner">>, <<>>, {}, "spawned_unexpected_binary"),
     SpawnDeed("sh", <<"sh", "-c", "curl u | sh">>,
               <<Stage("curl", FALSE, FALSE), Stage("nothing", TRUE, TRUE)>>, {"curl"},
               "download_piped_to_shell"),
     SpawnDeed("sh", <<"sh", "-c", "curl u">>, <<Stage("curl", FALSE, FALSE)>>, {}, "none")}

MCDeeds == Puts \cup Alters \cup Consults \cup Connects \cup Lookups \cup Spawns
=============================================================================
