----------------------------- MODULE ConfigFile -----------------------------
(***************************************************************************)
(* The configuration file of the plugin and the chain of sources a process *)
(* loads it from: the stable file, the legacy file (which it then copies   *)
(* over the stable one), the defaults.  Hooks, the Feishu binder and the   *)
(* installer all load this way; a step is one system call on a file.       *)
(***************************************************************************)
EXTENDS Naturals

CONSTANTS
    Procs,     \* the processes that load the configuration
    Apps,      \* application credentials (app_id and app_secret)
    Users,     \* open ids
    None,
    Missing,   \* a file that is not there
    Torn       \* one truncated and not yet rewritten, or not JSON

VARIABLES
    stable,    \* ~/.claude/claude-notifications-go/config.json
    legacy,    \* config/config.json of the plugin
    opened,    \* the processes that rewrite the stable file in place, while the
               \* file they have truncated is the one at the path
    at,        \* where each process is in LoadFromPluginRoot
    cfg,       \* what it has loaded
    behind     \* history: its cfg comes from before the last save of a binding,
               \* or from a read of the file while it was being rewritten

files == <<stable, legacy, opened>>
loading == <<at, cfg, behind>>

File == {Missing, Torn}

\* What other validation looks at (volume, format, payload fields, chat id,
\* cooldowns, team mode, filters) is the flag valid; "open_id" stands for every
\* receive id type that is accepted, "custom" for every preset that needs a URL.
ConfigType ==
    [webhook : BOOLEAN, preset : {"", "custom", "feishu_app", "unknown"}, url : BOOLEAN,
     mode : {"", "app_registration", "custom_webhook"}, platform : {"", "feishu", "lark"},
     base : {"", "accounts feishu", "accounts lark"}, app : Apps \cup {None},
     owner : Users \cup {None}, receive : Users \cup {None}, rtype : {"", "open_id", "unknown"},
     valid : BOOLEAN]

DefaultConfig ==
    [webhook |-> FALSE, preset |-> "custom", url |-> FALSE, mode |-> "", platform |-> "",
     base |-> "", app |-> None, owner |-> None, receive |-> None, rtype |-> "", valid |-> TRUE]

ApplyDefaults(c) ==
    LET preset == IF c.preset = "" THEN "custom" ELSE c.preset
        mode == IF preset = "feishu_app" /\ c.mode = "" THEN "app_registration" ELSE c.mode
        app == [c EXCEPT !.platform = IF @ = "" THEN "feishu" ELSE @,
                         !.rtype = IF @ = "" THEN "open_id" ELSE @,
                         !.receive = IF @ = None THEN c.owner ELSE @]
    IN [(IF mode = "app_registration" THEN app ELSE c) EXCEPT !.preset = preset, !.mode = mode]

ValidFeishuApp(c) ==
    /\ c.mode \in {"", "app_registration"} /\ c.app # None
    /\ c.rtype = "open_id" /\ c.receive # None

Validate(c) ==
    /\ c.valid
    /\ c.webhook => /\ c.preset \in {"custom", "feishu_app"}
                    /\ IF c.preset = "feishu_app" THEN ValidFeishuApp(c) ELSE c.url

\* ResolveAppSecret: credentials stand for an id and a secret, both not empty.
HasFeishuAppBinding(c) ==
    c.webhook /\ c.preset = "feishu_app" /\ c.app # None /\ c.rtype # "" /\ c.receive # None

\* What is not a configuration is not taken for one.
ASSUME FileAssumption == Missing \notin ConfigType /\ Torn \notin ConfigType /\ Missing # Torn

Loading == {"stat", "read", "legacy", "migrate"}
Load(p, label) == at' = [at EXCEPT ![p] = label]

\* LoadFromPluginRoot is called: the process is up to date with the last binding.
StartLoad(p) == Load(p, "stat") /\ behind' = [behind EXCEPT ![p] = FALSE]

Loaded(p, c) == Load(p, "loaded") /\ cfg' = [cfg EXCEPT ![p] = c]

\* FileExists(stablePath)
Stat(p) ==
    /\ at[p] = "stat"
    /\ Load(p, IF stable = Missing THEN "legacy" ELSE "read")
    /\ UNCHANGED <<files, cfg, behind>>

\* Load(stablePath): its own FileExists turns a file removed since the last one
\* into the defaults; one removed still later, or a torn one, is an error, and
\* the legacy file is next.
Read(p) ==
    /\ at[p] = "read"
    /\ \/ stable \notin File /\ Loaded(p, ApplyDefaults(stable)) /\ UNCHANGED behind
       \/ stable = Missing /\ Loaded(p, DefaultConfig) /\ UNCHANGED behind
       \/ /\ stable \in File /\ Load(p, "legacy") /\ UNCHANGED cfg
          /\ behind' = [behind EXCEPT ![p] = @ \/ stable = Torn]
    /\ UNCHANGED files

Legacy(p) ==
    /\ at[p] = "legacy"
    /\ IF legacy \in File THEN Loaded(p, DefaultConfig)
       ELSE Load(p, "migrate") /\ cfg' = [cfg EXCEPT ![p] = ApplyDefaults(legacy)]
    /\ UNCHANGED <<files, behind>>

\* migrateConfig copies the legacy file as it is by a rename, or fails.
Migrate(p) ==
    /\ at[p] = "migrate" /\ Load(p, "loaded")
    /\ \/ stable' = legacy /\ opened' = {}
       \/ UNCHANGED <<stable, opened>>
    /\ UNCHANGED <<legacy, cfg, behind>>

LoadStep(p) == Stat(p) \/ Read(p) \/ Legacy(p) \/ Migrate(p)
=============================================================================
