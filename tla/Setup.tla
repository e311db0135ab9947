-------------------------------- MODULE Setup --------------------------------
(***************************************************************************)
(* Setting the plugin up while it is in use.  Hooks load the configuration *)
(* (and may copy the legacy file over it), `feishu bind` saves a binding,  *)
(* the installer rewrites the configuration in place and merges the hooks  *)
(* into the settings files of Claude Code and Codex, as `install-hooks`    *)
(* does.  Nothing locks any of these files, and a process may be killed.   *)
(***************************************************************************)
EXTENDS FeishuBinding

CONSTANTS
    Casts,      \* what the processes of an instance are
    Renamed,    \* those whose executable has a name of the user's choosing
    FilesInit   \* the stable and the legacy file at the start

VARIABLES
    role,       \* "hook", "binder", "installer" or "install-hooks" (or "none")
    step,       \* where each process is in its command
    file,       \* the settings file it is working on
    draft,      \* the merged settings it is about to write
    settings,   \* each file: the hook groups in it, or TornSettings
    saved,      \* history: the application bound last, None once it has been given up
    spoiled     \* history: settings read or left while they were being rewritten

installing == <<file, draft, settings, spoiled>>
setupVars == <<files, loading, binding, role, step, installing, saved>>

SettingsFiles == {"claude", "codex"}

\* Hooks, of events the plugin has hooks for: the user's, "user" with the fields that
\* HookCommand names, "rich" with others too (or without a timeout), which becomes "bare"
\* once it has been read, and "beside", which shares its group with an old hook of the
\* plugin; and the one each process writes.  The order of the groups is left out, and so
\* are how often the same group occurs and the settings other than hooks.
Hook == {"user", "rich", "bare", "beside", "plugin"} \cup Procs
Group == SUBSET Hook

\* A file truncated and not yet rewritten, or not JSON: no set of groups.
TornSettings == {{Torn}}

ASSUME SetupAssumption ==
    /\ FilesInit \subseteq (ConfigType \cup File) \X (ConfigType \cup File)
    /\ Torn \notin Hook
    /\ {"user", "rich", "bare", "beside", "plugin"} \cap Procs = {}

Ended == {"idle", "done", "failed"}
Steps == Ended \cup {"load", "bind", "reload", "webhook", "truncate", "write", "read", "cut", "put"}

SetupTypeOK ==
    /\ stable \in ConfigType \cup File /\ legacy \in ConfigType \cup File
    /\ opened \subseteq Procs
    /\ at \in [Procs -> Loading \cup {"idle", "loaded"}]
    /\ cfg \in [Procs -> ConfigType] /\ behind \in [Procs -> BOOLEAN]
    /\ bind \in [Procs -> Binding \cup {"idle", "done", "failed"}]
    /\ server \in [Procs -> {"accounts feishu", "accounts lark"}]
    /\ polls \in [Procs -> 0..MaxPolls] /\ result \in [Procs -> ResultType \cup {None}]
    /\ role \in Casts /\ step \in [Procs -> Steps]
    /\ file \in [Procs -> SettingsFiles] /\ draft \in [Procs -> SUBSET Group]
    /\ settings \in [SettingsFiles -> {TornSettings} \cup SUBSET Group]
    /\ saved \in Apps \cup {None} /\ spoiled \subseteq SettingsFiles

SetupInit ==
    /\ \E f \in FilesInit : stable = f[1] /\ legacy = f[2]
    /\ opened = {}
    /\ at = [p \in Procs |-> "idle"] /\ cfg = [p \in Procs |-> DefaultConfig]
    /\ behind = [p \in Procs |-> FALSE]
    /\ bind = [p \in Procs |-> "idle"] /\ server = [p \in Procs |-> "accounts feishu"]
    /\ polls = [p \in Procs |-> 0] /\ result = [p \in Procs |-> None]
    /\ role \in Casts /\ step = [p \in Procs |-> "idle"]
    /\ file = [p \in Procs |-> "claude"] /\ draft = [p \in Procs |-> {}]
    /\ settings = [f \in SettingsFiles |-> {{"user"}, {"rich"}, {"beside", "plugin"}}]
    /\ saved = IF stable \in File THEN None ELSE stable.app
    /\ spoiled = {}

Go(p, label) == step' = [step EXCEPT ![p] = label]

\* The process is over, and what it held in memory is gone.
End(p, label) ==
    /\ Go(p, label)
    /\ at' = [at EXCEPT ![p] = "idle"] /\ cfg' = [cfg EXCEPT ![p] = DefaultConfig]
    /\ behind' = [behind EXCEPT ![p] = FALSE]
    /\ bind' = [bind EXCEPT ![p] = "idle"] /\ server' = [server EXCEPT ![p] = "accounts feishu"]
    /\ polls' = [polls EXCEPT ![p] = 0] /\ result' = [result EXCEPT ![p] = None]
    /\ file' = [file EXCEPT ![p] = "claude"] /\ draft' = [draft EXCEPT ![p] = {}]

-----------------------------------------------------------------------------
Start(p) ==
    /\ step[p] = "idle" /\ role[p] # "none"
    /\ CASE role[p] \in {"hook", "installer"} -> Go(p, "load") /\ StartLoad(p) /\ UNCHANGED binding
         [] role[p] = "binder" -> Go(p, "bind") /\ StartBind(p) /\ UNCHANGED <<at, behind>>
         [] OTHER -> Go(p, "read") /\ UNCHANGED <<at, behind, binding>>
    /\ UNCHANGED <<files, cfg, role, installing, saved>>

\* A step of LoadFromPluginRoot; a copy of the legacy file by a process that is
\* behind may be written over a binding.
LoadConfig(p) ==
    /\ LoadStep(p)
    /\ saved' = IF behind[p] /\ stable' # stable THEN None ELSE saved
    /\ UNCHANGED <<binding, role, step, installing>>

\* A step of feishu.Bind.
BindFeishu(p) ==
    /\ step[p] = "bind" /\ BindStep(p)
    /\ saved' = IF bind'[p] = "done" THEN cfg[p].app ELSE IF stable' # stable THEN None ELSE saved
    /\ UNCHANGED <<role, step, installing>>

\* A hook goes on with what it has loaded; a binder has succeeded or failed.
Finish(p) ==
    /\ \/ role[p] = "hook" /\ at[p] = "loaded" /\ End(p, "idle")
       \/ role[p] = "binder" /\ bind[p] \in {"done", "failed"} /\ End(p, bind[p])
       \/ role[p] = "installer" /\ bind[p] = "failed" /\ End(p, "failed")
    /\ UNCHANGED <<files, role, settings, spoiled, saved>>

-----------------------------------------------------------------------------
\* The profile is applied: it says whether there is to be a webhook.
Profile(p) ==
    /\ role[p] = "installer" /\ step[p] = "load" /\ at[p] = "loaded"
    /\ \E on \in BOOLEAN : cfg' = [cfg EXCEPT ![p].webhook = on]
    /\ \/ Go(p, "bind") /\ StartBind(p)
       \/ Go(p, "webhook") /\ UNCHANGED binding
    /\ UNCHANGED <<files, at, behind, role, installing, saved>>

\* The binding is saved: the installer loads the configuration again.
Reload(p) ==
    /\ role[p] = "installer" /\ step[p] = "bind" /\ bind[p] = "done"
    /\ Go(p, "reload") /\ StartLoad(p) /\ Bind(p, "idle")
    /\ UNCHANGED <<files, cfg, server, polls, result, role, installing, saved>>

MutantEnableFeishuApp(c) ==
    [DefaultConfig EXCEPT !.webhook = TRUE, !.preset = "feishu_app", !.mode = "app_registration",
                          !.platform = "feishu", !.rtype = "open_id"]

EnableFeishuApp(c) ==
    [c EXCEPT !.webhook = TRUE, !.preset = "feishu_app",
              !.mode = IF @ = "" THEN "app_registration" ELSE @,
              !.platform = IF @ = "" THEN "feishu" ELSE @,
              !.rtype = IF @ = "" THEN "open_id" ELSE @]

Reloaded(p) ==
    /\ step[p] = "reload" /\ at[p] = "loaded" /\ Go(p, "webhook")
    /\ cfg' = [cfg EXCEPT ![p] = EnableFeishuApp(@)]
    /\ UNCHANGED <<files, at, behind, binding, role, installing, saved>>

\* A webhook that leads nowhere may be switched off; what does not validate fails.
CheckWebhook(p) ==
    /\ step[p] = "webhook"
    /\ \E c \in {cfg[p]} \cup {[cfg[p] EXCEPT !.webhook = FALSE] : off \in
                    {x \in {TRUE} : cfg[p].webhook /\ ~HasFeishuAppBinding(cfg[p]) /\ ~cfg[p].url}} :
        IF Validate(c)
        THEN /\ Go(p, "truncate") /\ cfg' = [cfg EXCEPT ![p] = c]
             /\ UNCHANGED <<at, behind, binding, file, draft>>
        ELSE End(p, "failed")
    /\ UNCHANGED <<files, role, settings, spoiled, saved>>

\* os.WriteFile of the configuration, in place: truncate, then write.
Truncate(p) ==
    /\ step[p] = "truncate" /\ Go(p, "write")
    /\ stable' = Torn /\ opened' = opened \cup {p}
    /\ saved' = IF behind[p] THEN None ELSE saved
    /\ UNCHANGED <<legacy, loading, binding, role, installing>>

\* What is written goes nowhere if a rename in between has replaced the file.  Over
\* what another process has written since, the shorter text leaves the rest of the
\* longer one behind it.
Write(p) ==
    /\ step[p] = "write" /\ Go(p, "read")
    /\ opened' = opened \ {p}
    /\ \/ p \in opened /\ stable' = cfg[p] /\ UNCHANGED saved
       \/ p \in opened /\ stable # Torn /\ stable' = Torn /\ saved' = None
       \/ p \notin opened /\ UNCHANGED <<stable, saved>>
    /\ UNCHANGED <<legacy, loading, binding, role, installing>>

-----------------------------------------------------------------------------
\* isManagedGroup: one of its hooks is known by the arguments, or by the name of the
\* executable; a Codex hook has no arguments.
Managed(f, g) == \E h \in g : h = "plugin" \/ (h \in Procs /\ (f = "claude" \/ h \notin Renamed))

MutantMergeHooks(p, f, groups) == {{p}}

\* What the plugin manages is replaced, group by group.
MergeHooks(p, f, groups) == {g \in groups : ~Managed(f, g)} \cup {{p}}

\* HookSettings and HookCommand keep only the fields they name.
Decoded(groups) == {{IF h = "rich" THEN "bare" ELSE h : h \in g} : g \in groups}

NextFile(p) ==
    IF file[p] = "claude"
    THEN Go(p, "read") /\ file' = [file EXCEPT ![p] = "codex"] /\ draft' = [draft EXCEPT ![p] = {}]
         /\ UNCHANGED <<loading, binding>>
    ELSE End(p, "done")

\* ReadHookSettings and MergeHookSettings, or the file is not to be installed.  An
\* empty file counts as one without hooks; any other torn one is an error.
ReadSettings(p) ==
    /\ step[p] = "read"
    /\ LET f == file[p] IN
        \/ NextFile(p) /\ UNCHANGED spoiled
        \/ settings[f] = TornSettings /\ End(p, "failed") /\ UNCHANGED spoiled
        \/ /\ Go(p, "cut")
           /\ draft' = [draft EXCEPT ![p] =
                            MergeHooks(p, f, IF settings[f] = TornSettings THEN {} ELSE Decoded(settings[f]))]
           /\ spoiled' = IF settings[f] = TornSettings THEN spoiled \cup {f} ELSE spoiled
           /\ UNCHANGED <<loading, binding, file>>
    /\ UNCHANGED <<files, role, settings, saved>>

CutSettings(p) ==
    /\ step[p] = "cut" /\ Go(p, "put")
    /\ settings' = [settings EXCEPT ![file[p]] = TornSettings]
    /\ UNCHANGED <<files, loading, binding, role, file, draft, spoiled, saved>>

\* Over what another process has written since the truncation, the shorter text
\* leaves the rest of the longer one behind it.
PutSettings(p) ==
    /\ step[p] = "put"
    /\ LET f == file[p] IN
        /\ \/ settings' = [settings EXCEPT ![f] = draft[p]] /\ UNCHANGED spoiled
           \/ settings[f] # TornSettings /\ settings' = [settings EXCEPT ![f] = TornSettings]
              /\ spoiled' = spoiled \cup {f}
    /\ NextFile(p)
    /\ UNCHANGED <<files, role, saved>>

-----------------------------------------------------------------------------
\* Any process may be killed; a file it has truncated stays as it is.
Crash(p) ==
    /\ step[p] \notin Ended
    /\ End(p, IF role[p] = "hook" THEN "idle" ELSE "failed")
    /\ opened' = opened \ {p}
    /\ saved' = IF opened = {p} /\ stable = Torn THEN None ELSE saved
    /\ spoiled' = IF step[p] = "put" /\ settings[file[p]] = TornSettings THEN spoiled \cup {file[p]}
                  ELSE spoiled
    /\ UNCHANGED <<stable, legacy, role, settings>>

Progress(p) ==
    \/ LoadConfig(p) \/ BindFeishu(p) \/ Finish(p)
    \/ Profile(p) \/ Reload(p) \/ Reloaded(p) \/ CheckWebhook(p) \/ Truncate(p) \/ Write(p)
    \/ ReadSettings(p) \/ CutSettings(p) \/ PutSettings(p)

SetupNext == \E p \in Procs : Start(p) \/ Progress(p) \/ Crash(p)

\* A started command goes on; the user answers the installer's questions.
SetupSpec == SetupInit /\ [][SetupNext]_setupVars /\ \A p \in Procs : WF_setupVars(Progress(p))

-----------------------------------------------------------------------------
\* The binding saved last is in the configuration file, or in the hands of a
\* process that is rewriting it: what takes it out is a process that has loaded the
\* configuration before the binding was saved, or while it was being rewritten, one
\* killed as it rewrites it, or two that rewrite it at once.
BindingKept ==
    saved # None =>
        \/ stable \notin File /\ stable.app = saved
        \/ stable = Torn /\ \E p \in opened : cfg[p].app = saved

\* Groups that hold nothing but hooks of the user are all there, with the fields the
\* program names.
KeepsUsers(groups) == {"user"} \in groups /\ ({"rich"} \in groups \/ {"bare"} \in groups)

\* The groups of hooks that are the user's alone survive every merge, with the fields
\* HookCommand names, unless a settings file was read or left while it was being rewritten.
UserHooksKept ==
    \A f \in SettingsFiles \ spoiled :
        IF settings[f] = TornSettings
        THEN \E p \in Procs : step[p] = "put" /\ file[p] = f
        ELSE KeepsUsers(settings[f])

\* docs/installer.md: existing hooks that are not the plugin's are preserved, all of them
\* and as they are, wherever no settings file was read or left while it was being rewritten.
UserHooksPreserved ==
    \A f \in SettingsFiles \ spoiled :
        settings[f] # TornSettings => {"user", "rich", "beside"} \subseteq UNION settings[f]

\* A registration, and the configuration it is saved in, names Lark as the
\* platform only when the credentials came from Lark's server.
LarkMeansLark ==
    /\ \A p \in Procs : result[p] # None /\ result[p].platform = "lark" => result[p].base = "accounts lark"
    /\ stable \notin File /\ stable.platform = "lark" => stable.base = "accounts lark"

\* A command that was started ends: the device-code polls have a deadline, and no
\* file another process is writing is waited for.
SetupEnds == \A p \in Procs : step[p] \notin Ended ~> step[p] \in Ended

\* docs/codex.md: the binding command writes a configuration that can send
\* messages to the scanned user.
BoundConfigSends ==
    stable \notin File =>
        (HasFeishuAppBinding(stable) => OpenHost(stable) \in {"open feishu", "open lark"})
=============================================================================
