----------------------------- MODULE SetupProofs -----------------------------
(***************************************************************************)
(* What holds of Setup for any number of hooks, binders and installers at  *)
(* work on the same files.                                                 *)
(***************************************************************************)
EXTENDS Setup, TLAPS

-----------------------------------------------------------------------------
\* The inductive invariant.

\* What a process is doing says what it holds.
Stage(p) ==
    /\ bind[p] # "idle" => step[p] = "bind"
    /\ bind[p] \in {"begin", "poll", "waiting"} => polls[p] # 0
    /\ bind[p] = "load" => result[p] # None
    /\ bind[p] \in {"save", "rename", "done"} => at[p] = "loaded"
    /\ step[p] \in {"webhook", "truncate", "write"} => at[p] = "loaded"
    /\ p \in opened => step[p] = "write"
    /\ role[p] = "hook" => step[p] \in {"idle", "load"}
    /\ at[p] = "migrate" => legacy \notin File

StagesAgree == \A p \in Procs : Stage(p)

\* The steps in which what a process has loaded is what it will write, but for the
\* fields the installer sets.
Holding == {"load", "reload", "webhook", "truncate", "write"}

\* While there is a binding to keep, a process that is not behind knows it: it is
\* not on its way to the legacy file, and what it has loaded has the binding in it.
\* What is being rewritten is rewritten by processes that are not behind.
Knows(p) ==
    /\ ~behind[p] => /\ at[p] \notin {"legacy", "migrate"}
                     /\ at[p] = "loaded" /\ step[p] \in Holding => cfg[p].app = saved
    /\ p \in opened => ~behind[p]

KnowBinding == saved # None => \A p \in Procs : Knows(p)

BindingInv == SetupTypeOK /\ StagesAgree /\ KnowBinding /\ BindingKept

\* The user's groups are in what is about to be written.
DraftKeepsUser ==
    \A p \in Procs : step[p] \in {"cut", "put"} /\ file[p] \notin spoiled => KeepsUsers(draft[p])

HooksInv == SetupTypeOK /\ StagesAgree /\ DraftKeepsUser /\ UserHooksKept

\* Lark is only named by credentials from Lark's server.
Truthful(c) == c.platform = "lark" => c.base = "accounts lark"

LarkInv ==
    /\ SetupTypeOK /\ StagesAgree
    /\ stable \notin File => Truthful(stable)
    /\ legacy \notin File => Truthful(legacy)
    /\ \A p \in Procs : Truthful(cfg[p]) /\ (result[p] # None => Truthful(result[p]))

-----------------------------------------------------------------------------
\* The operators on configurations.

\* The updates they consist of: the defaults of a registered application, the preset
\* and its mode, what EnableFeishuApp fills in, and a whole binding.
SetDestination(c, platform, rtype, receive) ==
    [c EXCEPT !.platform = platform, !.rtype = rtype, !.receive = receive]

SetMode(c, preset, mode) == [c EXCEPT !.preset = preset, !.mode = mode]

SetFeishu(c, mode, platform, rtype) ==
    [c EXCEPT !.webhook = TRUE, !.preset = "feishu_app", !.mode = mode,
              !.platform = platform, !.rtype = rtype]

SetBinding(c, r, receive, type) ==
    [c EXCEPT !.webhook = TRUE, !.preset = "feishu_app", !.mode = "app_registration",
              !.platform = r.platform, !.base = r.base, !.app = r.app,
              !.owner = r.owner, !.receive = receive, !.rtype = type]

Presets == {"", "custom", "feishu_app", "unknown"}
Modes == {"", "app_registration", "custom_webhook"}
Platforms == {"", "feishu", "lark"}
Servers == {"", "accounts feishu", "accounts lark"}
IdTypes == {"", "open_id", "unknown"}

\* Each leads from a configuration to one.
LEMMA DestinationSet ==
    ASSUME NEW c \in ConfigType, NEW platform \in Platforms,
           NEW rtype \in IdTypes, NEW receive \in Users \cup {None}
    PROVE  LET d == SetDestination(c, platform, rtype, receive)
           IN d \in ConfigType /\ d.app = c.app /\ d.platform = platform /\ d.base = c.base
<1> DEFINE d == SetDestination(c, platform, rtype, receive)
<1>1. d \in ConfigType
  BY ZenonT(30) DEF ConfigType, Platforms, IdTypes, SetDestination
<1>2. d.app = c.app /\ d.platform = platform /\ d.base = c.base
  BY Zenon DEF ConfigType, SetDestination
<1> QED  BY <1>1, <1>2

LEMMA ModeSet ==
    ASSUME NEW c \in ConfigType, NEW preset \in Presets,
           NEW mode \in Modes
    PROVE  LET d == SetMode(c, preset, mode)
           IN d \in ConfigType /\ d.app = c.app /\ d.platform = c.platform /\ d.base = c.base
<1> DEFINE d == SetMode(c, preset, mode)
<1>1. d \in ConfigType
  BY Zenon DEF ConfigType, Presets, Modes, SetMode
<1>2. d.app = c.app /\ d.platform = c.platform /\ d.base = c.base
  BY Zenon DEF ConfigType, SetMode
<1> QED  BY <1>1, <1>2

LEMMA FeishuSet ==
    ASSUME NEW c \in ConfigType, NEW platform \in Platforms,
           NEW mode \in Modes,
           NEW rtype \in IdTypes
    PROVE  LET d == SetFeishu(c, mode, platform, rtype)
           IN d \in ConfigType /\ d.app = c.app /\ d.platform = platform /\ d.base = c.base
<1> DEFINE d == SetFeishu(c, mode, platform, rtype)
<1>1. d \in ConfigType
  BY ZenonT(40) DEF ConfigType, Presets, Modes, Platforms, IdTypes, SetFeishu
<1>2. d.app = c.app /\ d.platform = platform /\ d.base = c.base
  BY Zenon DEF ConfigType, SetFeishu
<1> QED  BY <1>1, <1>2

LEMMA BindingSet ==
    ASSUME NEW c \in ConfigType, NEW r \in ResultType, NEW receive \in Users \cup {None},
           NEW type \in IdTypes
    PROVE  LET d == SetBinding(c, r, receive, type)
           IN d \in ConfigType /\ d.platform = r.platform /\ d.base = r.base
<1> DEFINE d == SetBinding(c, r, receive, type)
<1>1. /\ r.platform \in Platforms /\ r.base \in Servers
      /\ r.app \in Apps \cup {None} /\ r.owner \in Users \cup {None}
  BY DEF ResultType, Platforms, Servers
<1>2. d \in ConfigType
  BY <1>1, ZenonT(40) DEF ConfigType, Platforms, Servers, IdTypes, SetBinding
<1>3. d.platform = r.platform /\ d.base = r.base
  BY Zenon DEF ConfigType, SetBinding
<1> QED  BY <1>2, <1>3

\* The defaults of ApplyDefaults leave the credentials alone, and name Feishu as the
\* platform where none is named.
LEMMA DefaultsApplied ==
    ASSUME NEW c \in ConfigType
    PROVE  /\ ApplyDefaults(c) \in ConfigType /\ ApplyDefaults(c).app = c.app
           /\ Truthful(c) => Truthful(ApplyDefaults(c))
<1> DEFINE preset == IF c.preset = "" THEN "custom" ELSE c.preset
           mode == IF preset = "feishu_app" /\ c.mode = "" THEN "app_registration" ELSE c.mode
           platform == IF c.platform = "" THEN "feishu" ELSE c.platform
           rtype == IF c.rtype = "" THEN "open_id" ELSE c.rtype
           receive == IF c.receive = None THEN c.owner ELSE c.receive
           app == SetDestination(c, platform, rtype, receive)
           base == IF mode = "app_registration" THEN app ELSE c
<1>1. /\ preset \in Presets
      /\ mode \in Modes
      /\ platform \in Platforms /\ rtype \in IdTypes
      /\ receive \in Users \cup {None}
  BY DEF ConfigType, Presets, Modes, Platforms, IdTypes
<1>2. c.platform # "lark" => platform # "lark"
  OBVIOUS
<1>3. ApplyDefaults(c) = SetMode(base, preset, mode)
  BY Zenon DEF ApplyDefaults, SetMode, SetDestination
<1> HIDE DEF preset, mode, platform, rtype, receive
<1>4. app \in ConfigType /\ app.app = c.app /\ app.platform = platform /\ app.base = c.base
  BY <1>1, DestinationSet
<1>5. /\ base \in ConfigType /\ base.app = c.app
      /\ base.platform \in {platform, c.platform} /\ base.base = c.base
  BY <1>4
<1> HIDE DEF base
<1> DEFINE d == SetMode(base, preset, mode)
<1>6. d \in ConfigType /\ d.app = base.app /\ d.platform = base.platform /\ d.base = base.base
  BY <1>1, <1>5, ModeSet
<1> QED  BY <1>2, <1>3, <1>5, <1>6 DEF Truthful

\* DefaultConfig is a configuration without a binding.
LEMMA DefaultHolds == DefaultConfig \in ConfigType /\ Truthful(DefaultConfig)
BY DEF DefaultConfig, ConfigType, Truthful

\* Switching the webhook on or off leaves the binding alone.
LEMMA WebhookSet ==
    ASSUME NEW c \in ConfigType, NEW on \in BOOLEAN
    PROVE  /\ [c EXCEPT !.webhook = on] \in ConfigType /\ [c EXCEPT !.webhook = on].app = c.app
           /\ Truthful(c) => Truthful([c EXCEPT !.webhook = on])
BY DEF ConfigType, Truthful

\* EnableFeishuApp fills in what is empty, and leaves the binding alone.
LEMMA FeishuEnabled ==
    ASSUME NEW c \in ConfigType
    PROVE  /\ EnableFeishuApp(c) \in ConfigType /\ EnableFeishuApp(c).app = c.app
           /\ Truthful(c) => Truthful(EnableFeishuApp(c))
<1> DEFINE mode == IF c.mode = "" THEN "app_registration" ELSE c.mode
           platform == IF c.platform = "" THEN "feishu" ELSE c.platform
           rtype == IF c.rtype = "" THEN "open_id" ELSE c.rtype
<1>1. /\ platform \in Platforms /\ rtype \in IdTypes
      /\ mode \in Modes
  BY DEF ConfigType, Presets, Modes, Platforms, IdTypes
<1>2. c.platform # "lark" => platform # "lark"
  OBVIOUS
<1>3. EnableFeishuApp(c) = SetFeishu(c, mode, platform, rtype)
  BY Zenon DEF EnableFeishuApp, SetFeishu
<1> HIDE DEF mode, platform, rtype
<1> DEFINE d == SetFeishu(c, mode, platform, rtype)
<1>4. d \in ConfigType /\ d.app = c.app /\ d.platform = platform /\ d.base = c.base
  BY <1>1, FeishuSet
<1> QED  BY <1>2, <1>3, <1>4 DEF Truthful

\* What SaveBinding saves is a configuration, and as truthful as the registration.
LEMMA BoundHolds ==
    ASSUME NEW p \in Procs, cfg[p] \in ConfigType, result[p] \in ResultType, NEW type \in GivenTypes[p]
    PROVE  Bound(p, type) \in ConfigType /\ (Truthful(result[p]) => Truthful(Bound(p, type)))
<1> DEFINE c == cfg[p]
           r == result[p]
           receive == IF GivenId[p] # None THEN GivenId[p] ELSE r.owner
<1>1. c \in ConfigType /\ r \in ResultType /\ receive \in Users \cup {None}
  BY BindingAssumption DEF ResultType
<1>t. type \in IdTypes
  BY BindingAssumption DEF IdTypes
<1>2. Bound(p, type) = SetBinding(c, r, receive, type)
  BY Zenon DEF Bound, SetBinding
<1>3. r = result[p]
  OBVIOUS
<1> HIDE DEF c, r, receive
<1> DEFINE d == SetBinding(c, r, receive, type)
<1>4. d \in ConfigType /\ d.platform = r.platform /\ d.base = r.base
  BY <1>1, <1>t, BindingSet
<1> QED  BY <1>2, <1>3, <1>4 DEF Truthful

\* A binder that waits has polls left.
LEMMA PollsLeft ==
    ASSUME NEW n \in 0..MaxPolls, n # 0
    PROVE  n - 1 \in 0..MaxPolls
BY BindingAssumption

-----------------------------------------------------------------------------
\* Types.

\* A process that ends has nothing in memory.
LEMMA EndTypes ==
    ASSUME SetupTypeOK, NEW p \in Procs, NEW label \in Steps, End(p, label)
    PROVE  /\ at' \in [Procs -> Loading \cup {"idle", "loaded"}]
           /\ cfg' \in [Procs -> ConfigType] /\ behind' \in [Procs -> BOOLEAN]
           /\ bind' \in [Procs -> Binding \cup {"idle", "done", "failed"}]
           /\ server' \in [Procs -> {"accounts feishu", "accounts lark"}]
           /\ polls' \in [Procs -> 0..MaxPolls] /\ result' \in [Procs -> ResultType \cup {None}]
           /\ step' \in [Procs -> Steps]
           /\ file' \in [Procs -> SettingsFiles] /\ draft' \in [Procs -> SUBSET Group]
<1>1. 0 \in 0..MaxPolls /\ {} \in SUBSET Group
  BY BindingAssumption
<1> QED  BY <1>1, DefaultHolds DEF SetupTypeOK, End, Go, SettingsFiles

\* A step of LoadFromPluginRoot loads a configuration, and a copy of the legacy file
\* is one.
LEMMA LoadTypes ==
    ASSUME SetupTypeOK, NEW p \in Procs, LoadConfig(p)
    PROVE  SetupTypeOK'
<1>1. CASE Stat(p)
  BY <1>1 DEF SetupTypeOK, LoadConfig, Stat, Load, Loading, files, binding, installing
<1>2. CASE Read(p)
  <2>1. cfg' \in [Procs -> ConfigType]
    <3>1. CASE stable \notin File
      <4>1. ApplyDefaults(stable) \in ConfigType
        BY <3>1, DefaultsApplied DEF SetupTypeOK
      <4> QED  BY <3>1, <4>1, <1>2 DEF SetupTypeOK, Read, Loaded, File
    <3>2. CASE stable \in File
      BY <3>2, <1>2, DefaultHolds DEF SetupTypeOK, Read, Loaded
    <3> QED  BY <3>1, <3>2
  <2>2. at' \in [Procs -> Loading \cup {"idle", "loaded"}] /\ behind' \in [Procs -> BOOLEAN]
    BY <1>2 DEF SetupTypeOK, Read, Load, Loaded, Loading
  <2> QED  BY <2>1, <2>2, <1>2 DEF SetupTypeOK, LoadConfig, Read, files, binding, installing
<1>3. CASE Legacy(p)
  <2>1. cfg' \in [Procs -> ConfigType]
    <3>1. CASE legacy \in File
      BY <3>1, <1>3, DefaultHolds DEF SetupTypeOK, Legacy, Loaded
    <3>2. CASE legacy \notin File
      <4>1. legacy \in ConfigType
        BY <3>2 DEF SetupTypeOK
      <4> QED  BY <3>2, <4>1, <1>3, DefaultsApplied DEF SetupTypeOK, Legacy
    <3> QED  BY <3>1, <3>2
  <2>2. at' \in [Procs -> Loading \cup {"idle", "loaded"}]
    <3>1. at' \in {[at EXCEPT ![p] = "loaded"], [at EXCEPT ![p] = "migrate"]}
      BY <1>3 DEF Legacy, Load, Loaded
    <3> QED  BY <3>1 DEF SetupTypeOK, Loading
  <2> QED  BY <2>1, <2>2, <1>3 DEF SetupTypeOK, LoadConfig, Legacy, files, binding, installing
<1>4. CASE Migrate(p)
  BY <1>4 DEF SetupTypeOK, LoadConfig, Migrate, Load, Loading, binding, installing
<1> QED  BY <1>1, <1>2, <1>3, <1>4 DEF LoadConfig, LoadStep

\* A completed registration is a result.
LEMMA CompleteResult ==
    ASSUME SetupTypeOK, NEW p \in Procs, NEW brand, Complete(p, brand)
    PROVE  /\ \E r \in ResultType :
                /\ result' = [result EXCEPT ![p] = r]
                /\ r.platform = "lark" => brand = "lark"
                /\ r.base = server[p]
           /\ result' \in [Procs -> ResultType \cup {None}] /\ result'[p] # None
<1>1. PICK owner \in Users \cup {None} : result' = [result EXCEPT ![p] =
        [app |-> Created[p], owner |-> owner, base |-> server[p],
         platform |-> IF brand = "lark" THEN "lark" ELSE "feishu"]]
  BY DEF Complete
<1> DEFINE r == [app |-> Created[p], owner |-> owner, base |-> server[p],
                 platform |-> IF brand = "lark" THEN "lark" ELSE "feishu"]
<1>2. r \in ResultType /\ (r.platform = "lark" => brand = "lark") /\ r.base = server[p]
  BY BindingAssumption DEF ResultType, SetupTypeOK
<1>3. result' = [result EXCEPT ![p] = r]
  BY <1>1
<1> HIDE DEF r
<1> QED  BY <1>2, <1>3, ResultAssumption DEF SetupTypeOK

\* A step of feishu.Bind counts the polls down and saves a configuration.
LEMMA BindTypes ==
    ASSUME SetupTypeOK, StagesAgree, NEW p \in Procs, BindFeishu(p)
    PROVE  SetupTypeOK'
<1> USE DEF SetupTypeOK, Bind, Binding, files, loading, installing
<1>s. saved' \in Apps \cup {None}
  BY DEF BindFeishu, ConfigType
<1>1. CASE Begin(p)
  BY <1>1, <1>s DEF BindFeishu, Begin
<1>2. CASE Poll(p)
  <2>1. /\ at' \in [Procs -> Loading \cup {"idle", "loaded"}] /\ behind' \in [Procs -> BOOLEAN]
        /\ bind' \in [Procs -> Binding \cup {"idle", "done", "failed"}]
    <3>1. /\ at' \in {at, [at EXCEPT ![p] = "stat"]}
          /\ behind' \in {behind, [behind EXCEPT ![p] = FALSE]}
          /\ \E label \in {"load", "waiting", "failed"} : bind' = [bind EXCEPT ![p] = label]
      BY <1>2 DEF Poll, Complete, SwitchServer, Pending, Denied, StartLoad, Load
    <3>2. "stat" \in Loading
      BY DEF Loading
    <3>3. {"load", "waiting", "failed"} \subseteq Binding \cup {"idle", "done", "failed"}
      BY DEF Binding
    <3> HIDE DEF Binding
    <3>4. at' \in [Procs -> Loading \cup {"idle", "loaded"}]
      BY <3>1, <3>2
    <3>5. behind' \in [Procs -> BOOLEAN]
      BY <3>1
    <3>6. bind' \in [Procs -> Binding \cup {"idle", "done", "failed"}]
      <4>1. PICK label \in {"load", "waiting", "failed"} : bind' = [bind EXCEPT ![p] = label]
        BY <3>1
      <4>2. label \in Binding \cup {"idle", "done", "failed"}
        BY <3>3
      <4>3. bind \in [Procs -> Binding \cup {"idle", "done", "failed"}]
        OBVIOUS
      <4> HIDE DEF SetupTypeOK
      <4> QED  BY <4>1, <4>2, <4>3
    <3> QED  BY <3>4, <3>5, <3>6
  <2>2. server' \in [Procs -> {"accounts feishu", "accounts lark"}]
    BY <1>2 DEF Poll, Complete, SwitchServer, Pending, Denied
  <2>3. result' \in [Procs -> ResultType \cup {None}]
    <3> HIDE DEF Binding
    <3> QED  BY <1>2, CompleteResult DEF Poll, SwitchServer, Pending, Denied
  <2>4. polls' = polls
    BY <1>2 DEF Poll, Complete, SwitchServer, Pending, Denied
  <2> QED  BY <2>1, <2>2, <2>3, <2>4, <1>2, <1>s DEF BindFeishu, Poll
<1>3. CASE Wait(p)
  <2>1. polls[p] - 1 \in 0..MaxPolls
    <3>1. polls[p] \in 0..MaxPolls /\ polls[p] # 0
      BY <1>3 DEF Wait, StagesAgree, Stage
    <3> QED  BY <3>1, PollsLeft
  <2>2. polls' \in [Procs -> 0..MaxPolls]
    BY <2>1, <1>3 DEF Wait
  <2> QED  BY <2>2, <1>3, <1>s DEF BindFeishu, Wait
<1>4. CASE SaveBinding(p)
  <2>1. cfg' \in [Procs -> ConfigType]
    <3>1. result[p] \in ResultType
      BY <1>4 DEF SaveBinding, StagesAgree, Stage
    <3>2. \A type \in GivenTypes[p] : ApplyDefaults(Bound(p, type)) \in ConfigType
      BY <3>1, BoundHolds, DefaultsApplied
    <3>3. PICK c \in ConfigType : cfg' = [cfg EXCEPT ![p] = c]
      BY <3>2, <1>4 DEF SaveBinding
    <3> QED  BY <3>3
  <2>2. bind' \in [Procs -> Binding \cup {"idle", "done", "failed"}]
    BY <1>4 DEF SaveBinding
  <2> QED  BY <2>1, <2>2, <1>4, <1>s DEF BindFeishu, SaveBinding
<1>5. CASE RemoveOld(p)
  BY <1>5, <1>s DEF BindFeishu, RemoveOld, File
<1>6. CASE Rename(p)
  BY <1>6, <1>s DEF BindFeishu, Rename
<1> QED  BY <1>1, <1>2, <1>3, <1>4, <1>5, <1>6 DEF BindFeishu, BindStep

\* A step of the installer or of install-hooks.
LEMMA InstallTypes ==
    ASSUME SetupTypeOK, StagesAgree, NEW p \in Procs,
           Profile(p) \/ Reload(p) \/ Reloaded(p) \/ CheckWebhook(p) \/ Truncate(p) \/ Write(p)
    PROVE  SetupTypeOK'
<1> USE DEF Go, Steps, Ended, files, loading, binding, installing
<1>1. CASE Profile(p)
  <2>1. cfg' \in [Procs -> ConfigType]
    <3>1. PICK on \in BOOLEAN : cfg' = [cfg EXCEPT ![p] = [cfg[p] EXCEPT !.webhook = on]]
      BY <1>1 DEF Profile
    <3> DEFINE w == [cfg[p] EXCEPT !.webhook = on]
    <3>2. w \in ConfigType
      BY WebhookSet DEF SetupTypeOK
    <3> HIDE DEF w
    <3> QED  BY <3>1, <3>2 DEF SetupTypeOK, w
  <2>2. /\ bind' \in [Procs -> Binding \cup {"idle", "done", "failed"}]
        /\ polls' \in [Procs -> 0..MaxPolls]
    <3>1. MaxPolls \in 0..MaxPolls
      BY BindingAssumption
    <3>2. /\ bind' \in {bind, [bind EXCEPT ![p] = "begin"]}
          /\ polls' \in {polls, [polls EXCEPT ![p] = MaxPolls]}
      BY <1>1 DEF Profile, StartBind, Bind
    <3>3. bind' \in [Procs -> Binding \cup {"idle", "done", "failed"}]
      BY <3>2 DEF Binding, SetupTypeOK
    <3>4. polls' \in [Procs -> 0..MaxPolls]
      BY <3>1, <3>2 DEF SetupTypeOK
    <3> QED  BY <3>3, <3>4
  <2>3. /\ server' \in [Procs -> {"accounts feishu", "accounts lark"}]
        /\ result' \in [Procs -> ResultType \cup {None}]
    BY <1>1 DEF Profile, StartBind, SetupTypeOK
  <2> QED  BY <2>1, <2>2, <2>3, <1>1 DEF Profile, SetupTypeOK
<1>2. CASE Reload(p)
  BY <1>2 DEF Reload, StartLoad, Load, Loading, Bind, SetupTypeOK
<1>3. CASE Reloaded(p)
  <2>1. cfg' \in [Procs -> ConfigType]
    BY <1>3, FeishuEnabled DEF Reloaded, SetupTypeOK
  <2> QED  BY <2>1, <1>3 DEF Reloaded, SetupTypeOK
<1>4. CASE CheckWebhook(p)
  <2>1. CASE End(p, "failed")
    BY <2>1, <1>4, EndTypes DEF CheckWebhook, SetupTypeOK
  <2>2. CASE ~End(p, "failed")
    <3>1. /\ Go(p, "truncate") /\ UNCHANGED <<at, behind, binding, file, draft>>
          /\ cfg' = cfg \/ cfg' = [cfg EXCEPT ![p] = [cfg[p] EXCEPT !.webhook = FALSE]]
      <4>1. cfg = [cfg EXCEPT ![p] = cfg[p]]
        BY DEF SetupTypeOK
      <4> QED  BY <4>1, <2>2, <1>4 DEF CheckWebhook
    <3> DEFINE w == [cfg[p] EXCEPT !.webhook = FALSE]
    <3>2. w \in ConfigType
      BY WebhookSet DEF SetupTypeOK
    <3> HIDE DEF w
    <3>3. cfg' \in [Procs -> ConfigType]
      BY <3>1, <3>2 DEF SetupTypeOK, w
    <3> QED  BY <3>1, <3>3, <1>4 DEF CheckWebhook, SetupTypeOK
  <2> QED  BY <2>1, <2>2
<1>5. CASE Truncate(p)
  BY <1>5 DEF Truncate, File, SetupTypeOK
<1>6. CASE Write(p)
  <2>1. stable' \in {cfg[p], Torn, stable} /\ saved' \in {None, saved} /\ opened' \subseteq Procs
    BY <1>6 DEF Write, SetupTypeOK
  <2>2. stable' \in ConfigType \cup File
    <3>1. cfg[p] \in ConfigType
      BY DEF SetupTypeOK
    <3> QED  BY <2>1, <3>1 DEF File, SetupTypeOK
  <2> QED  BY <2>1, <2>2, <1>6 DEF Write, SetupTypeOK
<1> QED  BY <1>1, <1>2, <1>3, <1>4, <1>5, <1>6

\* The settings files hold groups, whichever are merged.
LEMMA SettingsTypes ==
    ASSUME SetupTypeOK, NEW p \in Procs, ReadSettings(p) \/ CutSettings(p) \/ PutSettings(p)
    PROVE  SetupTypeOK'
<1> USE DEF Go, Steps, Ended, files, loading, binding
<1>n. ASSUME NextFile(p), UNCHANGED <<files, role, saved>>,
             settings' \in [SettingsFiles -> {TornSettings} \cup SUBSET Group], spoiled' \subseteq SettingsFiles
      PROVE  SetupTypeOK'
  <2>1. CASE file[p] = "claude"
    <3>1. /\ step' \in [Procs -> Steps] /\ file' \in [Procs -> SettingsFiles]
          /\ draft' \in [Procs -> SUBSET Group]
      <4>1. /\ step' = [step EXCEPT ![p] = "read"] /\ file' = [file EXCEPT ![p] = "codex"]
            /\ draft' = [draft EXCEPT ![p] = {}]
        BY <2>1, <1>n DEF NextFile
      <4> QED  BY <4>1 DEF SettingsFiles, SetupTypeOK
    <3> QED  BY <2>1, <3>1, <1>n DEF NextFile, SetupTypeOK
  <2>2. CASE file[p] # "claude"
    BY <2>2, <1>n, EndTypes DEF NextFile, SetupTypeOK
  <2> QED  BY <2>1, <2>2
<1>1. CASE ReadSettings(p)
  <2> USE <1>1
  <2>1. CASE NextFile(p) /\ UNCHANGED spoiled
    BY <2>1, <1>n DEF ReadSettings, SetupTypeOK
  <2>2. CASE End(p, "failed") /\ UNCHANGED spoiled
    BY <2>2, EndTypes DEF ReadSettings, SetupTypeOK
  <2>3. CASE ~(NextFile(p) /\ UNCHANGED spoiled) /\ ~(End(p, "failed") /\ UNCHANGED spoiled)
    <3> DEFINE merged == MergeHooks(p, file[p],
                                    IF settings[file[p]] = TornSettings THEN {} ELSE Decoded(settings[file[p]]))
    <3>1. /\ draft' = [draft EXCEPT ![p] = merged] /\ Go(p, "cut")
          /\ spoiled' \in {spoiled, spoiled \cup {file[p]}} /\ UNCHANGED <<loading, binding, file>>
      BY <2>3 DEF ReadSettings
    <3>2. merged \in SUBSET Group
      <4>1. \A groups \in SUBSET Group : Decoded(groups) \in SUBSET Group
        BY DEF Decoded, Group, Hook
      <4>2. \A groups \in SUBSET Group : MergeHooks(p, file[p], groups) \in SUBSET Group
        BY DEF MergeHooks, Group, Hook
      <4>3. settings[file[p]] \in {TornSettings} \cup SUBSET Group /\ {} \in SUBSET Group
        BY DEF SetupTypeOK
      <4> QED  BY <4>1, <4>2, <4>3
    <3> HIDE DEF merged
    <3>3. /\ draft' \in [Procs -> SUBSET Group] /\ step' \in [Procs -> Steps]
          /\ spoiled' \subseteq SettingsFiles
      BY <3>1, <3>2 DEF SetupTypeOK
    <3>4. UNCHANGED <<files, role, settings, saved>>
      BY DEF ReadSettings
    <3> QED  BY <3>1, <3>3, <3>4 DEF SetupTypeOK
  <2> QED  BY <2>1, <2>2, <2>3
<1>2. CASE CutSettings(p)
  BY <1>2 DEF CutSettings, SetupTypeOK
<1>3. CASE PutSettings(p)
  <2>1. settings' \in [SettingsFiles -> {TornSettings} \cup SUBSET Group] /\ spoiled' \subseteq SettingsFiles
    <3>1. /\ draft[p] \in {TornSettings} \cup SUBSET Group /\ TornSettings \in {TornSettings} \cup SUBSET Group
          /\ file[p] \in SettingsFiles
      BY DEF SetupTypeOK
    <3>2. settings' \in {[settings EXCEPT ![file[p]] = draft[p]], [settings EXCEPT ![file[p]] = TornSettings]}
      BY <1>3 DEF PutSettings
    <3>3. settings' \in [SettingsFiles -> {TornSettings} \cup SUBSET Group]
      BY <3>1, <3>2 DEF SetupTypeOK
    <3> QED  BY <3>1, <3>3, <1>3 DEF PutSettings, SetupTypeOK
  <2> QED  BY <2>1, <1>3, <1>n DEF PutSettings
<1> QED  BY <1>1, <1>2, <1>3


\* No step leaves the types.
LEMMA TypesKept ==
    ASSUME SetupTypeOK, StagesAgree, [SetupNext]_setupVars
    PROVE  SetupTypeOK'
<1>1. CASE UNCHANGED setupVars
  BY <1>1 DEF SetupTypeOK, setupVars, files, loading, binding, installing
<1>2. ASSUME NEW p \in Procs, Start(p)
      PROVE  SetupTypeOK'
  <2> USE <1>2 DEF Start, files, installing
  <2>1. /\ at' \in [Procs -> Loading \cup {"idle", "loaded"}] /\ behind' \in [Procs -> BOOLEAN]
        /\ step' \in [Procs -> Steps]
    BY DEF StartLoad, Load, Loading, Go, Steps, SetupTypeOK
  <2>2. MaxPolls \in 0..MaxPolls
    BY BindingAssumption
  <2>3. /\ bind' \in [Procs -> Binding \cup {"idle", "done", "failed"}]
        /\ server' \in [Procs -> {"accounts feishu", "accounts lark"}]
        /\ polls' \in [Procs -> 0..MaxPolls] /\ result' \in [Procs -> ResultType \cup {None}]
    <3>1. CASE role[p] = "binder"
      <4>1. /\ bind' = [bind EXCEPT ![p] = "begin"]
            /\ server' = [server EXCEPT ![p] = "accounts feishu"]
            /\ polls' = [polls EXCEPT ![p] = MaxPolls] /\ result' = [result EXCEPT ![p] = None]
        BY <3>1 DEF StartBind, Bind
      <4> QED  BY <2>2, <4>1 DEF Binding, SetupTypeOK
    <3>2. CASE role[p] # "binder"
      BY <3>2 DEF binding, SetupTypeOK
    <3> QED  BY <3>1, <3>2
  <2> QED  BY <2>1, <2>3 DEF SetupTypeOK
<1>3. ASSUME NEW p \in Procs, Finish(p) \/ Crash(p)
      PROVE  SetupTypeOK'
  <2>1. PICK label \in Steps : End(p, label)
    BY <1>3 DEF Finish, Crash, Steps, Ended
  <2>2. /\ UNCHANGED <<stable, legacy, role, settings>> /\ opened' \subseteq Procs
        /\ saved' \in Apps \cup {None} /\ spoiled' \subseteq SettingsFiles
    BY <1>3 DEF Finish, Crash, files, SetupTypeOK
  <2> QED  BY <2>1, <2>2, EndTypes DEF SetupTypeOK
<1> QED
  BY <1>1, <1>2, <1>3, LoadTypes, BindTypes, InstallTypes, SettingsTypes DEF SetupNext, Progress

-----------------------------------------------------------------------------
\* A step of one process leaves what another one holds alone.
Same(q) ==
    /\ step'[q] = step[q] /\ at'[q] = at[q] /\ cfg'[q] = cfg[q]
    /\ bind'[q] = bind[q] /\ polls'[q] = polls[q] /\ result'[q] = result[q]
    /\ file'[q] = file[q] /\ draft'[q] = draft[q]
    /\ role' = role /\ legacy' = legacy /\ (behind[q] => behind'[q])
    /\ q \in opened' => q \in opened /\ behind'[q] = behind[q]

LEMMA OthersStay ==
    ASSUME SetupTypeOK, NEW p \in Procs, Start(p) \/ Progress(p) \/ Crash(p),
           NEW q \in Procs \ {p}
    PROVE  Same(q)
<1> USE DEF Same, SetupTypeOK, files, loading, binding, installing, Go, Bind, Load
<1>e. ASSUME NEW label, End(p, label)
      PROVE  /\ step'[q] = step[q] /\ at'[q] = at[q] /\ cfg'[q] = cfg[q]
             /\ bind'[q] = bind[q] /\ polls'[q] = polls[q] /\ result'[q] = result[q]
             /\ file'[q] = file[q] /\ draft'[q] = draft[q] /\ behind'[q] = behind[q]
  BY <1>e DEF End
<1>2. CASE Start(p)
  <2>1. CASE role[p] \in {"hook", "installer"}
    BY <2>1, <1>2 DEF Start, StartLoad
  <2>2. CASE role[p] = "binder"
    <3>1. Go(p, "bind") /\ StartBind(p) /\ UNCHANGED <<at, behind, files, cfg, role, installing>>
      BY <2>2, <1>2 DEF Start
    <3> QED  BY <3>1 DEF StartBind
  <2>3. CASE role[p] \notin {"hook", "installer", "binder"}
    BY <2>3, <1>2 DEF Start
  <2> QED  BY <2>1, <2>2, <2>3
<1>3. CASE LoadConfig(p)
  BY <1>3 DEF LoadConfig, LoadStep, Stat, Read, Legacy, Migrate, Loaded
<1>4. CASE BindFeishu(p)
  <2>1. CASE Begin(p) \/ Wait(p) \/ SaveBinding(p) \/ RemoveOld(p)
    BY <2>1, <1>4 DEF BindFeishu, Begin, Wait, SaveBinding, RemoveOld
  <2>3. CASE Rename(p)
    BY <2>3, <1>4 DEF BindFeishu, Rename
  <2>2. CASE Poll(p)
    <3>1. PICK brand \in {"lark", ""} :
            Complete(p, brand) \/ SwitchServer(p, brand) \/ Pending(p, brand) \/ Denied(p)
      BY <2>2 DEF Poll
    <3>2. CASE Complete(p, brand)
      <4>1. UNCHANGED <<step, cfg, polls, file, draft, role, legacy, opened>>
        BY <3>2, <2>2, <1>4 DEF BindFeishu, Poll, Complete
      <4>2. /\ at' \in {at, [at EXCEPT ![p] = "stat"]}
            /\ behind' \in {behind, [behind EXCEPT ![p] = FALSE]}
            /\ bind' \in {[bind EXCEPT ![p] = "failed"], [bind EXCEPT ![p] = "load"]}
        BY <3>2 DEF Complete, StartLoad, Load
      <4>3. result'[q] = result[q]
        BY <3>2 DEF Complete
      <4>4. at'[q] = at[q] /\ behind'[q] = behind[q]
        BY <4>2
      <4>5. bind'[q] = bind[q]
        BY <4>2
      <4>6. step'[q] = step[q] /\ cfg'[q] = cfg[q] /\ polls'[q] = polls[q]
            /\ file'[q] = file[q] /\ draft'[q] = draft[q]
            /\ role' = role /\ legacy' = legacy /\ opened' = opened
        BY <4>1
      <4> QED  BY <4>3, <4>4, <4>5, <4>6
    <3>3. CASE SwitchServer(p, brand) \/ Pending(p, brand) \/ Denied(p)
      BY <3>3, <2>2, <1>4 DEF BindFeishu, Poll, SwitchServer, Pending, Denied
    <3> QED  BY <3>1, <3>2, <3>3
  <2> QED  BY <2>1, <2>2, <2>3, <1>4 DEF BindFeishu, BindStep
<1>5. CASE Finish(p)
  BY <1>5, <1>e DEF Finish
<1>6. CASE Profile(p)
  BY <1>6 DEF Profile, StartBind
<1>7. CASE Reload(p) \/ Reloaded(p)
  BY <1>7 DEF Reload, Reloaded, StartLoad
<1>8. CASE CheckWebhook(p)
  BY <1>8, <1>e DEF CheckWebhook
<1>9. CASE Truncate(p) \/ Write(p)
  BY <1>9 DEF Truncate, Write
<1>10. CASE ReadSettings(p) \/ CutSettings(p) \/ PutSettings(p)
  BY <1>10, <1>e DEF ReadSettings, CutSettings, PutSettings, NextFile
<1>11. CASE Crash(p)
  BY <1>11, <1>e DEF Crash
<1> QED
  BY <1>2, <1>3, <1>4, <1>5, <1>6, <1>7, <1>8, <1>9, <1>10, <1>11 DEF Progress

\* What a process is doing says what it holds.
LEMMA StagesKept ==
    ASSUME SetupTypeOK, StagesAgree, [SetupNext]_setupVars
    PROVE  StagesAgree'
<1>1. CASE UNCHANGED setupVars
  BY <1>1 DEF StagesAgree, Stage, setupVars, files, loading, binding, installing
<1> SUFFICES ASSUME NEW p \in Procs, Start(p) \/ Progress(p) \/ Crash(p)
             PROVE  Stage(p)'
  BY <1>1, OthersStay DEF SetupNext, StagesAgree, Stage, Same
<1> USE DEF Stage, SetupTypeOK, files, loading, binding, installing, Go, Bind, Load, Ended
<1>s. Stage(p)
  BY DEF StagesAgree
<1>e. ASSUME NEW label \in {"idle", "failed", "done"}, End(p, label), p \notin opened',
             role'[p] = "hook" => label = "idle"
      PROVE  Stage(p)'
  BY <1>e DEF End
<1>2. CASE Start(p)
  <2>1. CASE role[p] \in {"hook", "installer"}
    <3>1. /\ step' = [step EXCEPT ![p] = "load"] /\ at' = [at EXCEPT ![p] = "stat"]
          /\ step[p] = "idle" /\ UNCHANGED <<bind, polls, result, opened, role, legacy>>
      BY <2>1, <1>2 DEF Start, StartLoad
    <3> QED  BY <3>1, <1>s
  <2>2. CASE role[p] = "binder"
    <3>1. /\ step' = [step EXCEPT ![p] = "bind"] /\ bind' = [bind EXCEPT ![p] = "begin"]
          /\ polls' = [polls EXCEPT ![p] = MaxPolls] /\ UNCHANGED <<opened, role>>
      <4> HIDE DEF SetupTypeOK, Stage
      <4> QED  BY <2>2, <1>2 DEF Start, StartBind
    <3>2. MaxPolls # 0
      BY BindingAssumption
    <3> QED  BY <2>2, <3>1, <3>2, <1>2, <1>s DEF Start
  <2>3. CASE role[p] \notin {"hook", "installer", "binder"}
    BY <2>3, <1>2, <1>s DEF Start
  <2> QED  BY <2>1, <2>2, <2>3
<1>3. CASE LoadConfig(p)
  BY <1>3, <1>s DEF LoadConfig, LoadStep, Stat, Read, Legacy, Migrate, Loaded, Loading
<1>4. CASE BindFeishu(p)
  <2>1. CASE Begin(p)
    BY <2>1, <1>4, <1>s DEF BindFeishu, Begin
  <2>2. CASE Poll(p)
    <3>1. PICK brand \in {"lark", ""} :
            Complete(p, brand) \/ SwitchServer(p, brand) \/ Pending(p, brand) \/ Denied(p)
      BY <2>2 DEF Poll
    <3>2. CASE Complete(p, brand)
      <4>1. /\ bind'[p] \in {"failed", "load"} /\ UNCHANGED files
            /\ step[p] = "bind" /\ step' = step /\ at'[p] \in {at[p], "stat"}
        BY <3>2, <2>2, <1>4 DEF BindFeishu, Poll, Complete, StartLoad
      <4>2. result'[p] # None
        BY <3>2, CompleteResult
      <4>3. role' = role
        BY <1>4 DEF BindFeishu
      <4> HIDE DEF SetupTypeOK
      <4> QED  BY <4>1, <4>2, <4>3, <1>s
    <3>3. CASE SwitchServer(p, brand) \/ Pending(p, brand) \/ Denied(p)
      BY <3>3, <2>2, <1>4, <1>s DEF BindFeishu, Poll, SwitchServer, Pending, Denied
    <3> QED  BY <3>1, <3>2, <3>3
  <2>3. CASE Wait(p)
    <3>1. polls[p] \in 0..MaxPolls /\ MaxPolls \in Nat /\ polls'[p] = polls[p] - 1
      BY <2>3, BindingAssumption DEF Wait
    <3>2. bind'[p] = IF polls[p] = 1 THEN "failed" ELSE "poll"
      BY <2>3 DEF Wait
    <3>3. bind'[p] = "poll" => polls'[p] # 0
      <4> HIDE DEF SetupTypeOK, Stage
      <4> QED  BY <3>1, <3>2
    <3>4. step[p] = "bind" /\ UNCHANGED <<step, at, legacy, opened, role>>
      BY <2>3, <1>4 DEF BindFeishu, Wait
    <3> HIDE DEF SetupTypeOK
    <3> QED  BY <3>2, <3>3, <3>4, <1>s
  <2>4. CASE SaveBinding(p)
    BY <2>4, <1>4, <1>s DEF BindFeishu, SaveBinding
  <2>5. CASE RemoveOld(p)
    BY <2>5, <1>4, <1>s DEF BindFeishu, RemoveOld
  <2>6. CASE Rename(p)
    BY <2>6, <1>4, <1>s DEF BindFeishu, Rename
  <2> QED  BY <2>1, <2>2, <2>3, <2>4, <2>5, <2>6, <1>4 DEF BindFeishu, BindStep
<1>5. CASE Finish(p)
  BY <1>5, <1>e, <1>s DEF Finish
<1>6. CASE Profile(p)
  <2>1. CASE Go(p, "bind") /\ StartBind(p)
    BY <2>1, <1>6, <1>s, BindingAssumption DEF Profile, StartBind
  <2>2. CASE Go(p, "webhook") /\ UNCHANGED binding
    BY <2>2, <1>6, <1>s DEF Profile
  <2> QED  BY <2>1, <2>2, <1>6 DEF Profile
<1>7. CASE Reload(p) \/ Reloaded(p)
  BY <1>7, <1>s DEF Reload, Reloaded, StartLoad
<1>8. CASE CheckWebhook(p)
  <2>1. p \notin opened' /\ role'[p] # "hook"
    BY <1>8, <1>s DEF CheckWebhook
  <2> QED  BY <2>1, <1>8, <1>e, <1>s DEF CheckWebhook
<1>9. CASE Truncate(p) \/ Write(p)
  BY <1>9, <1>s DEF Truncate, Write
<1>10. CASE ReadSettings(p) \/ CutSettings(p) \/ PutSettings(p)
  <2>1. p \notin opened' /\ role'[p] # "hook"
    BY <1>10, <1>s DEF ReadSettings, CutSettings, PutSettings
  <2>2. ASSUME NextFile(p)
        PROVE  Stage(p)'
    <3>1. step[p] \in {"read", "cut", "put"} /\ UNCHANGED files /\ role' = role
      BY <1>10 DEF ReadSettings, CutSettings, PutSettings
    <3>2. CASE file[p] = "claude"
      <4>1. step' = [step EXCEPT ![p] = "read"] /\ UNCHANGED <<loading, binding>>
        BY <3>2, <2>2 DEF NextFile
      <4> QED  BY <4>1, <3>1, <2>1, <1>s
    <3>3. CASE file[p] # "claude"
      BY <3>3, <2>2, <2>1, <1>e DEF NextFile
    <3> QED  BY <3>2, <3>3
  <2> QED  BY <2>1, <2>2, <1>10, <1>e, <1>s DEF ReadSettings, CutSettings, PutSettings
<1>11. CASE Crash(p)
  BY <1>11, <1>e, <1>s DEF Crash
<1> QED
  BY <1>2, <1>3, <1>4, <1>5, <1>6, <1>7, <1>8, <1>9, <1>10, <1>11 DEF Progress

-----------------------------------------------------------------------------
\* The binding that is kept.

\* What is known of it: a file that is there has it, and so has every process that
\* rewrites the file.
LEMMA BindingKnown ==
    ASSUME BindingInv, saved # None
    PROVE  /\ stable # Missing /\ (stable \notin File => stable.app = saved)
           /\ stable = Torn => opened # {}
           /\ \A p \in opened : ~behind[p] /\ cfg[p].app = saved
<1>1. stable # Missing /\ (stable \notin File => stable.app = saved) /\ (stable = Torn => opened # {})
  BY FileAssumption DEF BindingInv, BindingKept, File
<1>2. \A p \in opened : ~behind[p] /\ cfg[p].app = saved
  BY DEF BindingInv, SetupTypeOK, StagesAgree, Stage, KnowBinding, Knows, Holding
<1> QED  BY <1>1, <1>2

\* A step that leaves the file and those who write it alone need only leave the
\* process that takes it in the know.
LEMMA QuietStep ==
    ASSUME BindingInv, NEW p \in Procs, UNCHANGED <<stable, opened, saved>>, p \notin opened,
           \A q \in Procs \ {p} : Same(q), saved # None => Knows(p)'
    PROVE  KnowBinding' /\ BindingKept'
<1>1. \A q \in Procs \ {p} : saved # None => Knows(q)'
  BY DEF BindingInv, KnowBinding, Knows, Same
<1>2. KnowBinding'
  BY <1>1 DEF KnowBinding
<1>3. opened \subseteq Procs \ {p}
  BY DEF BindingInv, SetupTypeOK
<1>4. BindingKept'
  BY <1>3 DEF BindingInv, BindingKept, Same
<1> QED  BY <1>2, <1>4

\* LoadFromPluginRoot.
LEMMA LoadKeeps ==
    ASSUME BindingInv, NEW p \in Procs, LoadConfig(p)
    PROVE  KnowBinding' /\ BindingKept'
<1> USE DEF SetupTypeOK, Load
<1>t. SetupTypeOK /\ Stage(p) /\ (saved # None => Knows(p))
  BY DEF BindingInv, StagesAgree, KnowBinding
<1>o. \A q \in Procs \ {p} : Same(q)
  BY <1>t, OthersStay DEF Progress
<1>n. p \notin opened
  BY <1>t DEF Stage, LoadConfig, LoadStep, Stat, Read, Legacy, Migrate
<1>1. CASE Stat(p)
  <2>1. UNCHANGED <<stable, opened, saved, behind, step>>
    BY <1>1 DEF LoadConfig, Stat, files
  <2>2. saved # None => Knows(p)'
    BY <2>1, <1>1, <1>n, <1>t, BindingKnown DEF Stat, Knows
  <2> QED  BY <2>1, <2>2, <1>n, <1>o, QuietStep
<1>2. CASE Read(p)
  <2>1. UNCHANGED <<stable, opened, saved, step>>
    BY <1>2 DEF LoadConfig, Read, files
  <2>2. CASE stable \notin File
    <3>1. stable \in ConfigType
      BY <2>2, <1>t
    <3>2. behind' = behind /\ cfg'[p] = ApplyDefaults(stable) /\ at'[p] = "loaded"
      BY <2>2, <1>2, <1>t DEF Read, Loaded, File
    <3>3. cfg'[p].app = stable.app
      BY <3>1, <3>2, DefaultsApplied
    <3>4. saved # None => Knows(p)'
      BY <2>1, <2>2, <3>2, <3>3, <1>n, BindingKnown DEF Knows
    <3> QED  BY <2>1, <3>4, <1>n, <1>o, QuietStep
  <2>3. CASE stable \in File
    <3>1. saved # None => stable = Torn
      BY <2>3, BindingKnown DEF File
    <3>2. saved # None => behind'[p]
      BY <3>1, <2>3, <1>2, <1>t, FileAssumption DEF Read
    <3>3. saved # None => Knows(p)'
      BY <3>2, <2>1, <1>n DEF Knows
    <3> QED  BY <2>1, <3>3, <1>n, <1>o, QuietStep
  <2> QED  BY <2>2, <2>3
<1>3. CASE Legacy(p)
  <2>1. UNCHANGED <<stable, opened, saved, behind>>
    BY <1>3 DEF LoadConfig, Legacy, files
  <2>2. saved # None => Knows(p)'
    BY <2>1, <1>3, <1>n, <1>t DEF Legacy, Knows
  <2> QED  BY <2>1, <2>2, <1>n, <1>o, QuietStep
<1>4. CASE Migrate(p)
  <2>1. saved # None => behind[p]
    BY <1>4, <1>t DEF Migrate, Knows
  <2>2. CASE stable' # stable
    <3>1. saved' = None
      BY <2>1, <2>2 DEF LoadConfig
    <3> QED  BY <3>1 DEF KnowBinding, BindingKept
  <2>3. CASE stable' = stable /\ UNCHANGED opened
    <3>1. saved' = saved /\ behind' = behind
      BY <2>3, <1>4 DEF LoadConfig, Migrate
    <3>2. saved # None => Knows(p)'
      BY <3>1, <2>1, <2>3, <1>n DEF Knows
    <3> QED  BY <2>3, <3>1, <3>2, <1>n, <1>o, QuietStep
  <2>4. CASE stable' = stable /\ opened' # opened
    <3>1. saved' = saved /\ opened' = {} /\ behind' = behind /\ stable = legacy
      BY <2>4, <1>4 DEF LoadConfig, Migrate
    <3>2. KnowBinding'
      <4>1. \A q \in Procs : saved # None => Knows(q)'
        <5>1. \A q \in Procs \ {p} : saved # None => Knows(q)'
          BY <3>1, <1>o DEF BindingInv, KnowBinding, Knows, Same
        <5>2. saved # None => Knows(p)'
          BY <3>1, <2>1 DEF Knows
        <5> QED  BY <5>1, <5>2
      <4> QED  BY <4>1, <3>1 DEF KnowBinding
    <3>3. BindingKept'
      BY <3>1, <2>4, <1>4, <1>t DEF BindingInv, BindingKept, Migrate, Stage, File
    <3> QED  BY <3>2, <3>3
  <2> QED  BY <2>2, <2>3, <2>4
<1> QED  BY <1>1, <1>2, <1>3, <1>4 DEF LoadConfig, LoadStep

\* feishu.Bind, up to the rename that saves a binding.
LEMMA BindKeeps ==
    ASSUME BindingInv, NEW p \in Procs, BindFeishu(p)
    PROVE  KnowBinding' /\ BindingKept'
<1> USE DEF SetupTypeOK, Bind, loading
<1>t. SetupTypeOK /\ Stage(p) /\ (saved # None => Knows(p))
  BY DEF BindingInv, StagesAgree, KnowBinding
<1>o. \A q \in Procs \ {p} : Same(q)
  BY <1>t, OthersStay DEF Progress
<1>n. p \notin opened /\ step[p] = "bind" /\ step' = step
  BY <1>t DEF Stage, BindFeishu
<1>1. CASE Begin(p) \/ Wait(p) \/ SaveBinding(p)
  <2>1. UNCHANGED <<stable, opened, behind, at>> /\ bind'[p] # "done"
    BY <1>1, <1>t DEF Begin, Wait, SaveBinding, files
  <2>2. saved' = saved
    BY <2>1 DEF BindFeishu
  <2>3. saved # None => Knows(p)'
    BY <2>1, <2>2, <1>n, <1>t DEF Knows, Holding
  <2> QED  BY <2>1, <2>2, <2>3, <1>n, <1>o, QuietStep
<1>2. CASE Poll(p)
  <2>1. UNCHANGED <<stable, opened>> /\ bind'[p] # "done"
    BY <1>2, <1>t DEF Poll, Complete, SwitchServer, Pending, Denied, files
  <2>2. saved' = saved
    BY <2>1 DEF BindFeishu
  <2>3. \/ UNCHANGED <<at, behind>>
        \/ at'[p] = "stat" /\ p \notin opened'
    BY <1>2, <1>n, <1>t DEF Poll, Complete, SwitchServer, Pending, Denied, StartLoad, Load,
                            files
  <2>4. saved # None => Knows(p)'
    BY <2>1, <2>2, <2>3, <1>n, <1>t DEF Knows, Holding
  <2> QED  BY <2>1, <2>2, <2>4, <1>n, <1>o, QuietStep
<1>3. CASE RemoveOld(p)
  <2>1. UNCHANGED <<behind, at, cfg>> /\ bind'[p] # "done"
    BY <1>3, <1>t DEF RemoveOld
  <2>2. CASE stable' # stable
    <3>1. saved' = None
      BY <2>1, <2>2 DEF BindFeishu
    <3> QED  BY <3>1 DEF KnowBinding, BindingKept
  <2>3. CASE stable' = stable
    <3>1. saved' = saved
      BY <2>1, <2>3 DEF BindFeishu
    <3>2. saved # None => UNCHANGED opened
      BY <2>3, <1>3, BindingKnown DEF RemoveOld
    <3>3. CASE UNCHANGED opened
      <4>1. saved # None => Knows(p)'
        BY <2>1, <3>1, <3>3, <1>n, <1>t DEF Knows, Holding
      <4> QED  BY <2>3, <3>1, <3>3, <4>1, <1>n, <1>o, QuietStep
    <3>4. CASE saved = None
      BY <3>4, <3>1 DEF KnowBinding, BindingKept
    <3> QED  BY <3>2, <3>3, <3>4
  <2> QED  BY <2>2, <2>3
<1>4. CASE Rename(p)
  <2>1. /\ stable' = cfg[p] /\ saved' = cfg[p].app /\ opened' = {} /\ cfg' = cfg /\ at' = at
        /\ behind' = [q \in Procs |-> q # p]
    BY <1>4, <1>t DEF Rename, BindFeishu
  <2>2. at[p] = "loaded" /\ cfg[p] \in ConfigType
    BY <1>4, <1>t DEF Rename, Stage
  <2>3. \A q \in Procs : Knows(q)'
    BY <2>1, <2>2, <1>n DEF Knows, Holding
  <2>4. BindingKept'
    BY <2>1, <2>2, FileAssumption DEF BindingKept, File
  <2> QED  BY <2>3, <2>4 DEF KnowBinding
<1> QED  BY <1>1, <1>2, <1>3, <1>4 DEF BindFeishu, BindStep

\* The installer, up to the two steps that rewrite the file.
LEMMA InstallKeeps ==
    ASSUME BindingInv, NEW p \in Procs,
           Profile(p) \/ Reload(p) \/ Reloaded(p) \/ CheckWebhook(p) \/ Truncate(p) \/ Write(p)
    PROVE  KnowBinding' /\ BindingKept'
<1> USE DEF SetupTypeOK, Go, files, loading, installing
<1>t. SetupTypeOK /\ Stage(p) /\ (saved # None => Knows(p)) /\ cfg[p] \in ConfigType
  BY DEF BindingInv, StagesAgree, KnowBinding
<1>o. \A q \in Procs \ {p} : Same(q)
  BY <1>t, OthersStay DEF Progress
<1>1. CASE Profile(p)
  <2>1. PICK on \in BOOLEAN : cfg' = [cfg EXCEPT ![p] = [cfg[p] EXCEPT !.webhook = on]]
    BY <1>1 DEF Profile
  <2>2. cfg'[p].app = cfg[p].app
    BY <2>1, <1>t, WebhookSet
  <2>3. /\ UNCHANGED <<stable, opened, saved, behind, at>> /\ p \notin opened
        /\ step[p] = "load"
    BY <1>1, <1>t DEF Profile, Stage
  <2>4. saved # None => Knows(p)'
    BY <2>2, <2>3, <1>t DEF Knows, Holding
  <2> QED  BY <2>3, <2>4, <1>o, QuietStep
<1>2. CASE Reload(p)
  <2>1. UNCHANGED <<stable, opened, saved>> /\ p \notin opened /\ at'[p] = "stat"
    BY <1>2, <1>t DEF Reload, StartLoad, Load, Stage
  <2>2. saved # None => Knows(p)'
    BY <2>1 DEF Knows
  <2> QED  BY <2>1, <2>2, <1>o, QuietStep
<1>3. CASE Reloaded(p)
  <2>1. cfg'[p].app = cfg[p].app
    BY <1>3, <1>t, FeishuEnabled DEF Reloaded
  <2>2. /\ UNCHANGED <<stable, opened, saved, behind, at>> /\ p \notin opened
        /\ step[p] = "reload"
    BY <1>3, <1>t DEF Reloaded, Stage
  <2>3. saved # None => Knows(p)'
    BY <2>1, <2>2, <1>t DEF Knows, Holding
  <2> QED  BY <2>2, <2>3, <1>o, QuietStep
<1>4. CASE CheckWebhook(p)
  <2>1. UNCHANGED <<stable, opened, saved>> /\ p \notin opened /\ step[p] = "webhook"
    BY <1>4, <1>t DEF CheckWebhook, Stage
  <2>2. CASE End(p, "failed")
    <3>1. at'[p] = "idle"
      BY <2>2, <1>t DEF End
    <3>2. saved # None => Knows(p)'
      BY <2>1, <3>1 DEF Knows
    <3> QED  BY <2>1, <3>2, <1>o, QuietStep
  <2>3. CASE ~End(p, "failed")
    <3>1. /\ UNCHANGED <<at, behind>>
          /\ cfg' = cfg \/ cfg' = [cfg EXCEPT ![p] = [cfg[p] EXCEPT !.webhook = FALSE]]
      <4>1. cfg = [cfg EXCEPT ![p] = cfg[p]]
        BY <1>t
      <4> QED  BY <4>1, <2>3, <1>4 DEF CheckWebhook
    <3>2. cfg'[p].app = cfg[p].app
      BY <3>1, <1>t, WebhookSet
    <3>3. saved # None => Knows(p)'
      BY <2>1, <3>1, <3>2, <1>t DEF Knows, Holding
    <3> QED  BY <2>1, <3>3, <1>o, QuietStep
  <2> QED  BY <2>2, <2>3
<1>5. CASE Truncate(p)
  <2>1. /\ stable' = Torn /\ opened' = opened \cup {p} /\ UNCHANGED <<at, cfg, behind>>
        /\ step[p] = "truncate" /\ saved' = IF behind[p] THEN None ELSE saved
    BY <1>5 DEF Truncate
  <2>2. CASE behind[p]
    BY <2>1, <2>2 DEF KnowBinding, BindingKept
  <2>3. CASE ~behind[p]
    <3>1. saved # None => cfg[p].app = saved
      BY <2>1, <2>3, <1>t DEF Knows, Stage, Holding
    <3>2. BindingKept'
      BY <2>1, <2>3, <3>1 DEF BindingKept
    <3>3. saved # None => Knows(p)'
      BY <2>1, <2>3, <3>1, <1>t DEF Knows
    <3>4. \A q \in Procs \ {p} : saved # None => Knows(q)'
      BY <2>1, <2>3, <1>o DEF BindingInv, KnowBinding, Knows, Same
    <3> QED  BY <2>1, <2>3, <3>2, <3>3, <3>4 DEF KnowBinding
  <2> QED  BY <2>2, <2>3
<1>6. CASE Write(p)
  <2>1. opened' = opened \ {p} /\ UNCHANGED <<at, cfg, behind>> /\ step'[p] = "read"
    BY <1>6, <1>t DEF Write
  <2>2. CASE saved' = None
    BY <2>2 DEF KnowBinding, BindingKept
  <2>3. CASE saved' # None
    <3>1. /\ saved' = saved
          /\ \/ p \in opened /\ stable' = cfg[p]
             \/ p \notin opened /\ stable' = stable
      BY <2>3, <1>6 DEF Write
    <3>2. \A q \in Procs \ {p} : Knows(q)'
      BY <2>3, <3>1, <1>o DEF BindingInv, KnowBinding, Knows, Same
    <3>3. Knows(p)'
      BY <2>1, <2>3, <3>1, <1>t DEF Knows, Holding
    <3>4. BindingKept'
      <4>1. CASE p \in opened
        BY <4>1, <2>3, <3>1, <1>t, BindingKnown, FileAssumption DEF BindingKept, File
      <4>2. CASE p \notin opened
        <5>1. opened' = opened
          BY <4>2, <2>1
        <5> QED  BY <4>2, <5>1, <3>1, <2>1 DEF BindingInv, BindingKept
      <4> QED  BY <4>1, <4>2
    <3> QED  BY <3>2, <3>3, <3>4 DEF KnowBinding
  <2> QED  BY <2>2, <2>3
<1> QED  BY <1>1, <1>2, <1>3, <1>4, <1>5, <1>6

\* The steps that have nothing to do with the configuration file, and a crash.
LEMMA RestKeeps ==
    ASSUME BindingInv, NEW p \in Procs,
           \/ Start(p) \/ Finish(p) \/ Crash(p)
           \/ ReadSettings(p) \/ CutSettings(p) \/ PutSettings(p)
    PROVE  KnowBinding' /\ BindingKept'
<1> USE DEF SetupTypeOK, Go, files, loading, installing
<1>t. SetupTypeOK /\ Stage(p) /\ (saved # None => Knows(p))
  BY DEF BindingInv, StagesAgree, KnowBinding
<1>o. \A q \in Procs \ {p} : Same(q)
  BY <1>t, OthersStay DEF Progress
<1>e. ASSUME NEW label, End(p, label)
      PROVE  at'[p] = "idle"
  BY <1>e, <1>t DEF End
<1>1. CASE Start(p)
  <2>1. UNCHANGED <<stable, opened, saved>> /\ p \notin opened /\ step[p] = "idle"
    BY <1>1, <1>t DEF Start, Stage
  <2>2. at'[p] = "stat" \/ (UNCHANGED <<at, behind, cfg>> /\ step'[p] \notin Holding)
    BY <1>1, <1>t DEF Start, StartLoad, Load, Holding
  <2>3. saved # None => Knows(p)'
    BY <2>1, <2>2, <1>1, <1>t DEF Start, Knows, Holding
  <2> QED  BY <2>1, <2>3, <1>o, QuietStep
<1>2. CASE Finish(p)
  <2>1. UNCHANGED <<stable, opened, saved>> /\ p \notin opened /\ at'[p] = "idle"
    BY <1>2, <1>t, <1>e DEF Finish, Stage
  <2>2. saved # None => Knows(p)'
    BY <2>1 DEF Knows
  <2> QED  BY <2>1, <2>2, <1>o, QuietStep
<1>3. CASE ReadSettings(p) \/ CutSettings(p) \/ PutSettings(p)
  <2>1. UNCHANGED <<stable, opened, saved>> /\ p \notin opened
    BY <1>3, <1>t DEF ReadSettings, CutSettings, PutSettings, Stage
  <2>2. at'[p] = "idle" \/ (UNCHANGED <<at, behind, cfg>> /\ step'[p] \notin Holding)
    BY <1>3, <1>t, <1>e DEF ReadSettings, CutSettings, PutSettings, NextFile, Holding
  <2>3. saved # None => Knows(p)'
    BY <2>1, <2>2, <1>t DEF Knows
  <2> QED  BY <2>1, <2>3, <1>o, QuietStep
<1>4. CASE Crash(p)
  <2>1. /\ stable' = stable /\ opened' = opened \ {p} /\ at'[p] = "idle"
        /\ saved' = IF opened = {p} /\ stable = Torn THEN None ELSE saved
    BY <1>4, <1>e DEF Crash
  <2>2. CASE saved' = None
    BY <2>2 DEF KnowBinding, BindingKept
  <2>3. CASE saved' # None
    <3>1. saved' = saved
      BY <2>1, <2>3
    <3>2. \A q \in Procs \ {p} : Knows(q)'
      BY <2>3, <3>1, <1>o DEF BindingInv, KnowBinding, Knows, Same
    <3>3. Knows(p)'
      BY <2>1 DEF Knows
    <3>4. BindingKept'
      <4>1. CASE stable # Torn
        BY <4>1, <2>1, <2>3, <3>1 DEF BindingInv, BindingKept
      <4>2. CASE stable = Torn
        <5>1. opened # {} /\ opened # {p}
          BY <4>2, <2>1, <2>3, <3>1, BindingKnown
        <5>2. PICK q \in opened : q # p
          BY <5>1
        <5>3. q \in opened' /\ cfg'[q].app = saved
          BY <5>2, <2>1, <2>3, <3>1, <1>o, <1>t, BindingKnown DEF Same
        <5> QED  BY <5>3, <4>2, <2>1, <3>1 DEF BindingKept
      <4> QED  BY <4>1, <4>2
    <3> QED  BY <3>2, <3>3, <3>4 DEF KnowBinding
  <2> QED  BY <2>2, <2>3
<1> QED  BY <1>1, <1>2, <1>3, <1>4

\* Types and stages hold in every state.
Base == SetupTypeOK /\ StagesAgree

LEMMA BaseInit ==
    ASSUME SetupInit
    PROVE  Base
<1>1. SetupTypeOK
  <2>1. stable \in ConfigType \cup File /\ legacy \in ConfigType \cup File
    BY SetupAssumption DEF SetupInit
  <2>2. saved \in Apps \cup {None}
    BY <2>1 DEF SetupInit, ConfigType
  <2>3. 0 \in 0..MaxPolls /\ {{"user"}, {"rich"}, {"beside", "plugin"}} \in SUBSET Group
    BY BindingAssumption DEF Group, Hook
  <2>4. settings \in [SettingsFiles -> {TornSettings} \cup SUBSET Group]
    BY <2>3 DEF SetupInit
  <2> QED  BY <2>1, <2>2, <2>3, <2>4, DefaultHolds
           DEF SetupInit, SetupTypeOK, Steps, Ended, SettingsFiles
<1>2. StagesAgree
  BY DEF SetupInit, StagesAgree, Stage
<1> QED  BY <1>1, <1>2 DEF Base

\* Type correctness: the variables stay in their types for any number of processes;
\* a binder never polls past its deadline.
THEOREM TypeCorrect == SetupSpec => []SetupTypeOK
<1>1. SetupInit => Base
  BY BaseInit
<1>2. Base /\ [SetupNext]_setupVars => Base'
  BY TypesKept, StagesKept DEF Base
<1>3. Base => SetupTypeOK
  BY DEF Base
<1> QED  BY <1>1, <1>2, <1>3, PTL DEF SetupSpec

\* feishu.Bind and the installer keep the binding: whatever runs at the same time, the
\* file has the binding saved last or is being rewritten by processes that hold it,
\* until one that is behind, killed as it writes, or not alone in writing takes it out.
THEOREM BindingIsKept == SetupSpec => []BindingKept
<1>1. SetupInit => BindingInv
  <2> SUFFICES ASSUME SetupInit PROVE KnowBinding /\ BindingKept
    BY BaseInit DEF BindingInv, Base
  <2> QED  BY DEF SetupInit, KnowBinding, Knows, BindingKept
<1>2. BindingInv /\ [SetupNext]_setupVars => BindingInv'
  <2> SUFFICES ASSUME BindingInv, [SetupNext]_setupVars PROVE KnowBinding' /\ BindingKept'
    BY TypesKept, StagesKept DEF BindingInv
  <2>1. CASE UNCHANGED setupVars
    BY <2>1 DEF BindingInv, KnowBinding, Knows, BindingKept, setupVars, files, loading
  <2> QED
    BY <2>1, LoadKeeps, BindKeeps, InstallKeeps, RestKeeps DEF SetupNext, Progress
<1>3. BindingInv => BindingKept
  BY DEF BindingInv
<1> QED  BY <1>1, <1>2, <1>3, PTL DEF SetupSpec

-----------------------------------------------------------------------------
\* The user's hooks.

\* Decoding keeps the user's groups but for the fields that are not named, and merging
\* drops what the plugin manages, which they are not.
LEMMA MergeKeepsUser ==
    ASSUME NEW p \in Procs, NEW f, NEW groups, KeepsUsers(groups)
    PROVE  KeepsUsers(MergeHooks(p, f, Decoded(groups)))
<1>1. \A h \in {"user", "rich", "bare"} : ~Managed(f, {h})
  BY SetupAssumption DEF Managed
<1>2. {"user"} \in Decoded(groups)
  <2>1. {"user"} \in groups /\ {"user"} = {IF h = "rich" THEN "bare" ELSE h : h \in {"user"}}
    BY DEF KeepsUsers
  <2> QED  BY <2>1 DEF Decoded
<1>3. {"bare"} \in Decoded(groups)
  <2>1. PICK g \in groups : g = {"rich"} \/ g = {"bare"}
    BY DEF KeepsUsers
  <2>2. {"bare"} = {IF h = "rich" THEN "bare" ELSE h : h \in g}
    BY <2>1
  <2> QED  BY <2>1, <2>2 DEF Decoded
<1> QED  BY <1>1, <1>2, <1>3 DEF KeepsUsers, MergeHooks

\* A step that leaves the settings alone need only not be one of a process that has
\* truncated a file, or has merged one.
LEMMA QuietHooks ==
    ASSUME HooksInv, NEW p \in Procs, UNCHANGED <<settings, spoiled>>,
           \A q \in Procs \ {p} : Same(q), step[p] # "put", step'[p] \notin {"cut", "put"}
    PROVE  DraftKeepsUser' /\ UserHooksKept'
<1>1. DraftKeepsUser'
  BY DEF HooksInv, DraftKeepsUser, Same
<1>2. UserHooksKept'
  BY DEF HooksInv, UserHooksKept, Same
<1> QED  BY <1>1, <1>2

\* The steps of install-hooks on a settings file, and a crash in one of them.
LEMMA SettingsKeep ==
    ASSUME HooksInv, NEW p \in Procs,
           ReadSettings(p) \/ CutSettings(p) \/ PutSettings(p) \/ Crash(p)
    PROVE  DraftKeepsUser' /\ UserHooksKept'
<1> USE DEF SetupTypeOK, Go
<1>t. /\ SetupTypeOK /\ file[p] \in SettingsFiles
      /\ step[p] \in {"cut", "put"} /\ file[p] \notin spoiled => KeepsUsers(draft[p])
  BY DEF HooksInv, DraftKeepsUser
<1>o. \A q \in Procs \ {p} : Same(q)
  BY <1>t, OthersStay DEF Progress
<1>e. ASSUME NEW label \in Ended, End(p, label)
      PROVE  step'[p] \notin {"cut", "put"}
  BY <1>e, <1>t DEF End, Ended
<1>n. ASSUME NextFile(p)
      PROVE  step'[p] \notin {"cut", "put"}
  <2>1. CASE file[p] = "claude"
    <3>1. step' = [step EXCEPT ![p] = "read"]
      BY <2>1, <1>n DEF NextFile
    <3> QED  BY <3>1, <1>t
  <2>2. CASE file[p] # "claude"
    BY <2>2, <1>n, <1>e DEF NextFile, Ended
  <2> QED  BY <2>1, <2>2
<1>d. ASSUME spoiled \subseteq spoiled', step'[p] \notin {"cut", "put"}
      PROVE  DraftKeepsUser'
  BY <1>d, <1>o DEF HooksInv, DraftKeepsUser, Same
<1>w. ASSUME NEW g \in SettingsFiles \ spoiled, settings[g] = TornSettings, step[p] = "put" => file[p] # g
      PROVE  \E q \in Procs : step'[q] = "put" /\ file'[q] = g
  <2>1. PICK q \in Procs : step[q] = "put" /\ file[q] = g
    BY <1>w DEF HooksInv, UserHooksKept
  <2>2. q \in Procs \ {p}
    BY <2>1, <1>w
  <2> QED  BY <2>1, <2>2, <1>o DEF Same
<1>u. \A g \in SettingsFiles \ spoiled : settings[g] # TornSettings => KeepsUsers(settings[g])
  BY DEF HooksInv, UserHooksKept
<1>1. CASE ReadSettings(p)
  <2>1. UNCHANGED settings /\ step[p] = "read"
    BY <1>1 DEF ReadSettings
  <2>2. CASE UNCHANGED spoiled /\ step'[p] \notin {"cut", "put"}
    BY <2>1, <2>2, <1>o, QuietHooks
  <2>3. CASE ~(UNCHANGED spoiled /\ step'[p] \notin {"cut", "put"})
    <3>1. /\ Go(p, "cut") /\ UNCHANGED file
          /\ draft' = [draft EXCEPT ![p] = MergeHooks(p, file[p],
                          IF settings[file[p]] = TornSettings THEN {} ELSE Decoded(settings[file[p]]))]
          /\ spoiled' = IF settings[file[p]] = TornSettings THEN spoiled \cup {file[p]} ELSE spoiled
      BY <2>3, <1>1, <1>e, <1>n DEF ReadSettings, Ended
    <3>2. file[p] \notin spoiled' => KeepsUsers(draft'[p])
      <4>1. SUFFICES ASSUME file[p] \notin spoiled'
                     PROVE  KeepsUsers(draft'[p])
        OBVIOUS
      <4>2. settings[file[p]] # TornSettings /\ file[p] \notin spoiled
        BY <4>1, <3>1
      <4>3. KeepsUsers(settings[file[p]])
        BY <4>2, <1>t DEF HooksInv, UserHooksKept
      <4>4. KeepsUsers(MergeHooks(p, file[p], Decoded(settings[file[p]])))
        BY <4>3, MergeKeepsUser
      <4> QED  BY <4>2, <4>4, <3>1, <1>t
    <3>3. DraftKeepsUser'
      BY <3>1, <3>2, <1>o DEF HooksInv, DraftKeepsUser, Same
    <3>4. UserHooksKept'
      BY <2>1, <3>1, <1>o, <1>t DEF HooksInv, UserHooksKept, Same
    <3> QED  BY <3>3, <3>4
  <2> QED  BY <2>2, <2>3
<1>2. CASE CutSettings(p)
  <2>1. /\ step' = [step EXCEPT ![p] = "put"] /\ UNCHANGED <<file, draft, spoiled>>
        /\ settings' = [settings EXCEPT ![file[p]] = TornSettings] /\ step[p] = "cut"
    BY <1>2 DEF CutSettings
  <2>2. DraftKeepsUser'
    BY <2>1, <1>t DEF HooksInv, DraftKeepsUser
  <2>3. UserHooksKept'
    BY <2>1, <1>t DEF HooksInv, UserHooksKept
  <2> QED  BY <2>2, <2>3
<1>3. CASE PutSettings(p)
  <2> DEFINE f == file[p]
  <2>1. /\ step[p] = "put" /\ NextFile(p)
        /\ \/ settings' = [settings EXCEPT ![f] = draft[p]] /\ UNCHANGED spoiled
           \/ settings' = [settings EXCEPT ![f] = TornSettings] /\ spoiled' = spoiled \cup {f}
    BY <1>3 DEF PutSettings
  <2>2. DraftKeepsUser'
    BY <2>1, <1>n, <1>d
  <2>3. ASSUME NEW g \in SettingsFiles \ spoiled'
        PROVE  IF settings'[g] = TornSettings THEN \E q \in Procs : step'[q] = "put" /\ file'[q] = g
               ELSE KeepsUsers(settings'[g])
    <3>1. CASE g = f
      <4>1. settings'[g] = draft[p] /\ g \notin spoiled
        BY <3>1, <2>1, <2>3, <1>t
      <4>2. draft[p] # TornSettings
        <5>1. draft[p] \in SUBSET Group
          BY <1>t
        <5>2. {Torn} \notin Group
          BY SetupAssumption DEF Group
        <5> QED  BY <5>1, <5>2 DEF TornSettings
      <4> QED  BY <4>1, <4>2, <3>1, <2>1, <1>t
    <3>2. CASE g # f
      <4>1. settings'[g] = settings[g] /\ g \notin spoiled
        BY <3>2, <2>1, <2>3, <1>t
      <4> QED  BY <4>1, <3>2, <2>3, <1>w, <1>u
    <3> QED  BY <3>1, <3>2
  <2>4. UserHooksKept'
    BY <2>3 DEF UserHooksKept
  <2> QED  BY <2>2, <2>4
<1>4. CASE Crash(p)
  <2>1. UNCHANGED settings /\ step'[p] \notin {"cut", "put"} /\ spoiled \subseteq spoiled'
    BY <1>4, <1>e DEF Crash, Ended
  <2>2. DraftKeepsUser'
    BY <2>1, <1>d
  <2>3. UserHooksKept'
    <3>1. ASSUME NEW g \in SettingsFiles \ spoiled', settings[g] = TornSettings
          PROVE  step[p] = "put" => file[p] # g
      BY <3>1, <1>4 DEF Crash
    <3> QED  BY <3>1, <2>1, <1>w, <1>u DEF UserHooksKept
  <2> QED  BY <2>2, <2>3
<1> QED  BY <1>1, <1>2, <1>3, <1>4

\* MergeHookSettings keeps the groups of hooks that are the user's alone, with the fields
\* HookCommand names, whatever else works on the settings files, unless one was read or
\* left while it was being rewritten.  Other fields, and hooks the user has put beside the
\* plugin's, it does not keep.
THEOREM UserHooksAreKept == SetupSpec => []UserHooksKept
<1>1. SetupInit => HooksInv
  <2> SUFFICES ASSUME SetupInit PROVE DraftKeepsUser /\ UserHooksKept
    BY BaseInit DEF HooksInv, Base
  <2>1. {{"user"}, {"rich"}, {"beside", "plugin"}} # TornSettings
    BY SetupAssumption DEF Hook, TornSettings
  <2>2. \A f \in SettingsFiles : KeepsUsers(settings[f]) /\ settings[f] # TornSettings
    BY <2>1 DEF SetupInit, KeepsUsers
  <2> QED  BY <2>2 DEF SetupInit, DraftKeepsUser, UserHooksKept
<1>2. HooksInv /\ [SetupNext]_setupVars => HooksInv'
  <2> SUFFICES ASSUME HooksInv, [SetupNext]_setupVars PROVE DraftKeepsUser' /\ UserHooksKept'
    BY TypesKept, StagesKept DEF HooksInv
  <2>t. SetupTypeOK /\ StagesAgree
    BY DEF HooksInv
  <2>u. ASSUME UNCHANGED <<step, file, draft, settings, spoiled>>
        PROVE  DraftKeepsUser' /\ UserHooksKept'
    BY <2>u DEF HooksInv, DraftKeepsUser, UserHooksKept
  <2>1. CASE UNCHANGED setupVars
    BY <2>1, <2>u DEF setupVars, installing
  <2>2. ASSUME NEW p \in Procs, LoadConfig(p) \/ BindFeishu(p)
        PROVE  DraftKeepsUser' /\ UserHooksKept'
    BY <2>2, <2>u DEF LoadConfig, BindFeishu, installing
  <2>3. ASSUME NEW p \in Procs,
               \/ Start(p) \/ Finish(p) \/ Profile(p) \/ Reload(p) \/ Reloaded(p)
               \/ CheckWebhook(p) \/ Truncate(p) \/ Write(p)
        PROVE  DraftKeepsUser' /\ UserHooksKept'
    <3>1. \A q \in Procs \ {p} : Same(q)
      BY <2>3, <2>t, OthersStay DEF Progress
    <3>2. UNCHANGED <<settings, spoiled>>
      BY <2>3 DEF Start, Finish, Profile, Reload, Reloaded, CheckWebhook, Truncate, Write,
                  installing
    <3>3. step[p] # "put" /\ step'[p] \notin {"cut", "put"}
      <4> USE DEF SetupTypeOK, Go
      <4>s. Stage(p)
        BY <2>t DEF StagesAgree
      <4>1. CASE Finish(p)
        BY <4>1, <4>s, <2>t DEF Finish, End, Stage
      <4>2. CASE Start(p)
        BY <4>2, <2>t DEF Start
      <4>3. CASE Profile(p) \/ Reload(p) \/ Reloaded(p)
        BY <4>3, <2>t DEF Profile, Reload, Reloaded
      <4>4. CASE CheckWebhook(p)
        <5>1. step[p] = "webhook"
          BY <4>4 DEF CheckWebhook
        <5>2. CASE step' = [step EXCEPT ![p] = "truncate"]
          BY <5>1, <5>2, <2>t
        <5>3. CASE step' = [step EXCEPT ![p] = "failed"]
          BY <5>1, <5>3, <2>t
        <5> QED  BY <5>2, <5>3, <4>4 DEF CheckWebhook, End
      <4>5. CASE Truncate(p) \/ Write(p)
        BY <4>5, <2>t DEF Truncate, Write
      <4> QED  BY <2>3, <4>1, <4>2, <4>3, <4>4, <4>5
    <3> QED  BY <3>1, <3>2, <3>3, QuietHooks
  <2> QED  BY <2>1, <2>2, <2>3, SettingsKeep DEF SetupNext, Progress
<1>3. HooksInv => UserHooksKept
  BY DEF HooksInv
<1> QED  BY <1>1, <1>2, <1>3, PTL DEF SetupSpec

-----------------------------------------------------------------------------
\* Lark.

\* A binder's step.
LEMMA BindTruthful ==
    ASSUME LarkInv, NEW p \in Procs, BindFeishu(p)
    PROVE  /\ Truthful(cfg'[p]) /\ (result'[p] # None => Truthful(result'[p]))
           /\ stable' \notin File => Truthful(stable')
<1> USE DEF SetupTypeOK, Bind, loading
<1>t. /\ SetupTypeOK /\ Stage(p) /\ Truthful(cfg[p]) /\ (result[p] # None => Truthful(result[p]))
      /\ stable \notin File => Truthful(stable)
  BY DEF LarkInv, StagesAgree
<1>1. CASE Begin(p) \/ Wait(p)
  BY <1>1, <1>t DEF Begin, Wait, files
<1>2. CASE Poll(p)
  <2>1. UNCHANGED <<files, cfg>>
    BY <1>2 DEF Poll
  <2>2. PICK brand \in {"lark", ""} :
          Complete(p, brand) \/ SwitchServer(p, brand) \/ Pending(p, brand) \/ Denied(p)
    BY <1>2 DEF Poll
  <2>3. CASE Complete(p, brand)
    <3>1. brand = "lark" => server[p] = "accounts lark"
      BY <2>3 DEF Complete
    <3>2. PICK r \in ResultType : /\ result' = [result EXCEPT ![p] = r]
                                  /\ r.platform = "lark" => brand = "lark"
                                  /\ r.base = server[p]
      BY <2>3, <1>t, CompleteResult
    <3>3. Truthful(r) /\ result'[p] = r
      BY <3>1, <3>2, <1>t DEF Truthful
    <3> QED  BY <3>3, <2>1, <1>t DEF files
  <2>4. CASE SwitchServer(p, brand) \/ Pending(p, brand) \/ Denied(p)
    BY <2>4, <2>1, <1>t DEF SwitchServer, Pending, Denied, files
  <2> QED  BY <2>2, <2>3, <2>4
<1>3. CASE SaveBinding(p)
  <2>1. result[p] \in ResultType /\ Truthful(result[p])
    BY <1>3, <1>t DEF SaveBinding, Stage
  <2>2. \A type \in GivenTypes[p] : Truthful(ApplyDefaults(Bound(p, type)))
    BY <2>1, <1>t, BoundHolds, DefaultsApplied
  <2> QED  BY <2>2, <1>3, <1>t DEF SaveBinding, files
<1>4. CASE RemoveOld(p)
  BY <1>4, <1>t DEF RemoveOld, File
<1>5. CASE Rename(p)
  BY <1>5, <1>t DEF Rename
<1> QED  BY <1>1, <1>2, <1>3, <1>4, <1>5 DEF BindFeishu, BindStep

\* A step of LoadFromPluginRoot.
LEMMA LoadTruthful ==
    ASSUME LarkInv, NEW p \in Procs, LoadConfig(p)
    PROVE  Truthful(cfg'[p]) /\ (stable' \notin File => Truthful(stable'))
<1> USE DEF SetupTypeOK, files
<1>t. /\ SetupTypeOK /\ Truthful(cfg[p])
      /\ stable \notin File => stable \in ConfigType /\ Truthful(stable)
      /\ legacy \notin File => legacy \in ConfigType /\ Truthful(legacy)
  BY DEF LarkInv
<1>1. CASE Stat(p)
  BY <1>1, <1>t DEF Stat
<1>2. CASE Read(p)
  BY <1>2, <1>t, DefaultsApplied, DefaultHolds DEF Read, Loaded
<1>3. CASE Legacy(p)
  BY <1>3, <1>t, DefaultsApplied, DefaultHolds DEF Legacy, Loaded
<1>4. CASE Migrate(p)
  BY <1>4, <1>t DEF Migrate
<1> QED  BY <1>1, <1>2, <1>3, <1>4 DEF LoadConfig, LoadStep

\* A step of the installer or of install-hooks, the start or the end of a process.
LEMMA RestTruthful ==
    ASSUME LarkInv, NEW p \in Procs,
           \/ Start(p) \/ Finish(p) \/ Crash(p)
           \/ Profile(p) \/ Reload(p) \/ Reloaded(p) \/ CheckWebhook(p) \/ Truncate(p) \/ Write(p)
           \/ ReadSettings(p) \/ CutSettings(p) \/ PutSettings(p)
    PROVE  /\ Truthful(cfg'[p]) /\ (result'[p] # None => Truthful(result'[p]))
           /\ stable' \notin File => Truthful(stable')
<1> USE DEF SetupTypeOK, files, loading, binding
<1>t. /\ SetupTypeOK /\ cfg[p] \in ConfigType
      /\ Truthful(cfg[p]) /\ (result[p] # None => Truthful(result[p]))
      /\ stable \notin File => Truthful(stable)
  BY DEF LarkInv
<1>e. ASSUME NEW label, End(p, label)
      PROVE  Truthful(cfg'[p]) /\ result'[p] = None
  BY <1>e, <1>t, DefaultHolds DEF End
<1>1. CASE Start(p)
  BY <1>1, <1>t DEF Start, StartBind
<1>2. CASE Finish(p) \/ Crash(p)
  BY <1>2, <1>t, <1>e DEF Finish, Crash
<1>3. CASE Profile(p)
  <2>1. PICK on \in BOOLEAN : cfg' = [cfg EXCEPT ![p] = [cfg[p] EXCEPT !.webhook = on]]
    BY <1>3 DEF Profile
  <2>2. Truthful(cfg'[p])
    BY <2>1, <1>t, WebhookSet
  <2> QED  BY <2>2, <1>3, <1>t DEF Profile, StartBind
<1>4. CASE Reload(p)
  BY <1>4, <1>t DEF Reload
<1>5. CASE Reloaded(p)
  BY <1>5, <1>t, FeishuEnabled DEF Reloaded
<1>6. CASE CheckWebhook(p)
  <2>1. CASE End(p, "failed")
    BY <2>1, <1>e, <1>6, <1>t DEF CheckWebhook
  <2>2. CASE ~End(p, "failed")
    <3>1. /\ UNCHANGED <<stable, binding>>
          /\ cfg' = cfg \/ cfg' = [cfg EXCEPT ![p] = [cfg[p] EXCEPT !.webhook = FALSE]]
      <4>1. cfg = [cfg EXCEPT ![p] = cfg[p]]
        BY <1>t
      <4> QED  BY <4>1, <2>2, <1>6 DEF CheckWebhook
    <3>2. Truthful(cfg'[p])
      BY <3>1, <1>t, WebhookSet
    <3> QED  BY <3>1, <3>2, <1>t
  <2> QED  BY <2>1, <2>2
<1>7. CASE Truncate(p)
  BY <1>7, <1>t DEF Truncate, File
<1>8. CASE Write(p)
  BY <1>8, <1>t DEF Write, File
<1>9. CASE ReadSettings(p) \/ CutSettings(p) \/ PutSettings(p)
  BY <1>9, <1>t, <1>e DEF ReadSettings, CutSettings, PutSettings, NextFile
<1> QED  BY <1>1, <1>2, <1>3, <1>4, <1>5, <1>6, <1>7, <1>8, <1>9

\* The registration names Lark as the platform only when Lark's server gave the
\* credentials, and so does the configuration, if the files at the start did.
THEOREM LarkIsLark ==
    ASSUME \A f \in FilesInit : /\ f[1] \notin File => Truthful(f[1])
                                /\ f[2] \notin File => Truthful(f[2])
    PROVE  SetupSpec => []LarkMeansLark
<1>1. SetupInit => LarkInv
  <2> SUFFICES ASSUME SetupInit PROVE LarkInv
    OBVIOUS
  <2>1. PICK f \in FilesInit : stable = f[1] /\ legacy = f[2]
    BY DEF SetupInit
  <2>2. (stable \notin File => Truthful(stable)) /\ (legacy \notin File => Truthful(legacy))
    BY <2>1
  <2>3. \A p \in Procs : cfg[p] = DefaultConfig /\ result[p] = None
    BY DEF SetupInit
  <2> QED  BY <2>2, <2>3, BaseInit, DefaultHolds DEF LarkInv, Base
<1>2. LarkInv /\ [SetupNext]_setupVars => LarkInv'
  <2> SUFFICES ASSUME LarkInv, [SetupNext]_setupVars PROVE LarkInv'
    OBVIOUS
  <2>t. SetupTypeOK /\ StagesAgree /\ SetupTypeOK' /\ StagesAgree'
    BY TypesKept, StagesKept DEF LarkInv
  <2>1. CASE UNCHANGED setupVars
    BY <2>1, <2>t DEF LarkInv, setupVars, files, loading, binding
  <2>2. ASSUME NEW p \in Procs, Start(p) \/ Progress(p) \/ Crash(p)
        PROVE  LarkInv'
    <3>1. /\ Truthful(cfg'[p]) /\ (result'[p] # None => Truthful(result'[p]))
          /\ stable' \notin File => Truthful(stable')
      <4>1. CASE LoadConfig(p)
        BY <4>1, LoadTruthful DEF LoadConfig, binding, LarkInv
      <4> QED  BY <2>2, <4>1, BindTruthful, RestTruthful DEF Progress
    <3>2. \A q \in Procs \ {p} : Same(q)
      BY <2>2, <2>t, OthersStay
    <3>3. legacy' = legacy
      BY <2>2 DEF Start, Progress, Crash, LoadConfig, LoadStep, Stat, Read, Legacy, Migrate,
                  BindFeishu, BindStep, Begin, Poll, Wait, SaveBinding, RemoveOld, Rename, Finish,
                  Profile, Reload, Reloaded, CheckWebhook, Truncate, Write, ReadSettings,
                  CutSettings, PutSettings, files
    <3> QED  BY <3>1, <3>2, <3>3, <2>t DEF LarkInv, Same
  <2> QED  BY <2>1, <2>2 DEF SetupNext
<1>3. LarkInv => LarkMeansLark
  BY DEF LarkInv, LarkMeansLark, Truthful
<1> QED  BY <1>1, <1>2, <1>3, PTL DEF SetupSpec
=============================================================================
