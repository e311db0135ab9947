---------------------------- MODULE FeishuBinding ----------------------------
(***************************************************************************)
(* The device-code registration of a Feishu or Lark application            *)
(* (feishu.Bind): begin, poll until the user has scanned the code or the   *)
(* deadline is over, then load the configuration, put the binding in and   *)
(* save it.                                                                *)
(***************************************************************************)
EXTENDS ConfigFile

CONSTANTS
    MaxPolls,  \* how often a binder polls before its deadline
    GivenId,   \* the --receive-id of each process, None without one
    GivenTypes,\* the receive id types each may be told to use (--receive-id-type)
    Created    \* the application the registration of each creates

ASSUME BindingAssumption ==
    /\ MaxPolls \in Nat \ {0}
    /\ GivenId \in [Procs -> Users \cup {None}] /\ Created \in [Procs -> Apps]
    /\ GivenTypes \in [Procs -> SUBSET {"open_id", "unknown"}] /\ \A p \in Procs : GivenTypes[p] # {}

VARIABLES
    bind,      \* where each process is in Bind
    server,    \* RegistrationClient.BaseURL of each
    polls,     \* polls left before the deadline
    result     \* the completed registration of each, None without one

binding == <<bind, server, polls, result>>

Binding == {"begin", "poll", "waiting", "load", "save", "rename"}

\* The registration result: credentials, owner, platform and the server polled last.
ResultType ==
    [app : Apps, owner : Users \cup {None}, platform : {"feishu", "lark"},
     base : {"accounts feishu", "accounts lark"}]

ASSUME ResultAssumption == None \notin ResultType

Bind(p, label) == bind' = [bind EXCEPT ![p] = label]

StartBind(p) ==
    /\ Bind(p, "begin")
    /\ server' = [server EXCEPT ![p] = "accounts feishu"]
    /\ polls' = [polls EXCEPT ![p] = MaxPolls]
    /\ result' = [result EXCEPT ![p] = None]

\* init and begin calls: any error ends the binding.
Begin(p) ==
    /\ bind[p] = "begin"
    /\ Bind(p, "poll") \/ Bind(p, "failed")
    /\ UNCHANGED <<files, loading, server, polls, result>>

MutantComplete(p, brand) ==
    \E owner \in Users \cup {None} :
        /\ result' = [result EXCEPT ![p] =
                        [app |-> Created[p], owner |-> owner, base |-> server[p],
                         platform |-> IF brand = "lark" THEN "lark" ELSE "feishu"]]
        /\ Bind(p, "load") /\ StartLoad(p)
        /\ UNCHANGED <<server, polls>>

\* Credentials arrive from the server of the tenant's brand; SaveBinding needs
\* an id to send to and then loads the configuration.
Complete(p, brand) ==
    /\ brand = "lark" => server[p] = "accounts lark"
    /\ \E owner \in Users \cup {None} :
        /\ result' = [result EXCEPT ![p] =
                        [app |-> Created[p], owner |-> owner, base |-> server[p],
                         platform |-> IF brand = "lark" THEN "lark" ELSE "feishu"]]
        /\ IF owner = None /\ GivenId[p] = None
           THEN Bind(p, "failed") /\ UNCHANGED <<at, behind>>
           ELSE Bind(p, "load") /\ StartLoad(p)
    /\ UNCHANGED <<server, polls>>

\* The tenant turns out to be Lark's: what the answer brought is dropped, and the
\* next poll goes to the other server.
SwitchServer(p, brand) ==
    /\ brand = "lark" /\ server[p] # "accounts lark"
    /\ server' = [server EXCEPT ![p] = "accounts lark"]
    /\ Bind(p, "waiting") /\ UNCHANGED <<polls, result, at, behind>>

\* Authorization pending, or slow down.
Pending(p, brand) ==
    /\ brand = "lark" => server[p] = "accounts lark"
    /\ Bind(p, "waiting") /\ UNCHANGED <<server, polls, result, at, behind>>

\* Denied, expired, a network error or any other answer.
Denied(p) == Bind(p, "failed") /\ UNCHANGED <<server, polls, result, at, behind>>

Poll(p) ==
    /\ bind[p] = "poll"
    /\ \/ \E brand \in {"lark", ""} :
            Complete(p, brand) \/ SwitchServer(p, brand) \/ Pending(p, brand)
       \/ Denied(p)
    /\ UNCHANGED <<files, cfg>>

MutantWait(p) ==
    /\ bind[p] = "waiting"
    /\ Bind(p, "poll")
    /\ UNCHANGED <<files, loading, server, polls, result>>

MutantDeadline(p) ==
    /\ bind[p] = "waiting"
    /\ polls' = [polls EXCEPT ![p] = @ - 1]
    /\ Bind(p, "poll")
    /\ UNCHANGED <<files, loading, server, result>>

\* The interval passes, or the deadline does.
Wait(p) ==
    /\ bind[p] = "waiting"
    /\ polls' = [polls EXCEPT ![p] = @ - 1]
    /\ Bind(p, IF polls[p] = 1 THEN "failed" ELSE "poll")
    /\ UNCHANGED <<files, loading, server, result>>

\* The configuration with the binding in it.
Bound(p, type) ==
    LET r == result[p]
        receive == IF GivenId[p] # None THEN GivenId[p] ELSE r.owner
    IN [cfg[p] EXCEPT !.webhook = TRUE, !.preset = "feishu_app", !.mode = "app_registration",
                      !.platform = r.platform, !.base = r.base, !.app = r.app,
                      !.owner = r.owner, !.receive = receive, !.rtype = type]

\* A receive id type that Validate does not know fails here, after the user has scanned.
SaveBinding(p) ==
    /\ bind[p] = "load" /\ at[p] = "loaded"
    /\ \E type \in GivenTypes[p] : LET c == ApplyDefaults(Bound(p, type)) IN
        cfg' = [cfg EXCEPT ![p] = c] /\ Bind(p, IF Validate(c) THEN "save" ELSE "failed")
    /\ UNCHANGED <<files, at, behind, server, polls, result>>

\* WriteConfigFile removes the old file first, on Windows only.
RemoveOld(p) ==
    /\ bind[p] = "save" /\ Bind(p, "rename")
    /\ \/ stable' = Missing /\ opened' = {}
       \/ UNCHANGED <<stable, opened>>
    /\ UNCHANGED <<legacy, loading, server, polls, result>>

\* The rename: from here on every other process is behind.
Rename(p) ==
    /\ bind[p] = "rename" /\ Bind(p, "done")
    /\ stable' = cfg[p] /\ opened' = {}
    /\ behind' = [q \in Procs |-> q # p]
    /\ UNCHANGED <<legacy, at, cfg, server, polls, result>>

BindStep(p) == Begin(p) \/ Poll(p) \/ Wait(p) \/ SaveBinding(p) \/ RemoveOld(p) \/ Rename(p)

\* openBaseURL: where the sender posts to with this configuration.
OpenHost(c) ==
    IF c.base # "" THEN c.base ELSE IF c.platform = "lark" THEN "open lark" ELSE "open feishu"
=============================================================================
