------------------------------- MODULE MCSetup -------------------------------
\* Instances of Setup for TLC.  No symmetry: liveness is checked.
EXTENDS Setup, TLC

CONSTANTS p1, p2, p3, a1, a2, a3, u1

\* A hook or a binder beside an installer, two hooks and a binder, and two runs
\* of install-hooks.
MCCasts == {p1 :> "hook" @@ p2 :> "none" @@ p3 :> "installer",
            p1 :> "none" @@ p2 :> "binder" @@ p3 :> "installer",
            p1 :> "hook" @@ p2 :> "binder" @@ p3 :> "hook",
            p1 :> "none" @@ p2 :> "install-hooks" @@ p3 :> "install-hooks"}

\* The binder's type comes from the command line, the installer's is fixed.
MCGivenTypes == [p \in Procs |-> IF p = p2 THEN {"open_id", "unknown"} ELSE {"open_id"}]

MCGivenId == p1 :> None @@ p2 :> u1 @@ p3 :> None

MCCreated == p1 :> a1 @@ p2 :> a2 @@ p3 :> a3

\* A configuration written by hand with a webhook of one's own, and one that a
\* binding was saved in.
ByHand == [DefaultConfig EXCEPT !.webhook = TRUE, !.url = TRUE]
BoundBefore ==
    [DefaultConfig EXCEPT !.webhook = TRUE, !.preset = "feishu_app", !.mode = "app_registration",
                          !.platform = "feishu", !.app = a1, !.owner = u1, !.receive = u1,
                          !.base = "accounts feishu", !.rtype = "open_id"]

MCFilesInit == {<<Missing, ByHand>>, <<BoundBefore, Missing>>}

\* One run of install-hooks.
MCInstallAlone == {p1 :> "none" @@ p2 :> "none" @@ p3 :> "install-hooks"}

\* A binder alone, before which there was no binding.
MCBinderAlone == {p1 :> "none" @@ p2 :> "binder" @@ p3 :> "none"}
MCUnbound == {<<Missing, ByHand>>}
=============================================================================
