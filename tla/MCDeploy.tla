------------------------------ MODULE MCDeploy -------------------------------
(* Instances of Deploy for TLC.  The first has five commits: one changes   *)
(* the templates and the next, which is broken, takes that change back; the*)
(* third changes them for good and the last is marked [manual-deploy].     *)
EXTENDS Deploy

MCBroken == {2}
MCSetupOf == [c \in Commit |-> CASE c = 1 -> "draft" [] c \in {0, 2} -> "old" [] OTHER -> "new"]
MCMarked == {4}

NoChange == [c \in Commit |-> "old"]
Nothing == {}
Everything == {"operator", "compose"}
==============================================================================
