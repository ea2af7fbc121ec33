------------------------------- MODULE Deploy --------------------------------
(***************************************************************************)
(* The pull-based deployment of the stack: ops/update.sh, with the hooks   *)
(* of ops/stack.sh and the timer of ops/install.sh, and the deployment by  *)
(* hand, with setup.sh, that it asks for.                                  *)
(*                                                                         *)
(* Commits of the deployed branch are numbered in order.  One run of the   *)
(* script is a sequence of steps on the checkout, the containers and the   *)
(* backups.  flock lets one run at a time past its first lines and holds   *)
(* off nothing else: git, setup.sh and docker compose by hand come between *)
(* any two steps of a run.  The checks that only make the script exit      *)
(* (local edits, a rewritten branch, nothing new) change nothing and are no*)
(* step.  It runs under `set -eu` with no trap: systemd's TimeoutStartSec, *)
(* the nightly reboot or a command that fails outside an `if` ends it      *)
(* between any two steps.                                                  *)
(***************************************************************************)
EXTENDS Naturals, Sequences

CONSTANTS
    Last,       \* the newest commit of an instance
    Broken,     \* the commits whose stack never passes the health check
    SetupOf,    \* the content of *.tmpl, .env.example and setup.sh at each
                \* commit: a later commit may take back an earlier change
    Marked,     \* the commits marked [manual-deploy]
    Keep,       \* UPDATE_BACKUP_KEEP
    Outside,    \* what else happens in an instance: "operator", somebody
                \* deploys by hand; "compose", `docker compose up` fails
    MaxBackups  \* bound on the backup directories

ASSUME LastAssumption == Last \in Nat /\ MaxBackups \in Nat
ASSUME CommitsAssumption == Broken \cup Marked \subseteq 1..Last
ASSUME OutsideAssumption == Outside \subseteq {"operator", "compose"}
ASSUME KeepAssumption == Keep \in Nat \ {0}

Commit == 0..Last
NoCommit == Last + 1

(* The files that setup.sh renders: Caddyfile, then local.toml.            *)
Config == {"caddy", "lore"}

VARIABLES
    origin,     \* origin/<branch>
    head,       \* HEAD of the checkout
    running,    \* the commit whose compose file the containers were made from
    stopped,    \* whether lore and auth are down, as stack_backup leaves them
    failed,     \* the content of .update-failed, or NoCommit
    backups,    \* the backup directories, oldest first
    pc,         \* the next command of the script, "idle" between runs
    from,       \* $head, the HEAD that the run read when it started
    target,     \* $target, the commit that it deploys
    rendered,   \* the commit each config was last rendered at (setup.sh)
    hand,       \* how far a deployment by hand has come, "no" without one
    (* History, which no step depends on.                                  *)
    clean,      \* the last `compose up` succeeded, and no run died since
    died,       \* a run died since the last whole deployment by hand
    crossed,    \* a run and a deployment by hand got in each other's way
                \* since the last one that no run came between
    byhand      \* the setup inputs that were pulled by hand

host == <<origin, rendered, hand, died, crossed, byhand>>
run == <<from, target>>
vars == <<host, run, head, running, stopped, failed, backups, pc, clean>>

Backup == [label : Commit, whole : BOOLEAN]

TakingOver == {"up", "check", "record", "reset", "reup"}
Steps == {"merge", "pull", "backup", "stop", "copy", "prune", "restore"} \cup TakingOver

(* The last conjunct is the bound that the retention step keeps.           *)
TypeOK ==
    /\ origin \in Commit /\ head \in Commit /\ running \in Commit
    /\ {stopped, clean, died, crossed} \subseteq BOOLEAN
    /\ hand \in {"no", "pulled", "half", "rendered"}
    /\ failed \in Commit \cup {NoCommit}
    /\ backups \in Seq(Backup) /\ Len(backups) <= MaxBackups
    /\ pc \in {"idle"} \cup Steps
    /\ from \in Commit /\ target \in Commit /\ rendered \in [Config -> Commit]
    /\ byhand \subseteq {SetupOf[c] : c \in Commit}
    /\ pc \in TakingOver => Len(backups) <= Keep

(* The host after its first setup.                                         *)
Init ==
    /\ origin = 0 /\ head = 0 /\ running = 0 /\ from = 0 /\ target = 0
    /\ rendered = [f \in Config |-> 0]
    /\ stopped = FALSE /\ clean = TRUE
    /\ hand = "no" /\ died = FALSE /\ crossed = FALSE /\ byhand = {SetupOf[0]}
    /\ failed = NoCommit
    /\ backups = <<>>
    /\ pc = "idle"

-----------------------------------------------------------------------------
(* The branch grows.                                                       *)
Push ==
    /\ origin < Last
    /\ origin' = origin + 1
    /\ UNCHANGED <<run, head, running, stopped, failed, backups, pc, rendered, hand, clean, died, crossed, byhand>>

-----------------------------------------------------------------------------
NewCommits == (head + 1)..origin

(* Mutant of SetupInputsChange: only the newest commit is looked at.       *)
NewestChangesSetup == SetupOf[origin] # SetupOf[origin - 1]

(* A diff of the two trees: a change that is taken back within the range   *)
(* is none.                                                                *)
SetupInputsChange == SetupOf[head] # SetupOf[origin]

(* The operator has pulled and not rendered all.                           *)
Pulled == hand \in {"pulled", "half"}

(* The run fetches, reads HEAD and passes the gates, on those two commits. *)
Fetch(force) ==
    /\ pc = "idle"
    /\ head # origin
    /\ force \/ failed # origin
    /\ ~SetupInputsChange
    /\ force \/ NewCommits \cap Marked = {}
    /\ from' = head
    /\ target' = origin
    /\ pc' = "merge"
    /\ crossed' = (crossed \/ Pulled)
    /\ UNCHANGED <<origin, rendered, hand, died, byhand, head, running, stopped, failed, backups, clean>>

(* The fast-forward, which leaves alone a HEAD that is past the target.    *)
Merge ==
    /\ pc = "merge"
    /\ head' = IF head < target THEN target ELSE head
    /\ pc' = "pull"
    /\ UNCHANGED <<host, run, running, stopped, failed, backups, clean>>

PullOk ==
    /\ pc = "pull"
    /\ pc' = "backup"
    /\ UNCHANGED <<host, run, head, running, stopped, failed, backups, clean>>

(* Mutant of PullFails: the checkout stays on the target.                  *)
PullFailsNoReset ==
    /\ pc = "pull"
    /\ pc' = "idle"
    /\ UNCHANGED <<host, run, head, running, stopped, failed, backups, clean>>

PullFails ==
    /\ pc = "pull"
    /\ head' = from
    /\ pc' = "idle"
    /\ UNCHANGED <<host, run, running, stopped, failed, backups, clean>>

-----------------------------------------------------------------------------
(* The backup: a directory with the config, then the volumes of the        *)
(* stopped writers.                                                        *)
MakeDir ==
    /\ pc = "backup"
    /\ Len(backups) < MaxBackups
    /\ backups' = Append(backups, [label |-> from, whole |-> FALSE])
    /\ pc' = "stop"
    /\ UNCHANGED <<host, run, head, running, stopped, failed, clean>>

StopWriters ==
    /\ pc = "stop"
    /\ stopped' = TRUE
    /\ pc' = "copy"
    /\ UNCHANGED <<host, run, head, running, failed, backups, clean>>

CopyVolumes ==
    /\ pc = "copy"
    /\ backups' = [backups EXCEPT ![Len(backups)].whole = TRUE]
    /\ pc' = "prune"
    /\ UNCHANGED <<host, run, head, running, stopped, failed, clean>>

BackupFails ==
    /\ pc \in {"backup", "stop", "copy"}
    /\ head' = from
    /\ pc' = "restore"
    /\ UNCHANGED <<host, run, running, stopped, failed, backups, clean>>

(* `docker compose up -d` at the commit c: it either brings all of it up   *)
(* or leaves any part of it undone.                                        *)
ComposeUp(c) ==
    /\ running' = c
    /\ stopped' = FALSE
    /\ clean' = TRUE

ComposeUpFails(c) ==
    /\ "compose" \in Outside
    /\ running' \in {running, c}
    /\ stopped' \in BOOLEAN
    /\ clean' = FALSE

(* "deploy by hand: git pull, ./setup.sh, then docker compose pull &&      *)
(* docker compose up -d": the operator, step by step, between runs and     *)
(* during them.  Runs may come between the steps too, and the operator may *)
(* leave it at any of them (setup.sh fails, a question comes up) or start  *)
(* over.                                                                   *)
HandPull ==
    /\ "operator" \in Outside
    /\ head' = origin
    /\ hand' = "pulled"
    /\ crossed' = (crossed \/ pc # "idle")
    /\ byhand' = byhand \cup {SetupOf[origin]}
    /\ UNCHANGED <<origin, run, rendered, died, running, stopped, failed, backups, pc, clean>>

(* setup.sh renders the one config, then the other; a template that is     *)
(* wrong ends it there, and it is started over.                            *)
HandSetup ==
    /\ Pulled
    /\ \/ hand' = "half" /\ rendered' = [rendered EXCEPT !["caddy"] = head]
       \/ hand = "half" /\ hand' = "rendered" /\ rendered' = [rendered EXCEPT !["lore"] = head]
    /\ UNCHANGED <<origin, died, crossed, byhand, run, head, running, stopped, failed, backups, pc, clean>>

AllRenderedAt(c) == \A f \in Config : rendered[f] = c

(* A deployment by hand is whole when no run is about and the configs are  *)
(* those of HEAD.                                                          *)
HandUp ==
    /\ hand = "rendered"
    /\ \/ ComposeUp(head) /\ hand' = "no"
       \/ ComposeUpFails(head) /\ UNCHANGED hand
    /\ LET whole == pc = "idle" /\ hand' = "no" /\ AllRenderedAt(head)
       IN  /\ died' = (died /\ ~whole)
           /\ crossed' = ((crossed \/ pc # "idle") /\ ~whole)
    /\ UNCHANGED <<origin, rendered, byhand, run, head, failed, backups, pc>>

-----------------------------------------------------------------------------
(* up -d || true after a backup that failed.                               *)
Restore ==
    /\ pc = "restore"
    /\ ComposeUp(head) \/ ComposeUpFails(head)
    /\ pc' = "idle"
    /\ UNCHANGED <<host, run, head, failed, backups>>

(* Mutant of Newest: the oldest directories are kept.                      *)
Oldest(k) == SubSeq(backups, 1, IF Len(backups) < k THEN Len(backups) ELSE k)

(* Mutant of Newest: one directory too many is kept.                       *)
NewestAndOne(k) == SubSeq(backups, IF Len(backups) > k + 1 THEN Len(backups) - k ELSE 1, Len(backups))

(* The newest k directories; their names sort by time.                     *)
Newest(k) == SubSeq(backups, IF Len(backups) > k THEN Len(backups) - k + 1 ELSE 1, Len(backups))

Prune ==
    /\ pc = "prune"
    /\ backups' = Newest(Keep)
    /\ pc' = "up"
    /\ UNCHANGED <<host, run, head, running, stopped, failed, clean>>

-----------------------------------------------------------------------------
(* docker compose up -d && wait_healthy                                    *)
Up ==
    /\ pc = "up"
    /\ \/ ComposeUp(head) /\ pc' = "check"
       \/ ComposeUpFails(head) /\ pc' = "record"
    /\ UNCHANGED <<host, run, head, failed, backups>>

Healthy ==
    /\ pc = "check"
    /\ running \notin Broken
    /\ failed' = NoCommit
    /\ pc' = "idle"
    /\ UNCHANGED <<host, run, head, running, stopped, backups, clean>>

(* A stack that is fine may still miss HEALTH_TIMEOUT.                     *)
Unhealthy ==
    /\ pc = "check"
    /\ pc' = "record"
    /\ UNCHANGED <<host, run, head, running, stopped, failed, backups, clean>>

RecordFailure ==
    /\ pc = "record"
    /\ failed' = target
    /\ pc' = "reset"
    /\ UNCHANGED <<host, run, head, running, stopped, backups, clean>>

(* Mutant of Reset: the checkout is left where it is.                      *)
ResetForgotten ==
    /\ pc = "reset"
    /\ pc' = "reup"
    /\ UNCHANGED <<host, run, head, running, stopped, failed, backups, clean>>

Reset ==
    /\ pc = "reset"
    /\ head' = from
    /\ pc' = "reup"
    /\ UNCHANGED <<host, run, running, stopped, failed, backups, clean>>

(* The rollback's own health check decides only what is reported.          *)
Rollback ==
    /\ pc = "reup"
    /\ ComposeUp(head) \/ ComposeUpFails(head)
    /\ pc' = "idle"
    /\ UNCHANGED <<host, run, head, failed, backups>>

-----------------------------------------------------------------------------
(* The run ends here: killed, or by `set -e`.  A reboot does the same, and *)
(* under `restart: unless-stopped` it starts no container that was stopped.*)
Die ==
    /\ pc # "idle"
    /\ pc' = "idle"
    /\ clean' = FALSE
    /\ died' = TRUE
    /\ UNCHANGED <<origin, rendered, hand, crossed, byhand, run, head, running, stopped, failed, backups>>

Script ==
    \/ Merge \/ PullOk \/ PullFails \/ MakeDir \/ StopWriters \/ CopyVolumes \/ BackupFails
    \/ Restore \/ Prune \/ Up \/ Healthy \/ Unhealthy \/ RecordFailure \/ Reset \/ Rollback

Next ==
    \/ Push
    \/ HandPull \/ HandSetup \/ HandUp
    \/ \E force \in BOOLEAN : Fetch(force)
    \/ Script
    \/ Die

Spec == Init /\ [][Next]_vars

(* The timer starts the script every night, and a script that is not       *)
(* killed goes on.  Nobody is assumed to push, or to work by hand.         *)
Nightly == WF_vars(Fetch(FALSE)) /\ WF_vars(Script)

FairSpec == Spec /\ Nightly

-----------------------------------------------------------------------------
(* From the moment the new version is brought up until the run ends, there *)
(* is a whole backup labelled with the commit the run came from, whatever  *)
(* runs died before it and left partial directories behind.                *)
RestorePoint ==
    pc \in TakingOver =>
        \E i \in DOMAIN backups : backups[i].whole /\ backups[i].label = from

(* "Template/env/setup changes mean configs must be re-rendered, which this*)
(* script never does, so those are deployed by hand even with --force":    *)
(* neither the checkout nor the containers ever have setup inputs that     *)
(* nobody pulled by hand, over runs, forced runs, fallbacks and deaths with*)
(* an operator at work between and during them.                            *)
SetupIsByHand == {SetupOf[head], SetupOf[running]} \subseteq byhand

(* The containers never run ahead of configs that were rendered from other *)
(* setup inputs, as long as no run was about while what an operator had    *)
(* pulled was not rendered: the gate compares the target with HEAD, not    *)
(* with what the configs were rendered from, and deploys over the gap.     *)
ConfigMatches ==
    ~crossed =>
        \A f \in Config : rendered[f] < running => SetupOf[rendered[f]] = SetupOf[running]

(* Between runs the containers are those of the checkout, with lore and    *)
(* auth up, unless a run died, compose could not bring the stack up or a   *)
(* deployment by hand is under way or crossed a run: every way out of the  *)
(* script that it handles leaves the two in step.  An operator's `up` while*)
(* the script pulls images does not, when that pull then fails.            *)
SettledRunsHead ==
    pc = "idle" /\ clean /\ hand = "no" /\ ~crossed => running = head /\ ~stopped

(* Between runs, a commit that failed its health check does not run unless *)
(* it was deployed by hand ("If the checks fail it rolls back to the       *)
(* previous commit and does not retry that commit"), as long as no run has *)
(* died and none crossed a deployment by hand: one that dies between the   *)
(* failure and the rollback leaves the failed commit checked out, as a     *)
(* `git pull` does, and a later run falls back to it.                      *)
FailedStaysOff ==
    pc = "idle" /\ clean /\ ~died /\ ~crossed /\ running = failed =>
        \A f \in Config : running <= rendered[f]

(* "the following `docker compose up -d` restarts them": with the timer    *)
(* going every night, and no `docker compose up` that fails, lore and auth *)
(* do not stay stopped.                                                    *)
StoppedAreRestarted == stopped ~> ~stopped
==============================================================================
