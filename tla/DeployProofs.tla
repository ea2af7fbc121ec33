----------------------------- MODULE DeployProofs -----------------------------
(***************************************************************************)
(* Proofs about Deploy, for any number of commits, any of them broken or   *)
(* marked, any contents of the setup inputs and any retention.  The        *)
(* inductive invariant follows a run of the script from the fetch to its   *)
(* end, and an operator's deployment from the pull to `docker compose up`, *)
(* between runs, and says what is left of it when the two cross.           *)
(***************************************************************************)
EXTENDS Deploy, SequenceTheorems, TLAPS

(* From the fast-forward until the checkout is reset.                      *)
AtTarget == {"pull", "backup", "stop", "copy", "prune", "up", "check", "record"}

(* Where HEAD is, during a run and during a deployment by hand that does   *)
(* not cross one.                                                          *)
OrderInv ==
    /\ head <= origin /\ running <= origin /\ from <= origin /\ target <= origin
    /\ pc # "idle" => from < target
    /\ ~crossed =>
        /\ pc = "merge" => head = from
        /\ pc \in AtTarget => head = target
        /\ pc \in {"restore", "reup"} => head = from
        /\ pc # "idle" => ~Pulled
        /\ Pulled => running <= head
        /\ hand = "half" => rendered["caddy"] = head

(* Nothing in the script changes the setup inputs, whatever the operator   *)
(* does meanwhile.                                                         *)
SetupInv ==
    /\ SetupOf[head] \in byhand /\ SetupOf[running] \in byhand
    /\ SetupOf[from] \in byhand /\ SetupOf[target] \in byhand
    /\ pc # "idle" => SetupOf[from] = SetupOf[target]

(* The backup of this run is the last one, and whole once it is copied.    *)
BackupInv ==
    /\ pc \in {"stop", "copy", "prune"} =>
        /\ Len(backups) > 0
        /\ backups[Len(backups)].label = from
    /\ pc = "prune" => backups[Len(backups)].whole
    /\ RestorePoint

(* The configs are good for the commit c, unless they are newer.           *)
GoodFor(c) == \A f \in Config : rendered[f] < c => SetupOf[rendered[f]] = SetupOf[c]

(* The configs are not newer than the commit c.                            *)
NotAhead(c) == \A f \in Config : rendered[f] <= c

(* The configs are good for all that may run next.                         *)
ConfigInv ==
    ~crossed =>
        /\ GoodFor(running)
        /\ NotAhead(head)
        /\ ~Pulled => GoodFor(head)
        /\ pc # "idle" => GoodFor(from) /\ GoodFor(target) /\ NotAhead(from)

(* Until the writers are stopped, and again from a clean `compose up` on,  *)
(* the containers are where the run says.                                  *)
SettledInv ==
    clean /\ ~crossed =>
        /\ pc = "idle" /\ hand = "no" => running = head /\ ~stopped
        /\ pc \in {"merge", "pull"} /\ hand = "no" => running = from /\ ~stopped
        /\ pc = "check" => running = head /\ ~stopped

(* A commit that may run: not the failed one unless it was rendered for.   *)
MayRun(c) == c = failed => \A f \in Config : c <= rendered[f]

(* What a run may fall back to, and what runs between runs.                *)
FailedInv ==
    ~died /\ ~crossed =>
        /\ pc = "idle" /\ ~Pulled => MayRun(head)
        /\ pc # "idle" => MayRun(from)
        /\ clean /\ pc \in {"idle", "merge", "pull"} => MayRun(running)

IInv == TypeOK /\ OrderInv /\ SetupInv /\ BackupInv /\ ConfigInv /\ SettledInv /\ FailedInv

-----------------------------------------------------------------------------
(* The commits are numbers; NoCommit is none of them.                      *)
LEMMA CommitsAreNumbers ==
    /\ Commit \subseteq Nat /\ 0 \in Commit /\ NoCommit \notin Commit
    /\ Keep \in Nat \ {0} /\ Last \in Nat /\ MaxBackups \in Nat
BY LastAssumption, CommitsAssumption, KeepAssumption DEF Commit, NoCommit

LEMMA StateIsNumbers ==
    ASSUME TypeOK
    PROVE  /\ origin \in Nat /\ head \in Nat /\ running \in Nat /\ from \in Nat /\ target \in Nat
           /\ \A f \in Config : rendered[f] \in Nat
<1>1. Commit \subseteq Nat
  BY CommitsAreNumbers
<1> QED BY <1>1 DEF TypeOK

(* The newest k directories of at least one: the last of them is kept.     *)
LEMMA NewestKeepsLast ==
    ASSUME backups \in Seq(Backup), Len(backups) > 0, NEW k \in Nat \ {0}
    PROVE  LET s == Newest(k) IN
           /\ s \in Seq(Backup)
           /\ Len(s) > 0 /\ Len(s) <= k /\ Len(s) <= Len(backups)
           /\ s[Len(s)] = backups[Len(backups)]
<1> DEFINE n == Len(backups)
           m == IF n > k THEN n - k + 1 ELSE 1
           s == SubSeq(backups, m, n)
<1>1. n \in Nat /\ n > 0 /\ \A i \in 1..n : backups[i] \in Backup
  BY LenProperties, ElementOfSeq
<1> HIDE DEF n
<1>2. m \in Int /\ m \in 1..n /\ n - m + 1 <= k /\ n - m + 1 <= n /\ n - m + 1 > 0
  BY <1>1
<1> HIDE DEF m
<1>3. \A i \in m..n : backups[i] \in Backup
  BY <1>1, <1>2
<1>4. /\ s \in Seq(Backup)
      /\ Len(s) = IF m <= n THEN n - m + 1 ELSE 0
      /\ \A i \in 1..(n - m + 1) : s[i] = backups[m + i - 1]
  <2> HIDE DEF s
  <2> QED BY <1>1, <1>2, <1>3, SubSeqProperties DEF s
<1> HIDE DEF s
<1>5. Len(s) = n - m + 1 /\ m <= n
  BY <1>1, <1>2, <1>4
<1>6. s[Len(s)] = backups[m + (n - m + 1) - 1]
  BY <1>1, <1>2, <1>4, <1>5
<1>7. m + (n - m + 1) - 1 = n
  BY <1>1, <1>2
<1> QED BY <1>1, <1>2, <1>4, <1>5, <1>6, <1>7 DEF Newest, s, m, n

LEMMA InitIInv == Init => IInv
<1> SUFFICES ASSUME Init
             PROVE  IInv
  OBVIOUS
<1> USE CommitsAreNumbers DEF Init
<1>1. TypeOK
  <2>1. backups \in Seq(Backup) /\ Len(backups) = 0
    BY EmptySeq
  <2>2. /\ origin \in Commit /\ head \in Commit /\ running \in Commit
        /\ from \in Commit /\ target \in Commit
        /\ {stopped, clean, died, crossed} \subseteq BOOLEAN
        /\ byhand \subseteq {SetupOf[c] : c \in Commit}
        /\ hand = "no" /\ failed = NoCommit /\ pc = "idle"
        /\ rendered \in [Config -> Commit]
    OBVIOUS
  <2> HIDE DEF Init
  <2> QED BY <2>1, <2>2 DEF TypeOK, Steps, TakingOver
<1>2. OrderInv /\ SetupInv
  BY DEF OrderInv, SetupInv, AtTarget, Pulled
<1>3. BackupInv
  BY DEF BackupInv, RestorePoint, TakingOver
<1>4. ConfigInv
  BY DEF ConfigInv, GoodFor, NotAhead
<1>5. SettledInv /\ FailedInv
  BY DEF SettledInv, FailedInv, MayRun
<1> QED BY <1>1, <1>2, <1>3, <1>4, <1>5 DEF IInv

-----------------------------------------------------------------------------
(* Steps between runs or that end one: no backup is claimed.               *)
LEMMA IdleBackups ==
    ASSUME pc' \in {"idle", "merge", "pull", "backup", "restore"}
    PROVE  BackupInv'
BY DEF BackupInv, RestorePoint, TakingOver

(* Steps within a run on the way from the prune to its end.                *)
LEMMA SameBackups ==
    ASSUME IInv, pc \in TakingOver, UNCHANGED <<backups, from>>
    PROVE  pc' \in TakingOver \cup {"idle"} => BackupInv' /\ Len(backups') <= Keep
BY DEF IInv, TypeOK, BackupInv, RestorePoint, TakingOver

(* What the operator does leaves the backups of a run alone.               *)
LEMMA BackupsLeft ==
    ASSUME IInv, UNCHANGED <<backups, from, pc>>
    PROVE  BackupInv'
BY DEF IInv, BackupInv, RestorePoint

LEMMA PushStep ==
    ASSUME IInv, Push
    PROVE  IInv'
<1> USE CommitsAreNumbers DEF IInv, Push, run
<1>1. TypeOK'
  BY DEF TypeOK, Commit
<1>2. OrderInv' /\ SetupInv'
  BY DEF TypeOK, OrderInv, SetupInv, Pulled
<1>3. BackupInv'
  BY BackupsLeft
<1>4. ConfigInv'
  BY DEF ConfigInv, GoodFor, NotAhead, Pulled
<1>5. SettledInv' /\ FailedInv'
  BY DEF SettledInv, FailedInv, MayRun, Pulled
<1> QED BY <1>1, <1>2, <1>3, <1>4, <1>5

(* The setup inputs of HEAD and the target are the same: configs that are  *)
(* good for one of them are good for the other.                            *)
LEMMA FetchStep ==
    ASSUME IInv, NEW force \in BOOLEAN, Fetch(force)
    PROVE  IInv'
<1> USE CommitsAreNumbers DEF IInv, Fetch
<1>1. TypeOK'
  BY DEF TypeOK, Steps, TakingOver
<1>2. OrderInv'
  <2>1. ~crossed' => ~crossed /\ ~Pulled
    BY DEF TypeOK
  <2>2. from' < target' /\ from' = head /\ target' = origin
    BY StateIsNumbers DEF OrderInv
  <2> QED BY <2>1, <2>2 DEF TypeOK, OrderInv, AtTarget, Pulled
<1>3. SetupInv'
  BY DEF SetupInv, SetupInputsChange
<1>4. BackupInv'
  BY IdleBackups
<1>5. ConfigInv'
  <2> SUFFICES ASSUME ~crossed'
               PROVE  GoodFor(running)' /\ NotAhead(head)' /\ GoodFor(head)' /\ GoodFor(origin)'
    BY DEF ConfigInv, GoodFor, NotAhead
  <2>1. ~crossed /\ ~Pulled
    BY DEF TypeOK
  <2>2. GoodFor(running) /\ NotAhead(head) /\ GoodFor(head)
    BY <2>1 DEF ConfigInv
  <2>3. GoodFor(origin)
    <3> SUFFICES ASSUME NEW f \in Config, rendered[f] < origin
                 PROVE  SetupOf[rendered[f]] = SetupOf[origin]
      BY DEF GoodFor
    <3>1. rendered[f] < head \/ rendered[f] = head
      BY <2>2, StateIsNumbers DEF NotAhead
    <3>2. SetupOf[rendered[f]] = SetupOf[head]
      BY <2>2, <3>1 DEF GoodFor
    <3> QED BY <3>2 DEF SetupInputsChange
  <2> QED BY <2>2, <2>3 DEF GoodFor, NotAhead
<1>6. SettledInv' /\ FailedInv'
  BY DEF TypeOK, SettledInv, FailedInv, MayRun, Pulled
<1> QED BY <1>1, <1>2, <1>3, <1>4, <1>5, <1>6

(* The fast-forward ends at the target or where the operator has pulled to.*)
LEMMA MergeStep ==
    ASSUME IInv, Merge
    PROVE  IInv'
<1> USE CommitsAreNumbers DEF IInv, Merge, host, run
<1>1. TypeOK'
  BY DEF TypeOK, Steps, TakingOver
<1>2. OrderInv' /\ SetupInv'
  BY DEF TypeOK, OrderInv, SetupInv, AtTarget, Pulled
<1>3. BackupInv'
  BY IdleBackups
<1>4. ConfigInv'
  <2>1. ~crossed => head' = target /\ head < target
    BY DEF TypeOK, OrderInv
  <2>2. ~crossed => \A f \in Config : rendered[f] <= target
    BY <2>1, StateIsNumbers DEF ConfigInv, NotAhead
  <2> QED BY <2>1, <2>2 DEF ConfigInv, GoodFor, NotAhead, Pulled
<1>5. SettledInv' /\ FailedInv'
  BY DEF SettledInv, FailedInv, MayRun, Pulled
<1> QED BY <1>1, <1>2, <1>3, <1>4, <1>5

(* The pull of the images: the run goes on or HEAD goes back.              *)
LEMMA PullStep ==
    ASSUME IInv, PullOk \/ PullFails
    PROVE  IInv'
<1> USE CommitsAreNumbers DEF IInv, PullOk, PullFails, host, run
<1>1. TypeOK'
  BY DEF TypeOK, Steps, TakingOver
<1>2. OrderInv' /\ SetupInv'
  BY DEF TypeOK, OrderInv, SetupInv, AtTarget, Pulled
<1>3. BackupInv'
  BY IdleBackups
<1>4. ConfigInv'
  BY DEF ConfigInv, GoodFor, NotAhead, OrderInv, Pulled
<1>5. SettledInv' /\ FailedInv'
  BY DEF SettledInv, FailedInv, MayRun, OrderInv, Pulled
<1> QED BY <1>1, <1>2, <1>3, <1>4, <1>5

-----------------------------------------------------------------------------
(* The backup, step by step: what the last directory is.                   *)
LEMMA MakeDirStep ==
    ASSUME IInv, MakeDir
    PROVE  IInv'
<1> USE CommitsAreNumbers DEF IInv, MakeDir, host, run
<1> DEFINE d == [label |-> from, whole |-> FALSE]
<1>1. d \in Backup /\ d.label = from
  BY DEF TypeOK, Backup
<1>2. /\ backups' \in Seq(Backup) /\ Len(backups') = Len(backups) + 1
      /\ backups'[Len(backups')] = d
  BY <1>1, AppendProperties DEF TypeOK
<1> HIDE DEF d
<1>3. TypeOK'
  BY <1>2 DEF TypeOK, Steps, TakingOver
<1>4. BackupInv'
  BY <1>1, <1>2 DEF TypeOK, BackupInv, RestorePoint, TakingOver
<1>5. OrderInv' /\ SetupInv' /\ ConfigInv' /\ SettledInv' /\ FailedInv'
  BY DEF OrderInv, SetupInv, AtTarget, ConfigInv, GoodFor, NotAhead, SettledInv, FailedInv, MayRun, Pulled
<1> QED BY <1>3, <1>4, <1>5

LEMMA StopWritersStep ==
    ASSUME IInv, StopWriters
    PROVE  IInv'
<1> USE DEF IInv, StopWriters, host, run
<1>1. TypeOK'
  BY DEF TypeOK, Steps, TakingOver
<1>2. BackupInv'
  BY DEF BackupInv, RestorePoint, TakingOver
<1>3. OrderInv' /\ SetupInv' /\ ConfigInv' /\ SettledInv' /\ FailedInv'
  BY DEF OrderInv, SetupInv, AtTarget, ConfigInv, GoodFor, NotAhead, SettledInv, FailedInv, MayRun, Pulled
<1> QED BY <1>1, <1>2, <1>3

(* A backup whose copy is done keeps its label.                            *)
LEMMA WholeBackup ==
    ASSUME NEW b \in Backup
    PROVE  LET d == [b EXCEPT !.whole = TRUE]
           IN  d \in Backup /\ d.label = b.label /\ d.whole
<1>1. [b EXCEPT !.whole = TRUE] \in Backup
  BY DEF Backup
<1>2. [b EXCEPT !.whole = TRUE].label = b.label
  BY DEF Backup
<1>3. [b EXCEPT !.whole = TRUE].whole
  BY DEF Backup
<1> QED BY <1>1, <1>2, <1>3

LEMMA CopyVolumesStep ==
    ASSUME IInv, CopyVolumes
    PROVE  IInv'
<1> USE DEF IInv
<1> DEFINE n == Len(backups)
           d == [backups[n] EXCEPT !.whole = TRUE]
<1>1. /\ backups \in Seq(Backup) /\ n \in 1..Len(backups)
      /\ backups[n] \in Backup /\ backups[n].label = from
  BY LenProperties, ElementOfSeq DEF TypeOK, BackupInv, CopyVolumes
<1>2. d \in Backup /\ d.label = from /\ d.whole
  BY <1>1, WholeBackup
<1>3. backups' = [backups EXCEPT ![n] = d]
  BY DEF CopyVolumes
<1> HIDE DEF d, n
<1>4. backups' \in Seq(Backup) /\ Len(backups') = Len(backups) /\ backups'[n] = d
  BY <1>1, <1>2, <1>3, ExceptSeq
<1>5. UNCHANGED <<host, run, head, running, stopped, failed, clean>> /\ pc = "copy" /\ pc' = "prune"
  BY DEF CopyVolumes
<1>6. TypeOK'
  BY <1>4, <1>5 DEF TypeOK, Steps, TakingOver, host, run
<1>7. BackupInv'
  BY <1>1, <1>2, <1>4, <1>5 DEF BackupInv, RestorePoint, TakingOver, n, host, run
<1>8. OrderInv' /\ SetupInv' /\ ConfigInv' /\ SettledInv' /\ FailedInv'
  BY <1>5 DEF OrderInv, SetupInv, AtTarget, ConfigInv, GoodFor, NotAhead, SettledInv, FailedInv, MayRun, Pulled, host, run
<1> QED BY <1>6, <1>7, <1>8

(* Retention keeps the last directory, and with it the restore point.      *)
LEMMA PruneStep ==
    ASSUME IInv, Prune
    PROVE  IInv'
<1> USE CommitsAreNumbers DEF IInv, Prune, host, run
<1>1. /\ backups' \in Seq(Backup)
      /\ Len(backups') > 0 /\ Len(backups') <= Keep /\ Len(backups') <= Len(backups)
      /\ backups'[Len(backups')] = backups[Len(backups)]
  BY NewestKeepsLast DEF TypeOK, BackupInv
<1>2. TypeOK'
  BY <1>1 DEF TypeOK, Steps, TakingOver
<1>3. BackupInv'
  <2>1. Len(backups') \in DOMAIN backups'
    BY <1>1
  <2>2. /\ backups[Len(backups)].whole
        /\ backups[Len(backups)].label = from
    BY DEF BackupInv
  <2> QED BY <1>1, <2>1, <2>2 DEF BackupInv, RestorePoint
<1>4. OrderInv' /\ SetupInv' /\ ConfigInv' /\ SettledInv' /\ FailedInv'
  BY DEF OrderInv, SetupInv, AtTarget, ConfigInv, GoodFor, NotAhead, SettledInv, FailedInv, MayRun, Pulled
<1> QED BY <1>2, <1>3, <1>4

LEMMA BackupFailsStep ==
    ASSUME IInv, BackupFails
    PROVE  IInv'
<1> USE CommitsAreNumbers DEF IInv, BackupFails, host, run
<1>1. TypeOK'
  BY DEF TypeOK, Steps, TakingOver
<1>2. OrderInv' /\ SetupInv'
  BY DEF TypeOK, OrderInv, SetupInv, AtTarget, Pulled
<1>3. BackupInv'
  BY IdleBackups
<1>4. ConfigInv' /\ SettledInv' /\ FailedInv'
  BY DEF ConfigInv, GoodFor, NotAhead, SettledInv, FailedInv, MayRun, Pulled
<1> QED BY <1>1, <1>2, <1>3, <1>4

-----------------------------------------------------------------------------
(* The old version is brought up again, after a backup or a version that   *)
(* failed: HEAD is the commit the run came from.                           *)
LEMMA FallBackStep ==
    ASSUME IInv, Restore \/ Rollback
    PROVE  IInv'
<1> USE CommitsAreNumbers DEF IInv, Restore, Rollback, ComposeUp, ComposeUpFails, host, run
<1>1. TypeOK'
  BY DEF TypeOK, Steps, TakingOver
<1>2. OrderInv' /\ SetupInv'
  BY DEF TypeOK, OrderInv, SetupInv, AtTarget, Pulled
<1>3. BackupInv'
  BY IdleBackups
<1>4. ConfigInv'
  BY DEF ConfigInv, GoodFor, NotAhead, OrderInv, Pulled
<1>5. SettledInv'
  BY DEF SettledInv
<1>6. FailedInv'
  BY DEF FailedInv, OrderInv, MayRun, Pulled
<1> QED BY <1>1, <1>2, <1>3, <1>4, <1>5, <1>6

LEMMA UpStep ==
    ASSUME IInv, Up
    PROVE  IInv'
<1> USE CommitsAreNumbers DEF IInv, Up, ComposeUp, ComposeUpFails, host, run
<1>1. TypeOK'
  BY DEF TypeOK, Steps, TakingOver
<1>2. OrderInv' /\ SetupInv'
  BY DEF TypeOK, OrderInv, SetupInv, AtTarget, Pulled
<1>3. BackupInv'
  BY SameBackups DEF TakingOver
<1>4. ConfigInv'
  BY DEF ConfigInv, GoodFor, NotAhead, OrderInv, Pulled
<1>5. SettledInv' /\ FailedInv'
  BY DEF SettledInv, FailedInv, MayRun, Pulled
<1> QED BY <1>1, <1>2, <1>3, <1>4, <1>5

(* The health check decides whether the failure is recorded or forgotten.  *)
LEMMA CheckStep ==
    ASSUME IInv, Healthy \/ Unhealthy \/ RecordFailure
    PROVE  IInv'
<1> USE CommitsAreNumbers DEF IInv, Healthy, Unhealthy, RecordFailure, host, run
<1>1. TypeOK'
  BY DEF TypeOK, Steps, TakingOver
<1>2. OrderInv' /\ SetupInv'
  BY DEF TypeOK, OrderInv, SetupInv, AtTarget, Pulled
<1>3. BackupInv'
  BY SameBackups DEF TakingOver
<1>4. ConfigInv' /\ SettledInv'
  BY DEF ConfigInv, GoodFor, NotAhead, OrderInv, SettledInv, Pulled
<1>5. FailedInv'
  BY DEF TypeOK, FailedInv, OrderInv, AtTarget, MayRun, Pulled
<1> QED BY <1>1, <1>2, <1>3, <1>4, <1>5

LEMMA ResetStep ==
    ASSUME IInv, Reset
    PROVE  IInv'
<1> USE CommitsAreNumbers DEF IInv, Reset, host, run
<1>1. TypeOK'
  BY DEF TypeOK, Steps, TakingOver
<1>2. OrderInv' /\ SetupInv'
  BY DEF TypeOK, OrderInv, SetupInv, AtTarget, Pulled
<1>3. BackupInv'
  BY SameBackups DEF TakingOver
<1>4. ConfigInv' /\ SettledInv' /\ FailedInv'
  BY DEF ConfigInv, GoodFor, NotAhead, SettledInv, FailedInv, MayRun, Pulled
<1> QED BY <1>1, <1>2, <1>3, <1>4

-----------------------------------------------------------------------------
(* The operator, between runs and during them.                             *)
LEMMA HandPullStep ==
    ASSUME IInv, HandPull
    PROVE  IInv'
<1> USE CommitsAreNumbers DEF IInv, HandPull, run
<1>1. TypeOK'
  BY DEF TypeOK
<1>2. OrderInv'
  <2>1. ~crossed' => ~crossed /\ pc = "idle" /\ pc' = "idle"
    BY DEF TypeOK
  <2>2. hand' = "pulled" /\ running' <= head' /\ head' <= origin'
    BY StateIsNumbers DEF OrderInv
  <2> QED BY <2>1, <2>2 DEF OrderInv, AtTarget, Pulled
<1>3. SetupInv'
  BY DEF SetupInv
<1>4. BackupInv'
  BY BackupsLeft
<1>5. ConfigInv'
  <2>1. ~crossed => \A f \in Config : rendered[f] <= origin
    BY StateIsNumbers DEF OrderInv, ConfigInv, NotAhead
  <2> QED BY <2>1 DEF TypeOK, ConfigInv, GoodFor, NotAhead, Pulled
<1>6. SettledInv' /\ FailedInv'
  BY DEF TypeOK, SettledInv, FailedInv, MayRun, Pulled
<1> QED BY <1>1, <1>2, <1>3, <1>4, <1>5, <1>6

(* Rendering at HEAD, which is not behind the containers as long as no run *)
(* came between: no config falls behind of what it was good for.           *)
LEMMA HandSetupStep ==
    ASSUME IInv, HandSetup
    PROVE  IInv'
<1> USE CommitsAreNumbers DEF IInv, HandSetup, Config, run
<1>1. TypeOK'
  BY DEF TypeOK
<1>2. OrderInv' /\ SetupInv'
  BY DEF TypeOK, OrderInv, SetupInv, AtTarget, Pulled
<1>3. BackupInv'
  BY BackupsLeft
<1>4. \A f \in Config : rendered'[f] \in {rendered[f], head}
  BY DEF TypeOK
<1>5. ~crossed => running <= head /\ pc = "idle"
  BY DEF TypeOK, OrderInv
<1>6. hand' = "rendered" /\ ~crossed => \A f \in Config : rendered'[f] = head
  BY DEF TypeOK, OrderInv
<1>7. ConfigInv'
  BY <1>4, <1>5, <1>6 DEF TypeOK, ConfigInv, GoodFor, NotAhead, Pulled
<1>8. SettledInv'
  BY <1>5 DEF TypeOK, SettledInv
<1>9. FailedInv'
  BY <1>4, <1>5, <1>6 DEF TypeOK, FailedInv, MayRun, Pulled
<1> QED BY <1>1, <1>2, <1>3, <1>7, <1>8, <1>9

(* A deployment by hand that is whole starts everything anew; one that ends*)
(* during a run says nothing.                                              *)
LEMMA HandUpStep ==
    ASSUME IInv, HandUp
    PROVE  IInv'
<1> USE CommitsAreNumbers DEF IInv, HandUp, ComposeUp, ComposeUpFails, run
<1>1. TypeOK'
  BY DEF TypeOK
<1>2. OrderInv' /\ SetupInv'
  BY DEF TypeOK, OrderInv, SetupInv, AtTarget, Pulled
<1>3. BackupInv'
  BY BackupsLeft
<1>4. CASE pc = "idle" /\ hand' = "no" /\ AllRenderedAt(head)
  <2>1. running' = head /\ ~stopped' /\ \A f \in Config : rendered[f] = head
    BY <1>4 DEF AllRenderedAt
  <2>2. ConfigInv'
    BY <1>4, <2>1, StateIsNumbers DEF ConfigInv, GoodFor, NotAhead
  <2>3. SettledInv' /\ FailedInv'
    BY <1>4, <2>1 DEF TypeOK, SettledInv, FailedInv, MayRun
  <2> QED BY <1>1, <1>2, <1>3, <2>2, <2>3
<1>5. CASE ~(pc = "idle" /\ hand' = "no" /\ AllRenderedAt(head))
  <2>1. /\ hand' = "no" => running' = head /\ ~stopped'
        /\ hand' = "no" \/ ~clean'
        /\ running' \in {running, head} /\ died' = died
        /\ ~crossed' => ~crossed /\ pc = "idle"
        /\ hand = "rendered" /\ hand' \in {"no", "rendered"}
    BY <1>5 DEF TypeOK
  <2>2. ConfigInv'
    BY <2>1 DEF ConfigInv, GoodFor, NotAhead, Pulled
  <2>3. SettledInv'
    BY <2>1 DEF SettledInv
  <2>4. FailedInv'
    BY <2>1 DEF FailedInv, MayRun, Pulled
  <2> QED BY <1>1, <1>2, <1>3, <2>2, <2>3, <2>4
<1> QED BY <1>4, <1>5

(* A run that dies leaves HEAD where it is, the run's commit or the target.*)
LEMMA DieStep ==
    ASSUME IInv, Die
    PROVE  IInv'
<1> USE CommitsAreNumbers DEF IInv, Die, run
<1>1. TypeOK'
  BY DEF TypeOK, TakingOver
<1>2. OrderInv' /\ SetupInv'
  BY DEF TypeOK, OrderInv, SetupInv, AtTarget, Pulled
<1>3. BackupInv'
  BY IdleBackups
<1>4. ConfigInv' /\ SettledInv' /\ FailedInv'
  BY DEF ConfigInv, GoodFor, NotAhead, SettledInv, FailedInv, Pulled
<1> QED BY <1>1, <1>2, <1>3, <1>4

LEMMA StepIInv ==
    ASSUME IInv, [Next]_vars
    PROVE  IInv'
<1>1. CASE UNCHANGED vars
  BY <1>1 DEF vars, host, run, IInv, TypeOK, OrderInv, SetupInv, BackupInv, RestorePoint, ConfigInv,
              GoodFor, NotAhead, SettledInv, FailedInv, MayRun, Pulled
<1> QED
  BY <1>1, PushStep, FetchStep, MergeStep, PullStep, MakeDirStep, StopWritersStep, CopyVolumesStep, PruneStep,
     BackupFailsStep, FallBackStep, UpStep, CheckStep, ResetStep, HandPullStep, HandSetupStep,
     HandUpStep, DieStep
  DEF Next, Script

LEMMA Invariant == Spec => []IInv
BY InitIInv, StepIInv, PTL DEF Spec

-----------------------------------------------------------------------------
(* The checkout, the containers, the backups and the script keep their     *)
(* types; no more backups than Keep are left when a version takes over.    *)
THEOREM TypeCorrect == Spec => []TypeOK
<1>1. IInv => TypeOK
  BY DEF IInv
<1> QED BY <1>1, Invariant, PTL

(* From `docker compose up` to its end, a run of update.sh has a whole     *)
(* backup of the commit it came from, for any retention and any number of  *)
(* earlier runs that died.                                                 *)
THEOREM RestorePointThere == Spec => []RestorePoint
<1>1. IInv => RestorePoint
  BY DEF IInv, BackupInv
<1> QED BY <1>1, Invariant, PTL

(* Whatever the operator does, between runs or during them, no run changes *)
(* the setup inputs in the checkout or in the containers: those that are   *)
(* there were pulled by hand.                                              *)
THEOREM SetupChangesByHand == Spec => []SetupIsByHand
<1>1. IInv => SetupIsByHand
  BY DEF IInv, SetupInv, SetupIsByHand
<1> QED BY <1>1, Invariant, PTL

(* Until a run and a deployment by hand cross, the containers do not run   *)
(* ahead of the configs: no sequence of runs, forced or dying, and of      *)
(* deployments by hand between them, whole or given up, gets them there.   *)
THEOREM ConfigsMatch == Spec => []ConfigMatches
<1>1. IInv => ConfigMatches
  BY DEF IInv, ConfigInv, GoodFor, ConfigMatches
<1> QED BY <1>1, Invariant, PTL

(* Until then every handled outcome of update.sh leaves the containers at  *)
(* HEAD, with the writers up.                                              *)
THEOREM SettledAtHead == Spec => []SettledRunsHead
<1>1. IInv => SettledRunsHead
  BY DEF IInv, SettledInv, SettledRunsHead
<1> QED BY <1>1, Invariant, PTL

(* A commit that failed its health check stays off until it is deployed by *)
(* hand or a deployment by hand crosses a run.                             *)
THEOREM FailedIsOff == Spec => []FailedStaysOff
<1>1. IInv => FailedStaysOff
  BY DEF IInv, FailedInv, MayRun, FailedStaysOff
<1> QED BY <1>1, Invariant, PTL
==============================================================================
