------------------------------ MODULE Updater ------------------------------
(***************************************************************************)
(* The auto-updater (cmd/wgserver-updater and internal/updater): an hourly *)
(* systemd oneshot that downloads the latest release, swaps it in for      *)
(* /usr/local/bin/wgserver, restarts the service, polls /healthz, and puts *)
(* the previous binary back if that fails.                                 *)
(*                                                                         *)
(* It keeps no state but the files: what it knows of the installed version *)
(* is what the binary on disk prints.  It can fail at every step, its      *)
(* five-minute context can expire, and systemd can kill it after the same  *)
(* five minutes, or a reboot at any time.                                  *)
(*                                                                         *)
(* The updater modelled is one with update.enabled and no WGSERVER_VERSION *)
(* pin: otherwise it does nothing.                                         *)
(*                                                                         *)
(* What both install and rollback rename onto CurrentBin is a file of      *)
(* os.CreateTemp, whose mode is 0600, and copyFile's mode argument counts  *)
(* only for a file it creates: so what they leave there cannot be executed *)
(* by anyone.  The tests compare the bytes, and restart nothing.           *)
(***************************************************************************)
EXTENDS Semver

CONSTANTS
    Versions,   \* of releases and builds, in the order of their commits
    Builds,     \* those deploy.sh makes between releases (git describe)
    Tag,        \* what `version` prints for each, as semverCompare reads it
    Good,       \* those whose daemon answers /healthz with 200
    Broken,     \* those that cannot run at all, `version` included
    First       \* the version there is to begin with

ASSUME VersionsAssumption ==
    /\ Versions \subseteq Nat \ {0}
    /\ Good \subseteq Versions /\ Broken \subseteq Versions \ Good
    /\ Builds \subseteq Versions /\ First \in Good \ Builds
    /\ Tag \in [Versions -> Seq(Seq(Int))]

\* Releases are tagged upwards.
ASSUME ReleasesAssumption ==
    \A v \in Versions \ Builds :
        /\ IsRelease(Tag[v])
        /\ \A w \in Versions \ Builds : v < w => Earlier(Tag[v], Tag[w])

\* A build is named for the last release before it, with more characters after
\* the release's own ("-5-gabcdef", "-dirty").
ASSUME BuildsAssumption ==
    \A v \in Builds : \E b \in Versions \ Builds :
        /\ b < v /\ \A w \in Versions \ Builds : w < v => w <= b
        /\ Len(Tag[v]) = 3 /\ Tag[v][1] = Tag[b][1] /\ Tag[v][2] = Tag[b][2]
        /\ Len(Tag[v][3]) > Len(Tag[b][3])

Torn == 0       \* half a binary
None == 0       \* no daemon at all

VARIABLES
    latest,     \* GitHub's latest release
    disk,       \* the binary at CurrentBin
    executable, \* whether its mode lets it be executed
    running,    \* the version the service runs
    backup,     \* the lexicographically last wgserver.bak.*, if any: what
                \* rollback restores (Torn stands for none too)
    pc,         \* the updater's next step
    from, to,   \* Result.FromVersion and ToVersion
    result,     \* Result.Action, or "error", or "killed"
    expired,    \* the updater's context is done
    \* History variables.
    swapped,    \* the updater has written CurrentBin since the last Install
    meddled,    \* an Install came after the last check began
    stepped     \* the clock was set back to before the last backup

files == <<disk, executable, backup, swapped>>
vars  == <<latest, disk, executable, running, backup, pc, from, to, result,
           expired, swapped, meddled, stepped>>

Steps == {"idle", "release", "download", "backup", "swap", "restart",
          "health", "rollback", "restartBack"}
Outcomes == {"none", "skipped", "no-update", "updated", "rolled-back",
             "error", "killed"}

TypeOK ==
    /\ latest \in Versions
    /\ disk \in Versions \union {Torn}
    /\ executable \in BOOLEAN
    /\ running \in (Versions \ Broken) \union {None}
    /\ backup \in Versions \union {Torn}
    /\ pc \in Steps
    /\ from \in Versions /\ to \in Versions
    /\ pc \in Steps \ {"idle", "release"} => from < to
    /\ result \in Outcomes
    /\ pc # "idle" <=> result = "none"
    /\ expired \in BOOLEAN
    /\ swapped \in BOOLEAN /\ meddled \in BOOLEAN /\ stepped \in BOOLEAN

Init ==
    /\ latest = First /\ running = First
    /\ disk = First /\ executable = TRUE /\ backup = Torn
    /\ pc = "idle" /\ from = First /\ to = First /\ result = "skipped"
    /\ expired = FALSE
    /\ swapped = FALSE /\ meddled = FALSE /\ stepped = FALSE

Runnable == executable /\ disk \in Versions \ Broken

\* What systemd gets when it starts the service; for a Type=simple unit the
\* start succeeds whether or not the binary can be executed.
Started == IF Runnable THEN disk ELSE None

-----------------------------------------------------------------------------
End(outcome) == pc' = "idle" /\ result' = outcome

Go(step) == pc' = step /\ UNCHANGED result

\* The rename of a temporary file, with v in it, onto CurrentBin.
Rename(v) ==
    /\ disk' = v
    /\ executable' = FALSE
    /\ swapped' = TRUE

\* Mutated form of Check: an installed binary that does not print its version
\* is updated like any other.
CheckUnversioned ==
    /\ pc = "idle"
    /\ expired' = FALSE /\ meddled' = FALSE
    /\ pc' = "release" /\ result' = "none"
    /\ from' = IF Runnable THEN disk ELSE from
    /\ UNCHANGED <<latest, files, running, to, stepped>>

\* The timer fires: detectCurrentVersion runs the binary on disk.
Check ==
    /\ pc = "idle"
    /\ expired' = FALSE /\ meddled' = FALSE
    /\ IF Runnable
       THEN pc' = "release" /\ result' = "none" /\ from' = disk
       ELSE End("skipped") /\ UNCHANGED from                    \* "dev"
    /\ UNCHANGED <<latest, files, running, to, stepped>>

\* Mutated form of LatestRelease: any other version is an update.
LatestReleaseOther ==
    /\ pc = "release"
    /\ ~expired
    /\ to' = latest
    /\ IF Tag[from] = Tag[latest] THEN End("no-update") ELSE Go("download")
    /\ UNCHANGED <<latest, files, running, from, expired, meddled, stepped>>

\* Later or not is decided by the names of the two versions alone.
LatestRelease ==
    /\ pc = "release"
    /\ ~expired
    /\ to' = latest
    /\ IF semverCompare(Tag[from], Tag[latest]) >= 0
       THEN End("no-update") ELSE Go("download")
    /\ UNCHANGED <<latest, files, running, from, expired, meddled, stepped>>

\* GitHub cannot be asked, or has no release at all.
LatestReleaseFails ==
    /\ pc = "release"
    /\ End("error")
    /\ UNCHANGED <<latest, files, running, from, to, expired, meddled, stepped>>

\* DownloadAndVerify: what is kept is the release's binary, whole.
Download ==
    /\ pc = "download"
    /\ ~expired
    /\ Go("backup")
    /\ UNCHANGED <<latest, files, running, from, to, expired, meddled, stepped>>

\* No asset for the platform, or a download or a checksum that fails.
DownloadFails ==
    /\ pc = "download"
    /\ \/ End("error")
       \/ End("no-update")
    /\ UNCHANGED <<latest, files, running, from, to, expired, meddled, stepped>>

\* Mutated form of Backup: one name for all backups, kept once it is there.
BackupOnce ==
    /\ pc = "backup"
    /\ backup' = IF backup = Torn THEN disk ELSE backup
    /\ Go("swap")
    /\ UNCHANGED <<latest, disk, executable, swapped, running, from, to, expired,
                   meddled, stepped>>

\* install copies the binary on disk to a file named for the time.  It comes
\* last in the order of names, unless the clock was set back.
Backup ==
    /\ pc = "backup"
    /\ \/ backup' = disk /\ UNCHANGED stepped
       \/ UNCHANGED backup /\ stepped' = TRUE
    /\ Go("swap")
    /\ UNCHANGED <<latest, disk, executable, swapped, running, from, to, expired, meddled>>

\* The copy does not begin, or fails half way and stays, under that name, as
\* it is.
BackupFails ==
    /\ pc = "backup"
    /\ \/ UNCHANGED <<backup, stepped>>
       \/ backup' = Torn /\ UNCHANGED stepped
       \/ UNCHANGED backup /\ stepped' = TRUE
    /\ End("error")
    /\ UNCHANGED <<latest, disk, executable, swapped, running, from, to, expired, meddled>>

\* The copy to a temporary file, and the rename.
Swap ==
    /\ pc = "swap"
    /\ Rename(to)
    /\ Go("restart")
    /\ UNCHANGED <<latest, running, backup, from, to, expired, meddled, stepped>>

\* Mutated form of SwapFails: the copy is made in place.
SwapFailsInPlace ==
    /\ pc = "swap"
    /\ disk' \in {disk, Torn}
    /\ swapped' = TRUE
    /\ End("error")
    /\ UNCHANGED <<latest, executable, running, backup, from, to, expired, meddled, stepped>>

SwapFails ==
    /\ pc = "swap"
    /\ End("error")
    /\ UNCHANGED <<latest, files, running, from, to, expired, meddled, stepped>>

\* systemctl restart: the service now runs what is on disk, if it can be.
Restart ==
    /\ pc = "restart"
    /\ ~expired
    /\ running' = Started
    /\ Go("health")
    /\ UNCHANGED <<latest, files, from, to, expired, meddled, stepped>>

\* systemctl fails, or is killed with the context: the job it queued may or
\* may not go through.  Check returns the error; nothing is put back.
RestartFails ==
    /\ pc = "restart"
    /\ running' \in {running, Started}
    /\ End("error")
    /\ UNCHANGED <<latest, files, from, to, expired, meddled, stepped>>

\* One of the 30 polls is answered with 200.
HealthCheck ==
    /\ pc = "health"
    /\ ~expired
    /\ running \in Good
    /\ End("updated")
    /\ UNCHANGED <<latest, files, running, from, to, expired, meddled, stepped>>

\* None is (a good release may be slow to start), or the context expires.
HealthCheckFails ==
    /\ pc = "health"
    /\ Go("rollback")
    /\ UNCHANGED <<latest, files, running, from, to, expired, meddled, stepped>>

\* rollback looks neither at the context nor at what it copies.
Rollback ==
    /\ pc = "rollback"
    /\ Rename(backup)
    /\ Go("restartBack")
    /\ UNCHANGED <<latest, running, backup, from, to, expired, meddled, stepped>>

RollbackFails ==
    /\ pc = "rollback"
    /\ End("error")
    /\ UNCHANGED <<latest, files, running, from, to, expired, meddled, stepped>>

RestartBack ==
    /\ pc = "restartBack"
    /\ ~expired
    /\ running' = Started
    /\ End("rolled-back")
    /\ UNCHANGED <<latest, files, from, to, expired, meddled, stepped>>

RestartBackFails ==
    /\ pc = "restartBack"
    /\ running' \in {running, Started}
    /\ End("error")
    /\ UNCHANGED <<latest, files, from, to, expired, meddled, stepped>>

-----------------------------------------------------------------------------
(***************************************************************************)
(* The environment.                                                        *)
(***************************************************************************)

\* A release is published, or one is withdrawn.
Publish(v) ==
    /\ v \in Versions \ (Builds \union {latest})
    /\ latest' = v
    /\ UNCHANGED <<files, running, pc, from, to, result, expired, meddled, stepped>>

\* context.WithTimeout(context.Background(), 5*time.Minute)
Expire ==
    /\ pc # "idle"
    /\ ~expired
    /\ expired' = TRUE
    /\ UNCHANGED <<latest, files, running, pc, from, to, result, meddled, stepped>>

\* TimeoutStartSec=5min, or a reboot.  A backup may be cut short.
Kill ==
    /\ pc # "idle"
    /\ End("killed")
    /\ IF pc = "backup" THEN backup' \in {backup, Torn} ELSE UNCHANGED backup
    /\ UNCHANGED <<latest, disk, executable, swapped, running, from, to,
                   expired, meddled, stepped>>

\* The daemon crashes, or the host boots: systemd starts what is on disk.
ServiceRestarts ==
    /\ running' = Started
    /\ UNCHANGED <<latest, files, pc, from, to, result, expired, meddled, stepped>>

\* An operator runs install.sh (deploy.sh, on every upgrade), at any moment:
\* a binary that works, installed with mode 0755, and a restart.
Install(v) ==
    /\ disk' = v /\ executable' = TRUE /\ running' = v
    /\ swapped' = FALSE /\ meddled' = TRUE
    /\ UNCHANGED <<latest, backup, pc, from, to, result, expired, stepped>>

Succeed == LatestRelease \/ Download \/ Backup \/ Swap \/ Restart \/ HealthCheck

Fail ==
    \/ LatestReleaseFails \/ DownloadFails \/ BackupFails \/ SwapFails
    \/ RestartFails \/ HealthCheckFails

RollBack == Rollback \/ RollbackFails \/ RestartBack \/ RestartBackFails

Next ==
    \/ Check \/ Succeed \/ Fail \/ RollBack
    \/ \E v \in Versions : Publish(v)
    \/ \E v \in Good : Install(v)
    \/ Expire \/ Kill \/ ServiceRestarts

Spec == Init /\ [][Next]_vars

-----------------------------------------------------------------------------
\* Whatever is cut short, the binary on disk is never half a file.  (It takes
\* a clock that goes forward: rollback trusts the order of the names.)
DiskIsWhole == ~stepped => disk # Torn

\* A check that fails, expires or is killed before its swap does no harm: the
\* service runs the binary on disk, one that works and can be started again.
ServiceSurvivesUntilSwap == ~swapped => running = disk /\ disk \in Good /\ Runnable

\* Up to its first swap the updater does no harm; after it, whatever the check
\* comes to (a restart that fails, a kill, a rollback) and whatever restarts
\* the service, nothing but install.sh mends it: no version comes to run that
\* did not before, and no check gets beyond the version of the binary on disk
\* (Check's early return for "dev").
OnlyInstallMends ==
    /\ []ServiceSurvivesUntilSwap
    /\ [][ swapped /\ swapped' =>
             /\ running' \in {running, None}
             /\ pc = "idle" => pc' = "idle" ]_vars

\* "rolled-back": what is on disk is again what the check found there, unless
\* somebody else wrote it meanwhile.
RolledBackIsPrevious ==
    result = "rolled-back" /\ ~stepped /\ ~meddled => disk = from

\* A release that is later than what is installed is missed only by a host
\* that runs a build of deploy.sh: to lessNumeric the "2-5-gabcdef" of
\* v1.0.2-5-gabcdef is longer, and so later, than the "3" of v1.0.3.
MissesOnlyBuilds ==
    [][ pc = "release" /\ result' = "no-update" /\ from < to'
        => from \in Builds ]_vars

\* What the Result type says of it, "new binary installed but unhealthy;
\* previous binary restored", so that the service runs it again.  It does not:
\* neither the new binary nor the restored one can be executed.
RolledBackRuns ==
    result = "rolled-back" /\ ~stepped /\ ~meddled => running = from

=============================================================================
