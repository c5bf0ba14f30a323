--------------------------- MODULE UpdaterProofs ---------------------------
(***************************************************************************)
(* Theorems about Updater, for every history of releases and builds, good  *)
(* and bad: what a check leaves on disk, wherever it is cut short.         *)
(***************************************************************************)
EXTENDS Updater, SemverProofs

\* A build's name is nowhere below that of a release that comes before it.
LEMMA BuildIsNotBelow ==
    ASSUME NEW v \in Builds, NEW w \in Versions \ Builds, w < v
    PROVE  semverCompare(Tag[v], Tag[w]) = 1
  <1> DEFINE x == Tag[v]
             y == Tag[w]
  <1>1. PICK b \in Versions \ Builds :
            /\ w <= b
            /\ Len(x) = 3 /\ x[1] = Tag[b][1] /\ x[2] = Tag[b][2]
            /\ Len(x[3]) > Len(Tag[b][3])
    BY BuildsAssumption
  <1> DEFINE z == Tag[b]
  <1>2. IsRelease(y) /\ IsRelease(z) /\ (w < b => Earlier(y, z))
    BY ReleasesAssumption
  <1>3. Len(x[3]) \in Nat /\ x[3] \in Seq(Int)
    <2>1. x \in Seq(Seq(Int))
      BY VersionsAssumption
    <2> QED
      BY <1>1, <2>1
  <1> SUFFICES semverCompare(x, y) = 1
    OBVIOUS
  <1> HIDE DEF x, y, z
  <1>4. /\ Len(y) = 3 /\ Len(z) = 3
        /\ \A i \in 1..3 : IsNumber(y[i]) /\ IsNumber(z[i])
    BY <1>2 DEF IsRelease
  <1>5. Len(y[3]) \in Nat /\ Len(z[3]) \in Nat
    BY <1>4, DigitsType
  <1>6. ASSUME NEW i \in 1..3, x[i] # y[i], \A j \in 1..i - 1 : x[j] = y[j],
               ~lessNumeric(x[i], y[i])
        PROVE  semverCompare(x, y) = 1
    <2>1. Len(x) \in Nat /\ Len(y) \in Nat /\ i <= Len(x) /\ i <= Len(y)
      BY <1>1, <1>4 DEF x
    <2> QED
      BY <1>6, <2>1, FirstComponentDecides
  <1>7. /\ x[1] = z[1] /\ x[2] = z[2] /\ Len(x[3]) > Len(z[3])
    BY <1>1 DEF x, z
  <1>8. ASSUME \A j \in 1..2 : z[j] = y[j], Len(y[3]) <= Len(z[3])
        PROVE  semverCompare(x, y) = 1
    <2>1. \A j \in 1..3 - 1 : x[j] = y[j]
      BY <1>7, <1>8
    <2>2. Len(x[3]) > Len(y[3])
      BY <1>3, <1>5, <1>7, <1>8
    <2>3. x[3] # y[3] /\ ~lessNumeric(x[3], y[3])
      BY <1>3, <1>5, <2>2 DEF lessNumeric
    <2> QED
      BY <1>6, <2>1, <2>3
  <1>9. CASE w = b
    BY <1>5, <1>8, <1>9 DEF y, z
  <1>10. CASE w < b
    <2>1. PICK i \in 1..3 : /\ Value(y[i]) < Value(z[i])
                            /\ \A j \in 1..i - 1 : y[j] = z[j]
      BY <1>2, <1>10 DEF Earlier
    <2>2. Value(y[i]) \in Nat /\ Value(z[i]) \in Nat
      BY <1>4, FirstDigitDecides
    <2>3. CASE i = 3
      <3>1. ~(Len(z[3]) < Len(y[3]))
        BY <1>4, <2>1, <2>2, <2>3, LongerIsGreater
      <3>2. \A j \in 1..2 : z[j] = y[j]
        BY <2>1, <2>3
      <3> QED
        BY <1>5, <1>8, <3>1, <3>2
    <2>4. CASE i \in 1..2
      <3>1. x[i] = z[i] /\ \A j \in 1..i - 1 : x[j] = y[j]
        BY <1>7, <2>1, <2>4
      <3>2. x[i] # y[i] /\ ~lessNumeric(x[i], y[i])
        BY <1>4, <2>1, <2>2, <3>1, lessNumericIsLess
      <3> QED
        BY <1>6, <3>1, <3>2
    <2> QED
      BY <2>3, <2>4
  <1> QED
    BY <1>1, <1>9, <1>10, VersionsAssumption

\* semverCompare says -1 of nothing but an earlier release or build and a later
\* release, and of every release and a later one.
THEOREM UpdatesGoForward ==
    ASSUME NEW v \in Versions, NEW w \in Versions \ Builds
    PROVE  /\ semverCompare(Tag[v], Tag[w]) < 0 => v < w
           /\ v \notin Builds /\ v < w => semverCompare(Tag[v], Tag[w]) < 0
  <1>1. v \in Nat /\ w \in Nat
    BY VersionsAssumption
  <1>2. CASE v \in Builds
    <2>1. w < v => semverCompare(Tag[v], Tag[w]) = 1
      BY <1>2, BuildIsNotBelow
    <2> QED
      BY <1>1, <1>2, <2>1
  <1>3. CASE v \notin Builds
    <2>1. /\ IsRelease(Tag[v]) /\ IsRelease(Tag[w])
          /\ v < w => Earlier(Tag[v], Tag[w])
          /\ w < v => Earlier(Tag[w], Tag[v])
      BY <1>3, ReleasesAssumption
    <2>2. /\ v < w => semverCompare(Tag[v], Tag[w]) = -1
          /\ w < v => semverCompare(Tag[v], Tag[w]) = 1
          /\ w = v => semverCompare(Tag[v], Tag[w]) = 0
      BY <2>1, semverCompareIsOrder
    <2> QED
      BY <1>1, <2>2
  <1> QED
    BY <1>2, <1>3

\* GitHub's latest is a release; a build never is.
LatestIsRelease == latest \notin Builds /\ to \notin Builds

\* Between the backup and the rollback.
BackedUp == {"swap", "restart", "health", "rollback"}

\* While a check is under way and nobody else writes CurrentBin, the version
\* it found is on disk until the swap, in the last backup from before the swap
\* until the rollback, and on disk again after it.
PreviousIsKept ==
    /\ pc \in {"release", "download", "backup", "swap"} /\ ~meddled => disk = from
    /\ pc \in BackedUp /\ ~stepped =>
           backup # Torn /\ (~meddled => backup = from)
    /\ pc = "restartBack" /\ ~stepped /\ ~meddled => disk = from

IInv ==
    /\ TypeOK
    /\ LatestIsRelease
    /\ PreviousIsKept
    /\ DiskIsWhole
    /\ ServiceSurvivesUntilSwap
    /\ RolledBackIsPrevious

\* The initial state satisfies the inductive invariant.
LEMMA InitIInv == Init => IInv
  BY VersionsAssumption
     DEF Init, IInv, TypeOK, LatestIsRelease, PreviousIsKept, BackedUp, DiskIsWhole,
         ServiceSurvivesUntilSwap, RolledBackIsPrevious, Steps, Outcomes, Torn, None,
         Runnable

\* The steps of a check that goes well keep it.
LEMMA SucceedStep == IInv /\ (Check \/ Succeed) => IInv'
  <1> SUFFICES ASSUME IInv, Check \/ Succeed PROVE IInv'
    OBVIOUS
  <1> USE VersionsAssumption
      DEF IInv, TypeOK, LatestIsRelease, PreviousIsKept, BackedUp, DiskIsWhole,
          ServiceSurvivesUntilSwap, RolledBackIsPrevious, Steps, Outcomes, Torn, None,
          Runnable, Started, End, Go, Rename, files
  <1>1. CASE Check
    BY <1>1 DEF Check
  <1>2. CASE LatestRelease
    <2> DEFINE order == semverCompare(Tag[from], Tag[latest])
    <2>1. from \in Versions /\ latest \in Versions \ Builds
      OBVIOUS
    <2>2. order < 0 => from < latest
      BY <2>1, UpdatesGoForward
    <2>3. order \in {-1, 0, 1}
      BY DEF semverCompare
    <2>4. CASE order >= 0
      BY <1>2, <2>1, <2>4 DEF LatestRelease
    <2>5. CASE order < 0
      BY <1>2, <2>1, <2>2, <2>5 DEF LatestRelease
    <2> QED
      BY <2>3, <2>4, <2>5
  <1>3. CASE Download
    BY <1>3 DEF Download
  <1>4. CASE Backup
    BY <1>4 DEF Backup
  <1>5. CASE Swap
    BY <1>5 DEF Swap
  <1>6. CASE Restart
    BY <1>6 DEF Restart
  <1>7. CASE HealthCheck
    BY <1>7 DEF HealthCheck
  <1> QED
    BY <1>1, <1>2, <1>3, <1>4, <1>5, <1>6, <1>7 DEF Succeed

\* So do the failures of each step.
LEMMA FailStep == IInv /\ Fail => IInv'
  <1> SUFFICES ASSUME IInv, Fail PROVE IInv'
    OBVIOUS
  <1> USE VersionsAssumption
      DEF IInv, TypeOK, LatestIsRelease, PreviousIsKept, BackedUp, DiskIsWhole,
          ServiceSurvivesUntilSwap, RolledBackIsPrevious, Steps, Outcomes, Torn, None,
          Runnable, Started, End, Go, files
  <1>1. CASE LatestReleaseFails
    BY <1>1 DEF LatestReleaseFails
  <1>2. CASE DownloadFails
    BY <1>2 DEF DownloadFails
  <1>3. CASE BackupFails
    BY <1>3 DEF BackupFails
  <1>4. CASE SwapFails
    BY <1>4 DEF SwapFails
  <1>5. CASE RestartFails
    BY <1>5 DEF RestartFails
  <1>6. CASE HealthCheckFails
    BY <1>6 DEF HealthCheckFails
  <1> QED
    BY <1>1, <1>2, <1>3, <1>4, <1>5, <1>6 DEF Fail

\* So does a rollback, whole or not.
LEMMA RollBackStep == IInv /\ RollBack => IInv'
  <1> SUFFICES ASSUME IInv, RollBack PROVE IInv'
    OBVIOUS
  <1> USE VersionsAssumption
      DEF IInv, TypeOK, LatestIsRelease, PreviousIsKept, BackedUp, DiskIsWhole,
          ServiceSurvivesUntilSwap, RolledBackIsPrevious, Steps, Outcomes, Torn, None,
          Runnable, Started, End, Go, Rename, files
  <1>1. CASE Rollback
    BY <1>1 DEF Rollback
  <1>2. CASE RollbackFails
    BY <1>2 DEF RollbackFails
  <1>3. CASE RestartBack
    BY <1>3 DEF RestartBack
  <1>4. CASE RestartBackFails
    BY <1>4 DEF RestartBackFails
  <1> QED
    BY <1>1, <1>2, <1>3, <1>4 DEF RollBack

\* So do releases, expired contexts, kills, restarts of the service and
\* install.sh, at any step of a check.
LEMMA EnvironmentStep ==
    ASSUME IInv,
           \/ \E v \in Versions : Publish(v)
           \/ \E v \in Good : Install(v)
           \/ Expire \/ Kill \/ ServiceRestarts
           \/ UNCHANGED vars
    PROVE  IInv'
  <1> USE VersionsAssumption
      DEF IInv, TypeOK, LatestIsRelease, PreviousIsKept, BackedUp, DiskIsWhole,
          ServiceSurvivesUntilSwap, RolledBackIsPrevious, Steps, Outcomes, Torn, None,
          Runnable, Started, End, files
  <1>1. ASSUME NEW v \in Versions, Publish(v) PROVE IInv'
    BY <1>1 DEF Publish
  <1>2. ASSUME NEW v \in Good, Install(v) PROVE IInv'
    BY <1>2 DEF Install
  <1>3. CASE Expire
    BY <1>3 DEF Expire
  <1>4. CASE Kill
    BY <1>4 DEF Kill
  <1>5. CASE ServiceRestarts
    BY <1>5 DEF ServiceRestarts
  <1>6. CASE UNCHANGED vars
    BY <1>6 DEF vars
  <1> QED
    BY <1>1, <1>2, <1>3, <1>4, <1>5, <1>6

\* The inductive invariant holds in every reachable state.
THEOREM SpecIInv == Spec => []IInv
  <1>1. IInv /\ [Next]_vars => IInv'
    BY SucceedStep, FailStep, RollBackStep, EnvironmentStep DEF Next
  <1> QED
    BY <1>1, InitIInv, PTL DEF Spec

\* Types: above all, an update is never to a version that comes before the one
\* it replaces.
THEOREM SpecTypeOK == Spec => []TypeOK
  <1>1. IInv => TypeOK
    BY DEF IInv
  <1> QED
    BY <1>1, SpecIInv, PTL

\* CurrentBin is never half a binary (the rename in install and rollback).
THEOREM SpecDiskIsWhole == Spec => []DiskIsWhole
  <1>1. IInv => DiskIsWhole
    BY DEF IInv
  <1> QED
    BY <1>1, SpecIInv, PTL

\* A check that ends before its swap leaves a service that runs, from a binary
\* that can be started again.
THEOREM SpecServiceSurvivesUntilSwap == Spec => []ServiceSurvivesUntilSwap
  <1>1. IInv => ServiceSurvivesUntilSwap
    BY DEF IInv
  <1> QED
    BY <1>1, SpecIInv, PTL

\* A rollback puts back what the check had found.
THEOREM SpecRolledBackIsPrevious == Spec => []RolledBackIsPrevious
  <1>1. IInv => RolledBackIsPrevious
    BY DEF IInv
  <1> QED
    BY <1>1, SpecIInv, PTL

\* A release is missed by a host with a build only (semverCompare, Check).
THEOREM SpecMissesOnlyBuilds == Spec => MissesOnlyBuilds
  <1>1. ASSUME IInv, Next, pc = "release", result' = "no-update", from < to'
        PROVE  from \in Builds
    <2>1. result = "none"
      BY <1>1 DEF IInv, TypeOK
    <2>2. LatestRelease
      BY <1>1, <2>1
         DEF Next, Check, Succeed, Download, Backup, Swap, Restart, HealthCheck, Fail,
             LatestReleaseFails, DownloadFails, BackupFails, SwapFails, RestartFails,
             HealthCheckFails, RollBack, Rollback, RollbackFails, RestartBack,
             RestartBackFails, Publish, Install, Expire, Kill, ServiceRestarts, End, Go
    <2>3. to' = latest /\ semverCompare(Tag[from], Tag[latest]) >= 0
      BY <1>1, <2>1, <2>2 DEF LatestRelease, Go
    <2>4. from \in Versions /\ latest \in Versions \ Builds
      BY <1>1 DEF IInv, TypeOK, LatestIsRelease
    <2>5. semverCompare(Tag[from], Tag[latest]) \in {-1, 0, 1}
      BY DEF semverCompare
    <2>6. from \notin Builds => semverCompare(Tag[from], Tag[latest]) < 0
      BY <1>1, <2>3, <2>4, UpdatesGoForward
    <2> QED
      BY <2>3, <2>5, <2>6
  <1>2. IInv /\ [Next]_vars => [pc = "release" /\ result' = "no-update" /\ from < to'
                                => from \in Builds]_vars
    BY <1>1
  <1> QED
    BY <1>2, SpecIInv, PTL DEF Spec, MissesOnlyBuilds

-----------------------------------------------------------------------------
\* What a completed rollback comes to, unless install.sh came between: no
\* service, and nothing it could be started from.
RollbackStopsService ==
    result = "rolled-back" /\ ~meddled => running = None /\ ~executable

\* What the updater has written, install or rollback, nobody can execute; a
\* rollback about to restart the service has written CurrentBin, too.
WrittenCannotRun ==
    /\ swapped => ~executable
    /\ pc = "restartBack" /\ ~meddled => swapped
    /\ result = "rolled-back" /\ ~meddled => swapped /\ running = None

\* Every step keeps that.
LEMMA SpecWrittenCannotRun == Spec => []WrittenCannotRun
  <1>1. Init => WrittenCannotRun
    BY DEF Init, WrittenCannotRun
  <1>2. IInv /\ WrittenCannotRun /\ [Next]_vars => WrittenCannotRun'
    <2> SUFFICES ASSUME IInv, WrittenCannotRun, [Next]_vars PROVE WrittenCannotRun'
      OBVIOUS
    <2> USE DEF IInv, TypeOK, WrittenCannotRun, Started, Runnable, End, Go, Rename, files
    <2>1. CASE Check
      BY <2>1 DEF Check
    <2>2. CASE Succeed
      BY <2>2 DEF Succeed, LatestRelease, Download, Backup, Swap, Restart, HealthCheck
    <2>3. CASE Fail
      BY <2>3 DEF Fail, LatestReleaseFails, DownloadFails, BackupFails, SwapFails,
                  RestartFails, HealthCheckFails
    <2>4. CASE RollBack
      BY <2>4 DEF RollBack, Rollback, RollbackFails, RestartBack, RestartBackFails
    <2>5. CASE \E v \in Versions : Publish(v)
      BY <2>5 DEF Publish
    <2>6. CASE \E v \in Good : Install(v)
      BY <2>6 DEF Install
    <2>7. CASE Expire \/ Kill \/ ServiceRestarts
      BY <2>7 DEF Expire, Kill, ServiceRestarts
    <2>8. CASE UNCHANGED vars
      BY <2>8 DEF vars
    <2> QED
      BY <2>1, <2>2, <2>3, <2>4, <2>5, <2>6, <2>7, <2>8 DEF Next
  <1> QED
    BY <1>1, <1>2, SpecIInv, PTL DEF Spec

\* Rolling back never brings the service back, whatever the release was that
\* failed and the one before: "previous binary restored" (Result) it is, with
\* the mode of a temporary file (copyFile, os.CreateTemp, os.Rename).
THEOREM SpecRollbackStopsService == Spec => []RollbackStopsService
  <1>1. WrittenCannotRun => RollbackStopsService
    BY DEF WrittenCannotRun, RollbackStopsService
  <1> QED
    BY <1>1, SpecWrittenCannotRun, PTL

\* Until the swap the service runs, from a binary that can be started again;
\* after it nothing the updater or systemd does makes the service run another
\* version, or lets a check begin (Check, install, rollback).
THEOREM SpecOnlyInstallMends == Spec => OnlyInstallMends
  <1> DEFINE Unmended == swapped /\ swapped' =>
                             /\ running' \in {running, None}
                             /\ pc = "idle" => pc' = "idle"
  <1>1. ASSUME WrittenCannotRun, Next, swapped, swapped'
        PROVE  /\ running' \in {running, None}
               /\ pc = "idle" => pc' = "idle"
    <2> USE <1>1 DEF WrittenCannotRun, Started, Runnable, End, Go
    <2>1. CASE Check
      BY <2>1 DEF Check
    <2>2. CASE Succeed
      BY <2>2 DEF Succeed, LatestRelease, Download, Backup, Swap, Restart, HealthCheck
    <2>3. CASE Fail
      BY <2>3 DEF Fail, LatestReleaseFails, DownloadFails, BackupFails, SwapFails,
                  RestartFails, HealthCheckFails
    <2>4. CASE RollBack
      BY <2>4 DEF RollBack, Rollback, RollbackFails, RestartBack, RestartBackFails
    <2>5. CASE \E v \in Versions : Publish(v)
      BY <2>5 DEF Publish
    <2>6. CASE \E v \in Good : Install(v)
      BY <2>6 DEF Install
    <2>7. CASE Expire \/ Kill \/ ServiceRestarts
      BY <2>7 DEF Expire, Kill, ServiceRestarts
    <2> QED
      BY <1>1, <2>1, <2>2, <2>3, <2>4, <2>5, <2>6, <2>7 DEF Next
  <1>2. WrittenCannotRun /\ [Next]_vars => [Unmended]_vars
    BY <1>1
  <1> QED
    BY <1>2, SpecWrittenCannotRun, SpecServiceSurvivesUntilSwap, PTL
       DEF Spec, OnlyInstallMends

=============================================================================
