----------------------------- MODULE CoreUpgrade -----------------------------
(***************************************************************************)
(* An upgrade of the core in place (feat/core_upgrade.rs): the files it       *)
(* moves, the approved copy that the service runs, and what is put back when  *)
(* a step fails.  UPGRADE_LOCK admits one upgrade at a time, so there is one  *)
(* `at`; the application may end between any two steps.                      *)
(***************************************************************************)
EXTENDS Naturals

CONSTANTS MaxUpgrades, MaxFaults, MaxCrashes  \* bounds: upgrades; failing renames, links; ends

VARIABLES windows,    \* cfg!(windows): a running executable is moved, not replaced
          file,       \* the core, its .rollback and its .old
          approved,   \* the copy that the service executes
          mode,       \* CoreManager's running mode
          at,         \* the step the upgrade is at
          up,         \* its locals
          outcome,    \* how the last one ended
          upgrades, faults, crashes
vars == <<windows, file, approved, mode, at, up, outcome, upgrades, faults, crashes>>

Versions == {1, 2}
Missing == 0
Broken == 9             \* a file that cannot be run
Files == {"core", "rollback", "old"}
Contents == Versions \cup {Missing, Broken}
NoVersion == 0          \* `installed` when the core could not report one

Runs(f) == file[f] \in Versions
Idle == [installed |-> NoVersion, latest |-> 1, restorable |-> FALSE, service |-> FALSE,
         staging |-> "not attempted", down |-> FALSE]

Init ==
  /\ windows \in BOOLEAN
  /\ \E core \in {1, Broken} : file = [f \in Files |-> IF f = "core" THEN core ELSE Missing]
  /\ approved = 1 /\ mode \in {"Service", "Sidecar", "NotRunning"}
  /\ at = "idle" /\ up = Idle /\ outcome = "none"
  /\ upgrades = 0 /\ faults = 0 /\ crashes = 0

Fault == faults < MaxFaults /\ faults' = faults + 1
Same == UNCHANGED <<windows, upgrades, crashes>>
Untouched == UNCHANGED <<file, approved, mode>>

----------------------------------------------------------------------------
(* upgrade_core, up to the files                                             *)

\* The installed core is asked for its version, and the releases for the latest one.
Begin ==
  /\ at = "idle" /\ upgrades < MaxUpgrades /\ upgrades' = upgrades + 1
  /\ \E latest \in Versions, force \in BOOLEAN :
       LET installed == IF Runs("core") THEN file["core"] ELSE NoVersion IN
       /\ up' = [Idle EXCEPT !.installed = installed, !.latest = latest]
       /\ IF ~force /\ installed = latest THEN outcome' = "up to date" /\ at' = "idle"
          ELSE outcome' = "none" /\ at' = "download"
  /\ Untouched /\ UNCHANGED <<windows, faults, crashes>>

\* resolve_latest_version, download_package and stage_core may all fail; the staged file is
\* removed with its StagedCore, and is of the version asked for when they do not.
NotStaged ==
  /\ at = "download" /\ at' = "idle" /\ outcome' = "failed"
  /\ Untouched /\ Same /\ UNCHANGED <<up, faults>>

\* The previous core is kept by a hard link, and the mode read while the core still runs.
Link ==
  /\ at = "download" /\ at' = "publish"
  /\ \/ /\ up.installed # NoVersion /\ file["core"] # Missing
        /\ file' = [file EXCEPT !["rollback"] = file["core"]]
        /\ up' = [up EXCEPT !.restorable = TRUE, !.service = (mode = "Service")]
        /\ UNCHANGED faults
     \/ /\ IF up.installed # NoVersion THEN Fault ELSE UNCHANGED faults
        /\ file' = [file EXCEPT !["rollback"] = Missing]
        /\ up' = [up EXCEPT !.service = (mode = "Service")]
  /\ UNCHANGED <<approved, mode, outcome>> /\ Same

----------------------------------------------------------------------------
(* StagedCore::publish                                                       *)

\* One rename; where it is refused, the core is moved aside first.
Publish ==
  /\ at = "publish"
  /\ \/ at' = "stage" /\ file' = [file EXCEPT !["core"] = up.latest] /\ UNCHANGED faults
     \/ ~windows /\ at' = "failed" /\ UNCHANGED file /\ Fault
     \/ windows /\ at' = "aside" /\ file' = [file EXCEPT !["old"] = Missing] /\ UNCHANGED faults
  /\ UNCHANGED <<approved, mode, up, outcome>> /\ Same
MoveAside ==
  /\ at = "aside"
  /\ \/ /\ file["core"] # Missing /\ at' = "put" /\ UNCHANGED faults
        /\ file' = [file EXCEPT !["old"] = file["core"], !["core"] = Missing]
     \/ /\ at' = "failed" /\ UNCHANGED file
        /\ IF file["core"] # Missing THEN Fault ELSE UNCHANGED faults
  /\ UNCHANGED <<approved, mode, up, outcome>> /\ Same
PutNew ==
  /\ at = "put"
  /\ \/ /\ at' = "stage" /\ UNCHANGED faults
        /\ \E old \in {Missing, file["old"]} : file' = [file EXCEPT !["core"] = up.latest, !["old"] = old]
     \/ at' = "put back" /\ UNCHANGED file /\ Fault
  /\ UNCHANGED <<approved, mode, up, outcome>> /\ Same
PutBack ==
  /\ at = "put back" /\ at' = "failed"
  /\ \/ file' = [file EXCEPT !["core"] = file["old"], !["old"] = Missing] /\ UNCHANGED faults
     \/ UNCHANGED file /\ Fault
  /\ UNCHANGED <<approved, mode, up, outcome>> /\ Same

----------------------------------------------------------------------------
(* upgrade_core, after the files                                             *)

\* The service is handed the new bytes before it is asked to run them.
Stage ==
  /\ at = "stage"
  /\ \/ ~up.service /\ at' = "restart" /\ UNCHANGED <<approved, up>>
     \/ up.service /\ at' = "restart" /\ approved' = file["core"] /\ up' = [up EXCEPT !.staging = "succeeded"]
     \/ up.service /\ at' = "failed" /\ up' = [up EXCEPT !.staging = "refused"] /\ UNCHANGED approved
  /\ UNCHANGED <<file, mode, outcome, faults>> /\ Same

\* restart_core may fail with the core up, or down.
Restart ==
  /\ at = "restart"
  /\ \/ at' = "done" /\ mode' \in {"Service", "Sidecar"}
     \/ at' = "failed" /\ mode' \in {mode, "NotRunning"}
  /\ UNCHANGED <<file, approved, up, outcome, faults>> /\ Same

\* The core ends by itself while the upgrade is at work.
CoreEnds ==
  /\ at # "idle" /\ mode # "NotRunning" /\ mode' = "NotRunning"
  /\ UNCHANGED <<file, approved, at, up, outcome, faults>> /\ Same

\* What is left of the core that was replaced: nothing, or a file that cannot go yet.
Cleaned(f) ==
  \E old \in IF windows THEN {Missing, f["old"]} ELSE {f["old"]} :
    file' = [f EXCEPT !["rollback"] = Missing, !["old"] = old]
Finish ==
  /\ at = "done" /\ at' = "idle" /\ outcome' = "upgraded" /\ Cleaned(file)
  /\ UNCHANGED <<approved, mode, up, faults>> /\ Same

\* fault: a refusal of the service leaves the new file.
MustRestore_Down == up.restorable /\ (mode = "NotRunning" \/ file["core"] = Missing)
\* fault: the previous core is put back only when it is down.
MustRestore_Refused == up.restorable /\ (up.staging = "refused" \/ mode = "NotRunning")
\* The previous core is put back when the service refused the new one, or the core is
\* down, or its file is gone.
MustRestore == up.restorable /\ (up.staging = "refused" \/ mode = "NotRunning" \/ file["core"] = Missing)

\* fault: .old is removed whether or not there was a link.
Removed_Always(f) ==
  IF windows THEN Cleaned(f) ELSE file' = [f EXCEPT !["rollback"] = Missing]
\* What is removed at the end of a failed upgrade: .old too once the link exists.
Removed(f) ==
  IF windows /\ up.restorable THEN Cleaned(f) ELSE file' = [f EXCEPT !["rollback"] = Missing]

Keep ==
  /\ at = "failed" /\ ~MustRestore /\ at' = "idle" /\ outcome' = "failed" /\ Removed(file)
  /\ UNCHANGED <<approved, mode, up, faults>> /\ Same
\* A rename that fails leaves what there is.
Stuck ==
  /\ at = "failed" /\ MustRestore /\ Fault /\ at' = "idle" /\ outcome' = "stuck" /\ Removed(file)
  /\ UNCHANGED <<approved, mode, up>> /\ Same
Restore ==
  /\ at = "failed" /\ MustRestore /\ at' = "restored"
  /\ file' = [file EXCEPT !["core"] = file["rollback"], !["rollback"] = Missing]
  /\ up' = [up EXCEPT !.down = (mode = "NotRunning")]
  /\ UNCHANGED <<approved, mode, outcome, faults>> /\ Same

\* fault: the approved copy is restored when the core runs by the service at that time.
Restage_Mode(copy) ==
  IF up.staging = "succeeded" /\ mode = "Service"
  THEN approved' \in {copy, approved} /\ outcome' = IF approved' = copy THEN "restored" ELSE "stuck"
  ELSE UNCHANGED approved /\ outcome' = "restored"
\* Only a staging that succeeded has to be undone in the approved copy too, whatever the
\* mode is by now; it may be refused.
Restage(copy) ==
  IF up.staging = "succeeded"
  THEN approved' \in {copy, approved} /\ outcome' = IF approved' = copy THEN "restored" ELSE "stuck"
  ELSE UNCHANGED approved /\ outcome' = "restored"
PutCoreBack ==
  /\ at = "restored" /\ at' = "idle"
  /\ Restage(file["core"]) /\ Removed(file)
  /\ IF up.down THEN mode' \in {"NotRunning", "Service", "Sidecar"} ELSE UNCHANGED mode
  /\ UNCHANGED <<up, faults>> /\ Same

\* The application ends; the next one starts a core from the files.
Crash ==
  /\ at # "idle" /\ crashes < MaxCrashes /\ crashes' = crashes + 1
  /\ at' = "idle" /\ outcome' = "crashed" /\ mode' \in {"NotRunning", "Service", "Sidecar"}
  /\ UNCHANGED <<windows, file, approved, up, upgrades, faults>>

Next ==
  \/ Begin \/ NotStaged \/ Link \/ Publish \/ MoveAside \/ PutNew \/ PutBack
  \/ Stage \/ Restart \/ CoreEnds \/ Finish \/ Keep \/ Stuck \/ Restore \/ PutCoreBack \/ Crash
Spec == Init /\ [][Next]_vars

----------------------------------------------------------------------------
(* What must hold                                                            *)

TypeOK ==
  /\ file \in [Files -> Contents] /\ approved \in Contents
  /\ at \in {"idle", "download", "publish", "aside", "put", "put back", "stage", "restart", "done", "failed", "restored"}
  /\ up.latest \in Versions /\ outcome \in {"none", "up to date", "failed", "upgraded", "restored", "stuck", "crashed"}

\* A core that could report its version is never lost: an upgrade that ends, well or not,
\* leaves one that runs in its place, or at least in the .old of a failed one.  It may be lost
\* only where the rename that restores it fails as well.
CoreIsKept ==
  at = "idle" /\ outcome \in {"failed", "upgraded", "restored"} /\ up.installed # NoVersion =>
    Runs("core") \/ (outcome = "failed" /\ ~up.restorable /\ Runs("old"))

\* Where a running file can be replaced there is a core to run at every moment, also when
\* the application ends there; elsewhere there is one to be found, unless the last rename
\* of the restore fails too, or the application ends while the core is moved aside.
CoreIsFound ==
  up.installed # NoVersion =>
    IF windows THEN outcome # "stuck" /\ crashes = 0 => \E f \in Files : Runs(f) ELSE Runs("core")

\* After an upgrade in service mode that did all it meant to, also when it failed, the
\* service's copy is the file, or the file is again the one there was: the next try is not
\* told that there is nothing to do while the service runs the older core.
RetryIsNotFooled ==
  at = "idle" /\ outcome \in {"failed", "restored", "upgraded"} /\ up.restorable =>
    /\ up.staging = "succeeded" => approved = file["core"]
    /\ up.staging = "refused" => file["core"] = up.installed

UpgradeKeepsCore == CoreIsKept /\ CoreIsFound /\ RetryIsNotFooled
=============================================================================
