--------------------------------- MODULE System ---------------------------------
(*****************************************************************************)
(* Parts that share no state with one another and of which only safety is   *)
(* checked, put together: a behaviour is one of a single part, the same     *)
(* throughout. The parts of Configuration are among them. A part that is    *)
(* proved here comes with its inductive invariant and its proof; then the   *)
(* parts proved in a module of their own, the others, the whole, and what   *)
(* is proved of the whole.                                                  *)
(*****************************************************************************)
EXTENDS Configuration, FiniteSets, FiniteSetTheorems

CONSTANTS
  \* Upgrades of the core, failures of one, and crashes.
  MaxUpgrades, MaxFaults,
  \* Installed versions and releases of the application; its starts.
  VersionsBefore, Releases, MaxStarts,
  \* Shortcuts: keys, what they do, the keys of the system.
  Keys, Actions, SystemKeys, MaxEvents,
  \* Samples that are enough to give a helper up, and those heard.
  Sustained, MaxSamples,
  \* Settings that one patch names, patches, and refreshes of the tray by others.
  Patches, MaxPatches, MaxRefreshes,
  \* Who makes backups, how far apart, how many are kept; settings changed, backups begun.
  BackupEdits, BackupUsers, Spacing, Interval, BackupsToKeep, MaxSettings, MaxZips,
  \* Calls and clicks that renew the menu of the tray, its groups, and choices of nodes.
  TrayWindows, TrayClicks, TrayGroups, MaxChoices,
  \* Calls that start or stop the reading of the speed, and its connections.
  MaxSpeedCalls, MaxConns,
  \* Threads that enter and leave lightweight mode, their calls, and timers.
  LightThreads, MaxLightAsks, MaxTimers,
  \* Tasks and operations on a server of backups, credentials saved, operations begun.
  DavTasks, DavOperations, MaxSaves, MaxDavOperations,
  \* Calls that set the start at logon.
  MaxCalls,
  \* Launches of the application, and ports for its server.
  Procs, ServerPorts

-----------------------------------------------------------------------------
(* The upgrade of the core.                                                 *)

VARIABLES cWindows, cFile, cApproved, cMode, cAt, cUp, cOutcome, cUpgrades, cFaults, cCrashes
upgradeVars == <<cWindows, cFile, cApproved, cMode, cAt, cUp, cOutcome, cUpgrades, cFaults,
      cCrashes>>
Upgrade == INSTANCE CoreUpgrade WITH windows <- cWindows, file <- cFile, approved <- cApproved,
    mode <- cMode, at <- cAt, up <- cUp, outcome <- cOutcome, upgrades <- cUpgrades,
    faults <- cFaults, crashes <- cCrashes

Upgrades == [installed : Upgrade!Versions \cup {Upgrade!NoVersion}, latest : Upgrade!Versions,
    restorable : BOOLEAN, service : BOOLEAN,
             staging : {"not attempted", "succeeded", "refused"}, down : BOOLEAN]
CoreModes == {"Service", "Sidecar", "NotRunning"}
UpgradeTyped == Upgrade!TypeOK /\ cWindows \in BOOLEAN /\ cUp \in Upgrades /\ cMode \in CoreModes /\
    cCrashes \in Nat /\ cUpgrades \in Nat /\ cFaults \in Nat
InstalledIsKnown == cUp.installed # Upgrade!NoVersion

\* Where the core that was installed is, and the one that replaces it.
CoreFits ==
  /\ cAt \in {"download", "publish", "aside"} /\ InstalledIsKnown => cFile["core"] = cUp.installed
  /\ cAt \in {"put", "put back"} /\ InstalledIsKnown => cFile["old"] = cUp.installed
  /\ cAt \in {"put", "put back"} => cFile["core"] = Upgrade!Missing
  /\ cAt \in {"aside", "put", "put back"} => cWindows
  /\ cAt \in {"stage", "restart", "done"} => Upgrade!Runs("core")
  /\ cAt = "failed" /\ InstalledIsKnown => Upgrade!Runs("core") \/
       (cWindows /\ cFile["core"] = Upgrade!Missing /\ Upgrade!Runs("old"))
  /\ cAt = "restored" => cUp.restorable /\ cFile["core"] = cUp.installed
\* The link, until it has been used or removed.
LinkFits ==
  /\ cUp.restorable => InstalledIsKnown /\ cAt # "download"
  /\ cUp.restorable /\ cAt \notin {"idle", "restored"} => cFile["rollback"] = cUp.installed
\* What the service was handed.
StagingFits ==
  /\ cAt # "idle" => cOutcome = "none"
  /\ cAt \in {"download", "publish", "aside", "put", "put back", "stage"} => cUp.staging = "not attempted"
  /\ cUp.staging = "succeeded" /\ cAt \in {"restart", "done", "failed"} => cApproved = cFile["core"]
  /\ cUp.staging = "refused" => cAt \in {"failed", "restored", "idle"}
UpgradeInv == UpgradeTyped /\ CoreFits /\ LinkFits /\ StagingFits /\ Upgrade!UpgradeKeepsCore
\* What a step leaves of the files, and of the upgrade.
CoreFilesAre(c, r, o) == cFile' \in [Upgrade!Files -> Upgrade!Contents] /\ cFile'["core"] = c /\
    cFile'["rollback"] = r /\ cFile'["old"] = o
UpIs(restorable, service, staging) ==
  /\ cUp' \in Upgrades /\ cUp'.installed = cUp.installed /\ cUp'.latest = cUp.latest /\ cUp'.restorable = restorable
  /\ cUp'.service = service /\ cUp'.staging = staging
UpSame == UpIs(cUp.restorable, cUp.service, cUp.staging)
CoreFilesSame == CoreFilesAre(cFile["core"], cFile["rollback"], cFile["old"])
CoreFound == cFile["core"] \in Upgrade!Versions \/ cFile["rollback"] \in Upgrade!Versions \/
    cFile["old"] \in Upgrade!Versions

\* What a step leaves alone is what it was.
LEMMA UpgradeKept == UpgradeTyped => (UNCHANGED cFile => CoreFilesSame) /\ (UNCHANGED cUp => UpSame)
BY DEF UpgradeTyped, Upgrade!TypeOK, CoreFilesSame, CoreFilesAre, UpSame, UpIs, Upgrades

\* The values of the files and of the upgrade.
LEMMA UpgradeValues ==
  UpgradeTyped =>
   /\ cUp.installed \in {0, 1, 2} /\ cUp.latest \in {1, 2} /\ cUp.restorable \in BOOLEAN /\ cUp.service \in BOOLEAN
   /\ cFile["core"] \in {0, 1, 2, 9} /\ cFile["rollback"] \in {0, 1, 2, 9} /\ cFile["old"] \in {0, 1, 2, 9}
   /\ cApproved \in {0, 1, 2, 9}
BY DEF UpgradeTyped, Upgrade!TypeOK, Upgrades, Upgrade!Versions, Upgrade!NoVersion, Upgrade!Missing,
   Upgrade!Broken, Upgrade!Contents, Upgrade!Files

\* A file replaced, two files replaced, and the upgrade with its link or its staging.
LEMMA CoreFileSet ==
  ASSUME UpgradeTyped, NEW v \in Upgrade!Contents
  PROVE  /\ cFile' = [cFile EXCEPT !["core"] = v] => CoreFilesAre(v, cFile["rollback"], cFile["old"])
         /\ cFile' = [cFile EXCEPT !["rollback"] = v] => CoreFilesAre(cFile["core"], v, cFile["old"])
         /\ cFile' = [cFile EXCEPT !["old"] = v] => CoreFilesAre(cFile["core"], cFile["rollback"], v)
BY DEF UpgradeTyped, Upgrade!TypeOK, CoreFilesAre, Upgrade!Files

\* Two files at once.
LEMMA CoreFilesSet ==
  ASSUME UpgradeTyped, NEW v \in Upgrade!Contents, NEW w \in Upgrade!Contents
  PROVE  /\ cFile' = [cFile EXCEPT !["core"] = v, !["old"] = w] => CoreFilesAre(v, cFile["rollback"], w)
         /\ cFile' = [cFile EXCEPT !["old"] = w, !["core"] = v] => CoreFilesAre(v, cFile["rollback"], w)
         /\ cFile' = [cFile EXCEPT !["rollback"] = v, !["old"] = w] => CoreFilesAre(cFile["core"], v, w)
         /\ cFile' = [cFile EXCEPT !["core"] = v, !["rollback"] = w] => CoreFilesAre(v, w, cFile["old"])
BY DEF UpgradeTyped, Upgrade!TypeOK, CoreFilesAre, Upgrade!Files

\* The moves that an upgrade makes.
LEMMA CoreFileMoves ==
  ASSUME UpgradeTyped
  PROVE  /\ cFile' = cFile => CoreFilesSame
         /\ cFile' = [cFile EXCEPT !["rollback"] = cFile["core"]] =>
              CoreFilesAre(cFile["core"], cFile["core"], cFile["old"])
         /\ cFile' = [cFile EXCEPT !["rollback"] = Upgrade!Missing] =>
              CoreFilesAre(cFile["core"], Upgrade!Missing, cFile["old"])
         /\ cFile' = [cFile EXCEPT !["core"] = cUp.latest] => CoreFilesAre(cUp.latest, cFile["rollback"],
              cFile["old"])
         /\ cFile' = [cFile EXCEPT !["old"] = Upgrade!Missing] =>
              CoreFilesAre(cFile["core"], cFile["rollback"], Upgrade!Missing)
         /\ cFile' = [cFile EXCEPT !["old"] = cFile["core"], !["core"] = Upgrade!Missing]
              => CoreFilesAre(Upgrade!Missing, cFile["rollback"], cFile["core"])
         /\ \A old \in {Upgrade!Missing, cFile["old"]} : cFile' = [cFile EXCEPT !["core"] = cUp.latest,
              !["old"] = old]
              => CoreFilesAre(cUp.latest, cFile["rollback"], old)
         /\ cFile' = [cFile EXCEPT !["core"] = cFile["old"], !["old"] = Upgrade!Missing]
              => CoreFilesAre(cFile["old"], cFile["rollback"], Upgrade!Missing)
         /\ cFile' = [cFile EXCEPT !["core"] = cFile["rollback"], !["rollback"] = Upgrade!Missing]
              => CoreFilesAre(cFile["rollback"], Upgrade!Missing, cFile["old"])
<1>1. /\ Upgrade!Missing \in Upgrade!Contents /\ cUp.latest \in Upgrade!Contents /\
           cFile["core"] \in Upgrade!Contents /\ cFile["rollback"] \in Upgrade!Contents
      /\ cFile["old"] \in Upgrade!Contents
  BY UpgradeValues DEF Upgrade!Contents, Upgrade!Versions, Upgrade!Missing, Upgrade!Broken
<1>2. \A old \in {Upgrade!Missing, cFile["old"]} : old \in Upgrade!Contents
  BY <1>1
<1>3. cFile' = [cFile EXCEPT !["rollback"] = cFile["core"]] => CoreFilesAre(cFile["core"], cFile["core"],
        cFile["old"])
  BY <1>1, CoreFileSet
<1>4. cFile' = [cFile EXCEPT !["rollback"] = Upgrade!Missing] =>
        CoreFilesAre(cFile["core"], Upgrade!Missing, cFile["old"])
  BY <1>1, CoreFileSet
<1>5. cFile' = [cFile EXCEPT !["core"] = cUp.latest] => CoreFilesAre(cUp.latest, cFile["rollback"], cFile["old"])
  BY <1>1, CoreFileSet
<1>6. cFile' = [cFile EXCEPT !["old"] = Upgrade!Missing] => CoreFilesAre(cFile["core"], cFile["rollback"],
        Upgrade!Missing)
  BY <1>1, CoreFileSet
<1>7. cFile' = [cFile EXCEPT !["old"] = cFile["core"], !["core"] = Upgrade!Missing] =>
        CoreFilesAre(Upgrade!Missing, cFile["rollback"], cFile["core"])
  BY <1>1, CoreFilesSet
<1>8. \A old \in {Upgrade!Missing, cFile["old"]} : cFile' = [cFile EXCEPT !["core"] = cUp.latest, !["old"] = old]
        => CoreFilesAre(cUp.latest, cFile["rollback"], old)
  BY <1>1, <1>2, CoreFilesSet
<1>9. cFile' = [cFile EXCEPT !["core"] = cFile["old"], !["old"] = Upgrade!Missing] =>
        CoreFilesAre(cFile["old"], cFile["rollback"], Upgrade!Missing)
  BY <1>1, CoreFilesSet
<1>10. cFile' = [cFile EXCEPT !["core"] = cFile["rollback"], !["rollback"] = Upgrade!Missing]
         => CoreFilesAre(cFile["rollback"], Upgrade!Missing, cFile["old"])
  BY <1>1, CoreFilesSet
<1>11. cFile' = cFile => CoreFilesSame
  BY UpgradeKept
<1> QED BY <1>3, <1>4, <1>5, <1>6, <1>7, <1>8, <1>9, <1>10, <1>11

\* The faults stay counted.
LEMMA FaultsTyped == UpgradeTyped /\ (Upgrade!Fault \/ UNCHANGED cFaults) => cFaults' \in Nat
BY DEF UpgradeTyped, Upgrade!Fault

\* The link and the service of an upgrade, as they are noted.
LEMMA UpSet ==
  ASSUME UpgradeTyped, NEW service \in BOOLEAN
  PROVE  /\ cUp' = [cUp EXCEPT !.restorable = TRUE, !.service = service] => UpIs(TRUE, service, cUp.staging)
         /\ cUp' = [cUp EXCEPT !.service = service] => UpIs(cUp.restorable, service, cUp.staging)
BY DEF UpgradeTyped, UpIs, Upgrades

\* The answer of the service, as it is noted.
LEMMA StagingSet ==
  ASSUME UpgradeTyped
  PROVE  /\ cUp' = [cUp EXCEPT !.staging = "succeeded"] => UpIs(cUp.restorable, cUp.service, "succeeded")
         /\ cUp' = [cUp EXCEPT !.staging = "refused"] => UpIs(cUp.restorable, cUp.service, "refused")
         /\ cUp' = cUp => UpSame
BY DEF UpgradeTyped, UpIs, UpSame, Upgrades

\* A core is found where one of the three files runs.
LEMMA FoundIs == ((\E f \in Upgrade!Files : Upgrade!Runs(f)) <=> CoreFound) /\
    ((\E f \in Upgrade!Files : Upgrade!Runs(f))' <=> CoreFound')
BY DEF CoreFound, Upgrade!Files, Upgrade!Runs

\* The invariant holds at first.
LEMMA UpgradeStarts == Upgrade!Init => UpgradeInv
<1> SUFFICES ASSUME Upgrade!Init PROVE UpgradeInv
  OBVIOUS
<1>1. PICK core \in {1, Upgrade!Broken} : cFile = [f \in Upgrade!Files |-> IF f = "core" THEN core ELSE Upgrade!Missing]
  BY DEF Upgrade!Init
<1>2. cFile \in [Upgrade!Files -> Upgrade!Contents] /\ cFile["core"] = core /\
        cFile["rollback"] = Upgrade!Missing /\ cFile["old"] = Upgrade!Missing
  BY <1>1 DEF Upgrade!Files, Upgrade!Contents, Upgrade!Versions, Upgrade!Missing, Upgrade!Broken
<1>3. cUp \in Upgrades /\ cUp.installed = Upgrade!NoVersion /\ cUp.latest = 1 /\ cUp.restorable = FALSE /\
        cUp.staging = "not attempted"
  BY DEF Upgrade!Init, Upgrade!Idle, Upgrades, Upgrade!Versions, Upgrade!NoVersion
<1> QED BY <1>2, <1>3 DEF Upgrade!Init, UpgradeInv, UpgradeTyped, Upgrade!TypeOK, CoreFits, LinkFits, StagingFits,
   Upgrade!UpgradeKeepsCore,
   Upgrade!CoreIsKept, Upgrade!CoreIsFound, Upgrade!RetryIsNotFooled, InstalledIsKnown, Upgrade!Runs,
   Upgrade!Contents, Upgrade!Versions, Upgrade!NoVersion, CoreModes

\* The links and what is moved aside, once an upgrade has ended.
LEMMA CleanedIs ==
  ASSUME UpgradeTyped, Upgrade!Cleaned(cFile)
  PROVE  \E old \in {Upgrade!Missing, cFile["old"]} : CoreFilesAre(cFile["core"], Upgrade!Missing, old)
<1>1. PICK old \in {Upgrade!Missing, cFile["old"]} : cFile' = [cFile EXCEPT !["rollback"] = Upgrade!Missing,
             !["old"] = old]
  BY DEF Upgrade!Cleaned
<1>2. CoreFilesAre(cFile["core"], Upgrade!Missing, old)
  BY <1>1 DEF UpgradeTyped, Upgrade!TypeOK, CoreFilesAre, Upgrade!Files, Upgrade!Contents
<1> QED BY <1>2

\* The link and the file set aside go, the core stays.
LEMMA LinkRemovedIs ==
  ASSUME UpgradeTyped, Upgrade!Removed(cFile)
  PROVE  \E old \in {Upgrade!Missing, cFile["old"]} :
           CoreFilesAre(cFile["core"], Upgrade!Missing, old) /\ (~cUp.restorable => old = cFile["old"])
<1>1. CASE cWindows /\ cUp.restorable
  BY <1>1, CleanedIs DEF Upgrade!Removed
<1>2. CASE ~(cWindows /\ cUp.restorable)
  <2>1. CoreFilesAre(cFile["core"], Upgrade!Missing, cFile["old"])
    BY <1>2 DEF Upgrade!Removed, UpgradeTyped, Upgrade!TypeOK, CoreFilesAre, Upgrade!Files, Upgrade!Contents
  <2> QED BY <2>1
<1> QED BY <1>1, <1>2

\* Every step of an upgrade keeps the invariant, a step that fails and an end of the
\* application too.
LEMMA UpgradeSteps == UpgradeInv /\ [Upgrade!Next]_(Upgrade!vars) => UpgradeInv'
<1> SUFFICES ASSUME UpgradeInv, [Upgrade!Next]_(Upgrade!vars) PROVE UpgradeInv'
  OBVIOUS
<1>0. UpgradeTyped
  BY DEF UpgradeInv
<1>a. CoreFits /\ LinkFits /\ StagingFits /\ Upgrade!CoreIsKept /\ Upgrade!CoreIsFound /\ Upgrade!RetryIsNotFooled
  BY DEF UpgradeInv, Upgrade!UpgradeKeepsCore
<1> USE <1>0, <1>a
<1>1. CASE Upgrade!Begin
  <2>1. PICK latest \in Upgrade!Versions : \E force \in BOOLEAN,
               installed \in Upgrade!Versions \cup {Upgrade!NoVersion} :
            /\ cUp' = [Upgrade!Idle EXCEPT !.installed = installed, !.latest = latest]
            /\ (IF Upgrade!Runs("core") THEN installed = cFile["core"] ELSE installed = Upgrade!NoVersion)
            /\ IF ~force /\ installed = latest THEN cOutcome' = "up to date" /\ cAt' = "idle"
               ELSE cOutcome' = "none" /\ cAt' = "download"
    BY <1>1 DEF Upgrade!Begin, Upgrade!Runs
  <2>2. PICK installed \in Upgrade!Versions \cup {Upgrade!NoVersion} :
            /\ cUp' = [Upgrade!Idle EXCEPT !.installed = installed, !.latest = latest]
            /\ (IF Upgrade!Runs("core") THEN installed = cFile["core"] ELSE installed = Upgrade!NoVersion)
            /\ (cOutcome' = "up to date" /\ cAt' = "idle") \/ (cOutcome' = "none" /\ cAt' = "download")
    BY <2>1
  <2>3. /\ cUp' \in Upgrades /\ cUp'.installed = installed /\ cUp'.restorable = FALSE /\
             cUp'.staging = "not attempted"
        /\ cUp'.latest \in Upgrade!Versions
    BY <2>2 DEF Upgrades, Upgrade!Idle, Upgrade!NoVersion
  <2>4. UNCHANGED <<cFile, cApproved, cMode, cWindows, cFaults, cCrashes>> /\ cUpgrades' \in Nat
    <3>1. cUpgrades' = cUpgrades + 1 /\ UNCHANGED <<cWindows, cFaults, cCrashes>> /\
            UNCHANGED <<cFile, cApproved, cMode>>
      BY <1>1 DEF Upgrade!Begin, Upgrade!Untouched
    <3> QED BY <3>1 DEF UpgradeTyped
  <2>5. CoreFilesSame
    BY <2>4, UpgradeKept
  <2>6. UpgradeTyped'
    BY <2>2, <2>3, <2>4, <2>5 DEF UpgradeTyped, Upgrade!TypeOK, CoreFilesAre, CoreFilesSame
  <2>7. CoreFits'
    BY <2>2, <2>3, <2>4, <2>5, UpgradeValues DEF CoreFits, LinkFits, StagingFits,
       InstalledIsKnown, Upgrade!Runs, Upgrade!Versions, Upgrade!NoVersion, Upgrade!Missing, CoreFilesAre,
       CoreFilesSame, UpIs, UpSame
  <2>8. LinkFits'
    BY <2>2, <2>3, <2>4, <2>5, UpgradeValues DEF CoreFits, LinkFits,
       InstalledIsKnown, Upgrade!Runs, Upgrade!Versions, Upgrade!NoVersion, Upgrade!Missing, CoreFilesAre,
       CoreFilesSame, UpIs, UpSame
  <2>9. StagingFits'
    BY <2>2, <2>3, <2>4, <2>5, UpgradeValues DEF StagingFits,
       InstalledIsKnown, Upgrade!Runs, Upgrade!Versions, Upgrade!NoVersion, Upgrade!Missing, CoreFilesAre,
       CoreFilesSame, UpIs, UpSame
  <2>10. Upgrade!CoreIsKept'
    BY <2>2, <2>3, <2>4, <2>5, UpgradeValues DEF CoreFits, LinkFits, StagingFits, Upgrade!CoreIsKept,
       InstalledIsKnown, Upgrade!Runs, Upgrade!Versions, Upgrade!NoVersion, Upgrade!Missing, CoreFilesAre,
       CoreFilesSame, UpIs, UpSame
  <2>11. Upgrade!CoreIsFound'
    BY <2>2, <2>3, <2>4, <2>5, FoundIs, UpgradeValues DEF CoreFits, LinkFits, StagingFits, Upgrade!CoreIsFound,
       CoreFound,
       InstalledIsKnown, Upgrade!Runs, Upgrade!Versions, Upgrade!NoVersion, Upgrade!Missing, CoreFilesAre,
       CoreFilesSame, UpIs, UpSame
  <2>12. Upgrade!RetryIsNotFooled'
    BY <2>2, <2>3, <2>4, <2>5, UpgradeValues DEF CoreFits, LinkFits, StagingFits, Upgrade!RetryIsNotFooled,
       InstalledIsKnown, Upgrade!Runs, Upgrade!Versions, Upgrade!NoVersion, Upgrade!Missing, CoreFilesAre,
       CoreFilesSame, UpIs, UpSame
  <2> QED BY <2>6, <2>7, <2>8, <2>9, <2>10, <2>11, <2>12 DEF UpgradeInv, Upgrade!UpgradeKeepsCore
<1>2. CASE Upgrade!NotStaged
  <2>1. /\ cAt = "download" /\ cAt' = "idle" /\ cOutcome' = "failed"
        /\ UNCHANGED <<cApproved, cMode, cFile, cUp, cWindows, cUpgrades, cCrashes, cFaults>>
    BY <1>2 DEF Upgrade!NotStaged, Upgrade!Same, Upgrade!Untouched
  <2>2. CoreFilesSame /\ UpSame
    BY <1>2, <2>1, UpgradeKept
  <2>3. UpgradeTyped'
    BY <2>1, <2>2, UpgradeValues DEF UpgradeTyped, Upgrade!TypeOK, CoreFilesAre, CoreFilesSame, UpIs, UpSame,
       Upgrade!Files
  <2>4. CoreFits'
    BY <2>1, <2>2, UpgradeValues DEF CoreFits, LinkFits, StagingFits,
       InstalledIsKnown, Upgrade!Runs, Upgrade!Versions, Upgrade!NoVersion, Upgrade!Missing, CoreFilesAre,
       CoreFilesSame, UpIs, UpSame
  <2>5. LinkFits'
    BY <2>1, <2>2, UpgradeValues DEF CoreFits, LinkFits,
       InstalledIsKnown, Upgrade!Runs, Upgrade!Versions, Upgrade!NoVersion, Upgrade!Missing, CoreFilesAre,
       CoreFilesSame, UpIs, UpSame
  <2>6. StagingFits'
    BY <2>1, <2>2, UpgradeValues DEF StagingFits,
       InstalledIsKnown, Upgrade!Runs, Upgrade!Versions, Upgrade!NoVersion, Upgrade!Missing, CoreFilesAre,
       CoreFilesSame, UpIs, UpSame
  <2>7. Upgrade!CoreIsKept'
    BY <2>1, <2>2, UpgradeValues DEF CoreFits, LinkFits, StagingFits, Upgrade!CoreIsKept,
       InstalledIsKnown, Upgrade!Runs, Upgrade!Versions, Upgrade!NoVersion, Upgrade!Missing, CoreFilesAre,
       CoreFilesSame, UpIs, UpSame
  <2>8. Upgrade!CoreIsFound'
    BY <2>1, <2>2, FoundIs, UpgradeValues DEF CoreFits, LinkFits, StagingFits, Upgrade!CoreIsFound, CoreFound,
       InstalledIsKnown, Upgrade!Runs, Upgrade!Versions, Upgrade!NoVersion, Upgrade!Missing, CoreFilesAre,
       CoreFilesSame, UpIs, UpSame
  <2>9. Upgrade!RetryIsNotFooled'
    BY <2>1, <2>2, UpgradeValues DEF CoreFits, LinkFits, StagingFits, Upgrade!RetryIsNotFooled,
       InstalledIsKnown, Upgrade!Runs, Upgrade!Versions, Upgrade!NoVersion, Upgrade!Missing, CoreFilesAre,
       CoreFilesSame, UpIs, UpSame
  <2> QED BY <2>3, <2>4, <2>5, <2>6, <2>7, <2>8, <2>9 DEF UpgradeInv, Upgrade!UpgradeKeepsCore
<1>3. CASE Upgrade!Link
  <2>1. /\ cAt = "download" /\ cAt' = "publish" /\ UNCHANGED <<cApproved, cMode, cOutcome, cWindows, cUpgrades,
             cCrashes>> /\ cFaults' \in Nat
        /\ \/ /\ cUp.installed # Upgrade!NoVersion /\ cFile' = [cFile EXCEPT !["rollback"] = cFile["core"]]
              /\ cUp' = [cUp EXCEPT !.restorable = TRUE, !.service = (cMode = "Service")]
           \/ /\ cFile' = [cFile EXCEPT !["rollback"] = Upgrade!Missing]
              /\ cUp' = [cUp EXCEPT !.service = (cMode = "Service")]
    BY <1>3, FaultsTyped DEF Upgrade!Link, Upgrade!Same
  <2>2. \/ /\ cUp.installed # Upgrade!NoVersion /\ CoreFilesAre(cFile["core"], cFile["core"], cFile["old"])
           /\ UpIs(TRUE, cMode = "Service", cUp.staging)
        \/ /\ CoreFilesAre(cFile["core"], Upgrade!Missing, cFile["old"])
           /\ UpIs(cUp.restorable, cMode = "Service", cUp.staging)
    BY <1>3, <2>1, CoreFileMoves, UpSet
  <2>3. UpgradeTyped'
    BY <2>1, <2>2, UpgradeValues DEF UpgradeTyped, Upgrade!TypeOK, CoreFilesAre, CoreFilesSame, UpIs, UpSame,
       Upgrade!Files
  <2>4. CoreFits'
    BY <2>1, <2>2, UpgradeValues DEF CoreFits, LinkFits, StagingFits,
       InstalledIsKnown, Upgrade!Runs, Upgrade!Versions, Upgrade!NoVersion, Upgrade!Missing, CoreFilesAre,
       CoreFilesSame, UpIs, UpSame
  <2>5. LinkFits'
    BY <2>1, <2>2, UpgradeValues DEF CoreFits, LinkFits,
       InstalledIsKnown, Upgrade!Runs, Upgrade!Versions, Upgrade!NoVersion, Upgrade!Missing, CoreFilesAre,
       CoreFilesSame, UpIs, UpSame
  <2>6. StagingFits'
    BY <2>1, <2>2, UpgradeValues DEF StagingFits,
       InstalledIsKnown, Upgrade!Runs, Upgrade!Versions, Upgrade!NoVersion, Upgrade!Missing, CoreFilesAre,
       CoreFilesSame, UpIs, UpSame
  <2>7. Upgrade!CoreIsKept'
    BY <2>1, <2>2, UpgradeValues DEF CoreFits, LinkFits, StagingFits, Upgrade!CoreIsKept,
       InstalledIsKnown, Upgrade!Runs, Upgrade!Versions, Upgrade!NoVersion, Upgrade!Missing, CoreFilesAre,
       CoreFilesSame, UpIs, UpSame
  <2>8. Upgrade!CoreIsFound'
    BY <2>1, <2>2, FoundIs, UpgradeValues DEF CoreFits, LinkFits, StagingFits, Upgrade!CoreIsFound, CoreFound,
       InstalledIsKnown, Upgrade!Runs, Upgrade!Versions, Upgrade!NoVersion, Upgrade!Missing, CoreFilesAre,
       CoreFilesSame, UpIs, UpSame
  <2>9. Upgrade!RetryIsNotFooled'
    BY <2>1, <2>2, UpgradeValues DEF CoreFits, LinkFits, StagingFits, Upgrade!RetryIsNotFooled,
       InstalledIsKnown, Upgrade!Runs, Upgrade!Versions, Upgrade!NoVersion, Upgrade!Missing, CoreFilesAre,
       CoreFilesSame, UpIs, UpSame
  <2> QED BY <2>3, <2>4, <2>5, <2>6, <2>7, <2>8, <2>9 DEF UpgradeInv, Upgrade!UpgradeKeepsCore
<1>4. CASE Upgrade!Publish
  <2>1. /\ cAt = "publish" /\ UNCHANGED <<cApproved, cMode, cOutcome, cUp, cWindows, cUpgrades, cCrashes>> /\
             cFaults' \in Nat
    BY <1>4, FaultsTyped DEF Upgrade!Publish, Upgrade!Same
  <2>2. \/ cAt' = "stage" /\ cFile' = [cFile EXCEPT !["core"] = cUp.latest]
        \/ ~cWindows /\ cAt' = "failed" /\ cFile' = cFile
        \/ cWindows /\ cAt' = "aside" /\ cFile' = [cFile EXCEPT !["old"] = Upgrade!Missing]
    BY <1>4 DEF Upgrade!Publish
  <2>3. \/ cAt' = "stage" /\ CoreFilesAre(cUp.latest, cFile["rollback"], cFile["old"])
        \/ ~cWindows /\ cAt' = "failed" /\ CoreFilesSame
        \/ cWindows /\ cAt' = "aside" /\ CoreFilesAre(cFile["core"], cFile["rollback"], Upgrade!Missing)
    BY <1>4, <2>2, CoreFileMoves
  <2>4. UpSame
    BY <1>4, <2>1, UpgradeKept
  <2>5. UpgradeTyped'
    BY <2>1, <2>2, <2>3, <2>4, UpgradeValues DEF UpgradeTyped, Upgrade!TypeOK, CoreFilesAre, CoreFilesSame, UpIs,
       UpSame, Upgrade!Files
  <2>6. CoreFits'
    BY <2>1, <2>2, <2>3, <2>4, UpgradeValues DEF CoreFits, LinkFits, StagingFits,
       InstalledIsKnown, Upgrade!Runs, Upgrade!Versions, Upgrade!NoVersion, Upgrade!Missing, CoreFilesAre,
       CoreFilesSame, UpIs, UpSame
  <2>7. LinkFits'
    BY <2>1, <2>2, <2>3, <2>4, UpgradeValues DEF CoreFits, LinkFits,
       InstalledIsKnown, Upgrade!Runs, Upgrade!Versions, Upgrade!NoVersion, Upgrade!Missing, CoreFilesAre,
       CoreFilesSame, UpIs, UpSame
  <2>8. StagingFits'
    BY <2>1, <2>2, <2>3, <2>4, UpgradeValues DEF StagingFits,
       InstalledIsKnown, Upgrade!Runs, Upgrade!Versions, Upgrade!NoVersion, Upgrade!Missing, CoreFilesAre,
       CoreFilesSame, UpIs, UpSame
  <2>9. Upgrade!CoreIsKept'
    BY <2>1, <2>2, <2>3, <2>4, UpgradeValues DEF CoreFits, LinkFits, StagingFits, Upgrade!CoreIsKept,
       InstalledIsKnown, Upgrade!Runs, Upgrade!Versions, Upgrade!NoVersion, Upgrade!Missing, CoreFilesAre,
       CoreFilesSame, UpIs, UpSame
  <2>10. Upgrade!CoreIsFound'
    BY <2>1, <2>2, <2>3, <2>4, FoundIs, UpgradeValues DEF CoreFits, LinkFits, StagingFits, Upgrade!CoreIsFound,
       CoreFound,
       InstalledIsKnown, Upgrade!Runs, Upgrade!Versions, Upgrade!NoVersion, Upgrade!Missing, CoreFilesAre,
       CoreFilesSame, UpIs, UpSame
  <2>11. Upgrade!RetryIsNotFooled'
    BY <2>1, <2>2, <2>3, <2>4, UpgradeValues DEF CoreFits, LinkFits, StagingFits, Upgrade!RetryIsNotFooled,
       InstalledIsKnown, Upgrade!Runs, Upgrade!Versions, Upgrade!NoVersion, Upgrade!Missing, CoreFilesAre,
       CoreFilesSame, UpIs, UpSame
  <2> QED BY <2>5, <2>6, <2>7, <2>8, <2>9, <2>10, <2>11 DEF UpgradeInv, Upgrade!UpgradeKeepsCore
<1>5. CASE Upgrade!MoveAside
  <2>1. /\ cAt = "aside" /\ UNCHANGED <<cApproved, cMode, cOutcome, cUp, cWindows, cUpgrades, cCrashes>> /\
             cFaults' \in Nat
    BY <1>5, FaultsTyped DEF Upgrade!MoveAside, Upgrade!Same
  <2>2. \/ cAt' = "put" /\ cFile' = [cFile EXCEPT !["old"] = cFile["core"], !["core"] = Upgrade!Missing]
        \/ cAt' = "failed" /\ cFile' = cFile
    BY <1>5 DEF Upgrade!MoveAside
  <2>3. \/ cAt' = "put" /\ CoreFilesAre(Upgrade!Missing, cFile["rollback"], cFile["core"])
        \/ cAt' = "failed" /\ CoreFilesSame
    BY <1>5, <2>2, CoreFileMoves
  <2>4. UpSame
    BY <1>5, <2>1, UpgradeKept
  <2>5. UpgradeTyped'
    BY <2>1, <2>2, <2>3, <2>4, UpgradeValues DEF UpgradeTyped, Upgrade!TypeOK, CoreFilesAre, CoreFilesSame, UpIs,
       UpSame, Upgrade!Files
  <2>6. CoreFits'
    BY <2>1, <2>2, <2>3, <2>4, UpgradeValues DEF CoreFits, LinkFits, StagingFits,
       InstalledIsKnown, Upgrade!Runs, Upgrade!Versions, Upgrade!NoVersion, Upgrade!Missing, CoreFilesAre,
       CoreFilesSame, UpIs, UpSame
  <2>7. LinkFits'
    BY <2>1, <2>2, <2>3, <2>4, UpgradeValues DEF CoreFits, LinkFits,
       InstalledIsKnown, Upgrade!Runs, Upgrade!Versions, Upgrade!NoVersion, Upgrade!Missing, CoreFilesAre,
       CoreFilesSame, UpIs, UpSame
  <2>8. StagingFits'
    BY <2>1, <2>2, <2>3, <2>4, UpgradeValues DEF StagingFits,
       InstalledIsKnown, Upgrade!Runs, Upgrade!Versions, Upgrade!NoVersion, Upgrade!Missing, CoreFilesAre,
       CoreFilesSame, UpIs, UpSame
  <2>9. Upgrade!CoreIsKept'
    BY <2>1, <2>2, <2>3, <2>4, UpgradeValues DEF CoreFits, LinkFits, StagingFits, Upgrade!CoreIsKept,
       InstalledIsKnown, Upgrade!Runs, Upgrade!Versions, Upgrade!NoVersion, Upgrade!Missing, CoreFilesAre,
       CoreFilesSame, UpIs, UpSame
  <2>10. Upgrade!CoreIsFound'
    BY <2>1, <2>2, <2>3, <2>4, FoundIs, UpgradeValues DEF CoreFits, LinkFits, StagingFits, Upgrade!CoreIsFound,
       CoreFound,
       InstalledIsKnown, Upgrade!Runs, Upgrade!Versions, Upgrade!NoVersion, Upgrade!Missing, CoreFilesAre,
       CoreFilesSame, UpIs, UpSame
  <2>11. Upgrade!RetryIsNotFooled'
    BY <2>1, <2>2, <2>3, <2>4, UpgradeValues DEF CoreFits, LinkFits, StagingFits, Upgrade!RetryIsNotFooled,
       InstalledIsKnown, Upgrade!Runs, Upgrade!Versions, Upgrade!NoVersion, Upgrade!Missing, CoreFilesAre,
       CoreFilesSame, UpIs, UpSame
  <2> QED BY <2>5, <2>6, <2>7, <2>8, <2>9, <2>10, <2>11 DEF UpgradeInv, Upgrade!UpgradeKeepsCore
<1>6. CASE Upgrade!PutNew
  <2>1. /\ cAt = "put" /\ UNCHANGED <<cApproved, cMode, cOutcome, cUp, cWindows, cUpgrades, cCrashes>> /\
             cFaults' \in Nat
    BY <1>6, FaultsTyped DEF Upgrade!PutNew, Upgrade!Same
  <2>2. \/ /\ cAt' = "stage"
           /\ \E old \in {Upgrade!Missing, cFile["old"]} : cFile' = [cFile EXCEPT !["core"] = cUp.latest,
                !["old"] = old]
        \/ cAt' = "put back" /\ cFile' = cFile
    BY <1>6 DEF Upgrade!PutNew
  <2>3. \/ cAt' = "stage" /\ \E old \in {Upgrade!Missing, cFile["old"]} : CoreFilesAre(cUp.latest,
             cFile["rollback"], old)
        \/ cAt' = "put back" /\ CoreFilesSame
    BY <1>6, <2>2, CoreFileMoves
  <2>4. UpSame
    BY <1>6, <2>1, UpgradeKept
  <2>5. UpgradeTyped'
    BY <2>1, <2>2, <2>3, <2>4, UpgradeValues DEF UpgradeTyped, Upgrade!TypeOK, CoreFilesAre, CoreFilesSame, UpIs,
       UpSame, Upgrade!Files
  <2>6. CoreFits'
    BY <2>1, <2>2, <2>3, <2>4, UpgradeValues DEF CoreFits, LinkFits, StagingFits,
       InstalledIsKnown, Upgrade!Runs, Upgrade!Versions, Upgrade!NoVersion, Upgrade!Missing, CoreFilesAre,
       CoreFilesSame, UpIs, UpSame
  <2>7. LinkFits'
    BY <2>1, <2>2, <2>3, <2>4, UpgradeValues DEF CoreFits, LinkFits,
       InstalledIsKnown, Upgrade!Runs, Upgrade!Versions, Upgrade!NoVersion, Upgrade!Missing, CoreFilesAre,
       CoreFilesSame, UpIs, UpSame
  <2>8. StagingFits'
    BY <2>1, <2>2, <2>3, <2>4, UpgradeValues DEF StagingFits,
       InstalledIsKnown, Upgrade!Runs, Upgrade!Versions, Upgrade!NoVersion, Upgrade!Missing, CoreFilesAre,
       CoreFilesSame, UpIs, UpSame
  <2>9. Upgrade!CoreIsKept'
    BY <2>1, <2>2, <2>3, <2>4, UpgradeValues DEF CoreFits, LinkFits, StagingFits, Upgrade!CoreIsKept,
       InstalledIsKnown, Upgrade!Runs, Upgrade!Versions, Upgrade!NoVersion, Upgrade!Missing, CoreFilesAre,
       CoreFilesSame, UpIs, UpSame
  <2>10. Upgrade!CoreIsFound'
    BY <2>1, <2>2, <2>3, <2>4, FoundIs, UpgradeValues DEF CoreFits, LinkFits, StagingFits, Upgrade!CoreIsFound,
       CoreFound,
       InstalledIsKnown, Upgrade!Runs, Upgrade!Versions, Upgrade!NoVersion, Upgrade!Missing, CoreFilesAre,
       CoreFilesSame, UpIs, UpSame
  <2>11. Upgrade!RetryIsNotFooled'
    BY <2>1, <2>2, <2>3, <2>4, UpgradeValues DEF CoreFits, LinkFits, StagingFits, Upgrade!RetryIsNotFooled,
       InstalledIsKnown, Upgrade!Runs, Upgrade!Versions, Upgrade!NoVersion, Upgrade!Missing, CoreFilesAre,
       CoreFilesSame, UpIs, UpSame
  <2> QED BY <2>5, <2>6, <2>7, <2>8, <2>9, <2>10, <2>11 DEF UpgradeInv, Upgrade!UpgradeKeepsCore
<1>7. CASE Upgrade!PutBack
  <2>1. /\ cAt = "put back" /\ cAt' = "failed" /\ UNCHANGED <<cApproved, cMode, cOutcome, cUp, cWindows, cUpgrades,
             cCrashes>> /\ cFaults' \in Nat
    BY <1>7, FaultsTyped DEF Upgrade!PutBack, Upgrade!Same
  <2>2. (cFile' = [cFile EXCEPT !["core"] = cFile["old"], !["old"] = Upgrade!Missing] \/ cFile' = cFile)
    BY <1>7 DEF Upgrade!PutBack
  <2>3. CoreFilesAre(cFile["old"], cFile["rollback"], Upgrade!Missing) \/ CoreFilesSame
    BY <1>7, <2>2, CoreFileMoves
  <2>4. UpSame
    BY <1>7, <2>1, UpgradeKept
  <2>5. UpgradeTyped'
    BY <2>1, <2>2, <2>3, <2>4, UpgradeValues DEF UpgradeTyped, Upgrade!TypeOK, CoreFilesAre, CoreFilesSame, UpIs,
       UpSame, Upgrade!Files
  <2>6. CoreFits'
    BY <2>1, <2>2, <2>3, <2>4, UpgradeValues DEF CoreFits, LinkFits, StagingFits,
       InstalledIsKnown, Upgrade!Runs, Upgrade!Versions, Upgrade!NoVersion, Upgrade!Missing, CoreFilesAre,
       CoreFilesSame, UpIs, UpSame
  <2>7. LinkFits'
    BY <2>1, <2>2, <2>3, <2>4, UpgradeValues DEF CoreFits, LinkFits,
       InstalledIsKnown, Upgrade!Runs, Upgrade!Versions, Upgrade!NoVersion, Upgrade!Missing, CoreFilesAre,
       CoreFilesSame, UpIs, UpSame
  <2>8. StagingFits'
    BY <2>1, <2>2, <2>3, <2>4, UpgradeValues DEF StagingFits,
       InstalledIsKnown, Upgrade!Runs, Upgrade!Versions, Upgrade!NoVersion, Upgrade!Missing, CoreFilesAre,
       CoreFilesSame, UpIs, UpSame
  <2>9. Upgrade!CoreIsKept'
    BY <2>1, <2>2, <2>3, <2>4, UpgradeValues DEF CoreFits, LinkFits, StagingFits, Upgrade!CoreIsKept,
       InstalledIsKnown, Upgrade!Runs, Upgrade!Versions, Upgrade!NoVersion, Upgrade!Missing, CoreFilesAre,
       CoreFilesSame, UpIs, UpSame
  <2>10. Upgrade!CoreIsFound'
    BY <2>1, <2>2, <2>3, <2>4, FoundIs, UpgradeValues DEF CoreFits, LinkFits, StagingFits, Upgrade!CoreIsFound,
       CoreFound,
       InstalledIsKnown, Upgrade!Runs, Upgrade!Versions, Upgrade!NoVersion, Upgrade!Missing, CoreFilesAre,
       CoreFilesSame, UpIs, UpSame
  <2>11. Upgrade!RetryIsNotFooled'
    BY <2>1, <2>2, <2>3, <2>4, UpgradeValues DEF CoreFits, LinkFits, StagingFits, Upgrade!RetryIsNotFooled,
       InstalledIsKnown, Upgrade!Runs, Upgrade!Versions, Upgrade!NoVersion, Upgrade!Missing, CoreFilesAre,
       CoreFilesSame, UpIs, UpSame
  <2> QED BY <2>5, <2>6, <2>7, <2>8, <2>9, <2>10, <2>11 DEF UpgradeInv, Upgrade!UpgradeKeepsCore
<1>8. CASE Upgrade!Stage
  <2>1. /\ cAt = "stage" /\ UNCHANGED <<cFile, cMode, cOutcome, cWindows, cUpgrades, cCrashes, cFaults>>
    BY <1>8 DEF Upgrade!Stage, Upgrade!Same
  <2>2. \/ cAt' = "restart" /\ UNCHANGED cApproved /\ cUp' = cUp
        \/ cAt' = "restart" /\ cApproved' = cFile["core"] /\ cUp' = [cUp EXCEPT !.staging = "succeeded"]
        \/ cAt' = "failed" /\ cUp' = [cUp EXCEPT !.staging = "refused"] /\ UNCHANGED cApproved
    BY <1>8 DEF Upgrade!Stage
  <2>3. \/ cAt' = "restart" /\ UNCHANGED cApproved /\ UpSame
        \/ cAt' = "restart" /\ cApproved' = cFile["core"] /\ UpIs(cUp.restorable, cUp.service, "succeeded")
        \/ cAt' = "failed" /\ UNCHANGED cApproved /\ UpIs(cUp.restorable, cUp.service, "refused")
    BY <1>8, <2>2, StagingSet
  <2>4. CoreFilesSame
    BY <1>8, <2>1, UpgradeKept
  <2>5. UpgradeTyped'
    BY <2>1, <2>2, <2>3, <2>4, UpgradeValues DEF UpgradeTyped, Upgrade!TypeOK, CoreFilesAre, CoreFilesSame, UpIs,
       UpSame, Upgrade!Files
  <2>6. CoreFits'
    BY <2>1, <2>2, <2>3, <2>4, UpgradeValues DEF CoreFits, LinkFits, StagingFits,
       InstalledIsKnown, Upgrade!Runs, Upgrade!Versions, Upgrade!NoVersion, Upgrade!Missing, CoreFilesAre,
       CoreFilesSame, UpIs, UpSame
  <2>7. LinkFits'
    BY <2>1, <2>2, <2>3, <2>4, UpgradeValues DEF CoreFits, LinkFits,
       InstalledIsKnown, Upgrade!Runs, Upgrade!Versions, Upgrade!NoVersion, Upgrade!Missing, CoreFilesAre,
       CoreFilesSame, UpIs, UpSame
  <2>8. StagingFits'
    BY <2>1, <2>2, <2>3, <2>4, UpgradeValues DEF StagingFits,
       InstalledIsKnown, Upgrade!Runs, Upgrade!Versions, Upgrade!NoVersion, Upgrade!Missing, CoreFilesAre,
       CoreFilesSame, UpIs, UpSame
  <2>9. Upgrade!CoreIsKept'
    BY <2>1, <2>2, <2>3, <2>4, UpgradeValues DEF CoreFits, LinkFits, StagingFits, Upgrade!CoreIsKept,
       InstalledIsKnown, Upgrade!Runs, Upgrade!Versions, Upgrade!NoVersion, Upgrade!Missing, CoreFilesAre,
       CoreFilesSame, UpIs, UpSame
  <2>10. Upgrade!CoreIsFound'
    BY <2>1, <2>2, <2>3, <2>4, FoundIs, UpgradeValues DEF CoreFits, LinkFits, StagingFits, Upgrade!CoreIsFound,
       CoreFound,
       InstalledIsKnown, Upgrade!Runs, Upgrade!Versions, Upgrade!NoVersion, Upgrade!Missing, CoreFilesAre,
       CoreFilesSame, UpIs, UpSame
  <2>11. Upgrade!RetryIsNotFooled'
    BY <2>1, <2>2, <2>3, <2>4, UpgradeValues DEF CoreFits, LinkFits, StagingFits, Upgrade!RetryIsNotFooled,
       InstalledIsKnown, Upgrade!Runs, Upgrade!Versions, Upgrade!NoVersion, Upgrade!Missing, CoreFilesAre,
       CoreFilesSame, UpIs, UpSame
  <2> QED BY <2>5, <2>6, <2>7, <2>8, <2>9, <2>10, <2>11 DEF UpgradeInv, Upgrade!UpgradeKeepsCore
<1>9. CASE Upgrade!Restart
  <2>1. /\ cAt = "restart" /\ cAt' \in {"done", "failed"} /\ cMode' \in CoreModes
        /\ UNCHANGED <<cFile, cApproved, cUp, cOutcome, cWindows, cUpgrades, cCrashes, cFaults>>
    BY <1>9 DEF Upgrade!Restart, Upgrade!Same, UpgradeTyped, CoreModes
  <2>2. CoreFilesSame /\ UpSame
    BY <1>9, <2>1, UpgradeKept
  <2>3. UpgradeTyped'
    BY <2>1, <2>2, UpgradeValues DEF UpgradeTyped, Upgrade!TypeOK, CoreFilesAre, CoreFilesSame, UpIs, UpSame,
       Upgrade!Files
  <2>4. CoreFits'
    BY <2>1, <2>2, UpgradeValues DEF CoreFits, LinkFits, StagingFits,
       InstalledIsKnown, Upgrade!Runs, Upgrade!Versions, Upgrade!NoVersion, Upgrade!Missing, CoreFilesAre,
       CoreFilesSame, UpIs, UpSame
  <2>5. LinkFits'
    BY <2>1, <2>2, UpgradeValues DEF CoreFits, LinkFits,
       InstalledIsKnown, Upgrade!Runs, Upgrade!Versions, Upgrade!NoVersion, Upgrade!Missing, CoreFilesAre,
       CoreFilesSame, UpIs, UpSame
  <2>6. StagingFits'
    BY <2>1, <2>2, UpgradeValues DEF StagingFits,
       InstalledIsKnown, Upgrade!Runs, Upgrade!Versions, Upgrade!NoVersion, Upgrade!Missing, CoreFilesAre,
       CoreFilesSame, UpIs, UpSame
  <2>7. Upgrade!CoreIsKept'
    BY <2>1, <2>2, UpgradeValues DEF CoreFits, LinkFits, StagingFits, Upgrade!CoreIsKept,
       InstalledIsKnown, Upgrade!Runs, Upgrade!Versions, Upgrade!NoVersion, Upgrade!Missing, CoreFilesAre,
       CoreFilesSame, UpIs, UpSame
  <2>8. Upgrade!CoreIsFound'
    BY <2>1, <2>2, FoundIs, UpgradeValues DEF CoreFits, LinkFits, StagingFits, Upgrade!CoreIsFound, CoreFound,
       InstalledIsKnown, Upgrade!Runs, Upgrade!Versions, Upgrade!NoVersion, Upgrade!Missing, CoreFilesAre,
       CoreFilesSame, UpIs, UpSame
  <2>9. Upgrade!RetryIsNotFooled'
    BY <2>1, <2>2, UpgradeValues DEF CoreFits, LinkFits, StagingFits, Upgrade!RetryIsNotFooled,
       InstalledIsKnown, Upgrade!Runs, Upgrade!Versions, Upgrade!NoVersion, Upgrade!Missing, CoreFilesAre,
       CoreFilesSame, UpIs, UpSame
  <2> QED BY <2>3, <2>4, <2>5, <2>6, <2>7, <2>8, <2>9 DEF UpgradeInv, Upgrade!UpgradeKeepsCore
<1>10. CASE Upgrade!CoreEnds
  <2>1. cAt # "idle" /\ cMode' \in CoreModes /\ UNCHANGED <<cFile, cApproved, cAt, cUp, cOutcome, cWindows,
          cUpgrades, cCrashes, cFaults>>
    BY <1>10 DEF Upgrade!CoreEnds, Upgrade!Same, CoreModes
  <2>2. CoreFilesSame /\ UpSame
    BY <1>10, <2>1, UpgradeKept
  <2>3. UpgradeTyped'
    BY <2>1, <2>2, UpgradeValues DEF UpgradeTyped, Upgrade!TypeOK, CoreFilesAre, CoreFilesSame, UpIs, UpSame,
       Upgrade!Files
  <2>4. CoreFits'
    BY <2>1, <2>2, UpgradeValues DEF CoreFits, LinkFits, StagingFits,
       InstalledIsKnown, Upgrade!Runs, Upgrade!Versions, Upgrade!NoVersion, Upgrade!Missing, CoreFilesAre,
       CoreFilesSame, UpIs, UpSame
  <2>5. LinkFits'
    BY <2>1, <2>2, UpgradeValues DEF CoreFits, LinkFits,
       InstalledIsKnown, Upgrade!Runs, Upgrade!Versions, Upgrade!NoVersion, Upgrade!Missing, CoreFilesAre,
       CoreFilesSame, UpIs, UpSame
  <2>6. StagingFits'
    BY <2>1, <2>2, UpgradeValues DEF StagingFits,
       InstalledIsKnown, Upgrade!Runs, Upgrade!Versions, Upgrade!NoVersion, Upgrade!Missing, CoreFilesAre,
       CoreFilesSame, UpIs, UpSame
  <2>7. Upgrade!CoreIsKept'
    BY <2>1, <2>2, UpgradeValues DEF CoreFits, LinkFits, StagingFits, Upgrade!CoreIsKept,
       InstalledIsKnown, Upgrade!Runs, Upgrade!Versions, Upgrade!NoVersion, Upgrade!Missing, CoreFilesAre,
       CoreFilesSame, UpIs, UpSame
  <2>8. Upgrade!CoreIsFound'
    BY <2>1, <2>2, FoundIs, UpgradeValues DEF CoreFits, LinkFits, StagingFits, Upgrade!CoreIsFound, CoreFound,
       InstalledIsKnown, Upgrade!Runs, Upgrade!Versions, Upgrade!NoVersion, Upgrade!Missing, CoreFilesAre,
       CoreFilesSame, UpIs, UpSame
  <2>9. Upgrade!RetryIsNotFooled'
    BY <2>1, <2>2, UpgradeValues DEF CoreFits, LinkFits, StagingFits, Upgrade!RetryIsNotFooled,
       InstalledIsKnown, Upgrade!Runs, Upgrade!Versions, Upgrade!NoVersion, Upgrade!Missing, CoreFilesAre,
       CoreFilesSame, UpIs, UpSame
  <2> QED BY <2>3, <2>4, <2>5, <2>6, <2>7, <2>8, <2>9 DEF UpgradeInv, Upgrade!UpgradeKeepsCore
<1>11. CASE Upgrade!Finish
  <2>1. /\ cAt = "done" /\ cAt' = "idle" /\ cOutcome' = "upgraded" /\
             UNCHANGED <<cApproved, cMode, cUp, cWindows, cUpgrades, cCrashes, cFaults>>
        /\ Upgrade!Cleaned(cFile)
    BY <1>11 DEF Upgrade!Finish, Upgrade!Same
  <2>2. \E old \in {Upgrade!Missing, cFile["old"]} : CoreFilesAre(cFile["core"], Upgrade!Missing, old)
    BY <1>11, <2>1, CleanedIs
  <2>3. UpSame
    BY <1>11, <2>1, UpgradeKept
  <2>4. UpgradeTyped'
    BY <2>1, <2>2, <2>3, UpgradeValues DEF UpgradeTyped, Upgrade!TypeOK, CoreFilesAre, CoreFilesSame, UpIs, UpSame,
       Upgrade!Files
  <2>5. CoreFits'
    BY <2>1, <2>2, <2>3, UpgradeValues DEF CoreFits, LinkFits, StagingFits,
       InstalledIsKnown, Upgrade!Runs, Upgrade!Versions, Upgrade!NoVersion, Upgrade!Missing, CoreFilesAre,
       CoreFilesSame, UpIs, UpSame
  <2>6. LinkFits'
    BY <2>1, <2>2, <2>3, UpgradeValues DEF CoreFits, LinkFits,
       InstalledIsKnown, Upgrade!Runs, Upgrade!Versions, Upgrade!NoVersion, Upgrade!Missing, CoreFilesAre,
       CoreFilesSame, UpIs, UpSame
  <2>7. StagingFits'
    BY <2>1, <2>2, <2>3, UpgradeValues DEF StagingFits,
       InstalledIsKnown, Upgrade!Runs, Upgrade!Versions, Upgrade!NoVersion, Upgrade!Missing, CoreFilesAre,
       CoreFilesSame, UpIs, UpSame
  <2>8. Upgrade!CoreIsKept'
    BY <2>1, <2>2, <2>3, UpgradeValues DEF CoreFits, LinkFits, StagingFits, Upgrade!CoreIsKept,
       InstalledIsKnown, Upgrade!Runs, Upgrade!Versions, Upgrade!NoVersion, Upgrade!Missing, CoreFilesAre,
       CoreFilesSame, UpIs, UpSame
  <2>9. Upgrade!CoreIsFound'
    BY <2>1, <2>2, <2>3, FoundIs, UpgradeValues DEF CoreFits, LinkFits, StagingFits, Upgrade!CoreIsFound, CoreFound,
       InstalledIsKnown, Upgrade!Runs, Upgrade!Versions, Upgrade!NoVersion, Upgrade!Missing, CoreFilesAre,
       CoreFilesSame, UpIs, UpSame
  <2>10. Upgrade!RetryIsNotFooled'
    BY <2>1, <2>2, <2>3, UpgradeValues DEF CoreFits, LinkFits, StagingFits, Upgrade!RetryIsNotFooled,
       InstalledIsKnown, Upgrade!Runs, Upgrade!Versions, Upgrade!NoVersion, Upgrade!Missing, CoreFilesAre,
       CoreFilesSame, UpIs, UpSame
  <2> QED BY <2>4, <2>5, <2>6, <2>7, <2>8, <2>9, <2>10 DEF UpgradeInv, Upgrade!UpgradeKeepsCore
<1>12. CASE Upgrade!Keep
  <2>1. /\ cAt = "failed" /\ ~Upgrade!MustRestore /\ cAt' = "idle" /\ cOutcome' = "failed" /\ Upgrade!Removed(cFile)
        /\ UNCHANGED <<cApproved, cMode, cUp, cWindows, cUpgrades, cCrashes, cFaults>>
    BY <1>12 DEF Upgrade!Keep, Upgrade!Same
  <2>2. \E old \in {Upgrade!Missing, cFile["old"]} : CoreFilesAre(cFile["core"], Upgrade!Missing, old) /\
          (~cUp.restorable => old = cFile["old"])
    BY <1>12, <2>1, LinkRemovedIs
  <2>3. UpSame
    BY <1>12, <2>1, UpgradeKept
  <2>4. UpgradeTyped'
    BY <2>1, <2>2, <2>3, UpgradeValues DEF UpgradeTyped, Upgrade!TypeOK, CoreFilesAre, CoreFilesSame, UpIs, UpSame,
       Upgrade!Files
  <2>5. CoreFits'
    BY <2>1, <2>2, <2>3, UpgradeValues DEF CoreFits, LinkFits, StagingFits, Upgrade!MustRestore,
       InstalledIsKnown, Upgrade!Runs, Upgrade!Versions, Upgrade!NoVersion, Upgrade!Missing, CoreFilesAre,
       CoreFilesSame, UpIs, UpSame
  <2>6. LinkFits'
    BY <2>1, <2>2, <2>3, UpgradeValues DEF CoreFits, LinkFits, Upgrade!MustRestore,
       InstalledIsKnown, Upgrade!Runs, Upgrade!Versions, Upgrade!NoVersion, Upgrade!Missing, CoreFilesAre,
       CoreFilesSame, UpIs, UpSame
  <2>7. StagingFits'
    BY <2>1, <2>2, <2>3, UpgradeValues DEF StagingFits, Upgrade!MustRestore,
       InstalledIsKnown, Upgrade!Runs, Upgrade!Versions, Upgrade!NoVersion, Upgrade!Missing, CoreFilesAre,
       CoreFilesSame, UpIs, UpSame
  <2>8. Upgrade!CoreIsKept'
    BY <2>1, <2>2, <2>3, UpgradeValues DEF CoreFits, LinkFits, StagingFits, Upgrade!CoreIsKept, Upgrade!MustRestore,
       InstalledIsKnown, Upgrade!Runs, Upgrade!Versions, Upgrade!NoVersion, Upgrade!Missing, CoreFilesAre,
       CoreFilesSame, UpIs, UpSame
  <2>9. Upgrade!CoreIsFound'
    BY <2>1, <2>2, <2>3, FoundIs, UpgradeValues DEF CoreFits, LinkFits, StagingFits, Upgrade!CoreIsFound,
       CoreFound, Upgrade!MustRestore,
       InstalledIsKnown, Upgrade!Runs, Upgrade!Versions, Upgrade!NoVersion, Upgrade!Missing, CoreFilesAre,
       CoreFilesSame, UpIs, UpSame
  <2>10. Upgrade!RetryIsNotFooled'
    BY <2>1, <2>2, <2>3, UpgradeValues DEF CoreFits, LinkFits, StagingFits, Upgrade!RetryIsNotFooled,
       Upgrade!MustRestore,
       InstalledIsKnown, Upgrade!Runs, Upgrade!Versions, Upgrade!NoVersion, Upgrade!Missing, CoreFilesAre,
       CoreFilesSame, UpIs, UpSame
  <2> QED BY <2>4, <2>5, <2>6, <2>7, <2>8, <2>9, <2>10 DEF UpgradeInv, Upgrade!UpgradeKeepsCore
<1>13. CASE Upgrade!Stuck
  <2>1. /\ cAt = "failed" /\ Upgrade!MustRestore /\ cAt' = "idle" /\ cOutcome' = "stuck" /\ Upgrade!Removed(cFile)
        /\ UNCHANGED <<cApproved, cMode, cUp, cWindows, cUpgrades, cCrashes>> /\ cFaults' \in Nat
    BY <1>13, FaultsTyped DEF Upgrade!Stuck, Upgrade!Same
  <2>2. \E old \in {Upgrade!Missing, cFile["old"]} : CoreFilesAre(cFile["core"], Upgrade!Missing, old) /\
          (~cUp.restorable => old = cFile["old"])
    BY <1>13, <2>1, LinkRemovedIs
  <2>3. UpSame
    BY <1>13, <2>1, UpgradeKept
  <2>4. UpgradeTyped'
    BY <2>1, <2>2, <2>3, UpgradeValues DEF UpgradeTyped, Upgrade!TypeOK, CoreFilesAre, CoreFilesSame, UpIs, UpSame,
       Upgrade!Files
  <2>5. CoreFits'
    BY <2>1, <2>2, <2>3, UpgradeValues DEF CoreFits, LinkFits, StagingFits, Upgrade!MustRestore,
       InstalledIsKnown, Upgrade!Runs, Upgrade!Versions, Upgrade!NoVersion, Upgrade!Missing, CoreFilesAre,
       CoreFilesSame, UpIs, UpSame
  <2>6. LinkFits'
    BY <2>1, <2>2, <2>3, UpgradeValues DEF CoreFits, LinkFits, Upgrade!MustRestore,
       InstalledIsKnown, Upgrade!Runs, Upgrade!Versions, Upgrade!NoVersion, Upgrade!Missing, CoreFilesAre,
       CoreFilesSame, UpIs, UpSame
  <2>7. StagingFits'
    BY <2>1, <2>2, <2>3, UpgradeValues DEF StagingFits, Upgrade!MustRestore,
       InstalledIsKnown, Upgrade!Runs, Upgrade!Versions, Upgrade!NoVersion, Upgrade!Missing, CoreFilesAre,
       CoreFilesSame, UpIs, UpSame
  <2>8. Upgrade!CoreIsKept'
    BY <2>1, <2>2, <2>3, UpgradeValues DEF CoreFits, LinkFits, StagingFits, Upgrade!CoreIsKept, Upgrade!MustRestore,
       InstalledIsKnown, Upgrade!Runs, Upgrade!Versions, Upgrade!NoVersion, Upgrade!Missing, CoreFilesAre,
       CoreFilesSame, UpIs, UpSame
  <2>9. Upgrade!CoreIsFound'
    BY <2>1, <2>2, <2>3, FoundIs, UpgradeValues DEF CoreFits, LinkFits, StagingFits, Upgrade!CoreIsFound,
       CoreFound, Upgrade!MustRestore,
       InstalledIsKnown, Upgrade!Runs, Upgrade!Versions, Upgrade!NoVersion, Upgrade!Missing, CoreFilesAre,
       CoreFilesSame, UpIs, UpSame
  <2>10. Upgrade!RetryIsNotFooled'
    BY <2>1, <2>2, <2>3, UpgradeValues DEF CoreFits, LinkFits, StagingFits, Upgrade!RetryIsNotFooled,
       Upgrade!MustRestore,
       InstalledIsKnown, Upgrade!Runs, Upgrade!Versions, Upgrade!NoVersion, Upgrade!Missing, CoreFilesAre,
       CoreFilesSame, UpIs, UpSame
  <2> QED BY <2>4, <2>5, <2>6, <2>7, <2>8, <2>9, <2>10 DEF UpgradeInv, Upgrade!UpgradeKeepsCore
<1>14. CASE Upgrade!Restore
  <2>1. /\ cAt = "failed" /\ cUp.restorable /\ cAt' = "restored" /\
             UNCHANGED <<cApproved, cMode, cOutcome, cWindows, cUpgrades, cCrashes, cFaults>>
        /\ cFile' = [cFile EXCEPT !["core"] = cFile["rollback"], !["rollback"] = Upgrade!Missing]
        /\ cUp' = [cUp EXCEPT !.down = (cMode = "NotRunning")]
    BY <1>14 DEF Upgrade!Restore, Upgrade!MustRestore, Upgrade!Same
  <2>2. CoreFilesAre(cFile["rollback"], Upgrade!Missing, cFile["old"])
    BY <1>14, <2>1, CoreFileMoves
  <2>3. UpSame
    BY <1>14, <2>1 DEF UpgradeTyped, UpSame, UpIs, Upgrades
  <2>4. UpgradeTyped'
    BY <2>1, <2>2, <2>3, UpgradeValues DEF UpgradeTyped, Upgrade!TypeOK, CoreFilesAre, CoreFilesSame, UpIs, UpSame,
       Upgrade!Files
  <2>5. CoreFits'
    BY <2>1, <2>2, <2>3, UpgradeValues DEF CoreFits, LinkFits, StagingFits,
       InstalledIsKnown, Upgrade!Runs, Upgrade!Versions, Upgrade!NoVersion, Upgrade!Missing, CoreFilesAre,
       CoreFilesSame, UpIs, UpSame
  <2>6. LinkFits'
    BY <2>1, <2>2, <2>3, UpgradeValues DEF CoreFits, LinkFits,
       InstalledIsKnown, Upgrade!Runs, Upgrade!Versions, Upgrade!NoVersion, Upgrade!Missing, CoreFilesAre,
       CoreFilesSame, UpIs, UpSame
  <2>7. StagingFits'
    BY <2>1, <2>2, <2>3, UpgradeValues DEF StagingFits,
       InstalledIsKnown, Upgrade!Runs, Upgrade!Versions, Upgrade!NoVersion, Upgrade!Missing, CoreFilesAre,
       CoreFilesSame, UpIs, UpSame
  <2>8. Upgrade!CoreIsKept'
    BY <2>1, <2>2, <2>3, UpgradeValues DEF CoreFits, LinkFits, StagingFits, Upgrade!CoreIsKept,
       InstalledIsKnown, Upgrade!Runs, Upgrade!Versions, Upgrade!NoVersion, Upgrade!Missing, CoreFilesAre,
       CoreFilesSame, UpIs, UpSame
  <2>9. Upgrade!CoreIsFound'
    BY <2>1, <2>2, <2>3, FoundIs, UpgradeValues DEF CoreFits, LinkFits, StagingFits, Upgrade!CoreIsFound, CoreFound,
       InstalledIsKnown, Upgrade!Runs, Upgrade!Versions, Upgrade!NoVersion, Upgrade!Missing, CoreFilesAre,
       CoreFilesSame, UpIs, UpSame
  <2>10. Upgrade!RetryIsNotFooled'
    BY <2>1, <2>2, <2>3, UpgradeValues DEF CoreFits, LinkFits, StagingFits, Upgrade!RetryIsNotFooled,
       InstalledIsKnown, Upgrade!Runs, Upgrade!Versions, Upgrade!NoVersion, Upgrade!Missing, CoreFilesAre,
       CoreFilesSame, UpIs, UpSame
  <2> QED BY <2>4, <2>5, <2>6, <2>7, <2>8, <2>9, <2>10 DEF UpgradeInv, Upgrade!UpgradeKeepsCore
<1>15. CASE Upgrade!PutCoreBack
  <2>1. /\ cAt = "restored" /\ cAt' = "idle" /\ Upgrade!Removed(cFile) /\ cMode' \in CoreModes /\
             UNCHANGED <<cUp, cWindows, cUpgrades, cCrashes, cFaults>>
        /\ IF cUp.staging = "succeeded"
           THEN /\ cApproved' \in {cFile["core"], cApproved}
                /\ cOutcome' = IF cApproved' = cFile["core"] THEN "restored" ELSE "stuck"
           ELSE UNCHANGED cApproved /\ cOutcome' = "restored"
    BY <1>15 DEF Upgrade!PutCoreBack, Upgrade!Restage, Upgrade!Same, UpgradeTyped, CoreModes
  <2>2. \E old \in {Upgrade!Missing, cFile["old"]} : CoreFilesAre(cFile["core"], Upgrade!Missing, old) /\
          (~cUp.restorable => old = cFile["old"])
    BY <1>15, <2>1, LinkRemovedIs
  <2>3. UpSame
    BY <1>15, <2>1, UpgradeKept
  <2>4. UpgradeTyped'
    BY <2>1, <2>2, <2>3, UpgradeValues DEF UpgradeTyped, Upgrade!TypeOK, CoreFilesAre, CoreFilesSame, UpIs, UpSame,
       Upgrade!Files
  <2>5. CoreFits'
    BY <2>1, <2>2, <2>3, UpgradeValues DEF CoreFits, LinkFits, StagingFits,
       InstalledIsKnown, Upgrade!Runs, Upgrade!Versions, Upgrade!NoVersion, Upgrade!Missing, CoreFilesAre,
       CoreFilesSame, UpIs, UpSame
  <2>6. LinkFits'
    BY <2>1, <2>2, <2>3, UpgradeValues DEF CoreFits, LinkFits,
       InstalledIsKnown, Upgrade!Runs, Upgrade!Versions, Upgrade!NoVersion, Upgrade!Missing, CoreFilesAre,
       CoreFilesSame, UpIs, UpSame
  <2>7. StagingFits'
    BY <2>1, <2>2, <2>3, UpgradeValues DEF StagingFits,
       InstalledIsKnown, Upgrade!Runs, Upgrade!Versions, Upgrade!NoVersion, Upgrade!Missing, CoreFilesAre,
       CoreFilesSame, UpIs, UpSame
  <2>8. Upgrade!CoreIsKept'
    BY <2>1, <2>2, <2>3, UpgradeValues DEF CoreFits, LinkFits, StagingFits, Upgrade!CoreIsKept,
       InstalledIsKnown, Upgrade!Runs, Upgrade!Versions, Upgrade!NoVersion, Upgrade!Missing, CoreFilesAre,
       CoreFilesSame, UpIs, UpSame
  <2>9. Upgrade!CoreIsFound'
    BY <2>1, <2>2, <2>3, FoundIs, UpgradeValues DEF CoreFits, LinkFits, StagingFits, Upgrade!CoreIsFound, CoreFound,
       InstalledIsKnown, Upgrade!Runs, Upgrade!Versions, Upgrade!NoVersion, Upgrade!Missing, CoreFilesAre,
       CoreFilesSame, UpIs, UpSame
  <2>10. Upgrade!RetryIsNotFooled'
    BY <2>1, <2>2, <2>3, UpgradeValues DEF CoreFits, LinkFits, StagingFits, Upgrade!RetryIsNotFooled,
       InstalledIsKnown, Upgrade!Runs, Upgrade!Versions, Upgrade!NoVersion, Upgrade!Missing, CoreFilesAre,
       CoreFilesSame, UpIs, UpSame
  <2> QED BY <2>4, <2>5, <2>6, <2>7, <2>8, <2>9, <2>10 DEF UpgradeInv, Upgrade!UpgradeKeepsCore
<1>16. CASE Upgrade!Crash
  <2>1. /\ cAt # "idle" /\ cAt' = "idle" /\ cOutcome' = "crashed" /\ cMode' \in CoreModes
        /\ cCrashes' = cCrashes + 1 /\ cCrashes' \in Nat /\ cCrashes' # 0 /\
             UNCHANGED <<cWindows, cFile, cApproved, cUp, cUpgrades, cFaults>>
    BY <1>16 DEF Upgrade!Crash, CoreModes, UpgradeTyped
  <2>2. CoreFilesSame /\ UpSame
    BY <1>16, <2>1, UpgradeKept
  <2>3. UpgradeTyped'
    BY <2>1, <2>2, UpgradeValues DEF UpgradeTyped, Upgrade!TypeOK, CoreFilesAre, CoreFilesSame, UpIs, UpSame,
       Upgrade!Files
  <2>4. CoreFits'
    BY <2>1, <2>2, UpgradeValues DEF CoreFits, LinkFits, StagingFits,
       InstalledIsKnown, Upgrade!Runs, Upgrade!Versions, Upgrade!NoVersion, Upgrade!Missing, CoreFilesAre,
       CoreFilesSame, UpIs, UpSame
  <2>5. LinkFits'
    BY <2>1, <2>2, UpgradeValues DEF CoreFits, LinkFits,
       InstalledIsKnown, Upgrade!Runs, Upgrade!Versions, Upgrade!NoVersion, Upgrade!Missing, CoreFilesAre,
       CoreFilesSame, UpIs, UpSame
  <2>6. StagingFits'
    BY <2>1, <2>2, UpgradeValues DEF StagingFits,
       InstalledIsKnown, Upgrade!Runs, Upgrade!Versions, Upgrade!NoVersion, Upgrade!Missing, CoreFilesAre,
       CoreFilesSame, UpIs, UpSame
  <2>7. Upgrade!CoreIsKept'
    BY <2>1, <2>2, UpgradeValues DEF CoreFits, LinkFits, StagingFits, Upgrade!CoreIsKept,
       InstalledIsKnown, Upgrade!Runs, Upgrade!Versions, Upgrade!NoVersion, Upgrade!Missing, CoreFilesAre,
       CoreFilesSame, UpIs, UpSame
  <2>8. Upgrade!CoreIsFound'
    BY <2>1, <2>2, FoundIs, UpgradeValues DEF CoreFits, LinkFits, StagingFits, Upgrade!CoreIsFound, CoreFound,
       InstalledIsKnown, Upgrade!Runs, Upgrade!Versions, Upgrade!NoVersion, Upgrade!Missing, CoreFilesAre,
       CoreFilesSame, UpIs, UpSame
  <2>9. Upgrade!RetryIsNotFooled'
    BY <2>1, <2>2, UpgradeValues DEF CoreFits, LinkFits, StagingFits, Upgrade!RetryIsNotFooled,
       InstalledIsKnown, Upgrade!Runs, Upgrade!Versions, Upgrade!NoVersion, Upgrade!Missing, CoreFilesAre,
       CoreFilesSame, UpIs, UpSame
  <2> QED BY <2>3, <2>4, <2>5, <2>6, <2>7, <2>8, <2>9 DEF UpgradeInv, Upgrade!UpgradeKeepsCore
<1>17. CASE UNCHANGED Upgrade!vars
  <2>1. CoreFilesSame /\ UpSame /\ UNCHANGED <<cWindows, cApproved, cMode, cAt, cOutcome, cUpgrades, cFaults,
          cCrashes>>
    BY <1>17, UpgradeKept DEF Upgrade!vars
  <2>2. UpgradeTyped'
    BY <2>1 DEF UpgradeTyped, Upgrade!TypeOK, CoreFilesAre, CoreFilesSame, UpIs, UpSame
  <2>3. CoreFits'
    BY <2>1, UpgradeValues DEF CoreFits, LinkFits, StagingFits,
       InstalledIsKnown, Upgrade!Runs, Upgrade!Versions, Upgrade!NoVersion, Upgrade!Missing, CoreFilesAre,
       CoreFilesSame, UpIs, UpSame
  <2>4. LinkFits'
    BY <2>1, UpgradeValues DEF CoreFits, LinkFits,
       InstalledIsKnown, Upgrade!Runs, Upgrade!Versions, Upgrade!NoVersion, Upgrade!Missing, CoreFilesAre,
       CoreFilesSame, UpIs, UpSame
  <2>5. StagingFits'
    BY <2>1, UpgradeValues DEF StagingFits,
       InstalledIsKnown, Upgrade!Runs, Upgrade!Versions, Upgrade!NoVersion, Upgrade!Missing, CoreFilesAre,
       CoreFilesSame, UpIs, UpSame
  <2>6. Upgrade!CoreIsKept'
    BY <2>1, UpgradeValues DEF CoreFits, LinkFits, StagingFits, Upgrade!CoreIsKept,
       InstalledIsKnown, Upgrade!Runs, Upgrade!Versions, Upgrade!NoVersion, Upgrade!Missing, CoreFilesAre,
       CoreFilesSame, UpIs, UpSame
  <2>7. Upgrade!CoreIsFound'
    BY <2>1, FoundIs, UpgradeValues DEF CoreFits, LinkFits, StagingFits, Upgrade!CoreIsFound, CoreFound,
       InstalledIsKnown, Upgrade!Runs, Upgrade!Versions, Upgrade!NoVersion, Upgrade!Missing, CoreFilesAre,
       CoreFilesSame, UpIs, UpSame
  <2>8. Upgrade!RetryIsNotFooled'
    BY <2>1, UpgradeValues DEF CoreFits, LinkFits, StagingFits, Upgrade!RetryIsNotFooled,
       InstalledIsKnown, Upgrade!Runs, Upgrade!Versions, Upgrade!NoVersion, Upgrade!Missing, CoreFilesAre,
       CoreFilesSame, UpIs, UpSame
  <2> QED BY <2>2, <2>3, <2>4, <2>5, <2>6, <2>7, <2>8 DEF UpgradeInv, Upgrade!UpgradeKeepsCore
<1> QED
  BY <1>1, <1>2, <1>3, <1>4, <1>5, <1>6, <1>7, <1>8, <1>9, <1>10, <1>11, <1>12, <1>13, <1>14, <1>15, <1>16,
     <1>17 DEF Upgrade!Next

\* A core that could report its version is kept by an upgrade that ends, one is to be found
\* at every moment, and a failed upgrade does not fool the next one, except where the last
\* rename of a restore fails too or the application ends while the core is moved aside; for any
\* number of upgrades, faults and crashes.
THEOREM UpgradeHolds == Upgrade!Spec => []Upgrade!UpgradeKeepsCore
<1>1. UpgradeInv => Upgrade!UpgradeKeepsCore
  BY DEF UpgradeInv
<1> QED BY UpgradeStarts, UpgradeSteps, <1>1, PTL DEF Upgrade!Spec

-----------------------------------------------------------------------------
(* The update of the application.                                           *)

VARIABLES vDisk, vOut, vApp, vSelf, vMeta, vBin, vReady, vGiven, vInstall, vCrashes, vStarts
updaterVars == <<vDisk, vOut, vApp, vSelf, vMeta, vBin, vReady, vGiven, vInstall, vCrashes,
      vStarts>>
Updater == INSTANCE SilentUpdater WITH disk <- vDisk, out <- vOut, app <- vApp, self <- vSelf,
    meta <- vMeta, bin <- vBin, ready <- vReady, given <- vGiven, install <- vInstall,
    crashes <- vCrashes, starts <- vStarts, Current <- VersionsBefore

UpdaterGiven ==
  /\ Len(Releases) \in Nat \ {0}
  /\ \A i, j \in 1..Len(Releases) : Releases[i] = Releases[j] => i = j

ASSUME UpdaterAssumption == UpdaterGiven

\* Releases in the order they came out.
NotAfter(v, w) == \E i, j \in 1..Len(Releases) : i <= j /\ v = Releases[i] /\ w = Releases[j]
IsOut(v) == \E i \in 1..vOut : v = Releases[i]
\* The file that names the update is never ahead of the one that holds it, which is never
\* ahead of the server; the one being downloaded is not behind either.
CacheFits ==
  /\ vOut \in 1..Len(Releases)
  /\ vMeta # Updater!None => IsOut(vMeta)
  /\ vBin # Updater!None => IsOut(vBin)
  /\ vMeta # Updater!None /\ vBin # Updater!None => NotAfter(vMeta, vBin)
  /\ vApp \in {"downloading", "writing"} =>
       IsOut(vGiven) /\ (vMeta # Updater!None => NotAfter(vMeta, vGiven)) /\
           (vBin # Updater!None => NotAfter(vBin, vGiven))
  /\ vApp = "writing" => vBin = vGiven
  /\ vApp = "asking" => vMeta # Updater!None
IsAgreed(i) == i.bytes = i.confirmed /\ Updater!Newer(i.bytes, i.over)
InstallFits ==
  /\ vInstall = [bytes |-> vInstall.bytes, confirmed |-> vInstall.confirmed, over |-> vInstall.over,
       late |-> vInstall.late]
  /\ vInstall # Updater!NoInstall => IsAgreed(vInstall)
  /\ vApp = "installing" \/ vInstall.late => IsAgreed(vInstall)
UpdaterInv == CacheFits /\ InstallFits

\* The invariant holds at first.
LEMMA UpdaterStarts == ASSUME UpdaterGiven PROVE Updater!Init => UpdaterInv
<1> SUFFICES ASSUME Updater!Init PROVE UpdaterInv
  OBVIOUS
<1>1. vOut = 1 /\ vMeta = Updater!None /\ vBin = Updater!None /\ vApp = "off" /\ vInstall = Updater!NoInstall
  BY DEF Updater!Init
<1>2. CacheFits
  BY <1>1 DEF UpdaterGiven, CacheFits
<1>3. InstallFits
  BY <1>1 DEF InstallFits, Updater!NoInstall
<1> QED BY <1>2, <1>3 DEF UpdaterInv

\* What is out stays out, and the latest is after all of it.
LEMMA OutGrows ==
  ASSUME UpdaterGiven, vOut \in 1..Len(Releases)
  PROVE  /\ \A v : IsOut(v) => NotAfter(v, Updater!Offer)
         /\ \A v : IsOut(v) => NotAfter(v, v)
         /\ IsOut(Updater!Offer)
         /\ \A v : UNCHANGED vOut => (IsOut(v) <=> IsOut(v)')
BY DEF UpdaterGiven, IsOut, NotAfter, Updater!Offer

\* What the server still offers is what the file of the bytes holds.
LEMMA OfferedIsHeld ==
  ASSUME UpdaterGiven, CacheFits, vMeta # Updater!None, vBin # Updater!None, Updater!Offer = vMeta
  PROVE  vBin = vMeta
<1>1. PICK i, j \in 1..Len(Releases) : i <= j /\ vMeta = Releases[i] /\ vBin = Releases[j]
  BY DEF CacheFits, NotAfter
<1>2. PICK k \in 1..vOut : vBin = Releases[k]
  BY DEF CacheFits, IsOut
<1>3. i = vOut
  BY <1>1 DEF UpdaterGiven, CacheFits, Updater!Offer
<1>4. j = k
  <2>1. k \in 1..Len(Releases)
    BY DEF UpdaterGiven, CacheFits
  <2> QED BY <1>1, <1>2, <2>1 DEF UpdaterGiven
<1> QED BY <1>1, <1>2, <1>3, <1>4 DEF UpdaterGiven, CacheFits

\* Whatever goes from the two files, and whatever the process does next but download.
LEMMA CacheGoes ==
  ASSUME CacheFits, UNCHANGED vOut, vMeta' \in {vMeta, Updater!None}, vBin' \in {vBin, Updater!None},
         vApp' \notin {"downloading", "writing"}, vApp' = "asking" => vMeta' # Updater!None
  PROVE  CacheFits'
<1>1. \A v : IsOut(v) <=> IsOut(v)'
  BY DEF IsOut
<1> QED BY <1>1 DEF CacheFits

\* Every step of the application or of the server keeps the cache in order.
LEMMA CacheSteps == ASSUME UpdaterGiven, CacheFits, [Updater!Next]_(Updater!vars) PROVE CacheFits'
<1>0. vOut \in 1..Len(Releases) /\ Len(Releases) \in Nat
  BY DEF CacheFits, UpdaterGiven
<1>1. CASE Updater!Release
  <2>1. /\ vOut < Len(Releases) /\ vOut' = vOut + 1
        /\ UNCHANGED vApp /\ UNCHANGED vMeta /\ UNCHANGED vBin /\ UNCHANGED vGiven
    BY <1>1 DEF Updater!Release
  <2>2. \A v : IsOut(v) => IsOut(v)'
    BY <1>0, <2>1 DEF IsOut
  <2>3. vOut' \in 1..Len(Releases)
    BY <1>0, <2>1
  <2> QED BY <2>1, <2>2, <2>3 DEF CacheFits
<1>2. CASE Updater!Start
  <2>1. UNCHANGED vOut /\ vApp' \in {"running", "asking"} /\ (vApp' = "asking" => vMeta # Updater!None /\
          UNCHANGED vMeta)
    BY <1>2 DEF Updater!Start, Updater!Kept
  <2>2. vMeta' \in {vMeta, Updater!None} /\ vBin' \in {vBin, Updater!None}
    BY <1>2 DEF Updater!Start, Updater!Kept, Updater!Deleted
  <2> QED BY <2>1, <2>2, CacheGoes
<1>3. CASE Updater!Skip
  BY <1>3, CacheGoes DEF Updater!Skip, Updater!Kept
<1>4. CASE Updater!Confirm
  BY <1>4, CacheGoes DEF Updater!Confirm, Updater!Kept, Updater!Deleted
<1>5. CASE Updater!Installed
  BY <1>5, CacheGoes DEF Updater!Installed, Updater!Deleted
<1>6. CASE Updater!NotInstalled
  BY <1>6, CacheGoes DEF Updater!NotInstalled
<1>7. CASE Updater!InstalledLate
  <2>1. UNCHANGED <<vOut, vApp, vMeta, vBin, vGiven>>
    BY <1>7 DEF Updater!InstalledLate
  <2> QED BY <2>1 DEF CacheFits, IsOut
<1>8. CASE Updater!Check
  <2>1. vApp' = "downloading" /\ vGiven' = Updater!Offer /\ UNCHANGED <<vOut, vMeta, vBin>>
    BY <1>8 DEF Updater!Check
  <2>2. /\ IsOut(Updater!Offer)' /\ (vMeta # Updater!None => NotAfter(vMeta, Updater!Offer)) /\
             (vBin # Updater!None => NotAfter(vBin, Updater!Offer))
        /\ (IsOut(vMeta) <=> IsOut(vMeta)') /\ (IsOut(vBin) <=> IsOut(vBin)')
    BY <1>0, <2>1, OutGrows DEF CacheFits, IsOut, Updater!Offer
  <2>3. Updater!Offer' = Updater!Offer
    BY <2>1 DEF Updater!Offer
  <2> QED BY <1>0, <2>1, <2>2, <2>3 DEF CacheFits, IsOut
<1>9. CASE Updater!DownloadFails
  BY <1>9, CacheGoes DEF Updater!DownloadFails
<1>10. CASE Updater!WriteBin
  <2>1. /\ vApp = "downloading" /\ vBin' = vGiven /\ vApp' \in {"writing", "running"} /\
             UNCHANGED <<vOut, vMeta, vGiven>>
    BY <1>10 DEF Updater!WriteBin
  <2>2. NotAfter(vGiven, vGiven) /\ (IsOut(vGiven) <=> IsOut(vGiven)') /\ (IsOut(vMeta) <=> IsOut(vMeta)')
    BY <1>0, <2>1, OutGrows DEF CacheFits, IsOut
  <2> QED BY <1>0, <2>1, <2>2 DEF CacheFits, IsOut
<1>11. CASE Updater!WriteMeta
  <2>1. vApp = "writing" /\ vApp' = "running" /\ vMeta' \in {vGiven, Updater!None} /\ UNCHANGED <<vOut, vBin, vGiven>>
    BY <1>11 DEF Updater!WriteMeta
  <2>2. NotAfter(vGiven, vGiven) /\ (IsOut(vGiven) <=> IsOut(vGiven)') /\ (IsOut(vBin) <=> IsOut(vBin)')
    BY <1>0, <2>1, OutGrows DEF CacheFits, IsOut
  <2> QED BY <1>0, <2>1, <2>2 DEF CacheFits, IsOut
<1>12. CASE Updater!Quit
  BY <1>12, CacheGoes DEF Updater!Quit
<1>13. CASE Updater!Crash
  BY <1>13, CacheGoes DEF Updater!Crash
<1>14. CASE UNCHANGED Updater!vars
  <2>1. UNCHANGED <<vOut, vApp, vMeta, vBin, vGiven>>
    BY <1>14 DEF Updater!vars
  <2> QED BY <2>1 DEF CacheFits, IsOut
<1> QED BY <1>1, <1>2, <1>3, <1>4, <1>5, <1>6, <1>7, <1>8, <1>9, <1>10, <1>11, <1>12, <1>13, <1>14 DEF Updater!Next

\* An installation is begun of what was agreed to, and goes on as it was begun.
LEMMA InstallGoes ==
  ASSUME InstallFits, NEW late \in BOOLEAN, vInstall' = [vInstall EXCEPT !.late = late], late => IsAgreed(vInstall),
         vApp' = "installing" => IsAgreed(vInstall)
  PROVE  InstallFits'
<1>1. PICK b, c, o, l : vInstall = [bytes |-> b, confirmed |-> c, over |-> o, late |-> l]
  BY DEF InstallFits
<1>2. vInstall' = [bytes |-> b, confirmed |-> c, over |-> o, late |-> late]
  BY <1>1
<1>3. IsAgreed(vInstall) <=> (b = c /\ Updater!Newer(b, o))
  BY <1>1 DEF IsAgreed
<1>4. IsAgreed(vInstall)' <=> (b = c /\ Updater!Newer(b, o))
  BY <1>2 DEF IsAgreed
<1>5. vInstall' # Updater!NoInstall => IsAgreed(vInstall)
  <2>1. CASE vInstall # Updater!NoInstall
    BY <2>1 DEF InstallFits
  <2>2. CASE vInstall = Updater!NoInstall
    <3>1. b = Updater!None /\ c = Updater!None /\ o = Updater!None
      BY <1>1, <2>2 DEF Updater!NoInstall
    <3>2. late = FALSE => vInstall' = Updater!NoInstall
      BY <1>2, <3>1 DEF Updater!NoInstall
    <3> QED BY <3>2
  <2> QED BY <2>1, <2>2
<1>6. vInstall'.late = late /\ vInstall' = [bytes |-> vInstall'.bytes, confirmed |-> vInstall'.confirmed,
                                          over |-> vInstall'.over, late |-> vInstall'.late]
  BY <1>2
<1> QED BY <1>3, <1>4, <1>5, <1>6 DEF InstallFits

\* Every step keeps the installation the one that was agreed.
LEMMA InstallSteps == ASSUME UpdaterGiven, CacheFits, InstallFits, [Updater!Next]_(Updater!vars) PROVE InstallFits'
<1>1. CASE Updater!Confirm
  <2>1. CASE UNCHANGED vInstall /\ vApp' = "running"
    BY <2>1 DEF InstallFits, IsAgreed
  <2>2. CASE /\ vApp = "asking" /\ vBin # Updater!None /\ Updater!StillOffered
             /\ vInstall' = [bytes |-> vBin, confirmed |-> vMeta, over |-> vSelf, late |-> FALSE]
    <3>1. vBin = vMeta /\ Updater!Newer(vBin, vSelf)
      BY <2>2, OfferedIsHeld DEF Updater!StillOffered, CacheFits
    <3>2. IsAgreed(vInstall')
      BY <2>2, <3>1 DEF IsAgreed
    <3> QED BY <2>2, <3>2 DEF InstallFits
  <2> QED BY <1>1, <2>1, <2>2 DEF Updater!Confirm
<1>2. CASE Updater!NotInstalled
  BY <1>2, InstallGoes DEF Updater!NotInstalled, InstallFits
<1>3. CASE Updater!InstalledLate
  BY <1>3, InstallGoes DEF Updater!InstalledLate, InstallFits
<1>4. CASE Updater!Crash
  <2>1. CASE vApp = "installing"
    BY <1>4, <2>1, InstallGoes DEF Updater!Crash, InstallFits
  <2>2. CASE vApp # "installing"
    BY <1>4, <2>2 DEF Updater!Crash, InstallFits, IsAgreed
  <2> QED BY <2>1, <2>2
<1>5. CASE UNCHANGED vInstall /\ (vApp' = "installing" => vApp = "installing")
  BY <1>5 DEF InstallFits, IsAgreed
<1>6. Updater!Release \/ Updater!Start \/ Updater!Skip \/ Updater!Installed \/ Updater!Check \/
        Updater!DownloadFails \/ Updater!WriteBin \/ Updater!WriteMeta \/ Updater!Quit
        \/ UNCHANGED Updater!vars
          => UNCHANGED vInstall /\ (vApp' = "installing" => vApp = "installing")
  BY DEF Updater!Release, Updater!Start, Updater!Skip, Updater!Installed, Updater!Check, Updater!DownloadFails,
     Updater!WriteBin, Updater!WriteMeta, Updater!Quit, Updater!vars
<1> QED BY <1>1, <1>2, <1>3, <1>4, <1>5, <1>6 DEF Updater!Next

\* A pending update that the plugin would download is not one that a start throws away.
LEMMA OfferedIsKept == Updater!NewerIsOffered
BY DEF Updater!NewerIsOffered, Updater!Newer, Updater!Outdated, Updater!BuildToStable

\* What is installed is what the user agreed to, and newer than what it replaces, though the
\* server, the cache and the application change between the question and the installer; and a
\* newer update that is cached is not thrown away; for every list of releases.
THEOREM UpdaterHolds == ASSUME UpdaterGiven PROVE Updater!Spec => []Updater!UpdateIsTheOffered
<1>1. Updater!Init => UpdaterInv
  BY UpdaterStarts
<1>2. UpdaterInv /\ [Updater!Next]_(Updater!vars) => UpdaterInv'
  BY CacheSteps, InstallSteps DEF UpdaterInv
<1>3. UpdaterInv => Updater!UpdateIsTheOffered
  BY OfferedIsKept DEF UpdaterInv, InstallFits, IsAgreed, Updater!UpdateIsTheOffered, Updater!InstallsWhatWasOffered
<1> QED BY <1>1, <1>2, <1>3, PTL DEF Updater!Spec

-----------------------------------------------------------------------------
(* The shortcuts.                                                           *)

VARIABLES kConfig, kCurrent, kRegistered, kFocused, kDoubt, kEvents
keyboardVars == <<kConfig, kCurrent, kRegistered, kFocused, kDoubt, kEvents>>
Keyboard == INSTANCE Hotkeys WITH config <- kConfig, current <- kCurrent,
    registered <- kRegistered, focused <- kFocused, doubt <- kDoubt, events <- kEvents

KeyboardGiven == Keys \cap SystemKeys = {}

ASSUME KeyboardAssumption == KeyboardGiven

\* While they are to act, the shortcuts in use are those of the configuration.
KeyboardInv ==
  /\ kConfig \in [list : Keyboard!Lists, global : BOOLEAN] /\ kCurrent \in Keyboard!Lists /\ kFocused \in BOOLEAN
  /\ kConfig.global \/ kFocused => kCurrent = kConfig.list
  /\ Keyboard!HotkeysFollow
\* A list of shortcuts is a function of some of the keys.
LEMMA ListIs ==
  /\ \A f \in Keyboard!Lists : DOMAIN f \subseteq Keys /\ f \in [DOMAIN f -> Actions]
  /\ Keyboard!Nothing \in Keyboard!Lists
<1>1. \A f \in Keyboard!Lists : DOMAIN f \subseteq Keys /\ f \in [DOMAIN f -> Actions]
  <2> SUFFICES ASSUME NEW K \in SUBSET Keys, NEW f \in [K -> Actions]
               PROVE  DOMAIN f \subseteq Keys /\ f \in [DOMAIN f -> Actions]
    BY DEF Keyboard!Lists
  <2> QED OBVIOUS
<1>2. {} \in SUBSET Keys /\ Keyboard!Nothing \in [{} -> Actions]
  BY DEF Keyboard!Nothing
<1> QED BY <1>1, <1>2 DEF Keyboard!Lists

\* What is left of a function, and what two of them are together.
LEMMA WithoutIs ==
  ASSUME NEW f, NEW K
  PROVE  /\ DOMAIN Keyboard!Without(f, K) = DOMAIN f \ K
         /\ \A k \in DOMAIN f \ K : Keyboard!Without(f, K)[k] = f[k]
BY DEF Keyboard!Without, Keyboard!Restrict

\* What is registered over something else is registered.
LEMMA WithIs ==
  ASSUME NEW f, NEW g
  PROVE  /\ DOMAIN Keyboard!With(f, g) = DOMAIN f \cup DOMAIN g
         /\ \A k \in DOMAIN g : Keyboard!With(f, g)[k] = g[k]
         /\ \A k \in DOMAIN f \ DOMAIN g : Keyboard!With(f, g)[k] = f[k]
BY DEF Keyboard!With

\* What a restriction leaves.
LEMMA RestrictIs ==
  ASSUME NEW f, NEW K
  PROVE  DOMAIN Keyboard!Restrict(f, K) = K /\ \A k \in K : Keyboard!Restrict(f, K)[k] = f[k]
BY DEF Keyboard!Restrict

\* The keys of the system, and no others.
LEMMA SystemIs == DOMAIN Keyboard!System = SystemKeys
BY DEF Keyboard!System

\* The invariant holds at first.
LEMMA KeyboardStarts == Keyboard!Init => KeyboardInv
<1> SUFFICES ASSUME Keyboard!Init PROVE KeyboardInv
  OBVIOUS
<1>1. kConfig \in [list : Keyboard!Lists, global : BOOLEAN] /\ kFocused = FALSE /\ kConfig.list \in Keyboard!Lists
  BY DEF Keyboard!Init
<1>2. CASE kConfig.global
  <2>1. kCurrent = kConfig.list /\ kRegistered = Keyboard!Without(kCurrent, kDoubt)
    BY <1>2 DEF Keyboard!Init
  <2>2. /\ DOMAIN kRegistered = DOMAIN kConfig.list \ kDoubt
        /\ \A k \in DOMAIN kConfig.list \ kDoubt : kRegistered[k] = kConfig.list[k]
    <3>1. /\ DOMAIN Keyboard!Without(kCurrent, kDoubt) = DOMAIN kCurrent \ kDoubt
          /\ \A k \in DOMAIN kCurrent \ kDoubt : Keyboard!Without(kCurrent, kDoubt)[k] = kCurrent[k]
      BY WithoutIs
    <3> QED BY <2>1, <3>1
  <2>3. Keyboard!HotkeysFollow
    BY <1>1, <1>2, <2>2 DEF Keyboard!HotkeysFollow
  <2> QED BY <1>1, <1>2, <2>1, <2>3 DEF KeyboardInv
<1>3. CASE ~kConfig.global
  <2>1. kCurrent = Keyboard!Nothing /\ kRegistered = Keyboard!Nothing
    BY <1>3 DEF Keyboard!Init
  <2>2. DOMAIN Keyboard!Nothing = {}
    BY DEF Keyboard!Nothing
  <2> QED BY <1>1, <1>3, <2>1, <2>2, ListIs DEF KeyboardInv, Keyboard!HotkeysFollow
<1> QED BY <1>2, <1>3

\* The window gains the focus: the shortcuts of the system are registered, and those of the
\* application once more.
LEMMA FocusFits == ASSUME KeyboardGiven, KeyboardInv, Keyboard!Focus PROVE KeyboardInv'
<1>1. /\ kConfig \in [list : Keyboard!Lists, global : BOOLEAN] /\ kConfig.list \in Keyboard!Lists /\
           kCurrent \in Keyboard!Lists /\ Keyboard!HotkeysFollow
      /\ ~kFocused /\ kFocused' = TRUE /\ kConfig' = kConfig
  BY DEF KeyboardInv, Keyboard!Focus
<1>2. CASE kConfig.global
  <2>1. kRegistered' = Keyboard!With(kRegistered, Keyboard!System) /\ kCurrent' = kCurrent /\ kDoubt' = kDoubt
    BY <1>2 DEF Keyboard!Focus
  <2>2. kCurrent = kConfig.list
    BY <1>2 DEF KeyboardInv
  <2>3. \A k \in Keys : /\ k \in DOMAIN kRegistered' <=> k \in DOMAIN kRegistered
                        /\ k \in DOMAIN kRegistered => kRegistered'[k] = kRegistered[k]
    BY <2>1, WithIs, SystemIs DEF KeyboardGiven
  <2>4. Keyboard!HotkeysFollow'
    BY <1>1, <1>2, <2>1, <2>3 DEF Keyboard!HotkeysFollow
  <2> QED BY <1>1, <2>1, <2>2, <2>4 DEF KeyboardInv
<1>3. CASE ~kConfig.global
  <2>1. PICK failing \in SUBSET DOMAIN kConfig.list :
          /\ kRegistered' = Keyboard!With(Keyboard!With(kRegistered, Keyboard!System),
               Keyboard!Without(kConfig.list, failing))
          /\ kCurrent' = kConfig.list /\ kDoubt' = (kDoubt \ DOMAIN kConfig.list) \cup failing
    BY <1>3 DEF Keyboard!Focus
  <2>2. DOMAIN Keyboard!With(kRegistered, Keyboard!System) = DOMAIN kRegistered \cup SystemKeys
    BY WithIs, SystemIs
  <2>3. DOMAIN Keyboard!Without(kConfig.list, failing) = DOMAIN kConfig.list \ failing
        /\ \A k \in DOMAIN kConfig.list \ failing : Keyboard!Without(kConfig.list, failing)[k] = kConfig.list[k]
    BY WithoutIs
  <2>4. /\ DOMAIN kRegistered' = (DOMAIN kRegistered \cup SystemKeys) \cup (DOMAIN kConfig.list \ failing)
        /\ \A k \in DOMAIN kConfig.list \ failing : kRegistered'[k] = kConfig.list[k]
    <3> DEFINE f == Keyboard!With(kRegistered, Keyboard!System)
               g == Keyboard!Without(kConfig.list, failing)
    <3>1. kRegistered' = Keyboard!With(f, g)
      BY <2>1
    <3> HIDE DEF f, g
    <3>2. DOMAIN kRegistered' = DOMAIN f \cup DOMAIN g /\ \A k \in DOMAIN g : kRegistered'[k] = g[k]
      <4>1. DOMAIN Keyboard!With(f, g) = DOMAIN f \cup DOMAIN g /\ \A k \in DOMAIN g : Keyboard!With(f, g)[k] = g[k]
        BY WithIs
      <4> QED BY <3>1, <4>1
    <3> QED BY <2>2, <2>3, <3>2 DEF f, g
  <2>5. Keyboard!HotkeysFollow'
    <3> SUFFICES ASSUME NEW k \in Keys, k \notin kDoubt'
                 PROVE  IF k \in DOMAIN kConfig.list THEN k \in DOMAIN kRegistered' /\
                          kRegistered'[k] = kConfig.list[k]
                        ELSE k \notin DOMAIN kRegistered'
      BY <1>1 DEF Keyboard!HotkeysFollow
    <3>1. CASE k \in DOMAIN kConfig.list
      BY <2>1, <2>4, <3>1
    <3>2. CASE k \notin DOMAIN kConfig.list
      BY <1>1, <1>3, <2>1, <2>4, <3>2 DEF Keyboard!HotkeysFollow, KeyboardGiven
    <3> QED BY <3>1, <3>2
  <2> QED BY <1>1, <2>1, <2>5 DEF KeyboardInv
<1> QED BY <1>2, <1>3

\* The window loses the focus: the shortcuts of the system go.
LEMMA BlurFits == ASSUME KeyboardGiven, KeyboardInv, Keyboard!Blur PROVE KeyboardInv'
<1>1. /\ kConfig \in [list : Keyboard!Lists, global : BOOLEAN] /\ kConfig.list \in Keyboard!Lists /\
           kCurrent \in Keyboard!Lists /\ Keyboard!HotkeysFollow
      /\ kFocused /\ kFocused' = FALSE /\ kConfig' = kConfig /\ kCurrent' = kCurrent
      /\ kConfig.global \/ kFocused => kCurrent = kConfig.list
  BY DEF KeyboardInv, Keyboard!Blur
<1>2. CASE kConfig.global
  <2>1. kRegistered' = Keyboard!Without(kRegistered, SystemKeys) /\ kDoubt' = kDoubt
    BY <1>2 DEF Keyboard!Blur, Keyboard!Released
  <2>2. \A k \in Keys : /\ k \in DOMAIN kRegistered' <=> k \in DOMAIN kRegistered
                        /\ k \in DOMAIN kRegistered => kRegistered'[k] = kRegistered[k]
    BY <2>1, WithoutIs DEF KeyboardGiven
  <2>3. Keyboard!HotkeysFollow'
    BY <1>1, <1>2, <2>1, <2>2 DEF Keyboard!HotkeysFollow
  <2> QED BY <1>1, <2>3 DEF KeyboardInv
<1>3. CASE ~kConfig.global
  <2>1. DOMAIN kRegistered' = {}
    BY <1>3 DEF Keyboard!Blur, Keyboard!Released, Keyboard!Nothing
  <2>2. Keyboard!HotkeysFollow'
    BY <1>1, <1>3, <2>1 DEF Keyboard!HotkeysFollow
  <2> QED BY <1>1, <1>3, <2>2 DEF KeyboardInv
<1> QED BY <1>2, <1>3

\* A new list of shortcuts replaces the old one.
LEMMA UpdateFits ==
  ASSUME KeyboardGiven, KeyboardInv, NEW new \in Keyboard!Lists, Keyboard!Update(new)
  PROVE  KeyboardInv'
<1> DEFINE gone == Keyboard!Deleted(kCurrent, new)
           added == Keyboard!Added(kCurrent, new)
           kept == Keyboard!Without(kRegistered, gone)
<1>1. /\ kConfig \in [list : Keyboard!Lists, global : BOOLEAN] /\ kConfig.list \in Keyboard!Lists /\
           Keyboard!HotkeysFollow
      /\ kFocused /\ kFocused' = kFocused /\ kCurrent = kConfig.list
  BY DEF KeyboardInv, Keyboard!Update
<1>2. /\ DOMAIN kept = DOMAIN kRegistered \ gone
      /\ \A k \in DOMAIN kRegistered \ gone : kept[k] = kRegistered[k]
  BY WithoutIs
<1>3. CASE kRegistered' = Keyboard!With(kept, Keyboard!Restrict(new, added)) /\ kCurrent' = new
           /\ kConfig' = [kConfig EXCEPT !.list = new] /\ kDoubt' = kDoubt
  <2>1. kConfig' \in [list : Keyboard!Lists, global : BOOLEAN] /\ kConfig'.list = new /\
          kConfig'.global = kConfig.global
    BY <1>1, <1>3
  <2>2. /\ DOMAIN kRegistered' = (DOMAIN kRegistered \ gone) \cup added
        /\ \A k \in added : kRegistered'[k] = new[k]
        /\ \A k \in (DOMAIN kRegistered \ gone) \ added : kRegistered'[k] = kRegistered[k]
    <3> DEFINE g == Keyboard!Restrict(new, added)
    <3>1. DOMAIN g = added /\ \A k \in added : g[k] = new[k]
      BY RestrictIs
    <3> HIDE DEF g, kept, gone, added
    <3>2. /\ DOMAIN kRegistered' = DOMAIN kept \cup DOMAIN g
          /\ \A k \in DOMAIN g : kRegistered'[k] = g[k]
          /\ \A k \in DOMAIN kept \ DOMAIN g : kRegistered'[k] = kept[k]
      <4>1. /\ DOMAIN Keyboard!With(kept, g) = DOMAIN kept \cup DOMAIN g
            /\ \A k \in DOMAIN g : Keyboard!With(kept, g)[k] = g[k]
            /\ \A k \in DOMAIN kept \ DOMAIN g : Keyboard!With(kept, g)[k] = kept[k]
        BY WithIs
      <4>2. kRegistered' = Keyboard!With(kept, g)
        BY <1>3 DEF g
      <4> QED BY <4>1, <4>2
    <3> QED BY <1>2, <3>1, <3>2
  <2>3. Keyboard!HotkeysFollow'
    <3> SUFFICES ASSUME NEW k \in Keys, k \notin kDoubt
                 PROVE  IF k \in DOMAIN new THEN k \in DOMAIN kRegistered' /\ kRegistered'[k] = new[k]
                        ELSE k \notin DOMAIN kRegistered'
      BY <1>1, <1>3, <2>1 DEF Keyboard!HotkeysFollow
    <3>1. IF k \in DOMAIN kCurrent THEN k \in DOMAIN kRegistered /\ kRegistered[k] = kCurrent[k]
          ELSE k \notin DOMAIN kRegistered
      BY <1>1 DEF Keyboard!HotkeysFollow
    <3> QED BY <2>2, <3>1 DEF Keyboard!Deleted, Keyboard!Added
  <2> QED BY <1>1, <1>3, <2>1, <2>3 DEF KeyboardInv
<1>4. ASSUME NEW done \in SUBSET added, kRegistered' = Keyboard!With(kept, Keyboard!Restrict(new, done)),
             kDoubt' = kDoubt \cup gone \cup added, kConfig' = kConfig, kCurrent' = kCurrent
      PROVE  KeyboardInv'
  <2>1. /\ DOMAIN kRegistered' = (DOMAIN kRegistered \ gone) \cup done
        /\ \A k \in (DOMAIN kRegistered \ gone) \ done : kRegistered'[k] = kRegistered[k]
    <3> DEFINE g == Keyboard!Restrict(new, done)
    <3>1. DOMAIN g = done
      BY RestrictIs
    <3> HIDE DEF g, kept, gone, added
    <3>2. /\ DOMAIN kRegistered' = DOMAIN kept \cup DOMAIN g
          /\ \A k \in DOMAIN kept \ DOMAIN g : kRegistered'[k] = kept[k]
      BY <1>4, WithIs DEF g
    <3> QED BY <1>2, <3>1, <3>2
  <2>2. Keyboard!HotkeysFollow'
    BY <1>1, <1>4, <2>1 DEF Keyboard!HotkeysFollow
  <2> QED BY <1>1, <1>4, <2>2 DEF KeyboardInv
<1> QED BY <1>3, <1>4 DEF Keyboard!Update

\* Through every order of focus, blur and change of the list and of its scope the desktop
\* has the shortcuts of the configuration where they are to act and none where they are not,
\* the keys that a failed change touched aside; for every set of keys that the system does not
\* use.
THEOREM KeyboardHolds == ASSUME KeyboardGiven PROVE Keyboard!Spec => []Keyboard!HotkeysFollow
<1>1. KeyboardInv /\ Keyboard!SetGlobal => KeyboardInv'
  <2> SUFFICES ASSUME KeyboardInv, Keyboard!SetGlobal PROVE KeyboardInv'
    OBVIOUS
  <2>1. /\ kFocused /\ kFocused' = kFocused /\ kCurrent' = kCurrent /\ kRegistered' = kRegistered /\ kDoubt' = kDoubt
        /\ kConfig' = [kConfig EXCEPT !.global = ~@]
    BY DEF Keyboard!SetGlobal
  <2>2. kConfig' \in [list : Keyboard!Lists, global : BOOLEAN] /\ kConfig'.list = kConfig.list
    BY <2>1 DEF KeyboardInv
  <2> QED BY <2>1, <2>2 DEF KeyboardInv, Keyboard!HotkeysFollow
<1>2. KeyboardInv /\ UNCHANGED Keyboard!vars => KeyboardInv'
  BY DEF KeyboardInv, Keyboard!HotkeysFollow, Keyboard!vars
<1>3. KeyboardInv /\ [Keyboard!Next]_(Keyboard!vars) => KeyboardInv'
  BY <1>1, <1>2, FocusFits, BlurFits, UpdateFits DEF Keyboard!Next
<1>4. KeyboardInv => Keyboard!HotkeysFollow
  BY DEF KeyboardInv
<1> QED BY KeyboardStarts, <1>3, <1>4, PTL DEF Keyboard!Spec

-----------------------------------------------------------------------------
(* The monitor of the owner.                                                *)

VARIABLES wWatch, wStep, wStopped, wHeard
watchVars == <<wWatch, wStep, wStopped, wHeard>>
Watch == INSTANCE OwnerWatch WITH watch <- wWatch, step <- wStep, stopped <- wStopped,
    heard <- wHeard

WatchGiven == Sustained \in Nat \ {0}

ASSUME WatchAssumption == WatchGiven

OwnerSamples == Watch!Status \cup {Watch!Unreadable, Watch!NotActive}
Answered == [sample : OwnerSamples, answers : BOOLEAN]
\* Until the monitor is done, its counters say of what it has heard: how many answers were
\* without a core, and how many at the end could not be read.
CountersFit ==
  /\ wWatch.missing = Cardinality(Watch!GoneSince)
  /\ wWatch.unreadable <= Len(wHeard)
  /\ \A i \in Len(wHeard) - wWatch.unreadable + 1 .. Len(wHeard) : ~Watch!IsReadable(wHeard[i])
  /\ (\A i \in DOMAIN wHeard : ~wHeard[i].answers) =>
       wWatch.unreadable = Len(wHeard) \/ Watch!IsReadable(wHeard[Len(wHeard) - wWatch.unreadable])
WatchInv ==
  /\ wWatch \in [unreadable : Nat, missing : Nat] /\ wHeard \in Seq(Answered)
  /\ ~wStopped => CountersFit
  /\ Watch!GivenUpForCause

\* The instance counts as this module does.
LEMMA CountIs == \A S : Watch!Cardinality(S) = Cardinality(S)
BY DEF Watch!Cardinality, Cardinality

\* A status is neither silence nor the answer that nothing is run.
LEMMA SamplesDiffer ==
  /\ Watch!Unreadable # Watch!NotActive
  /\ \A s \in Watch!Status : s # Watch!Unreadable /\ s # Watch!NotActive
<1>1. Watch!Unreadable.kind = "unreadable" /\ Watch!NotActive.kind = "not active"
  BY DEF Watch!Unreadable, Watch!NotActive
<1>2. \A s \in Watch!Status : s.kind = "status"
  BY DEF Watch!Status
<1> QED BY <1>1, <1>2

\* An answer is read as a sample.
LEMMA SampleTyped == \A a \in Watch!Answers : Watch!Sample(a) \in OwnerSamples
<1> SUFFICES ASSUME NEW a \in Watch!Answers PROVE Watch!Sample(a) \in OwnerSamples
  OBVIOUS
<1>1. Watch!IsStatus(a) => a.status \in Watch!Status
  BY DEF Watch!IsStatus
<1> QED BY <1>1 DEF Watch!Sample, OwnerSamples

\* The invariant holds at first.
LEMMA WatchStarts == Watch!Init => WatchInv
<1> SUFFICES ASSUME Watch!Init PROVE WatchInv
  OBVIOUS
<1>1. wWatch = [unreadable |-> 0, missing |-> 0] /\ wHeard = << >> /\ DOMAIN wHeard = {} /\ Len(wHeard) = 0
  BY DEF Watch!Init
<1>2. Watch!GoneSince = {}
  BY <1>1 DEF Watch!GoneSince
<1>3. Cardinality(Watch!GoneSince) = 0
  BY <1>2, FS_EmptySet
<1>4. CountersFit
  BY <1>1, <1>3 DEF CountersFit
<1>5. wHeard \in Seq(Answered) /\ wWatch \in [unreadable : Nat, missing : Nat]
  BY <1>1
<1> QED BY <1>1, <1>4, <1>5 DEF WatchInv, Watch!GivenUpForCause

\* What one more answer adds to what was heard.
LEMMA HeardGrows ==
  ASSUME wHeard \in Seq(Answered), NEW s \in OwnerSamples, NEW b \in BOOLEAN,
         wHeard' = Append(wHeard, [sample |-> s, answers |-> b])
  PROVE  /\ wHeard' \in Seq(Answered) /\ Len(wHeard) \in Nat /\ Len(wHeard') = Len(wHeard) + 1
         /\ DOMAIN wHeard = 1..Len(wHeard) /\ DOMAIN wHeard' = 1..Len(wHeard) + 1
         /\ \A i \in 1..Len(wHeard) : wHeard'[i] = wHeard[i]
         /\ wHeard'[Len(wHeard) + 1].sample = s /\ wHeard'[Len(wHeard) + 1].answers = b
<1>1. [sample |-> s, answers |-> b] \in Answered
  BY DEF Answered
<1>2. PICK h : h = [sample |-> s, answers |-> b]
  OBVIOUS
<1>3. h \in Answered /\ h.sample = s /\ h.answers = b /\ wHeard' = Append(wHeard, h)
  BY <1>1, <1>2
<1> QED BY <1>3

\* One that has no core is one more without it, one that could not be read is none, and any
\* other leaves none.
LEMMA GoneCounted ==
  ASSUME wHeard \in Seq(Answered), NEW s \in OwnerSamples, NEW b \in BOOLEAN,
         wHeard' = Append(wHeard, [sample |-> s, answers |-> b])
  PROVE  /\ Cardinality(Watch!GoneSince) \in Nat
         /\ s = Watch!Unreadable => Cardinality(Watch!GoneSince)' = Cardinality(Watch!GoneSince)
         /\ s \in Watch!Status /\ Watch!Missing(s) => Cardinality(Watch!GoneSince)' = Cardinality(Watch!GoneSince) + 1
         /\ s \in Watch!Status /\ ~Watch!Missing(s) => Cardinality(Watch!GoneSince)' = 0
<1> DEFINE n == Len(wHeard)
<1>1. /\ n \in Nat /\ Len(wHeard') = n + 1 /\ DOMAIN wHeard = 1..n /\ DOMAIN wHeard' = 1..n + 1
      /\ \A i \in 1..n : wHeard'[i] = wHeard[i]
      /\ wHeard'[n + 1].sample = s
  BY HeardGrows
<1> HIDE DEF n
<1>2. \A i \in 1..n : Watch!IsReadable(wHeard'[i]) = Watch!IsReadable(wHeard[i]) /\
        Watch!Gone(wHeard'[i]) = Watch!Gone(wHeard[i])
  BY <1>1
<1>3. Watch!IsReadable(wHeard'[n + 1]) = (s # Watch!Unreadable) /\
        Watch!Gone(wHeard'[n + 1]) = (s # Watch!NotActive /\ Watch!Missing(s))
  BY <1>1 DEF Watch!IsReadable, Watch!Gone
<1>4. IsFiniteSet(Watch!GoneSince) /\ Cardinality(Watch!GoneSince) \in Nat
  <2>1. IsFiniteSet(1..n)
    BY <1>1, FS_Interval
  <2>2. Watch!GoneSince \in SUBSET (1..n)
    BY <1>1 DEF Watch!GoneSince
  <2> QED BY <2>1, <2>2, FS_Subset, FS_CardinalityType
<1>5. Watch!GoneSince = {i \in 1..n : Watch!IsReadable(wHeard[i]) /\
        \A j \in i..n : Watch!IsReadable(wHeard[j]) => Watch!Gone(wHeard[j])}
  BY <1>1 DEF Watch!GoneSince, n
<1>6. Watch!GoneSince' = {i \in 1..n + 1 : Watch!IsReadable(wHeard'[i]) /\
        \A j \in i..n + 1 : Watch!IsReadable(wHeard'[j]) => Watch!Gone(wHeard'[j])}
  BY <1>1 DEF Watch!GoneSince
<1>7. ASSUME NEW i \in 1..n
      PROVE  i \in Watch!GoneSince' <=> i \in Watch!GoneSince /\
               (Watch!IsReadable(wHeard'[n + 1]) => Watch!Gone(wHeard'[n + 1]))
  <2>1. (\A j \in i..n : Watch!IsReadable(wHeard'[j]) => Watch!Gone(wHeard'[j])) <=> \A j \in i..n : Watch!IsReadable(wHeard[j]) => Watch!Gone(wHeard[j])
    <3>1. \A j \in i..n : j \in 1..n
      BY <1>1, <1>7
    <3> QED BY <1>2, <3>1
  <2>2. \A j : j \in i..n + 1 <=> j \in i..n \/ j = n + 1
    BY <1>1, <1>7
  <2>3. Watch!IsReadable(wHeard'[i]) = Watch!IsReadable(wHeard[i])
    BY <1>2, <1>7
  <2>4. i \in 1..n + 1
    BY <1>1, <1>7
  <2> QED BY <1>5, <1>6, <1>7, <2>1, <2>2, <2>3, <2>4
<1>8. (n + 1 \in Watch!GoneSince' <=> Watch!IsReadable(wHeard'[n + 1]) /\ Watch!Gone(wHeard'[n + 1])) /\
        n + 1 \notin Watch!GoneSince
  <2>1. n + 1 \in 1..n + 1 /\ n + 1 \notin 1..n /\ \A j : j \in (n + 1)..(n + 1) <=> j = n + 1
    BY <1>1
  <2> QED BY <1>5, <1>6, <2>1
<1>9. (\A i \in Watch!GoneSince : i \in 1..n) /\ \A i \in Watch!GoneSince' : i \in 1..n \/ i = n + 1
  BY <1>1, <1>5, <1>6
<1>10. ASSUME s = Watch!Unreadable PROVE Watch!GoneSince' = Watch!GoneSince
  <2>1. ~Watch!IsReadable(wHeard'[n + 1])
    BY <1>3, <1>10
  <2> QED BY <1>7, <1>8, <1>9, <2>1
<1>11. ASSUME s \in Watch!Status, Watch!Missing(s) PROVE Watch!GoneSince' = Watch!GoneSince \cup {n + 1} /\
                n + 1 \notin Watch!GoneSince
  <2>1. Watch!IsReadable(wHeard'[n + 1]) /\ Watch!Gone(wHeard'[n + 1])
    BY <1>3, <1>11, SamplesDiffer
  <2> QED BY <1>7, <1>8, <1>9, <2>1
<1>12. ASSUME s \in Watch!Status, ~Watch!Missing(s) PROVE Watch!GoneSince' = {}
  <2>1. Watch!IsReadable(wHeard'[n + 1]) /\ ~Watch!Gone(wHeard'[n + 1])
    BY <1>3, <1>12, SamplesDiffer
  <2> QED BY <1>7, <1>8, <1>9, <2>1
<1>13. s = Watch!Unreadable => Cardinality(Watch!GoneSince)' = Cardinality(Watch!GoneSince)
  BY <1>10
<1>14. s \in Watch!Status /\ Watch!Missing(s) => Cardinality(Watch!GoneSince)' = Cardinality(Watch!GoneSince) + 1
  BY <1>4, <1>11, FS_AddElement
<1>15. s \in Watch!Status /\ ~Watch!Missing(s) => Cardinality(Watch!GoneSince)' = 0
  BY <1>12, FS_EmptySet
<1> QED BY <1>4, <1>13, <1>14, <1>15

\* The counters after an answer.
LEMMA CountedIs ==
  ASSUME wWatch \in [unreadable : Nat, missing : Nat], NEW s \in OwnerSamples, NEW w, w = Watch!Counted(wWatch, s)
  PROVE  /\ w \in [unreadable : Nat, missing : Nat]
         /\ s = Watch!Unreadable => w.unreadable = wWatch.unreadable + 1 /\ w.missing = wWatch.missing
         /\ s = Watch!NotActive => w = wWatch
         /\ s \in Watch!Status => w.unreadable = 0 /\ w.missing = IF Watch!Missing(s) THEN wWatch.missing + 1 ELSE 0
<1>1. CASE s = Watch!Unreadable
  <2>1. w = [wWatch EXCEPT !.unreadable = wWatch.unreadable + 1]
    BY <1>1, SamplesDiffer DEF Watch!Counted
  <2> QED BY <1>1, <2>1, SamplesDiffer
<1>2. CASE s = Watch!NotActive
  <2>1. w = wWatch
    BY <1>2, SamplesDiffer DEF Watch!Counted
  <2> QED BY <1>2, <2>1, SamplesDiffer
<1>3. CASE s \in Watch!Status
  <2>1. w = [unreadable |-> 0, missing |-> IF Watch!Missing(s) THEN wWatch.missing + 1 ELSE 0]
    BY <1>3, SamplesDiffer DEF Watch!Counted
  <2> QED BY <1>3, <2>1, SamplesDiffer
<1> QED BY <1>1, <1>2, <1>3 DEF OwnerSamples

\* What a round of the monitor does.
LEMMA RoundIs ==
  ASSUME wWatch \in [unreadable : Nat, missing : Nat], NEW s \in OwnerSamples, NEW w, w = Watch!Counted(wWatch, s),
         NEW o, o = Watch!Observed(w, s), Watch!Round(s, o, w)
  PROVE  \E b \in BOOLEAN :
           /\ wHeard' = Append(wHeard, [sample |-> s, answers |-> b])
           /\ wWatch' \in [unreadable : Nat, missing : Nat] /\ wWatch'.missing = w.missing
           /\ b => o = "verify" /\ wStep' = "continue" /\ wWatch'.unreadable = 0
           /\ ~b => wWatch'.unreadable = w.unreadable
           /\ ~b => wStep' = IF o = "verify" THEN "transport failure" ELSE o
<1>1. PICK b \in IF o = "verify" THEN BOOLEAN ELSE {FALSE} :
        /\ wWatch' = IF b THEN [w EXCEPT !.unreadable = 0] ELSE w
        /\ wStep' = IF o # "verify" THEN o ELSE IF b THEN "continue" ELSE "transport failure"
        /\ wHeard' = Append(wHeard, [sample |-> s, answers |-> b])
  BY DEF Watch!Round
<1>2. b \in BOOLEAN /\ (b => o = "verify")
  BY <1>1
<1>3. w \in [unreadable : Nat, missing : Nat]
  BY CountedIs
<1>4. wWatch' \in [unreadable : Nat, missing : Nat] /\ wWatch'.missing = w.missing
      /\ (b => wWatch'.unreadable = 0) /\ (~b => wWatch'.unreadable = w.unreadable)
  BY <1>1, <1>3
<1> QED BY <1>1, <1>2, <1>4

\* What is concluded from the counters.
LEMMA ObservedIs ==
  ASSUME NEW s \in OwnerSamples, NEW w, NEW o, o = Watch!Observed(w, s)
  PROVE  /\ s = Watch!Unreadable => o = IF w.unreadable >= Sustained THEN "verify" ELSE "continue"
         /\ s = Watch!NotActive => o = "displaced"
         /\ s \in Watch!Status => o = Watch!Reason(w, s)
BY SamplesDiffer DEF Watch!Observed, OwnerSamples

\* What silence is, of all that was heard then.
LEMMA SilentIs ==
  \A m : m = Len(wHeard') =>
    (Watch!SilentSince(Sustained)' <=> m >= Sustained /\ \A i \in m - Sustained + 1 .. m : ~Watch!IsReadable(wHeard'[i]))
BY DEF Watch!SilentSince

\* The counters go on saying what was heard, and what is concluded is justified by it.
LEMMA AnswerFits == ASSUME WatchGiven, WatchInv, Watch!Read PROVE WatchInv'
<1> DEFINE n == Len(wHeard)
<1>0. wWatch \in [unreadable : Nat, missing : Nat] /\ wHeard \in Seq(Answered) /\ CountersFit
  BY DEF WatchInv, Watch!Read
<1>1. PICK a \in Watch!Answers : Watch!Round(Watch!Sample(a), Watch!Observed(Watch!Counted(wWatch,
             Watch!Sample(a)), Watch!Sample(a)), Watch!Counted(wWatch, Watch!Sample(a)))
  BY DEF Watch!Read
<1>2. PICK s : s = Watch!Sample(a) /\ s \in OwnerSamples
  BY SampleTyped
<1>3. PICK w : w = Watch!Counted(wWatch, s)
  OBVIOUS
<1>4. PICK o : o = Watch!Observed(w, s)
  OBVIOUS
<1>5. Watch!Round(s, o, w)
  BY <1>1, <1>2, <1>3, <1>4
<1>6. PICK b \in BOOLEAN :
        /\ wHeard' = Append(wHeard, [sample |-> s, answers |-> b])
        /\ wWatch' \in [unreadable : Nat, missing : Nat] /\ wWatch'.missing = w.missing
        /\ b => o = "verify" /\ wStep' = "continue" /\ wWatch'.unreadable = 0
        /\ ~b => wWatch'.unreadable = w.unreadable
        /\ ~b => wStep' = IF o = "verify" THEN "transport failure" ELSE o
  BY <1>0, <1>2, <1>3, <1>4, <1>5, RoundIs
<1>7. /\ wHeard' \in Seq(Answered) /\ n \in Nat /\ Len(wHeard') = n + 1 /\ DOMAIN wHeard = 1..n /\
           DOMAIN wHeard' = 1..n + 1
      /\ \A i \in 1..n : wHeard'[i] = wHeard[i]
      /\ wHeard'[n + 1].sample = s /\ wHeard'[n + 1].answers = b
  BY <1>0, <1>2, <1>6, HeardGrows
<1>8. /\ Cardinality(Watch!GoneSince) \in Nat
      /\ s = Watch!Unreadable => Cardinality(Watch!GoneSince)' = Cardinality(Watch!GoneSince)
      /\ s \in Watch!Status /\ Watch!Missing(s) => Cardinality(Watch!GoneSince)' = Cardinality(Watch!GoneSince) + 1
      /\ s \in Watch!Status /\ ~Watch!Missing(s) => Cardinality(Watch!GoneSince)' = 0
  BY <1>0, <1>2, <1>6, GoneCounted
<1>9. /\ w \in [unreadable : Nat, missing : Nat]
      /\ s = Watch!Unreadable => w.unreadable = wWatch.unreadable + 1 /\ w.missing = wWatch.missing
      /\ s = Watch!NotActive => w = wWatch
      /\ s \in Watch!Status => w.unreadable = 0 /\ w.missing = IF Watch!Missing(s) THEN wWatch.missing + 1 ELSE 0
  BY <1>0, <1>2, <1>3, CountedIs
<1>10. /\ s = Watch!Unreadable => o = IF w.unreadable >= Sustained THEN "verify" ELSE "continue"
       /\ s = Watch!NotActive => o = "displaced"
       /\ s \in Watch!Status => o = Watch!Reason(w, s)
  BY <1>2, <1>4, ObservedIs
<1>11. wStopped' = (wStep' # "continue")
  BY DEF Watch!Read
<1>12. s = Watch!Unreadable \/ s = Watch!NotActive \/ s \in Watch!Status
  BY <1>2 DEF OwnerSamples
<1>13. b => s = Watch!Unreadable
  <2>1. s \in Watch!Status => o # "verify"
    BY <1>10 DEF Watch!Reason
  <2> QED BY <2>1, <1>6, <1>10, <1>12
<1>14. /\ Watch!Unreadable # Watch!NotActive
       /\ s \in Watch!Status => s # Watch!Unreadable /\ s # Watch!NotActive
  BY SamplesDiffer
<1>15. wWatch.missing = Cardinality(Watch!GoneSince) /\ wWatch.unreadable <= n /\ wWatch.unreadable \in Nat /\
         wWatch.missing \in Nat
  BY <1>0 DEF CountersFit
<1>16. \A i \in 1..n + 1 : Watch!IsReadable(wHeard'[i]) <=> IF i = n + 1 THEN s # Watch!Unreadable ELSE Watch!IsReadable(wHeard[i])
  BY <1>7 DEF Watch!IsReadable
<1>17. \A i \in n - wWatch.unreadable + 1 .. n : ~Watch!IsReadable(wHeard[i])
  BY <1>0 DEF CountersFit
<1>18. (\A i \in 1..n + 1 : ~wHeard'[i].answers) => ~b /\ (wWatch.unreadable = n \/
         Watch!IsReadable(wHeard[n - wWatch.unreadable]))
  <2>1. (\A i \in 1..n + 1 : ~wHeard'[i].answers) => ~b /\ \A i \in 1..n : ~wHeard[i].answers
    BY <1>7
  <2>2. (\A i \in 1..n : ~wHeard[i].answers) => wWatch.unreadable = n \/
          Watch!IsReadable(wHeard[n - wWatch.unreadable])
    BY <1>0, <1>7 DEF CountersFit
  <2> QED BY <2>1, <2>2
<1> HIDE DEF n
<1>19. wWatch'.unreadable \in Nat /\ wWatch'.unreadable <= n + 1
  <2>1. w.unreadable \in Nat /\ w.unreadable <= n + 1
    BY <1>7, <1>9, <1>12, <1>15
  <2>2. wWatch'.unreadable = 0 \/ wWatch'.unreadable = w.unreadable
    BY <1>6
  <2> QED BY <2>1, <2>2, <1>7
<1>bounds. n \in Nat /\ Sustained \in Nat \ {0} /\ wWatch'.unreadable \in Nat /\ wWatch'.unreadable <= n + 1
  BY <1>7, <1>19 DEF WatchGiven
<1>20. ASSUME s # Watch!NotActive PROVE wWatch'.missing = Cardinality(Watch!GoneSince)'
  BY <1>6, <1>8, <1>9, <1>12, <1>15, <1>20
<1>21. \A i \in n + 1 - wWatch'.unreadable + 1 .. n + 1 : s # Watch!NotActive => ~Watch!IsReadable(wHeard'[i])
  <2> SUFFICES ASSUME NEW i \in n + 1 - wWatch'.unreadable + 1 .. n + 1,
        s # Watch!NotActive PROVE ~Watch!IsReadable(wHeard'[i])
    OBVIOUS
  <2>1. s = Watch!Unreadable /\ ~b /\ wWatch'.unreadable = wWatch.unreadable + 1
    <3>1. wWatch'.unreadable # 0
      BY <1>bounds
    <3>2. ~b /\ wWatch'.unreadable = w.unreadable
      BY <3>1, <1>6
    <3>3. s \notin Watch!Status
      BY <3>1, <3>2, <1>9
    <3> QED BY <3>2, <3>3, <1>9, <1>12
  <2>2. i = n + 1 \/ i \in n - wWatch.unreadable + 1 .. n
    BY <2>1, <1>7, <1>15
  <2>3. i \in 1..n + 1
    BY <2>1, <1>7, <1>15
  <2> QED BY <2>1, <2>2, <2>3, <1>7, <1>16, <1>17
<1>22. ASSUME \A i \in 1..n + 1 : ~wHeard'[i].answers, s # Watch!NotActive
       PROVE  wWatch'.unreadable = n + 1 \/ Watch!IsReadable(wHeard'[n + 1 - wWatch'.unreadable])
  <2>1. ~b /\ (wWatch.unreadable = n \/ Watch!IsReadable(wHeard[n - wWatch.unreadable]))
    BY <1>18, <1>22
  <2>2. CASE s = Watch!Unreadable
    <3>1. wWatch'.unreadable = wWatch.unreadable + 1
      BY <2>1, <2>2, <1>6, <1>9
    <3>2. wWatch.unreadable # n => n - wWatch.unreadable \in 1..n /\
            n + 1 - wWatch'.unreadable = n - wWatch.unreadable
      BY <3>1, <1>7, <1>15
    <3>3. wWatch.unreadable # n => Watch!IsReadable(wHeard'[n - wWatch.unreadable])
      BY <3>2, <2>1, <1>7
    <3> QED BY <3>1, <3>2, <3>3, <1>7
  <2>3. CASE s \in Watch!Status
    <3>1. wWatch'.unreadable = 0
      BY <2>1, <2>3, <1>6, <1>9
    <3>2. Watch!IsReadable(wHeard'[n + 1])
      BY <2>3, <1>7, <1>14, <1>16
    <3> QED BY <3>1, <3>2, <1>7
  <2> QED BY <2>2, <2>3, <1>12, <1>22
<1>23. ~wStopped' => CountersFit'
  <2> SUFFICES ASSUME ~wStopped' PROVE CountersFit'
    OBVIOUS
  <2>1. s # Watch!NotActive
    BY <1>6, <1>10, <1>11, <1>13, <1>14
  <2> QED BY <2>1, <1>7, <1>19, <1>20, <1>21, <1>22 DEF CountersFit
<1>24. Watch!Last' = s
  BY <1>7 DEF Watch!Last
<1>25. wStep' = "displaced" <=> s = Watch!NotActive \/ (s # Watch!Unreadable /\ ~s.active)
  BY <1>6, <1>10, <1>12, <1>13, <1>14 DEF Watch!Reason
<1>26. /\ s \in Watch!Status /\ s.active =>
            (wStep' = "same owner failure" <=> ~s.wanted \/ s.state = "Fatal" \/
                Cardinality(Watch!GoneSince)' >= Sustained)
       /\ wStep' = "same owner failure" => s \in Watch!Status /\ s.active
  <2>1. s \in Watch!Status => wStep' = o /\ o = Watch!Reason(w, s)
    BY <1>6, <1>10, <1>13, <1>14 DEF Watch!Reason
  <2>2. s \notin Watch!Status => wStep' # "same owner failure"
    BY <1>6, <1>10, <1>12
  <2>3. s \in Watch!Status => (Watch!Missing(s) /\ w.missing >= Sustained <=> Cardinality(Watch!GoneSince)' >= Sustained)
    BY <1>8, <1>9, <1>15 DEF WatchGiven
  <2> QED BY <2>1, <2>2, <2>3 DEF Watch!Reason
<1>27. wStep' = "transport failure" => s = Watch!Unreadable /\ ~b /\ wWatch'.unreadable >= Sustained
  <2>1. o # "transport failure"
    BY <1>10, <1>12 DEF Watch!Reason
  <2>2. wStep' = "transport failure" => o = "verify" /\ ~b
    BY <2>1, <1>6
  <2>3. o = "verify" => s = Watch!Unreadable /\ w.unreadable >= Sustained
    BY <1>10, <1>12 DEF Watch!Reason
  <2> QED BY <2>2, <2>3, <1>6
<1>28. ASSUME s # Watch!NotActive, wWatch'.unreadable >= Sustained PROVE Watch!SilentSince(Sustained)'
  <2>1. PICK k : k = wWatch'.unreadable
    OBVIOUS
  <2>2. n \in Nat /\ Sustained \in Nat \ {0} /\ k \in Nat /\ k <= n + 1 /\ k >= Sustained
    BY <1>bounds, <1>28, <2>1
  <2>3. \A i \in n + 1 - Sustained + 1 .. n + 1 : i \in n + 1 - k + 1 .. n + 1
    BY <2>2
  <2>4. \A i \in n + 1 - Sustained + 1 .. n + 1 : ~Watch!IsReadable(wHeard'[i])
    BY <1>21, <1>28, <2>1, <2>3
  <2>5. n + 1 >= Sustained
    BY <2>2
  <2>6. Len(wHeard') = n + 1
    BY <1>7
  <2> QED BY <2>2, <2>4, <2>5, <2>6, SilentIs
<1>29. ASSUME Watch!SilentSince(Sustained)', \A i \in 1..n + 1 : ~wHeard'[i].answers
       PROVE  s = Watch!Unreadable /\ ~b /\ wWatch'.unreadable >= Sustained
  <2>6. Len(wHeard') = n + 1
    BY <1>7
  <2>1. n + 1 >= Sustained /\ \A i \in n + 1 - Sustained + 1 .. n + 1 : ~Watch!IsReadable(wHeard'[i])
    BY <1>29, <1>bounds, <2>6, SilentIs
  <2>2. ~Watch!IsReadable(wHeard'[n + 1])
    BY <2>1, <1>bounds
  <2>3. s = Watch!Unreadable /\ ~b
    <3>1. n + 1 \in 1..n + 1
      BY <1>bounds
    <3> QED BY <3>1, <2>2, <1>16, <1>18, <1>29
  <2>4. wWatch'.unreadable = n + 1 \/ Watch!IsReadable(wHeard'[n + 1 - wWatch'.unreadable])
    BY <1>14, <1>22, <1>29, <2>3
  <2>5. wWatch'.unreadable >= Sustained
    BY <2>1, <2>4, <1>bounds
  <2> QED BY <2>3, <2>5
<1>silent. wStep' = "transport failure" => Watch!SilentSince(Sustained)' /\ ~wHeard'[n + 1].answers
  BY <1>7, <1>14, <1>27, <1>28
<1>claimed. Watch!SilentSince(Sustained)' /\ (\A i \in 1..n + 1 : ~wHeard'[i].answers) => wStep' = "transport failure"
  BY <1>6, <1>9, <1>10, <1>29
<1>30. Watch!GivenUpForCause'
  <2>1. s \notin {Watch!Unreadable, Watch!NotActive} <=> s \in Watch!Status
    BY <1>12, <1>14
  <2>3. wStep' = "displaced" <=> Watch!Last' = Watch!NotActive \/
          (Watch!Last' # Watch!Unreadable /\ ~Watch!Last'.active)
    BY <1>24, <1>25
  <2>4. wStep' = "same owner failure" <=>
          /\ Watch!Last' \notin {Watch!Unreadable, Watch!NotActive} /\ Watch!Last'.active
          /\ ~Watch!Last'.wanted \/ Watch!Last'.state = "Fatal" \/ Cardinality(Watch!GoneSince)' >= Sustained
    BY <1>24, <1>26, <2>1
  <2>5. wStep' = "transport failure" => Watch!SilentSince(Sustained)' /\ ~wHeard'[Len(wHeard')].answers
    BY <1>7, <1>silent
  <2>6. Watch!SilentSince(Sustained)' /\ (\A i \in DOMAIN wHeard' : ~wHeard'[i].answers) =>
          wStep' = "transport failure"
    BY <1>7, <1>claimed
  <2> QED BY <2>3, <2>4, <2>5, <2>6, CountIs DEF Watch!GivenUpForCause
<1> QED BY <1>6, <1>7, <1>23, <1>30 DEF WatchInv

\* A helper is given up when it says so itself, when enough answers in a row that could be
\* read had no core, however many could not be read between them, or when it was silent as
\* often and the core does not answer either; for every number of samples that is enough.
THEOREM WatchHolds == WatchGiven => (Watch!Spec => []Watch!GivenUpForCause)
<1> SUFFICES ASSUME WatchGiven PROVE Watch!Spec => []Watch!GivenUpForCause
  OBVIOUS
<1>1. Watch!Init => WatchInv
  BY WatchStarts
<1>2. WatchInv /\ [Watch!Next]_(Watch!vars) => WatchInv'
  <2> SUFFICES ASSUME WatchInv, [Watch!Next]_(Watch!vars) PROVE WatchInv'
    OBVIOUS
  <2>1. CASE Watch!Read
    BY <2>1, AnswerFits
  <2>2. CASE Watch!Superseded
    BY <2>2 DEF Watch!Superseded, WatchInv, Watch!GivenUpForCause, Watch!Last, Watch!SilentSince, Watch!GoneSince
  <2>3. CASE UNCHANGED Watch!vars
    BY <2>3 DEF Watch!vars, WatchInv, CountersFit, Watch!GivenUpForCause, Watch!Last, Watch!SilentSince,
       Watch!GoneSince
  <2> QED BY <2>1, <2>2, <2>3 DEF Watch!Next
<1>3. WatchInv => Watch!GivenUpForCause
  BY DEF WatchInv
<1> QED BY <1>1, <1>2, <1>3, PTL DEF Watch!Spec

-----------------------------------------------------------------------------
(* The effects of a patch of the settings.                                  *)

VARIABLES dLinux, dData, dDraft, dFile, dPatch, dTodo, dMenu, dShown, dDoubt, dPatches,
          dRefreshes
patchVars == <<dLinux, dData, dDraft, dFile, dPatch, dTodo, dMenu, dShown, dDoubt, dPatches,
      dRefreshes>>
Patch == INSTANCE VergePatch WITH linux <- dLinux, data <- dData, draft <- dDraft,
    file <- dFile, patch <- dPatch, todo <- dTodo, menu <- dMenu, shown <- dShown,
    doubt <- dDoubt, patches <- dPatches, refreshes <- dRefreshes

PatchGiven == Patches \subseteq SUBSET Patch!Settings

ASSUME PatchAssumption == PatchGiven

\* A target that has acted for the patch under way.
Acted(t) == \E flag \in Patch!Flags(dPatch, dDraft) \ dTodo : t \in Patch!Touches[flag]
PatchTyped ==
  /\ dData \in [Patch!Settings -> BOOLEAN] /\ dDraft \in [Patch!Settings -> BOOLEAN] /\
       dPatch \subseteq Patch!Settings
  /\ dShown = [t \in Patch!Targets |-> dShown[t]]
  /\ dMenu \in [tun : BOOLEAN, proxy : BOOLEAN, late : BOOLEAN, none : BOOLEAN]
\* Only what the patch names is staged, and the words are set before what uses them.
StagedFits ==
  /\ \A f \in Patch!Settings \ dPatch : dDraft[f] = dData[f]
  /\ dTodo \subseteq Patch!Flags(dPatch, dDraft)
  /\ "LANGUAGE" \in dTodo => ~Acted("menu") /\ ~Acted("tooltip")
ShownFits ==
  \A t \in Patch!Targets : \A f \in Patch!Reads[t] :
    \/ <<t, f>> \in dDoubt
    \/ f \notin dPatch /\ dShown[t][f] = dData[f]
    \/ f \in dPatch /\ (Acted(t) => dShown[t][f] = dDraft[f])
\* Words in doubt are so wherever they are used.
WordsFit ==
  <<"words", "language">> \in dDoubt => <<"menu", "language">> \in dDoubt /\ <<"tooltip", "language">> \in dDoubt
\* A menu that is being built has the staged switches, if no patch has overtaken it.
MenuFits ==
  ~dMenu.none /\ ~dMenu.late =>
     /\ dMenu.tun = dDraft["tun"] \/ ("tun" \in dPatch /\ ~Acted("menu"))
     /\ dMenu.proxy = dDraft["proxy"] \/ ("proxy" \in dPatch /\ ~Acted("menu"))
PatchInv == PatchTyped /\ StagedFits /\ ShownFits /\ WordsFit /\ MenuFits

\* What each target reads.
LEMMA ReadsAre ==
  /\ Patch!Targets = {"core", "launch", "words", "proxy", "hotkeys", "menu", "icon", "tooltip", "click", "light",
       "level", "log"}
  /\ Patch!Reads["core"] = {"tun", "ports", "builtin"} /\ Patch!Reads["launch"] = {"launch"} /\
       Patch!Reads["words"] = {"language"}
  /\ Patch!Reads["proxy"] = {"proxy", "proxy_details"} /\ Patch!Reads["hotkeys"] = {"hotkeys"}
  /\ Patch!Reads["menu"] = {"tun", "proxy", "hotkeys", "language", "display"} /\
       Patch!Reads["icon"] = {"tun", "proxy", "icons"}
  /\ Patch!Reads["tooltip"] = {"tun", "proxy", "language"} /\ Patch!Reads["click"] = {"click"} /\
       Patch!Reads["light"] = {"light"}
  /\ Patch!Reads["level"] = {"level"} /\ Patch!Reads["log"] = {"file_size", "file_count"}
BY DEF Patch!Targets, Patch!Reads

\* They are settings; and who reads the words.
LEMMA TargetsRead ==
  /\ \A t \in Patch!Targets : Patch!Reads[t] \subseteq Patch!Settings
  /\ \A t \in Patch!Targets : "language" \in Patch!Reads[t] => t \in {"words", "menu", "tooltip"}
  /\ \A t \in {"words", "menu", "tooltip"} : "language" \in Patch!Reads[t]
<1>1. ASSUME NEW t \in Patch!Targets, NEW f \in Patch!Reads[t] PROVE f \in Patch!Settings
  BY ReadsAre DEF Patch!Settings
<1>2. ASSUME NEW t \in Patch!Targets, "language" \in Patch!Reads[t] PROVE t \in {"words", "menu", "tooltip"}
  BY <1>2, ReadsAre
<1>3. "language" \in Patch!Reads["words"] /\ "language" \in Patch!Reads["menu"] /\
        "language" \in Patch!Reads["tooltip"]
  BY ReadsAre
<1> QED BY <1>1, <1>2, <1>3

\* A pair is of a target, and of a setting that it reads.
LEMMA PairsAre == \A ts, fs, t, f : <<t, f>> \in Patch!Pairs(ts, fs) <=> t \in ts /\ f \in Patch!Reads[t] /\ f \in fs
<1> SUFFICES ASSUME NEW ts, NEW fs, NEW t, NEW f
             PROVE  <<t, f>> \in Patch!Pairs(ts, fs) <=> t \in ts /\ f \in Patch!Reads[t] /\ f \in fs
  OBVIOUS
<1>1. <<t, f>> \in Patch!Pairs(ts, fs) <=> \E u \in ts : <<t, f>> \in {u} \X (Patch!Reads[u] \cap fs)
  BY DEF Patch!Pairs
<1>2. \A u : <<t, f>> \in {u} \X (Patch!Reads[u] \cap fs) <=> t = u /\ f \in Patch!Reads[u] /\ f \in fs
  OBVIOUS
<1> QED BY <1>1, <1>2

\* What is in doubt after some targets have acted.
LEMMA SettledIs ==
  ASSUME NEW ts \in SUBSET Patch!Targets, NEW t \in Patch!Targets, NEW f \in Patch!Reads[t]
  PROVE  <<t, f>> \in Patch!Settled(ts) <=>
           \/ <<t, f>> \in dDoubt /\ t \notin ts
           \/ <<"words", "language">> \in dDoubt /\ "words" \notin ts /\ t \in ts /\ f = "language"
           \/ "log" \in ts /\ t = "log" /\ f \notin dPatch
<1>1. f \in Patch!Settings
  BY TargetsRead
<1>2. <<t, f>> \in Patch!Pairs(ts, Patch!Settings) <=> t \in ts
  BY <1>1, PairsAre
<1>3. <<t, f>> \in Patch!Pairs(ts, {"language"}) <=> t \in ts /\ f = "language"
  BY PairsAre
<1>4. <<t, f>> \in Patch!Pairs({"log"}, Patch!Settings \ dPatch) <=> t = "log" /\ f \notin dPatch
  BY <1>1, PairsAre
<1> QED BY <1>2, <1>3, <1>4 DEF Patch!Settled

\* Who acts on a flag.
LEMMA FlagsTouch ==
  /\ \A flag \in DOMAIN Patch!Touches : Patch!Touches[flag] \subseteq Patch!Targets
  /\ \A flag \in DOMAIN Patch!Touches : "menu" \in Patch!Touches[flag] <=> flag = "SYSTRAY_MENU"
  /\ \A flag \in DOMAIN Patch!Touches : "tooltip" \in Patch!Touches[flag] <=> flag = "SYSTRAY_TOOLTIP"
  /\ \A flag \in DOMAIN Patch!Touches : "icon" \in Patch!Touches[flag] <=> flag = "SYSTRAY_ICON"
  /\ \A flag \in DOMAIN Patch!Touches : "words" \in Patch!Touches[flag] <=> flag = "LANGUAGE"
  /\ \A flag \in DOMAIN Patch!Touches : "log" \in Patch!Touches[flag] <=> flag = "LOG_FILE"
  /\ \A flag \in DOMAIN Patch!Touches : "core" \in Patch!Touches[flag] <=> flag \in {"RESTART_CORE", "CLASH_CONFIG"}
  /\ Patch!Touches["LANGUAGE"] = {"words"}
<1>1. \A flag \in DOMAIN Patch!Touches :
        flag \in {"RESTART_CORE", "CLASH_CONFIG", "LAUNCH", "LANGUAGE", "SYS_PROXY", "HOTKEY", "SYSTRAY_MENU",
            "SYSTRAY_ICON",
                  "SYSTRAY_TOOLTIP", "SYSTRAY_CLICK_BEHAVIOR", "LIGHT_WEIGHT", "LOG_LEVEL", "LOG_FILE"}
  BY DEF Patch!Touches
<1>2. \A flag \in DOMAIN Patch!Touches : Patch!Touches[flag] \subseteq Patch!Targets
  BY <1>1, ReadsAre DEF Patch!Touches
<1>3. \A flag \in DOMAIN Patch!Touches : "menu" \in Patch!Touches[flag] <=> flag = "SYSTRAY_MENU"
  BY <1>1 DEF Patch!Touches
<1>4. \A flag \in DOMAIN Patch!Touches : "tooltip" \in Patch!Touches[flag] <=> flag = "SYSTRAY_TOOLTIP"
  BY <1>1 DEF Patch!Touches
<1>5. \A flag \in DOMAIN Patch!Touches : "icon" \in Patch!Touches[flag] <=> flag = "SYSTRAY_ICON"
  BY <1>1 DEF Patch!Touches
<1>6. \A flag \in DOMAIN Patch!Touches : "words" \in Patch!Touches[flag] <=> flag = "LANGUAGE"
  BY <1>1 DEF Patch!Touches
<1>7. \A flag \in DOMAIN Patch!Touches : "log" \in Patch!Touches[flag] <=> flag = "LOG_FILE"
  BY <1>1 DEF Patch!Touches
<1>8. \A flag \in DOMAIN Patch!Touches : "core" \in Patch!Touches[flag] <=> flag \in {"RESTART_CORE", "CLASH_CONFIG"}
  BY <1>1 DEF Patch!Touches
<1>9. Patch!Touches["LANGUAGE"] = {"words"}
  BY DEF Patch!Touches
<1> QED BY <1>2, <1>3, <1>4, <1>5, <1>6, <1>7, <1>8, <1>9

\* The flags of a patch are those of its settings, and one more on Linux.
LEMMA FlagsAre ==
  ASSUME NEW fs \in SUBSET Patch!Settings, NEW new
  PROVE  /\ Patch!Flags(fs, new) \subseteq DOMAIN Patch!Touches
         /\ \A f \in fs : Patch!FlagsOf(f) \subseteq Patch!Flags(fs, new)
<1>1. \A f \in Patch!Settings : Patch!FlagsOf(f) \subseteq DOMAIN Patch!Touches
  BY DEF Patch!FlagsOf, Patch!TrayFlags, Patch!Settings, Patch!Touches
<1>2. "RESTART_CORE" \in DOMAIN Patch!Touches
  BY DEF Patch!Touches
<1>3. ASSUME NEW x \in Patch!Flags(fs, new) PROVE (\E f \in fs : x \in Patch!FlagsOf(f)) \/ x = "RESTART_CORE"
  <2>1. x \in UNION {Patch!FlagsOf(f) : f \in fs} \/ x = "RESTART_CORE"
    BY <1>3 DEF Patch!Flags
  <2> QED BY <2>1
<1>4. ASSUME NEW f \in fs, NEW x \in Patch!FlagsOf(f) PROVE x \in Patch!Flags(fs, new)
  BY DEF Patch!Flags
<1> QED BY <1>1, <1>2, <1>3, <1>4

\* What each setting asks for, and who acts on it.
LEMMA FlagsOfAre ==
  /\ "RESTART_CORE" \in Patch!FlagsOf("ports") /\ "LAUNCH" \in Patch!FlagsOf("launch") /\
       "LANGUAGE" \in Patch!FlagsOf("language")
  /\ {"CLASH_CONFIG", "SYSTRAY_MENU", "SYSTRAY_TOOLTIP", "SYSTRAY_ICON"} \subseteq Patch!FlagsOf("tun")
  /\ {"SYS_PROXY", "SYSTRAY_MENU", "SYSTRAY_TOOLTIP", "SYSTRAY_ICON"} \subseteq Patch!FlagsOf("proxy")
  /\ "SYS_PROXY" \in Patch!FlagsOf("proxy_details") /\ {"HOTKEY", "SYSTRAY_MENU"} \subseteq Patch!FlagsOf("hotkeys")
  /\ {"SYSTRAY_MENU", "SYSTRAY_TOOLTIP"} \subseteq Patch!FlagsOf("language") /\
       "SYSTRAY_MENU" \in Patch!FlagsOf("display")
  /\ "SYSTRAY_ICON" \in Patch!FlagsOf("icons") /\ "SYSTRAY_CLICK_BEHAVIOR" \in Patch!FlagsOf("click")
  /\ "LIGHT_WEIGHT" \in Patch!FlagsOf("light") /\ "LOG_LEVEL" \in Patch!FlagsOf("level")
  /\ "LOG_FILE" \in Patch!FlagsOf("file_size") /\ "LOG_FILE" \in Patch!FlagsOf("file_count")
BY DEF Patch!FlagsOf, Patch!TrayFlags

\* Who acts on which flag.
LEMMA FlagsFor ==
  /\ "core" \in Patch!Touches["RESTART_CORE"] /\ "core" \in Patch!Touches["CLASH_CONFIG"] /\
       "launch" \in Patch!Touches["LAUNCH"]
  /\ "words" \in Patch!Touches["LANGUAGE"] /\ "proxy" \in Patch!Touches["SYS_PROXY"] /\
       "hotkeys" \in Patch!Touches["HOTKEY"]
  /\ "menu" \in Patch!Touches["SYSTRAY_MENU"] /\ "icon" \in Patch!Touches["SYSTRAY_ICON"]
  /\ "tooltip" \in Patch!Touches["SYSTRAY_TOOLTIP"] /\ "click" \in Patch!Touches["SYSTRAY_CLICK_BEHAVIOR"]
  /\ "light" \in Patch!Touches["LIGHT_WEIGHT"] /\ "level" \in Patch!Touches["LOG_LEVEL"] /\
       "log" \in Patch!Touches["LOG_FILE"]
BY DEF Patch!Touches

\* Whatever reads a setting acts on a flag of it, but the core on one that waits.
LEMMA FlagsCover ==
  \A t \in Patch!Targets : \A f \in Patch!Reads[t] :
    IF f = "builtin" THEN t = "core" ELSE \E flag \in Patch!FlagsOf(f) : t \in Patch!Touches[flag]
<1> SUFFICES ASSUME NEW t \in Patch!Targets, NEW f \in Patch!Reads[t]
             PROVE  IF f = "builtin" THEN t = "core" ELSE \E flag \in Patch!FlagsOf(f) : t \in Patch!Touches[flag]
  OBVIOUS
<1>1. CASE t = "core"
  BY <1>1, ReadsAre, FlagsOfAre, FlagsFor
<1>2. CASE t = "launch"
  BY <1>2, ReadsAre, FlagsOfAre, FlagsFor
<1>3. CASE t = "words"
  BY <1>3, ReadsAre, FlagsOfAre, FlagsFor
<1>4. CASE t = "proxy"
  BY <1>4, ReadsAre, FlagsOfAre, FlagsFor
<1>5. CASE t = "hotkeys"
  BY <1>5, ReadsAre, FlagsOfAre, FlagsFor
<1>6. CASE t = "menu"
  BY <1>6, ReadsAre, FlagsOfAre, FlagsFor
<1>7. CASE t = "icon"
  BY <1>7, ReadsAre, FlagsOfAre, FlagsFor
<1>8. CASE t = "tooltip"
  BY <1>8, ReadsAre, FlagsOfAre, FlagsFor
<1>9. CASE t = "click"
  BY <1>9, ReadsAre, FlagsOfAre, FlagsFor
<1>10. CASE t = "light"
  BY <1>10, ReadsAre, FlagsOfAre, FlagsFor
<1>11. CASE t = "level"
  BY <1>11, ReadsAre, FlagsOfAre, FlagsFor
<1>12. CASE t = "log"
  BY <1>12, ReadsAre, FlagsOfAre, FlagsFor
<1> QED BY <1>1, <1>2, <1>3, <1>4, <1>5, <1>6, <1>7, <1>8, <1>9, <1>10, <1>11, <1>12, ReadsAre

\* The words come before the menu and the tooltip.
LEMMA WordsFirst ==
  ASSUME NEW flag \in {"SYSTRAY_MENU", "SYSTRAY_TOOLTIP"}, Patch!IsNext(flag)
  PROVE  "LANGUAGE" \notin dTodo
<1>1. PICK i \in DOMAIN Patch!Order : Patch!Order[i] = flag /\ \A j \in 1..i - 1 : Patch!Order[j] \notin dTodo
  BY DEF Patch!IsNext
<1>2. DOMAIN Patch!Order = 1..13
  BY DEF Patch!Order
<1>3. \A k \in 1..4 : Patch!Order[k] # flag
  BY DEF Patch!Order
<1>4. 4 \in 1..i - 1 /\ Patch!Order[4] = "LANGUAGE"
  BY <1>1, <1>2, <1>3 DEF Patch!Order
<1> QED BY <1>1, <1>4

\* A target that reads a named setting has acted once no flag is left, but the core for one that waits.
LEMMA ActedIs ==
  ASSUME PatchTyped, NEW t \in Patch!Targets, NEW f \in Patch!Reads[t], f \in dPatch, f # "builtin"
  PROVE  \E flag \in Patch!Flags(dPatch, dDraft) : t \in Patch!Touches[flag]
<1>1. PICK flag \in Patch!FlagsOf(f) : t \in Patch!Touches[flag]
  BY FlagsCover
<1>2. flag \in Patch!Flags(dPatch, dDraft)
  BY FlagsAre DEF PatchTyped
<1> QED BY <1>1, <1>2

\* The words shown are those of the patch once they have been set.
LEMMA WordsShow ==
  ASSUME PatchInv, <<"words", "language">> \notin dDoubt
  PROVE  /\ "language" \notin dPatch => dShown["words"]["language"] = dData["language"]
         /\ "language" \in dPatch /\ "LANGUAGE" \notin dTodo => dShown["words"]["language"] = dDraft["language"]
<1>1. "words" \in Patch!Targets /\ "language" \in Patch!Reads["words"]
  BY ReadsAre
<1>2. ASSUME "language" \in dPatch, "LANGUAGE" \notin dTodo PROVE Acted("words")
  <2>1. "LANGUAGE" \in Patch!Flags(dPatch, dDraft)
    BY <1>2, FlagsOfAre, FlagsAre DEF PatchInv, PatchTyped
  <2> QED BY <1>2, <2>1, FlagsFor DEF Acted
<1> QED BY <1>1, <1>2 DEF PatchInv, ShownFits

\* What a target shows when it acts.
LEMMA ShowsFit ==
  ASSUME PatchInv, NEW t \in Patch!Targets, NEW f \in Patch!Reads[t], t = "log" => f \in dPatch,
         f = "language" /\ t # "words" => <<"words", "language">> \notin dDoubt
  PROVE  /\ f \notin dPatch => Patch!Shows(t)[f] = dData[f]
         /\ f \in dPatch /\ (f = "language" /\ t # "words" => "LANGUAGE" \notin dTodo) =>
              Patch!Shows(t)[f] = dDraft[f]
<1>1. Patch!Shows(t)[f] = IF t = "log" /\ f \notin dPatch THEN FALSE
                          ELSE IF f = "language" /\ t # "words" THEN dShown["words"][f] ELSE dDraft[f]
  BY DEF Patch!Shows
<1>2. CASE f = "language" /\ t # "words"
  BY <1>1, <1>2, WordsShow
<1>3. CASE ~(f = "language" /\ t # "words")
  BY <1>1, <1>3, TargetsRead DEF PatchInv, StagedFits
<1> QED BY <1>2, <1>3

----------------------------------------------------------------------------

\* The invariant holds at first.
LEMMA PatchInit == Patch!Init => PatchInv
<1> SUFFICES ASSUME Patch!Init PROVE PatchInv
  OBVIOUS
<1>1. PatchTyped
  BY DEF Patch!Init, PatchTyped, Patch!NoMenu
<1>2. dTodo = {} /\ dPatch = {} /\ dDraft = dData /\ dMenu.none /\ dDoubt = {}
  BY DEF Patch!Init, Patch!NoMenu
<1>3. \A t \in Patch!Targets : \A f \in Patch!Reads[t] : dShown[t][f] = dData[f]
  <2> TAKE t \in Patch!Targets
  <2> TAKE f \in Patch!Reads[t]
  <2>1. dShown[t] = Patch!Restrict(dData, Patch!Reads[t])
    BY DEF Patch!Init
  <2> QED BY <2>1 DEF Patch!Restrict
<1> QED BY <1>1, <1>2, <1>3 DEF PatchInv, StagedFits, ShownFits, WordsFit, MenuFits

\* A patch is staged, and its flags are to take effect.
LEMMA PatchBegins == PatchGiven /\ PatchInv /\ Patch!Begin => PatchInv'
<1> SUFFICES ASSUME PatchGiven, PatchInv, Patch!Begin PROVE PatchInv'
  OBVIOUS
<1>1. dPatch = {} /\ dData' = dData /\ dShown' = dShown /\ dDoubt' = dDoubt /\ dMenu' = dMenu
  BY DEF Patch!Begin, Patch!Idle
<1>2. PICK fs \in Patches : /\ dPatch' = fs /\ dDraft' = [f \in Patch!Settings |-> IF f \in fs THEN ~dData[f] ELSE dData[f]]
                           /\ dTodo' = Patch!Flags(fs, dDraft')
  BY DEF Patch!Begin
<1>3. fs \subseteq Patch!Settings
  BY DEF PatchGiven
<1>4. dDraft' \in [Patch!Settings -> BOOLEAN] /\ \A f \in Patch!Settings \ fs : dDraft'[f] = dData[f]
  BY <1>2 DEF PatchInv, PatchTyped
<1>5. dLinux' = dLinux
  BY DEF Patch!Begin
<1>6. Patch!Flags(dPatch, dDraft)' = dTodo'
  BY <1>2, <1>5 DEF Patch!Flags
<1>7. \A t : ~Acted(t)'
  BY <1>6 DEF Acted
<1>8. PatchTyped'
  BY <1>1, <1>2, <1>3, <1>4 DEF PatchInv, PatchTyped
<1>9. StagedFits'
  BY <1>1, <1>2, <1>4, <1>6, <1>7 DEF StagedFits
<1>10. ShownFits'
  BY <1>1, <1>2, <1>7 DEF PatchInv, ShownFits
<1>11. WordsFit'
  BY <1>1 DEF PatchInv, WordsFit
<1>12. \A f \in Patch!Settings : f \in dPatch' \/ dDraft'[f] = dDraft[f]
  BY <1>1, <1>2, <1>4 DEF PatchInv, StagedFits
<1>13. MenuFits'
  BY <1>1, <1>7, <1>12 DEF PatchInv, MenuFits, Patch!Settings
<1> QED BY <1>8, <1>9, <1>10, <1>11, <1>13 DEF PatchInv

\* One flag takes effect: its targets show what is staged.
LEMMA PatchTakesEffect == PatchInv /\ Patch!Effect => PatchInv'
<1> SUFFICES ASSUME PatchInv, Patch!Effect PROVE PatchInv'
  OBVIOUS
<1>1. dLinux' = dLinux /\ dData' = dData /\ dDraft' = dDraft /\ dPatch' = dPatch
  BY DEF Patch!Effect
<1>2. PICK flag \in dTodo : /\ Patch!IsNext(flag) /\ dTodo' = dTodo \ {flag} /\ Patch!Acts(Patch!Touches[flag])
                           /\ dDoubt' = Patch!Settled(Patch!Touches[flag])
                           /\ dMenu' = [dMenu EXCEPT !.late = dMenu.late \/ "menu" \in Patch!Touches[flag]]
  BY DEF Patch!Effect
<1>3. flag \in Patch!Flags(dPatch, dDraft) /\ flag \in DOMAIN Patch!Touches /\
        Patch!Touches[flag] \subseteq Patch!Targets
  BY FlagsAre, FlagsTouch DEF PatchInv, StagedFits, PatchTyped
<1> DEFINE ts == Patch!Touches[flag]
<1>4. Patch!Flags(dPatch, dDraft)' = Patch!Flags(dPatch, dDraft)
  BY <1>1 DEF Patch!Flags
<1>5. \A t : Acted(t)' <=> Acted(t) \/ t \in ts
  BY <1>2, <1>3, <1>4 DEF Acted
<1>6. \A t \in Patch!Targets : dShown'[t] = IF t \in ts THEN Patch!Shows(t) ELSE dShown[t]
  BY <1>2 DEF Patch!Acts
<1>7. \A t \in Patch!Targets : \A f \in Patch!Reads[t] :
        <<t, f>> \in dDoubt' <=> \/ <<t, f>> \in dDoubt /\ t \notin ts
                                 \/ <<"words", "language">> \in dDoubt /\ "words" \notin ts /\ t \in ts /\
                                      f = "language"
                                 \/ "log" \in ts /\ t = "log" /\ f \notin dPatch
  <2> TAKE t \in Patch!Targets
  <2> TAKE f \in Patch!Reads[t]
  <2>1. ts \in SUBSET Patch!Targets /\ dDoubt' = Patch!Settled(ts)
    BY <1>2, <1>3
  <2> QED BY <2>1, SettledIs
<1>8. "menu" \in ts \/ "tooltip" \in ts => "words" \notin ts /\ "LANGUAGE" \notin dTodo
  BY <1>2, <1>3, FlagsTouch, WordsFirst
<1>9. PatchTyped'
  <2>1. dMenu' \in [tun : BOOLEAN, proxy : BOOLEAN, late : BOOLEAN, none : BOOLEAN]
    BY <1>2 DEF PatchInv, PatchTyped
  <2>2. dShown' = [t \in Patch!Targets |-> dShown'[t]]
    BY <1>2 DEF Patch!Acts
  <2> QED BY <1>1, <2>1, <2>2 DEF PatchInv, PatchTyped
<1>10. StagedFits'
  <2>1. \A f \in Patch!Settings \ dPatch' : dDraft'[f] = dData'[f]
    BY <1>1 DEF PatchInv, StagedFits
  <2>2. dTodo' \subseteq Patch!Flags(dPatch, dDraft)'
    BY <1>2, <1>4 DEF PatchInv, StagedFits
  <2>3. "LANGUAGE" \in dTodo' => ~Acted("menu")' /\ ~Acted("tooltip")'
    BY <1>2, <1>5, <1>8 DEF PatchInv, StagedFits
  <2> QED BY <2>1, <2>2, <2>3 DEF StagedFits
<1>11. ASSUME NEW t \in Patch!Targets, NEW f \in Patch!Reads[t], <<t, f>> \notin dDoubt'
       PROVE  \/ f \notin dPatch /\ dShown'[t][f] = dData[f]
              \/ f \in dPatch /\ (Acted(t)' => dShown'[t][f] = dDraft[f])
  <2>1. CASE t \notin ts
    <3>1. <<t, f>> \notin dDoubt /\ dShown'[t] = dShown[t] /\ (Acted(t)' <=> Acted(t))
      BY <1>5, <1>6, <1>7, <1>11, <2>1
    <3> QED BY <3>1 DEF PatchInv, ShownFits
  <2>2. CASE t \in ts
    <3>1. t = "log" => f \in dPatch
      BY <1>7, <1>11, <2>2
    <3>2. f = "language" /\ t # "words" => "words" \notin ts /\ "LANGUAGE" \notin dTodo
      BY <1>8, <2>2, TargetsRead
    <3>3. f = "language" /\ t # "words" => <<"words", "language">> \notin dDoubt
      BY <1>7, <1>11, <2>2, <3>2
    <3>4. dShown'[t] = Patch!Shows(t)
      BY <1>6, <2>2
    <3> QED BY <3>1, <3>2, <3>3, <3>4, ShowsFit
  <2> QED BY <2>1, <2>2
<1>12. ShownFits'
  BY <1>1, <1>11 DEF ShownFits
<1>13. WordsFit'
  <2>1. /\ "words" \in Patch!Targets /\ "menu" \in Patch!Targets /\ "tooltip" \in Patch!Targets
        /\ "language" \in Patch!Reads["words"] /\ "language" \in Patch!Reads["menu"] /\
             "language" \in Patch!Reads["tooltip"]
    BY ReadsAre
  <2> QED BY <1>7, <2>1 DEF PatchInv, WordsFit
<1>14. MenuFits'
  <2>1. dMenu'.none = dMenu.none /\ dMenu'.tun = dMenu.tun /\ dMenu'.proxy = dMenu.proxy
        /\ dMenu'.late = (dMenu.late \/ "menu" \in ts)
    BY <1>2 DEF PatchInv, PatchTyped
  <2> QED BY <1>1, <1>5, <2>1 DEF PatchInv, MenuFits
<1> QED BY <1>9, <1>10, <1>12, <1>13, <1>14 DEF PatchInv

\* A failure leaves in doubt what the patch named.
LEMMA PatchFails == PatchInv /\ Patch!Fail => PatchInv'
<1> SUFFICES ASSUME PatchInv, Patch!Fail PROVE PatchInv'
  OBVIOUS
<1>1. dData' = dData /\ dDraft' = dData /\ dPatch' = {} /\ dTodo' = {}
  BY DEF Patch!Fail
<1>2. PICK flag \in dTodo \ {"LANGUAGE", "LIGHT_WEIGHT"} :
        /\ \E reached \in {{}, Patch!Touches[flag]} : Patch!Acts(reached)
        /\ dDoubt' = dDoubt \cup Patch!Pairs(Patch!Targets, dPatch) \cup IF flag = "LOG_FILE" THEN Patch!Pairs({"log"}, Patch!Settings) ELSE {}
  BY DEF Patch!Fail
<1>3. PICK reached \in {{}, Patch!Touches[flag]} : Patch!Acts(reached)
  BY <1>2
<1>4. flag \in DOMAIN Patch!Touches /\ reached \subseteq Patch!Targets /\ ("log" \in reached => flag = "LOG_FILE")
  <2>1. flag \in DOMAIN Patch!Touches
    BY FlagsAre DEF PatchInv, StagedFits, PatchTyped
  <2> QED BY <2>1, FlagsTouch
<1>5. \A t \in Patch!Targets : dShown'[t] = IF t \in reached THEN Patch!Shows(t) ELSE dShown[t]
  BY <1>3 DEF Patch!Acts
<1>6. \A t \in Patch!Targets : \A f \in Patch!Reads[t] :
        <<t, f>> \in dDoubt' <=> <<t, f>> \in dDoubt \/ f \in dPatch \/ (flag = "LOG_FILE" /\ t = "log")
  <2> TAKE t \in Patch!Targets
  <2> TAKE f \in Patch!Reads[t]
  <2>1. f \in Patch!Settings
    BY TargetsRead
  <2>2. <<t, f>> \in Patch!Pairs(Patch!Targets, dPatch) <=> f \in dPatch
    BY PairsAre
  <2>3. <<t, f>> \in Patch!Pairs({"log"}, Patch!Settings) <=> t = "log"
    BY <2>1, PairsAre
  <2> QED BY <1>2, <2>2, <2>3
<1>7. dMenu' = [dMenu EXCEPT !.late = TRUE]
  BY DEF Patch!Fail
<1>8. PatchTyped'
  <2>1. dMenu' \in [tun : BOOLEAN, proxy : BOOLEAN, late : BOOLEAN, none : BOOLEAN]
    BY <1>7 DEF PatchInv, PatchTyped
  <2>2. dShown' = [t \in Patch!Targets |-> dShown'[t]]
    BY <1>3 DEF Patch!Acts
  <2> QED BY <1>1, <2>1, <2>2 DEF PatchInv, PatchTyped
<1>9. StagedFits'
  BY <1>1 DEF StagedFits
<1>10. ASSUME NEW t \in Patch!Targets, NEW f \in Patch!Reads[t], <<t,
                f>> \notin dDoubt' PROVE dShown'[t][f] = dData[f]
  <2>1. <<t, f>> \notin dDoubt /\ f \notin dPatch /\ (t = "log" => t \notin reached)
    BY <1>4, <1>6, <1>10
  <2>2. CASE t \notin reached
    BY <1>5, <2>1, <2>2 DEF PatchInv, ShownFits
  <2>3. CASE t \in reached
    <3>1. f = "language" /\ t # "words" => <<"words", "language">> \notin dDoubt
      BY <2>1, TargetsRead DEF PatchInv, WordsFit
    <3> QED BY <1>5, <2>1, <2>3, <3>1, ShowsFit
  <2> QED BY <2>2, <2>3
<1>11. ShownFits'
  BY <1>1, <1>10 DEF ShownFits
<1>12. WordsFit'
  <2>1. /\ "words" \in Patch!Targets /\ "menu" \in Patch!Targets /\ "tooltip" \in Patch!Targets
        /\ "language" \in Patch!Reads["words"] /\ "language" \in Patch!Reads["menu"] /\
             "language" \in Patch!Reads["tooltip"]
    BY ReadsAre
  <2> QED BY <1>6, <2>1 DEF PatchInv, WordsFit
<1>13. MenuFits'
  <2>1. dMenu'.late
    BY <1>7 DEF PatchInv, PatchTyped
  <2> QED BY <2>1 DEF MenuFits
<1> QED BY <1>8, <1>9, <1>11, <1>12, <1>13 DEF PatchInv

\* What is committed has been acted on, but for what the core takes over later.
LEMMA PatchCommits == PatchInv /\ Patch!Commit => PatchInv'
<1> SUFFICES ASSUME PatchInv, Patch!Commit PROVE PatchInv'
  OBVIOUS
<1>1. dData' = dDraft /\ dDraft' = dDraft /\ dPatch' = {} /\ dTodo = {} /\ dTodo' = {} /\ dMenu' = dMenu /\
        dShown' = dShown
  BY DEF Patch!Commit
<1>2. dDoubt' = dDoubt \cup IF Patch!Flags(dPatch, dDraft) \cap {"RESTART_CORE", "CLASH_CONFIG"} = {}
                           THEN Patch!Pairs({"core"}, dPatch \cap {"builtin"}) ELSE {}
  BY DEF Patch!Commit
<1>3. \A t \in Patch!Targets : \A f \in Patch!Reads[t] :
        <<t, f>> \in dDoubt' <=> \/ <<t, f>> \in dDoubt
                                 \/ /\ Patch!Flags(dPatch, dDraft) \cap {"RESTART_CORE", "CLASH_CONFIG"} = {}
                                    /\ t = "core" /\ f \in dPatch /\ f = "builtin"
  <2> TAKE t \in Patch!Targets
  <2> TAKE f \in Patch!Reads[t]
  <2>1. <<t, f>> \in Patch!Pairs({"core"}, dPatch \cap {"builtin"}) <=> t = "core" /\ f \in dPatch /\ f = "builtin"
    BY PairsAre
  <2> QED BY <1>2, <2>1
<1>4. ASSUME NEW t \in Patch!Targets, NEW f \in Patch!Reads[t], f \in dPatch, f # "builtin" PROVE Acted(t)
  BY <1>1, <1>4, ActedIs DEF PatchInv, Acted
<1>5. ASSUME NEW t \in Patch!Targets, NEW f \in Patch!Reads[t], <<t, f>> \notin dDoubt' PROVE dShown[t][f] = dDraft[f]
  <2>1. <<t, f>> \notin dDoubt
    BY <1>3, <1>5
  <2>2. CASE f \notin dPatch
    BY <2>1, <2>2, TargetsRead DEF PatchInv, ShownFits, StagedFits
  <2>3. CASE f \in dPatch /\ f # "builtin"
    BY <1>4, <2>1, <2>3 DEF PatchInv, ShownFits
  <2>4. CASE f \in dPatch /\ f = "builtin"
    <3>1. t = "core" /\ Patch!Flags(dPatch, dDraft) \cap {"RESTART_CORE", "CLASH_CONFIG"} # {}
      BY <1>3, <1>5, <2>4, FlagsCover
    <3>2. Acted("core")
      BY <1>1, <3>1, FlagsFor DEF Acted
    <3> QED BY <2>1, <2>4, <3>1, <3>2 DEF PatchInv, ShownFits
  <2> QED BY <2>2, <2>3, <2>4
<1>6. PatchTyped'
  BY <1>1 DEF PatchInv, PatchTyped
<1>7. StagedFits'
  BY <1>1 DEF StagedFits
<1>8. ShownFits'
  BY <1>1, <1>5 DEF ShownFits
<1>9. WordsFit'
  <2>1. /\ "words" \in Patch!Targets /\ "menu" \in Patch!Targets /\ "tooltip" \in Patch!Targets
        /\ "language" \in Patch!Reads["words"] /\ "language" \in Patch!Reads["menu"] /\
             "language" \in Patch!Reads["tooltip"]
    BY ReadsAre
  <2> QED BY <1>3, <2>1 DEF PatchInv, WordsFit
<1>10. MenuFits'
  <2>1. "menu" \in Patch!Targets /\ "tun" \in Patch!Reads["menu"] /\ "proxy" \in Patch!Reads["menu"]
    BY ReadsAre
  <2>2. "tun" \in dPatch \/ "proxy" \in dPatch => Acted("menu")
    BY <1>4, <2>1
  <2> QED BY <1>1, <2>2 DEF PatchInv, MenuFits
<1> QED BY <1>6, <1>7, <1>8, <1>9, <1>10 DEF PatchInv

\* Another task begins to build a menu.
LEMMA MenuIsRead == PatchInv /\ Patch!ReadMenu => PatchInv'
<1> SUFFICES ASSUME PatchInv, Patch!ReadMenu PROVE PatchInv'
  OBVIOUS
<1>1. /\ dLinux' = dLinux /\ dData' = dData /\ dDraft' = dDraft /\ dPatch' = dPatch /\ dTodo' = dTodo
      /\ dShown' = dShown /\ dDoubt' = dDoubt
      /\ dMenu' = [tun |-> dDraft["tun"], proxy |-> dDraft["proxy"], late |-> FALSE, none |-> FALSE]
  BY DEF Patch!ReadMenu
<1>2. Patch!Flags(dPatch, dDraft)' = Patch!Flags(dPatch, dDraft) /\ \A t : Acted(t)' <=> Acted(t)
  BY <1>1 DEF Patch!Flags, Acted
<1>3. dMenu'.tun = dDraft'["tun"] /\ dMenu'.proxy = dDraft'["proxy"] /\
        dMenu' \in [tun : BOOLEAN, proxy : BOOLEAN, late : BOOLEAN, none : BOOLEAN]
  BY <1>1 DEF PatchInv, PatchTyped, Patch!Settings
<1>4. PatchTyped' /\ MenuFits'
  BY <1>1, <1>3 DEF PatchInv, PatchTyped, MenuFits
<1>5. StagedFits'
  BY <1>1, <1>2 DEF PatchInv, StagedFits
<1>6. ShownFits' /\ WordsFit'
  BY <1>1, <1>2 DEF PatchInv, ShownFits, WordsFit
<1> QED BY <1>4, <1>5, <1>6 DEF PatchInv

\* Another task sets the menu it has built, the icon and the tooltip.
LEMMA TrayIsSet == PatchInv /\ Patch!SetTray => PatchInv'
<1> SUFFICES ASSUME PatchInv, Patch!SetTray PROVE PatchInv'
  OBVIOUS
<1> DEFINE ts == {"menu", "icon", "tooltip"}
<1>1. /\ dLinux' = dLinux /\ dData' = dData /\ dDraft' = dDraft /\ dPatch' = dPatch /\ dTodo' = dTodo
      /\ dMenu' = Patch!NoMenu /\ ~dMenu.none
  BY DEF Patch!SetTray
<1>2. Patch!Flags(dPatch, dDraft)' = Patch!Flags(dPatch, dDraft) /\ \A t : Acted(t)' <=> Acted(t)
  BY <1>1 DEF Patch!Flags, Acted
<1>3. ts \subseteq Patch!Targets /\ "language" \in Patch!Reads["words"] /\ "words" \in Patch!Targets
      /\ "language" \in Patch!Reads["menu"] /\ "language" \in Patch!Reads["tooltip"]
  BY ReadsAre
<1>4. /\ dShown'["menu"] = [f \in Patch!Reads["menu"] |-> IF f \in {"tun",
           "proxy"} THEN dMenu[f] ELSE Patch!Shows("menu")[f]]
      /\ dShown'["icon"] = Patch!Restrict(dData, Patch!Reads["icon"]) /\ dShown'["tooltip"] = Patch!Shows("tooltip")
      /\ \A t \in Patch!Targets \ ts : dShown'[t] = dShown[t]
      /\ dShown' = [t \in Patch!Targets |-> dShown'[t]]
  <2>1. dShown = [t \in Patch!Targets |-> dShown[t]]
    BY DEF PatchInv, PatchTyped
  <2>2. dShown' = [dShown EXCEPT
          !["menu"] = [f \in Patch!Reads["menu"] |-> IF f \in {"tun",
              "proxy"} THEN dMenu[f] ELSE Patch!Shows("menu")[f]],
          !["icon"] = Patch!Restrict(dData, Patch!Reads["icon"]),
          !["tooltip"] = Patch!Shows("tooltip")]
    BY DEF Patch!SetTray
  <2> HIDE DEF Patch!Targets
  <2> QED BY <1>3, <2>1, <2>2
<1>5. \A t \in Patch!Targets : \A f \in Patch!Reads[t] :
        <<t, f>> \in dDoubt' <=> \/ <<t, f>> \in dDoubt /\ t \notin ts
                                 \/ <<"words", "language">> \in dDoubt /\ t \in ts /\ f = "language"
                                 \/ dMenu.late /\ t = "menu" /\ f \in {"tun", "proxy"}
                                 \/ "SYSTRAY_ICON" \notin dTodo /\ t = "icon" /\ f \in dPatch
  <2> TAKE t \in Patch!Targets
  <2> TAKE f \in Patch!Reads[t]
  <2>1. <<t, f>> \in Patch!Pairs({"menu"}, {"tun", "proxy"}) <=> t = "menu" /\ f \in {"tun", "proxy"}
    BY PairsAre
  <2>2. <<t, f>> \in Patch!Pairs({"icon"}, dPatch) <=> t = "icon" /\ f \in dPatch
    BY PairsAre
  <2>3. <<t, f>> \in Patch!Settled(ts) <=> \/ <<t, f>> \in dDoubt /\ t \notin ts
                                           \/ <<"words", "language">> \in dDoubt /\ t \in ts /\ f = "language"
    <3>1. ts \in SUBSET Patch!Targets /\ "words" \notin ts /\ "log" \notin ts
      BY <1>3
    <3> QED BY <3>1, SettledIs
  <2>4. dDoubt' = Patch!Settled(ts) \cup (IF dMenu.late THEN Patch!Pairs({"menu"}, {"tun", "proxy"}) ELSE {})
                                   \cup (IF "SYSTRAY_ICON" \notin dTodo THEN Patch!Pairs({"icon"}, dPatch) ELSE {})
    BY DEF Patch!SetTray
  <2> QED BY <2>1, <2>2, <2>3, <2>4
<1>6. PatchTyped' /\ MenuFits'
  <2>1. Patch!NoMenu \in [tun : BOOLEAN, proxy : BOOLEAN, late : BOOLEAN, none : BOOLEAN] /\ Patch!NoMenu.none
    BY DEF Patch!NoMenu
  <2> QED BY <1>1, <1>4, <2>1 DEF PatchInv, PatchTyped, MenuFits
<1>7. StagedFits'
  BY <1>1, <1>2 DEF PatchInv, StagedFits
<1>8. WordsFit'
  BY <1>3, <1>5 DEF PatchInv, WordsFit
<1>9. ASSUME NEW t \in Patch!Targets, NEW f \in Patch!Reads[t], <<t, f>> \notin dDoubt'
      PROVE  \/ f \notin dPatch /\ dShown'[t][f] = dData[f]
             \/ f \in dPatch /\ (Acted(t) => dShown'[t][f] = dDraft[f])
  <2>1. CASE t \notin ts
    <3>1. <<t, f>> \notin dDoubt /\ dShown'[t] = dShown[t]
      BY <1>4, <1>5, <1>9, <2>1
    <3> QED BY <3>1 DEF PatchInv, ShownFits
  <2>2. CASE t = "icon"
    <3>1. dShown'[t][f] = dData[f]
      BY <1>4, <2>2 DEF Patch!Restrict
    <3>2. f \in dPatch => "SYSTRAY_ICON" \in dTodo
      BY <1>5, <1>9, <2>2
    <3>3. "SYSTRAY_ICON" \in dTodo => ~Acted("icon")
      BY FlagsAre, FlagsTouch DEF PatchInv, PatchTyped, Acted
    <3> QED BY <2>2, <3>1, <3>2, <3>3
  <2>3. CASE t \in {"menu", "tooltip"}
    <3>1. f = "language" => <<"words", "language">> \notin dDoubt
      BY <1>5, <1>9, <2>3
    <3>2. f = "language" /\ Acted(t) => "LANGUAGE" \notin dTodo
      BY <2>3 DEF PatchInv, StagedFits
    <3>3. /\ f \notin dPatch => Patch!Shows(t)[f] = dData[f]
          /\ f \in dPatch /\ Acted(t) => Patch!Shows(t)[f] = dDraft[f]
      BY <2>3, <3>1, <3>2, ShowsFit
    <3>4. CASE t = "tooltip" \/ f \notin {"tun", "proxy"}
      <4>1. dShown'[t][f] = Patch!Shows(t)[f]
        BY <1>4, <2>3, <3>4
      <4> QED BY <3>3, <4>1
    <3>5. CASE t = "menu" /\ f \in {"tun", "proxy"}
      <4>1. dShown'[t][f] = dMenu[f] /\ ~dMenu.late
        BY <1>4, <1>5, <1>9, <3>5
      <4>2. dMenu[f] = dDraft[f] \/ (f \in dPatch /\ ~Acted("menu"))
        BY <1>1, <3>5, <4>1 DEF PatchInv, MenuFits
      <4>3. f \notin dPatch => dDraft[f] = dData[f]
        BY TargetsRead DEF PatchInv, StagedFits
      <4> QED BY <3>5, <4>1, <4>2, <4>3
    <3> QED BY <2>3, <3>4, <3>5
  <2> QED BY <2>1, <2>2, <2>3
<1>10. ShownFits'
  BY <1>1, <1>2, <1>9 DEF ShownFits
<1> QED BY <1>6, <1>7, <1>8, <1>10 DEF PatchInv

\* Every step keeps the invariant.
LEMMA PatchNext == PatchGiven /\ PatchInv /\ [Patch!Next]_(Patch!vars) => PatchInv'
<1> SUFFICES ASSUME PatchGiven, PatchInv, [Patch!Next]_(Patch!vars) PROVE PatchInv'
  OBVIOUS
<1>1. CASE UNCHANGED Patch!vars
  <2>1. /\ dLinux' = dLinux /\ dData' = dData /\ dDraft' = dDraft /\ dPatch' = dPatch /\ dTodo' = dTodo
        /\ dMenu' = dMenu /\ dShown' = dShown /\ dDoubt' = dDoubt
    BY <1>1 DEF Patch!vars
  <2>2. Patch!Flags(dPatch, dDraft)' = Patch!Flags(dPatch, dDraft) /\ \A t : Acted(t)' <=> Acted(t)
    BY <2>1 DEF Patch!Flags, Acted
  <2>3. PatchTyped' /\ WordsFit' /\ MenuFits'
    BY <2>1, <2>2 DEF PatchInv, PatchTyped, WordsFit, MenuFits
  <2>4. StagedFits' /\ ShownFits'
    BY <2>1, <2>2 DEF PatchInv, StagedFits, ShownFits
  <2> QED BY <2>3, <2>4 DEF PatchInv
<1> QED BY <1>1, PatchBegins, PatchTakesEffect, PatchFails, PatchCommits, MenuIsRead, TrayIsSet DEF Patch!Next

\* Between patches a target acts on the committed value of a setting that is not in doubt
\* (SettingsAct), for every set of patches.
THEOREM PatchHolds == PatchGiven => (Patch!Spec => []Patch!SettingsAct)
<1> SUFFICES ASSUME PatchGiven PROVE Patch!Spec => []Patch!SettingsAct
  OBVIOUS
<1>1. PatchInv => Patch!SettingsAct
  BY DEF PatchInv, ShownFits, Patch!SettingsAct, Patch!Idle
<1> QED BY <1>1, PatchInit, PatchNext, PTL DEF Patch!Spec

-----------------------------------------------------------------------------
(* Automatic backups.                                                       *)

VARIABLES fNow, fSettings, fCurrent, fChanged, fRunner, fDue, fAt, fStamp, fLock, fLast, fTemp,
          fDir, fMine, fDone, fCrowded, fSets, fZips
backupVars == <<fNow, fSettings, fCurrent, fChanged, fRunner, fDue, fAt, fStamp, fLock, fLast,
      fTemp, fDir, fMine, fDone, fCrowded, fSets, fZips>>
Backup == INSTANCE AutoBackup WITH now <- fNow, settings <- fSettings, current <- fCurrent,
    changed <- fChanged, runner <- fRunner, due <- fDue, at <- fAt, stamp <- fStamp,
    lock <- fLock, last <- fLast, temp <- fTemp, dir <- fDir, mine <- fMine, done <- fDone,
    crowded <- fCrowded, sets <- fSets, zips <- fZips, Edits <- BackupEdits,
    Users <- BackupUsers, Keep <- BackupsToKeep

BackupGiven ==
  /\ Spacing \in Nat \ {0} /\ BackupsToKeep \in Nat /\ "user" \notin BackupEdits
  /\ BackupUsers \cap ({"runner"} \cup BackupEdits) = {} /\ Backup!Free \notin Backup!Tasks

ASSUME BackupAssumption == BackupGiven

BackupSteps == {"idle", "lock", "zip", "move", "tidy"}
BackupTyped ==
  /\ fNow \in Nat /\ fLast \in Nat /\ fLock \in Backup!Tasks \cup {Backup!Free} /\ fCrowded \in BOOLEAN
  /\ fAt \in [Backup!Tasks -> BackupSteps] /\ fStamp \in [Backup!Tasks -> Nat] /\ fDone \in Seq(Nat)
  /\ fDir \subseteq [stamp : Nat, kind : Backup!Tasks \cup {"user"}, age : Nat]
\* Whoever makes an automatic backup holds the lock.
LockFits ==
  /\ \A t \in Backup!Tasks \ BackupUsers : fAt[t] \in {"zip", "move", "tidy"} => fLock = t
  /\ \A t \in BackupUsers \cap Backup!Tasks : fAt[t] \in {"idle", "move"}
Increasing(d, n) == \A i, j \in 1..n : i < j => d[i] < d[j]
\* The automatic backups that were made, one after the other, and the one under way.
BackupTimesFit ==
  /\ 0 < fNow /\ fLast = IF Len(fDone) = 0 THEN 0 ELSE fDone[Len(fDone)]
  /\ \A i \in 1..Len(fDone) : 0 < fDone[i] /\ fDone[i] <= fLast /\ fDone[i] <= fNow
  /\ Increasing(fDone, Len(fDone))
  /\ \A t \in Backup!Tasks \ BackupUsers :
       /\ fAt[t] \in {"zip", "move"} => fLast = 0 \/ fNow - fLast >= Spacing
       /\ fAt[t] = "move" => fStamp[t] <= fNow /\ (fLast = 0 \/ fStamp[t] > fLast)
\* The automatic backups that are kept are all since one of those that were made, which is
\* the oldest to be kept unless one is to be removed.
Tidied == (\A t \in Backup!Tasks \ BackupUsers : fAt[t] # "tidy") /\ ~fCrowded
Oldest == IF Len(fDone) - BackupsToKeep + 1 >= 1 THEN Len(fDone) - BackupsToKeep + 1 ELSE 1
AsOldAs(fs, d, k, n) ==
  /\ \A f \in fs : \E i \in k..n : f.age = d[i]
  /\ \A i \in k..n : \E f \in fs : f.age = d[i]
AgesDiffer(fs) == \A f, g \in fs : f.age = g.age => f = g
FilesFit ==
  /\ AgesDiffer(Backup!Marked(fDir)) /\ \A f \in Backup!Marked(fDir) : f.stamp <= f.age
  /\ \E k \in 1..Len(fDone) + 1 : AsOldAs(Backup!Marked(fDir), fDone, k, Len(fDone)) /\ k <= Oldest /\
       (Tidied => k = Oldest)
BackupInv == BackupTyped /\ LockFits /\ BackupTimesFit /\ Backup!Spaced /\ FilesFit /\ Backup!UserKept

\* The instance counts as this module does.
LEMMA FilesCountIs == \A S : Backup!Cardinality(S) = Cardinality(S)
BY DEF Backup!Cardinality, Cardinality

\* The greater of two numbers.
LEMMA GreaterIs == \A a, b \in Int : Backup!Max({a, b}) = IF a >= b THEN a ELSE b
<1> SUFFICES ASSUME NEW a \in Int, NEW b \in Int PROVE Backup!Max({a, b}) = IF a >= b THEN a ELSE b
  OBVIOUS
<1> DEFINE P(x) == x \in {a, b} /\ \A y \in {a, b} : x >= y
<1> DEFINE m == IF a >= b THEN a ELSE b
<1>1. P(m)
  OBVIOUS
<1>2. \A x \in {a, b} : (\A y \in {a, b} : x >= y) => x = m
  OBVIOUS
<1>3. Backup!Max({a, b}) \in {a, b} /\ \A y \in {a, b} : Backup!Max({a, b}) >= y
  BY <1>1 DEF Backup!Max
<1> QED BY <1>2, <1>3

\* Numbers that go with every smaller one are the smallest of an interval, as many as they are.
LEMMA SmallestAre ==
  ASSUME NEW k \in Nat, NEW n \in Nat, NEW D \in SUBSET (k..n),
         \A i \in D : \A j \in k..n : j < i => j \in D
  PROVE  IsFiniteSet(D) /\ Cardinality(D) \in Nat /\ D = k..k + Cardinality(D) - 1
<1>1. IsFiniteSet(k..n)
  BY FS_Interval
<1>2. IsFiniteSet(D) /\ Cardinality(D) \in Nat
  BY <1>1, FS_Subset, FS_CardinalityType
<1> DEFINE m == Cardinality(D)
<1>3. \A i \in D : i <= k + m - 1
  <2> TAKE i \in D
  <2>1. k..i \in SUBSET D /\ k <= i
    OBVIOUS
  <2>2. Cardinality(k..i) <= m
    BY <1>2, <2>1, FS_Subset
  <2>3. Cardinality(k..i) = i - k + 1
    BY <2>1, FS_Interval
  <2> QED BY <1>2, <2>2, <2>3
<1>4. IsFiniteSet(k..k + m - 1) /\ Cardinality(k..k + m - 1) = m
  <2>1. m \in Nat
    BY <1>2
  <2> HIDE DEF m
  <2>2. PICK e \in Int : e = k + m - 1
    BY <2>1
  <2> QED BY <2>1, <2>2, FS_Interval
<1>5. D \in SUBSET (k..k + m - 1)
  BY <1>2, <1>3
<1>6. D = k..k + m - 1
  BY <1>4, <1>5, FS_Subset
<1> QED BY <1>2, <1>6

\* Of files as old as the things made since one of them, the oldest that go leave those made
\* since a later one.
LEMMA OldestGo ==
  ASSUME NEW n \in Nat, NEW d \in [1..n -> Nat], Increasing(d, n),
         NEW k \in 1..n + 1, NEW M, AsOldAs(M, d, k, n), AgesDiffer(M),
         NEW gone \in SUBSET M, \A f \in gone : \A g \in M \ gone : f.age <= g.age
  PROVE  /\ Cardinality(M) = n - k + 1 /\ Cardinality(gone) \in Nat
         /\ AsOldAs(M \ gone, d, k + Cardinality(gone), n)
<1>a. \A i, j \in 1..n : i < j => d[i] < d[j]
  BY DEF Increasing
<1>b. /\ \A f \in M : \E i \in k..n : f.age = d[i]
      /\ \A i \in k..n : \E f \in M : f.age = d[i]
  BY DEF AsOldAs
<1>c. \A f, g \in M : f.age = g.age => f = g
  BY DEF AgesDiffer
<1> DEFINE b == [i \in k..n |-> CHOOSE f \in M : f.age = d[i]]
<1>1. \A i \in k..n : b[i] \in M /\ b[i].age = d[i]
  <2> TAKE i \in k..n
  <2>1. \E f \in M : f.age = d[i]
    BY <1>b
  <2> QED BY <2>1
<1>2. \A f \in M : \E i \in k..n : f.age = d[i] /\ f = b[i]
  <2> TAKE f \in M
  <2>1. PICK i \in k..n : f.age = d[i]
    BY <1>b
  <2> QED BY <1>1, <1>c, <2>1
<1>3. \A i, j \in k..n : d[i] = d[j] => i = j
  <2> TAKE i, j \in k..n
  <2>1. i \in 1..n /\ j \in 1..n /\ d[i] \in Nat /\ d[j] \in Nat
    OBVIOUS
  <2> QED BY <1>a, <2>1
<1> HIDE DEF b
<1>4. b \in Bijection(k..n, M)
  <2>1. b \in [k..n -> M]
    BY <1>1 DEF b
  <2>2. \A i, j \in k..n : b[i] = b[j] => i = j
    BY <1>1, <1>3
  <2> QED BY <1>2, <2>1, <2>2 DEF Bijection, Injection, Surjection, IsInjective
<1>5. IsFiniteSet(k..n) /\ Cardinality(k..n) = n - k + 1
  <2>1. k \in Int /\ n \in Int /\ (k > n => n - k + 1 = 0)
    OBVIOUS
  <2> QED BY <2>1, FS_Interval
<1>6. IsFiniteSet(M) /\ Cardinality(M) = n - k + 1
  BY <1>4, <1>5, FS_Bijection DEF ExistsBijection
<1> DEFINE D == {i \in k..n : b[i] \in gone}
<1> DEFINE c == [i \in D |-> b[i]]
<1>7. IsFiniteSet(D) /\ Cardinality(D) \in Nat /\ D = k..k + Cardinality(D) - 1
  <2>1. ASSUME NEW i \in D, NEW j \in k..n, j < i PROVE j \in D
    <3>1. d[j] < d[i] /\ d[j] \in Nat /\ d[i] \in Nat
      BY <1>a, <2>1
    <3>2. b[j] \in M /\ b[j].age = d[j] /\ b[i].age = d[i] /\ b[i] \in gone
      BY <1>1
    <3> QED BY <3>1, <3>2
  <2>2. D \in SUBSET (k..n)
    OBVIOUS
  <2>3. k \in Nat
    OBVIOUS
  <2> HIDE DEF D
  <2> QED BY <2>1, <2>2, <2>3, SmallestAre
<1>8. c \in Bijection(D, gone)
  <2>1. c \in [D -> gone]
    OBVIOUS
  <2>2. \A i, j \in D : c[i] = c[j] => i = j
    BY <1>1, <1>3
  <2>3. \A f \in gone : \E i \in D : c[i] = f
    BY <1>2
  <2> HIDE DEF c, D
  <2> QED BY <2>1, <2>2, <2>3 DEF Bijection, Injection, Surjection, IsInjective
<1>9. IsFiniteSet(gone) /\ Cardinality(gone) = Cardinality(D)
  <2> HIDE DEF c, D
  <2> QED BY <1>7, <1>8, FS_Bijection DEF ExistsBijection
<1>10. /\ \A f \in M \ gone : \E i \in (k..n) \ D : f.age = d[i]
       /\ \A i \in (k..n) \ D : \E f \in M \ gone : f.age = d[i]
  <2>1. \A i \in (k..n) \ D : b[i] \in M \ gone /\ b[i].age = d[i]
    BY <1>1
  <2>2. \A f \in M \ gone : \E i \in (k..n) \ D : f.age = d[i]
    BY <1>2
  <2> HIDE DEF D
  <2> QED BY <2>1, <2>2
<1>11. (k..n) \ D = k + Cardinality(D)..n
  <2>1. k \in Nat
    OBVIOUS
  <2> HIDE DEF D
  <2>2. PICK m \in Nat : m = Cardinality(D) /\ D = k..k + m - 1
    BY <1>7
  <2>3. (k..n) \ (k..k + m - 1) = k + m..n
    BY <2>1
  <2> QED BY <2>2, <2>3
<1> QED BY <1>6, <1>7, <1>9, <1>10, <1>11 DEF AsOldAs

\* When the oldest go the last ones are left, as many as are to be kept.
LEMMA SurplusGoes ==
  ASSUME BackupGiven, BackupInv, NEW gone \in Backup!Surplus(fDir)
  PROVE  /\ gone \subseteq Backup!Marked(fDir)
         /\ AsOldAs(Backup!Marked(fDir) \ gone, fDone, Oldest, Len(fDone))
<1>1. /\ gone \in SUBSET Backup!Marked(fDir)
      /\ Cardinality(gone) = Backup!Max({0, Cardinality(Backup!Marked(fDir)) - BackupsToKeep})
      /\ \A f \in gone : \A g \in Backup!Marked(fDir) \ gone : f.age <= g.age
  BY FilesCountIs DEF Backup!Surplus
<1>2. PICK n \in Nat : n = Len(fDone) /\ fDone \in [1..n -> Nat]
  BY DEF BackupInv, BackupTyped
<1>3. PICK k \in 1..n + 1 : AsOldAs(Backup!Marked(fDir), fDone, k, n) /\ k <= Oldest
  BY <1>2 DEF BackupInv, FilesFit
<1>4. Increasing(fDone, n) /\ AgesDiffer(Backup!Marked(fDir))
  BY <1>2 DEF BackupInv, BackupTimesFit, FilesFit
<1>5. /\ Cardinality(Backup!Marked(fDir)) = n - k + 1 /\ Cardinality(gone) \in Nat
      /\ AsOldAs(Backup!Marked(fDir) \ gone, fDone, k + Cardinality(gone), n)
  <2> PICK M : M = Backup!Marked(fDir)
    OBVIOUS
  <2>1. gone \in SUBSET M /\ AsOldAs(M, fDone, k, n) /\ AgesDiffer(M) /\ fDone \in [1..n -> Nat] /\
          Increasing(fDone, n)
    BY <1>1, <1>2, <1>3, <1>4
  <2>2. \A f \in gone : \A g \in M \ gone : f.age <= g.age
    BY <1>1
  <2>3. /\ Cardinality(M) = n - k + 1 /\ Cardinality(gone) \in Nat
        /\ AsOldAs(M \ gone, fDone, k + Cardinality(gone), n)
    BY <2>1, <2>2, OldestGo
  <2> QED BY <2>3
<1>6. k + Cardinality(gone) = Oldest
  <2>1. BackupsToKeep \in Nat
    BY DEF BackupGiven
  <2>2. PICK s \in Int : s = n - k + 1 - BackupsToKeep
    BY <2>1
  <2>3. Cardinality(Backup!Marked(fDir)) - BackupsToKeep = s
    BY <1>5, <2>1, <2>2
  <2>4. Cardinality(gone) = IF 0 >= s THEN 0 ELSE s
    BY <1>1, <2>3, GreaterIs
  <2> QED BY <1>2, <1>3, <2>1, <2>2, <2>4 DEF Oldest
<1> QED BY <1>1, <1>2, <1>5, <1>6

----------------------------------------------------------------------------

\* The constants: who there is.
LEMMA WhoThereIs ==
  ASSUME BackupGiven
  PROVE  /\ "runner" \in Backup!Tasks \ BackupUsers /\ BackupUsers \subseteq Backup!Tasks /\
              Backup!Free \notin Backup!Tasks
         /\ \A t \in Backup!Tasks \ BackupUsers : Backup!Kind(t) = t /\ t # "user"
         /\ \A t \in BackupUsers : Backup!Kind(t) = "user"
BY DEF BackupGiven, Backup!Tasks, Backup!Kind

\* The invariant holds at first.
LEMMA BackupStarts == BackupGiven /\ Backup!Init => BackupInv
<1> SUFFICES ASSUME BackupGiven, Backup!Init PROVE BackupInv
  OBVIOUS
<1>1. Len(fDone) = 0 /\ fDir = {} /\ fMine = {} /\ \A t \in Backup!Tasks : fAt[t] = "idle"
  BY DEF Backup!Init
<1>2. BackupTyped
  <2>1. fAt \in [Backup!Tasks -> BackupSteps] /\ fStamp \in [Backup!Tasks -> Nat]
    BY DEF Backup!Init, BackupSteps
  <2>2. fNow \in Nat /\ fLast \in Nat /\ fCrowded \in BOOLEAN
    BY DEF Backup!Init
  <2>3. fLock \in Backup!Tasks \cup {Backup!Free}
    BY DEF Backup!Init
  <2>4. fDone \in Seq(Nat)
    BY DEF Backup!Init
  <2> QED BY <1>1, <2>1, <2>2, <2>3, <2>4 DEF BackupTyped
<1>3. LockFits /\ Backup!UserKept
  BY <1>1 DEF LockFits, Backup!UserKept
<1>4. BackupTimesFit /\ Backup!Spaced
  BY <1>1 DEF Backup!Init, BackupTimesFit, Backup!Spaced, Increasing
<1>5. FilesFit
  <2>1. Backup!Marked(fDir) = {}
    BY <1>1 DEF Backup!Marked
  <2>2. 1 \in 1..Len(fDone) + 1 /\ AsOldAs({}, fDone, 1, Len(fDone)) /\ Oldest = 1 /\ AgesDiffer({})
    BY <1>1 DEF AsOldAs, AgesDiffer, Oldest, BackupGiven
  <2> QED BY <2>1, <2>2 DEF FilesFit
<1> QED BY <1>2, <1>3, <1>4, <1>5 DEF BackupInv

\* A step that makes nothing: the times stand.
LEMMA TimesStand ==
  ASSUME BackupGiven, BackupInv, BackupTyped', fDone' = fDone, fLast' = fLast, fNow' >= fNow,
         \A t \in Backup!Tasks \ BackupUsers :
           /\ fAt'[t] \in {"zip", "move"} => fAt[t] \in {"zip", "move"} \/ fLast = 0 \/ fNow - fLast >= Spacing
           /\ fAt'[t] = "move" => (fAt[t] = "move" /\ fStamp'[t] = fStamp[t]) \/ (fAt[t] = "zip" /\ fStamp'[t] = fNow)
  PROVE  BackupTimesFit' /\ Backup!Spaced'
<1>1. fNow \in Nat /\ fNow' \in Nat /\ fLast \in Nat /\ Len(fDone) \in Nat /\ Spacing \in Nat \ {0}
  BY DEF BackupInv, BackupTyped, BackupGiven
<1>2. BackupTimesFit'
  <2>1. 0 < fNow' /\ fLast' = IF Len(fDone') = 0 THEN 0 ELSE fDone'[Len(fDone')]
    BY <1>1 DEF BackupInv, BackupTimesFit
  <2>2. \A i \in 1..Len(fDone') : 0 < fDone'[i] /\ fDone'[i] <= fLast' /\ fDone'[i] <= fNow'
    <3> SUFFICES ASSUME NEW i \in 1..Len(fDone) PROVE 0 < fDone[i] /\ fDone[i] <= fLast /\ fDone[i] <= fNow'
      OBVIOUS
    <3>1. 0 < fDone[i] /\ fDone[i] <= fLast /\ fDone[i] <= fNow /\ fDone[i] \in Nat
      BY DEF BackupInv, BackupTyped, BackupTimesFit
    <3> QED BY <1>1, <3>1
  <2>3. Increasing(fDone', Len(fDone'))
    BY DEF BackupInv, BackupTimesFit
  <2>4. ASSUME NEW t \in Backup!Tasks \ BackupUsers, fAt'[t] \in {"zip", "move"} PROVE fLast = 0 \/
                 fNow' - fLast >= Spacing
    BY <1>1, <2>4 DEF BackupInv, BackupTimesFit
  <2>5. ASSUME NEW t \in Backup!Tasks \ BackupUsers, fAt'[t] = "move" PROVE fStamp'[t] <= fNow' /\
                 (fLast = 0 \/ fStamp'[t] > fLast)
    <3>1. fStamp[t] \in Nat
      BY DEF BackupInv, BackupTyped
    <3> QED BY <1>1, <2>5, <3>1 DEF BackupInv, BackupTimesFit
  <2> QED BY <2>1, <2>2, <2>3, <2>4, <2>5 DEF BackupTimesFit
<1>3. Backup!Spaced'
  BY DEF BackupInv, Backup!Spaced
<1> QED BY <1>2, <1>3

\* One that leaves the automatic backups as they are: they fit.
LEMMA FilesStand ==
  ASSUME BackupInv, fDone' = fDone, Backup!Marked(fDir)' = Backup!Marked(fDir), Tidied' => Tidied
  PROVE  FilesFit'
<1>1. Oldest' = Oldest
  BY DEF Oldest
<1>2. AgesDiffer(Backup!Marked(fDir)')
  BY DEF BackupInv, FilesFit
<1> QED BY <1>1, <1>2 DEF BackupInv, FilesFit

\* A step that makes and removes nothing.
LEMMA NothingMade ==
  ASSUME BackupGiven, BackupInv, BackupTyped', LockFits', fNow' >= fNow,
         fDone' = fDone, fLast' = fLast, fDir' = fDir, fMine' = fMine, fCrowded' = fCrowded,
         \A t \in Backup!Tasks \ BackupUsers :
           /\ fAt[t] = "tidy" => fAt'[t] = "tidy"
           /\ fAt'[t] \in {"zip", "move"} => fAt[t] \in {"zip", "move"} \/ fLast = 0 \/ fNow - fLast >= Spacing
           /\ fAt'[t] = "move" => (fAt[t] = "move" /\ fStamp'[t] = fStamp[t]) \/ (fAt[t] = "zip" /\ fStamp'[t] = fNow)
  PROVE  BackupInv'
<1>1. BackupTimesFit' /\ Backup!Spaced'
  BY TimesStand
<1>2. Tidied' => Tidied
  BY DEF Tidied
<1>3. Backup!Marked(fDir)' = Backup!Marked(fDir)
  BY DEF Backup!Marked
<1>4. FilesFit'
  BY <1>2, <1>3, FilesStand
<1>5. Backup!UserKept'
  BY DEF BackupInv, Backup!UserKept
<1> QED BY <1>1, <1>4, <1>5 DEF BackupInv

\* A step after which every task is where it was.
LEMMA TasksStay ==
  ASSUME BackupGiven, BackupInv, UNCHANGED <<fAt, fStamp, fLock, fLast, fDir, fMine, fDone, fCrowded>>,
           fNow' \in Nat, fNow' >= fNow
  PROVE  BackupInv'
<1>1. BackupTyped' /\ LockFits'
  BY DEF BackupInv, BackupTyped, LockFits
<1> QED BY <1>1, NothingMade

\* A step of one task.
LEMMA TaskTurns ==
  ASSUME BackupInv, NEW t \in Backup!Tasks, NEW to \in BackupSteps, Backup!Goes(t, to)
  PROVE  fAt' \in [Backup!Tasks -> BackupSteps] /\ fAt'[t] = to /\ \A u \in Backup!Tasks \ {t} : fAt'[u] = fAt[u]
BY DEF BackupInv, BackupTyped, Backup!Goes

\* A task notes the second of its backup, or forgets it.
LEMMA StampNoted ==
  ASSUME BackupInv, NEW t \in Backup!Tasks, NEW n \in Nat, fStamp' = [fStamp EXCEPT ![t] = n]
  PROVE  fStamp' \in [Backup!Tasks -> Nat] /\ fStamp'[t] = n /\ \A u \in Backup!Tasks \ {t} : fStamp'[u] = fStamp[u]
BY DEF BackupInv, BackupTyped

\* A backup is asked for.
LEMMA BackupBegins ==
  ASSUME BackupGiven, BackupInv, NEW t \in Backup!Tasks, Backup!Begin(t)
  PROVE  BackupInv'
<1>1. /\ fAt[t] = "idle" /\ t \notin BackupUsers
      /\ fNow' = fNow /\ fStamp' = fStamp /\ fLock' = fLock /\ fLast' = fLast
      /\ fDir' = fDir /\ fMine' = fMine /\ fDone' = fDone /\ fCrowded' = fCrowded
  BY DEF Backup!Begin, Backup!Files
<1>2. Backup!Goes(t, "lock") \/ fAt' = fAt
  BY DEF Backup!Begin
<1>3. /\ fAt' \in [Backup!Tasks -> BackupSteps] /\ fAt'[t] \in {"idle", "lock"}
      /\ \A u \in Backup!Tasks \ {t} : fAt'[u] = fAt[u]
  BY <1>1, <1>2, TaskTurns DEF BackupInv, BackupTyped, BackupSteps
<1>4. BackupTyped' /\ LockFits'
  BY <1>1, <1>3 DEF BackupInv, BackupTyped, LockFits
<1>5. fNow' >= fNow
  BY <1>1 DEF BackupInv, BackupTyped
<1> QED BY <1>1, <1>3, <1>4, <1>5, NothingMade

\* Whoever gets the lock looks again whether a backup is due.
LEMMA LockTaken ==
  ASSUME BackupGiven, BackupInv, NEW t \in Backup!Tasks, Backup!Locked(t)
  PROVE  BackupInv'
<1>1. /\ fAt[t] = "lock" /\ fLock = Backup!Free
      /\ fNow' = fNow /\ fStamp' = fStamp /\ fLast' = fLast
      /\ fDir' = fDir /\ fMine' = fMine /\ fDone' = fDone /\ fCrowded' = fCrowded
  BY DEF Backup!Locked, Backup!Files
<1>2. \/ Backup!Goes(t, "zip") /\ fLock' = t /\ Backup!ShouldRun
      \/ Backup!Goes(t, "idle") /\ fLock' = Backup!Free
  BY DEF Backup!Locked, Backup!Ends, Backup!StillDue
<1>3. PICK to \in {"zip", "idle"} : Backup!Goes(t, to) /\ (to = "zip" => fLock' = t /\ Backup!ShouldRun) /\
             (to = "idle" => fLock' = Backup!Free)
  BY <1>2
<1>4. fAt' \in [Backup!Tasks -> BackupSteps] /\ fAt'[t] = to /\ \A u \in Backup!Tasks \ {t} : fAt'[u] = fAt[u]
  BY <1>3, TaskTurns DEF BackupSteps
<1>5. t \notin BackupUsers /\ \A u \in Backup!Tasks \ BackupUsers : fAt[u] \notin {"zip", "move", "tidy"}
  BY <1>1, WhoThereIs DEF BackupInv, LockFits
<1>6. BackupTyped'
  BY <1>1, <1>3, <1>4 DEF BackupInv, BackupTyped
<1>7. LockFits'
  BY <1>3, <1>4, <1>5 DEF BackupInv, LockFits
<1>8. fNow' >= fNow
  BY <1>1 DEF BackupInv, BackupTyped
<1> QED BY <1>1, <1>3, <1>4, <1>5, <1>6, <1>7, <1>8, NothingMade DEF Backup!ShouldRun

\* A backup is put together.
LEMMA BackupZipped ==
  ASSUME BackupGiven, BackupInv, NEW t \in Backup!Tasks, Backup!Zip(t)
  PROVE  BackupInv'
<1>1. /\ fAt[t] = (IF t \in BackupUsers THEN "idle" ELSE "zip") /\ Backup!Goes(t, "move") /\
           fStamp' = [fStamp EXCEPT ![t] = fNow]
      /\ fNow' = fNow /\ fLock' = fLock /\ fLast' = fLast
      /\ fDir' = fDir /\ fMine' = fMine /\ fDone' = fDone /\ fCrowded' = fCrowded
  BY DEF Backup!Zip
<1>2. fAt' \in [Backup!Tasks -> BackupSteps] /\ fAt'[t] = "move" /\ \A u \in Backup!Tasks \ {t} : fAt'[u] = fAt[u]
  BY <1>1, TaskTurns DEF BackupSteps
<1>3. fStamp' \in [Backup!Tasks -> Nat] /\ fStamp'[t] = fNow /\ \A u \in Backup!Tasks \ {t} : fStamp'[u] = fStamp[u]
  BY <1>1, StampNoted DEF BackupInv, BackupTyped
<1>4. BackupTyped' /\ LockFits'
  BY <1>1, <1>2, <1>3 DEF BackupInv, BackupTyped, LockFits
<1>5. fNow' >= fNow
  BY <1>1 DEF BackupInv, BackupTyped
<1> QED BY <1>1, <1>2, <1>3, <1>4, <1>5, NothingMade

\* A backup that fails leaves none.
LEMMA BackupFails ==
  ASSUME BackupGiven, BackupInv, NEW t \in Backup!Tasks, Backup!Fails(t)
  PROVE  BackupInv'
<1>1. /\ fAt[t] \in {"zip", "move"} /\ Backup!Goes(t, "idle") /\ fStamp' = [fStamp EXCEPT ![t] = 0]
      /\ fLock' = (IF t \in BackupUsers THEN fLock ELSE Backup!Free)
      /\ fNow' = fNow /\ fLast' = fLast
      /\ fDir' = fDir /\ fMine' = fMine /\ fDone' = fDone /\ fCrowded' = fCrowded
  BY DEF Backup!Fails, Backup!Ends
<1>2. fAt' \in [Backup!Tasks -> BackupSteps] /\ fAt'[t] = "idle" /\ \A u \in Backup!Tasks \ {t} : fAt'[u] = fAt[u]
  BY <1>1, TaskTurns DEF BackupSteps
<1>3. fStamp' \in [Backup!Tasks -> Nat] /\ fStamp'[t] = 0 /\ \A u \in Backup!Tasks \ {t} : fStamp'[u] = fStamp[u]
  BY <1>1, StampNoted
<1>4. BackupTyped'
  BY <1>1, <1>2, <1>3 DEF BackupInv, BackupTyped
<1>5. t \notin BackupUsers => fLock = t
  BY <1>1 DEF BackupInv, LockFits
<1>6. LockFits'
  BY <1>1, <1>2, <1>5 DEF BackupInv, LockFits
<1>7. fNow' >= fNow
  BY <1>1 DEF BackupInv, BackupTyped
<1> QED BY <1>1, <1>2, <1>3, <1>4, <1>6, <1>7, NothingMade

\* What the user makes leaves the automatic backups as they are.
LEMMA UserMoves ==
  ASSUME BackupGiven, BackupInv, NEW t \in BackupUsers, Backup!Move(t)
  PROVE  BackupInv'
<1>1. t \in Backup!Tasks /\ Backup!Kind(t) = "user"
  BY WhoThereIs
<1>2. /\ fAt[t] = "move" /\ fStamp' = [fStamp EXCEPT ![t] = 0] /\ Backup!Goes(t, "idle") /\
           fMine' = fMine \cup {fStamp[t]}
      /\ fLast' = fLast /\ fDone' = fDone /\ fNow' = fNow /\ fLock' = fLock /\ fCrowded' = fCrowded
  BY DEF Backup!Move
<1>3. PICK g : g = [stamp |-> fStamp[t], kind |-> "user", age |-> fNow]
  OBVIOUS
<1>4. g.stamp = fStamp[t] /\ g.kind = "user" /\ g \in [stamp : Nat, kind : Backup!Tasks \cup {"user"}, age : Nat]
  BY <1>1, <1>3 DEF BackupInv, BackupTyped
<1>5. fDir' = {f \in fDir : f.stamp # fStamp[t] \/ f.kind # "user"} \cup {g}
  BY <1>1, <1>3 DEF Backup!Move
<1>6. fAt' \in [Backup!Tasks -> BackupSteps] /\ fAt'[t] = "idle" /\ \A u \in Backup!Tasks \ {t} : fAt'[u] = fAt[u]
  BY <1>1, <1>2, TaskTurns DEF BackupSteps
<1>7. fStamp' \in [Backup!Tasks -> Nat] /\ \A u \in Backup!Tasks \ {t} : fStamp'[u] = fStamp[u]
  BY <1>1, <1>2, StampNoted
<1>8. BackupTyped' /\ LockFits'
  BY <1>1, <1>2, <1>4, <1>5, <1>6, <1>7 DEF BackupInv, BackupTyped, LockFits
<1>9. Backup!Marked(fDir)' = Backup!Marked(fDir)
  BY <1>4, <1>5 DEF Backup!Marked, Backup!Automatic
<1>10. BackupTimesFit' /\ Backup!Spaced'
  <2>1. fNow' >= fNow
    BY <1>2 DEF BackupInv, BackupTyped
  <2> QED BY <1>2, <1>6, <1>7, <1>8, <2>1, TimesStand
<1>11. FilesFit'
  <2>1. Tidied' => Tidied
    BY <1>2, <1>6 DEF Tidied
  <2> QED BY <1>2, <1>9, <2>1, FilesStand
<1>12. Backup!UserKept'
  BY <1>2, <1>4, <1>5 DEF BackupInv, Backup!UserKept
<1> QED BY <1>8, <1>10, <1>11, <1>12 DEF BackupInv

\* An automatic backup is later than those before it and takes the place of none.
LEMMA AutomaticMoves ==
  ASSUME BackupGiven, BackupInv, NEW t \in Backup!Tasks \ BackupUsers, Backup!Move(t)
  PROVE  BackupInv'
<1>1. Backup!Kind(t) = t /\ t # "user"
  BY WhoThereIs
<1>2. /\ fAt[t] = "move" /\ fStamp' = [fStamp EXCEPT ![t] = 0] /\ Backup!Goes(t, "tidy") /\ fMine' = fMine
      /\ fLast' = fNow /\ fDone' = Append(fDone, fNow) /\ fNow' = fNow /\ fLock' = fLock /\ fCrowded' = fCrowded
  BY DEF Backup!Move
<1>3. PICK g : g = [stamp |-> fStamp[t], kind |-> t, age |-> fNow]
  OBVIOUS
<1>4. g.stamp = fStamp[t] /\ g.kind = t /\ g.age = fNow /\ g \in [stamp : Nat, kind : Backup!Tasks \cup {"user"},
        age : Nat]
  BY <1>3 DEF BackupInv, BackupTyped
<1>5. fDir' = {f \in fDir : f.stamp # fStamp[t] \/ f.kind # t} \cup {g}
  BY <1>1, <1>3 DEF Backup!Move
<1>6. fAt' \in [Backup!Tasks -> BackupSteps] /\ fAt'[t] = "tidy" /\ \A u \in Backup!Tasks \ {t} : fAt'[u] = fAt[u]
  BY <1>2, TaskTurns DEF BackupSteps
<1>7. fStamp' \in [Backup!Tasks -> Nat] /\ \A u \in Backup!Tasks \ {t} : fStamp'[u] = fStamp[u]
  BY <1>2, StampNoted
<1>8. PICK n \in Nat : n = Len(fDone) /\ fDone \in Seq(Nat) /\ DOMAIN fDone = 1..n
  BY DEF BackupInv, BackupTyped
<1>9. fNow \in Nat /\ fLast \in Nat /\ fStamp[t] \in Nat /\ Spacing \in Nat \ {0} /\ 0 < fNow
  BY DEF BackupInv, BackupTyped, BackupGiven, BackupTimesFit
<1>10. /\ fDone' \in Seq(Nat) /\ Len(fDone') = n + 1 /\ fDone'[n + 1] = fNow /\ \A i \in 1..n : fDone'[i] = fDone[i]
  BY <1>2, <1>8, <1>9
<1>11. /\ fLast = 0 \/ fNow - fLast >= Spacing
       /\ fStamp[t] <= fNow /\ (fLast = 0 \/ fStamp[t] > fLast)
  BY <1>2 DEF BackupInv, BackupTimesFit
<1>12. /\ \A i \in 1..n : 0 < fDone[i] /\ fDone[i] <= fLast /\ fDone[i] \in Nat
       /\ n # 0 => fLast = fDone[n] /\ fLast # 0
  BY <1>8, <1>9 DEF BackupInv, BackupTimesFit, BackupTyped
<1>13. \A u \in Backup!Tasks \ BackupUsers : u # t => fAt[u] \notin {"zip", "move", "tidy"}
  BY <1>2 DEF BackupInv, LockFits
<1>14. BackupTyped' /\ LockFits'
  <2>1. fDir' \subseteq [stamp : Nat, kind : Backup!Tasks \cup {"user"}, age : Nat]
    BY <1>4, <1>5 DEF BackupInv, BackupTyped
  <2> QED BY <1>2, <1>6, <1>7, <1>9, <1>10, <2>1 DEF BackupInv, BackupTyped, LockFits
<1>15. \A i, j \in 1..n + 1 : i < j => fDone'[i] < fDone'[j]
  <2> SUFFICES ASSUME NEW i \in 1..n + 1, NEW j \in 1..n + 1, i < j PROVE fDone'[i] < fDone'[j]
    OBVIOUS
  <2>1. i \in 1..n
    OBVIOUS
  <2>2. CASE j \in 1..n
    BY <1>8, <1>10, <2>1, <2>2 DEF BackupInv, BackupTimesFit, Increasing
  <2>3. CASE j = n + 1
    BY <1>9, <1>10, <1>11, <1>12, <2>1, <2>3
  <2> QED BY <2>2, <2>3
<1>16. BackupTimesFit'
  <2>1. \A i \in 1..n + 1 : 0 < fDone'[i] /\ fDone'[i] <= fNow
    <3> TAKE i \in 1..n + 1
    <3>1. i = n + 1 \/ i \in 1..n
      OBVIOUS
    <3> QED BY <1>9, <1>10, <1>11, <1>12, <3>1
  <2>2. Increasing(fDone', Len(fDone'))
    BY <1>10, <1>15 DEF Increasing
  <2>3. \A u \in Backup!Tasks \ BackupUsers : fAt'[u] \notin {"zip", "move"}
    BY <1>6, <1>13
  <2> QED BY <1>2, <1>9, <1>10, <2>1, <2>2, <2>3 DEF BackupTimesFit
<1>17. Backup!Spaced'
  <2> SUFFICES ASSUME NEW i \in 1..n PROVE fDone'[i + 1] - fDone'[i] >= Spacing
    BY <1>10 DEF Backup!Spaced
  <2>1. CASE i = n
    BY <1>9, <1>10, <1>11, <1>12, <2>1
  <2>2. CASE i # n
    <3>1. i \in 1..n - 1 /\ i + 1 \in 1..n
      BY <2>2
    <3> QED BY <1>8, <1>10, <3>1 DEF BackupInv, Backup!Spaced
  <2> QED BY <2>1, <2>2
<1>18. PICK k \in 1..n + 1 : AsOldAs(Backup!Marked(fDir), fDone, k, n) /\ k <= Oldest
  BY <1>8 DEF BackupInv, FilesFit
<1>19. \A f \in Backup!Marked(fDir) : f.age <= fLast /\ f.age \in Nat /\ fLast # 0 /\ f.stamp < fStamp[t] /\
         f.age < fNow
  <2> TAKE f \in Backup!Marked(fDir)
  <2>1. PICK i \in k..n : f.age = fDone[i]
    BY <1>18 DEF AsOldAs
  <2>2. i \in 1..n
    BY <2>1
  <2>3. f.stamp <= f.age /\ f.stamp \in Nat
    BY DEF BackupInv, FilesFit, BackupTyped, Backup!Marked
  <2> QED BY <1>9, <1>11, <1>12, <2>1, <2>2, <2>3
<1>20. Backup!Marked(fDir)' = Backup!Marked(fDir) \cup {g}
  <2>1. Backup!Automatic(g)
    BY <1>1, <1>4 DEF Backup!Automatic
  <2>2. \A f \in Backup!Marked(fDir) : f.stamp # fStamp[t]
    <3> TAKE f \in Backup!Marked(fDir)
    <3>1. f.stamp \in Nat /\ f.stamp < fStamp[t]
      BY <1>19 DEF BackupInv, BackupTyped, Backup!Marked
    <3> QED BY <1>9, <3>1
  <2> QED BY <1>5, <2>1, <2>2 DEF Backup!Marked
<1>21. AgesDiffer(Backup!Marked(fDir)')
  <2>1. AgesDiffer(Backup!Marked(fDir))
    BY DEF BackupInv, FilesFit
  <2>2. \A f \in Backup!Marked(fDir) : f.age # fNow
    BY <1>9, <1>19
  <2> QED BY <1>4, <1>20, <2>1, <2>2 DEF AgesDiffer
<1>22. AsOldAs(Backup!Marked(fDir)', fDone', k, n + 1)
  <2>1. \A f \in Backup!Marked(fDir) : \E i \in k..n + 1 : f.age = fDone'[i]
    <3> TAKE f \in Backup!Marked(fDir)
    <3>1. PICK i \in k..n : f.age = fDone[i]
      BY <1>18 DEF AsOldAs
    <3>2. i \in 1..n /\ i \in k..n + 1
      BY ONLY n \in Nat, k \in 1..n + 1, i \in k..n
    <3>3. fDone'[i] = fDone[i]
      BY <1>10, <3>2
    <3> QED BY <3>1, <3>2, <3>3
  <2>2. n + 1 \in k..n + 1 /\ g.age = fDone'[n + 1]
    BY <1>4, <1>10
  <2>3. ASSUME NEW i \in k..n + 1 PROVE \E f \in Backup!Marked(fDir)' : f.age = fDone'[i]
    <3>1. CASE i \in k..n
      <4>1. PICK f \in Backup!Marked(fDir) : f.age = fDone[i]
        BY <1>18, <3>1 DEF AsOldAs
      <4>2. i \in 1..n
        BY <3>1
      <4>3. fDone'[i] = fDone[i]
        BY <1>10, <4>2
      <4> QED BY <1>20, <4>1, <4>3
    <3>2. CASE i = n + 1
      BY <1>4, <1>10, <1>20, <3>2
    <3> QED BY <3>1, <3>2
  <2> QED BY <1>20, <2>1, <2>2, <2>3 DEF AsOldAs
<1>23. FilesFit'
  <2>1. \A f \in Backup!Marked(fDir)' : f.stamp <= f.age
    BY <1>4, <1>11, <1>20 DEF BackupInv, FilesFit
  <2>2. k \in 1..n + 2 /\ k <= Oldest'
    BY <1>8, <1>10, <1>18 DEF Oldest, BackupGiven
  <2>3. ~Tidied'
    BY <1>6 DEF Tidied
  <2> QED BY <1>10, <1>21, <1>22, <2>1, <2>2, <2>3 DEF FilesFit
<1>24. Backup!UserKept'
  BY <1>1, <1>2, <1>5 DEF BackupInv, Backup!UserKept
<1> QED BY <1>14, <1>16, <1>17, <1>23, <1>24 DEF BackupInv

\* What is removed afterwards are the oldest, or they are still there.
LEMMA BackupsTidied ==
  ASSUME BackupGiven, BackupInv, NEW t \in Backup!Tasks, Backup!CleanUp(t)
  PROVE  BackupInv'
<1>1. /\ fAt[t] = "tidy" /\ Backup!Goes(t, "idle") /\ fLock' = Backup!Free
      /\ fNow' = fNow /\ fStamp' = fStamp /\ fLast' = fLast /\ fMine' = fMine /\ fDone' = fDone
  BY DEF Backup!CleanUp, Backup!Ends
<1>a. PICK gone \in Backup!Surplus(fDir) : \E kept \in {{}, gone} : fDir' = (fDir \ gone) \cup kept /\
    fCrowded' = (kept # {})
  BY DEF Backup!CleanUp
<1>2. PICK kept \in {{}, gone} : fDir' = (fDir \ gone) \cup kept /\ fCrowded' = (kept # {})
  BY <1>a
<1>3. gone \subseteq Backup!Marked(fDir) /\ AsOldAs(Backup!Marked(fDir) \ gone, fDone, Oldest, Len(fDone))
  BY SurplusGoes
<1>4. t \in Backup!Tasks \ BackupUsers /\ fLock = t
  BY <1>1 DEF BackupInv, LockFits
<1>5. fAt' \in [Backup!Tasks -> BackupSteps] /\ fAt'[t] = "idle" /\ \A u \in Backup!Tasks \ {t} : fAt'[u] = fAt[u]
  BY <1>1, TaskTurns DEF BackupSteps
<1>6. fDir' \subseteq fDir /\ Backup!Marked(fDir) \subseteq fDir
  BY <1>2, <1>3 DEF Backup!Marked
<1>7. BackupTyped'
  <2>1. fCrowded' \in BOOLEAN
    BY <1>2
  <2> QED BY <1>1, <1>5, <1>6, <2>1 DEF BackupInv, BackupTyped
<1>8. LockFits'
  BY <1>1, <1>4, <1>5 DEF BackupInv, LockFits
<1>9. BackupTimesFit' /\ Backup!Spaced'
  <2>1. fNow' >= fNow
    BY <1>1 DEF BackupInv, BackupTyped
  <2> QED BY <1>1, <1>5, <1>7, <2>1, TimesStand
<1>10. Backup!UserKept'
  BY <1>1, <1>2, <1>3 DEF BackupInv, Backup!UserKept, Backup!Marked, Backup!Automatic
<1>11. CASE kept = {}
  <2>1. Backup!Marked(fDir)' = Backup!Marked(fDir) \ gone /\ Oldest' = Oldest
    BY <1>1, <1>2, <1>11 DEF Backup!Marked, Oldest
  <2>2. AgesDiffer(Backup!Marked(fDir)') /\ \A f \in Backup!Marked(fDir)' : f.stamp <= f.age
    BY <2>1 DEF BackupInv, FilesFit, AgesDiffer
  <2>3. AsOldAs(Backup!Marked(fDir)', fDone', Oldest', Len(fDone'))
    BY <1>1, <1>3, <2>1
  <2>4. Oldest' \in 1..Len(fDone') + 1 /\ Oldest' <= Oldest'
    BY <1>1 DEF Oldest, BackupGiven, BackupInv, BackupTyped
  <2>5. FilesFit'
    BY <2>2, <2>3, <2>4 DEF FilesFit
  <2> QED BY <1>7, <1>8, <1>9, <1>10, <2>5 DEF BackupInv
<1>12. CASE kept = gone /\ gone # {}
  <2>1. Backup!Marked(fDir)' = Backup!Marked(fDir)
    BY <1>2, <1>3, <1>6, <1>12 DEF Backup!Marked
  <2>2. ~Tidied'
    BY <1>2, <1>12 DEF Tidied
  <2>3. FilesFit'
    BY <1>1, <2>1, <2>2, FilesStand
  <2> QED BY <1>7, <1>8, <1>9, <1>10, <2>3 DEF BackupInv
<1> QED BY <1>2, <1>11, <1>12

\* Every step keeps the invariant.
LEMMA BackupNext == BackupGiven /\ BackupInv /\ [Backup!Next]_(Backup!vars) => BackupInv'
<1> SUFFICES ASSUME BackupGiven, BackupInv, [Backup!Next]_(Backup!vars) PROVE BackupInv'
  OBVIOUS
<1>1. fNow \in Nat
  BY DEF BackupInv, BackupTyped
<1>2. CASE UNCHANGED Backup!vars
  BY <1>1, <1>2, TasksStay DEF Backup!vars
<1>3. CASE Backup!Tick
  BY <1>1, <1>3, TasksStay DEF Backup!Tick, Backup!Files
<1>4. CASE Backup!Refresh
  BY <1>1, <1>4, TasksStay DEF Backup!Refresh, Backup!Files
<1>5. CASE Backup!News
  BY <1>1, <1>5, TasksStay DEF Backup!News, Backup!Files
<1>6. ASSUME NEW t \in Backup!Tasks, Backup!Move(t) PROVE BackupInv'
  BY <1>6, UserMoves, AutomaticMoves
<1> QED BY <1>2, <1>3, <1>4, <1>5, <1>6, BackupBegins, LockTaken, BackupZipped, BackupFails,
   BackupsTidied DEF Backup!Next

\* Automatic backups are spaced, the last ones are kept, and all that the user has made
\* (BackupsKept), for every set of tasks, every spacing and every number to keep.
THEOREM BackupHolds == BackupGiven => (Backup!Spec => []Backup!BackupsKept)
<1> SUFFICES ASSUME BackupGiven PROVE Backup!Spec => []Backup!BackupsKept
  OBVIOUS
<1>1. BackupInv => Backup!LastKept
  <2> SUFFICES ASSUME BackupInv, \A t \in Backup!Tasks \ BackupUsers : fAt[t] \in {"idle", "lock"}, ~fCrowded
               PROVE  {f.age : f \in {f \in fDir : Backup!Automatic(f)}}
                        = {fDone[i] : i \in Backup!Max({1, Len(fDone) - BackupsToKeep + 1})..Len(fDone)}
    BY DEF Backup!LastKept
  <2>1. Tidied
    BY DEF Tidied
  <2>2. AsOldAs(Backup!Marked(fDir), fDone, Oldest, Len(fDone))
    BY <2>1 DEF BackupInv, FilesFit
  <2>3. Backup!Max({1, Len(fDone) - BackupsToKeep + 1}) = Oldest
    <3>1. Len(fDone) \in Nat /\ BackupsToKeep \in Nat
      BY DEF BackupInv, BackupTyped, BackupGiven
    <3>2. PICK s \in Int : s = Len(fDone) - BackupsToKeep + 1
      BY <3>1
    <3>3. Backup!Max({1, s}) = IF 1 >= s THEN 1 ELSE s
      BY GreaterIs
    <3> QED BY <3>2, <3>3 DEF Oldest
  <2>4. {f \in fDir : Backup!Automatic(f)} = Backup!Marked(fDir)
    BY DEF Backup!Marked
  <2> QED BY <2>2, <2>3, <2>4 DEF AsOldAs
<1>2. BackupInv => Backup!BackupsKept
  BY <1>1 DEF BackupInv, Backup!BackupsKept
<1> QED BY <1>2, BackupStarts, BackupNext, PTL DEF Backup!Spec

-----------------------------------------------------------------------------
(* The menu of the tray.                                                    *)

VARIABLES tNow, tVersion, tMode, tDisplay, tMenu, tRunning, tPending, tAt, tSeen, tLost,
          tCrossed
trayVars == <<tNow, tVersion, tMode, tDisplay, tMenu, tRunning, tPending, tAt, tSeen, tLost,
      tCrossed>>
Tray == INSTANCE TrayMenu WITH now <- tNow, version <- tVersion, mode <- tMode,
    display <- tDisplay, menu <- tMenu, running <- tRunning, pending <- tPending, at <- tAt,
    seen <- tSeen, lost <- tLost, crossed <- tCrossed, Windows <- TrayWindows,
    Clicks <- TrayClicks, Groups <- TrayGroups

\* The names of groups and of nodes are made of words; a node has a name.
TrayGiven == \A g \in DOMAIN TrayGroups : g \in Seq(STRING) /\ TrayGroups[g].all \subseteq Seq(STRING) \ {<< >>}

ASSUME TrayAssumption == TrayGiven

TrayPlaces == Tray!Looking \cup {"idle", "ask", "leave", "retake"}
\* What was read is of a choice that was made, and of the nodes in use when it was the last.
ViewFits(v) ==
  /\ v.version \in Nat /\ v.version <= tVersion /\ DOMAIN v.now \subseteq DOMAIN TrayGroups
  /\ v.version = tVersion => v.now \in {tNow, Tray!Empty}
MenuTyped ==
  /\ tVersion \in Nat /\ tRunning \in BOOLEAN /\ tPending \in BOOLEAN /\ tLost \in BOOLEAN /\ tCrossed \in BOOLEAN
  /\ tAt \in [Tray!Tasks -> TrayPlaces] /\ tSeen = [t \in Tray!Tasks |-> tSeen[t]] /\ DOMAIN tNow = DOMAIN TrayGroups
  /\ ViewFits(tMenu) /\ \A t \in Tray!Tasks : ViewFits(tSeen[t])
LoopIsOne ==
  /\ Tray!OneLoop /\ \A w \in TrayWindows : tAt[w] \in Tray!Looking \ {"relook"} => tRunning = TRUE
  /\ \A t \in Tray!Tasks \ TrayWindows : tAt[t] \in {"idle", "update", "set"}
\* The last choice is in the menu, or on its way there.
ChoiceIsServed ==
  \/ \E t \in Tray!Tasks : tAt[t] \in {"ask", "leave", "update", "retake"}
  \/ \E t \in Tray!Tasks : tAt[t] = "set" /\ tSeen[t].version = tVersion
  \/ tPending = TRUE /\ \E w \in TrayWindows : tAt[w] \in Tray!Looking
  \/ tMenu.version = tVersion
TrayInv == MenuTyped /\ LoopIsOne /\ (tLost \/ tCrossed \/ ChoiceIsServed)

\* A task that goes on, when the others stay.
LEMMA TrayGoes ==
  ASSUME MenuTyped, NEW t \in Tray!Tasks, NEW to \in TrayPlaces, Tray!Goes(t, to)
  PROVE  tAt' \in [Tray!Tasks -> TrayPlaces] /\ tAt'[t] = to /\ \A u \in Tray!Tasks \ {t} : tAt'[u] = tAt[u]
BY DEF MenuTyped, Tray!Goes

\* The calls of the window are tasks, and where a loop is are places.
LEMMA WindowsAsk == TrayWindows \subseteq Tray!Tasks /\ Tray!Looking \subseteq TrayPlaces
BY DEF Tray!Tasks, TrayPlaces

\* The invariant holds at first.
LEMMA TrayStarts == Tray!Init => TrayInv
<1> SUFFICES ASSUME Tray!Init PROVE TrayInv
  OBVIOUS
<1>1. \A t \in Tray!Tasks : tAt[t] = "idle" /\ tSeen[t] = tMenu
  BY DEF Tray!Init
<1>2. ViewFits(tMenu)
  BY DEF Tray!Init, ViewFits, Tray!View
<1>3. MenuTyped
  BY <1>1, <1>2 DEF Tray!Init, MenuTyped, TrayPlaces
<1>4. LoopIsOne
  BY <1>1, WindowsAsk DEF LoopIsOne, Tray!OneLoop, Tray!Looking
<1>5. ChoiceIsServed
  BY DEF Tray!Init, ChoiceIsServed, Tray!View
<1> QED BY <1>3, <1>4, <1>5 DEF TrayInv

\* A step of one task that makes no choice: who is in the loop, and the views, stay right.
MenuTaskGoes(t, to) == tAt' \in [Tray!Tasks -> TrayPlaces] /\ tAt'[t] = to /\
    \A u \in Tray!Tasks \ {t} : tAt'[u] = tAt[u]

\* A step of one task: who is in the loop stays right.
LEMMA LoopStays ==
  ASSUME MenuTyped, LoopIsOne, NEW t \in Tray!Tasks, NEW to \in TrayPlaces, MenuTaskGoes(t, to),
         t \in TrayWindows \/ to \in {"idle", "update", "set"},
         \/ tRunning' = tRunning /\ (to \in Tray!Looking \ {"relook"} /\ t \in TrayWindows =>
              tAt[t] \in Tray!Looking \ {"relook"})
         \/ tRunning = FALSE /\ tRunning' = TRUE
         \/ tRunning' = FALSE /\ to = "relook" /\ tAt[t] = "release" /\ t \in TrayWindows
  PROVE  LoopIsOne'
<1>1. tAt'[t] = to /\ \A u \in Tray!Tasks \ {t} : tAt'[u] = tAt[u]
  BY DEF MenuTaskGoes
<1> DEFINE L == Tray!Looking \ {"relook"}
<1>2. \A u, w \in TrayWindows : tAt[u] \in L /\ tAt[w] \in L => u = w
  BY DEF LoopIsOne, Tray!OneLoop
<1>3. \A w \in TrayWindows : tAt[w] \in L => tRunning = TRUE
  BY DEF LoopIsOne
<1>4. "release" \in L /\ "relook" \notin L
  BY DEF Tray!Looking
<1>5. (\A u, w \in TrayWindows : tAt'[u] \in L /\ tAt'[w] \in L => u = w) /\
        \A w \in TrayWindows : tAt'[w] \in L => tRunning' = TRUE
  <2> HIDE DEF L
  <2>1. CASE tRunning' = tRunning /\ (to \in L /\ t \in TrayWindows => tAt[t] \in L)
    <3>1. \A w \in TrayWindows : tAt'[w] \in L => tAt[w] \in L
      BY <1>1, <2>1, WindowsAsk
    <3> QED BY <1>2, <1>3, <2>1, <3>1
  <2>2. CASE tRunning = FALSE /\ tRunning' = TRUE
    <3>1. \A w \in TrayWindows : tAt[w] \notin L
      BY <1>3, <2>2
    <3>2. \A w \in TrayWindows : tAt'[w] \in L => w = t
      BY <1>1, <3>1, WindowsAsk
    <3> QED BY <2>2, <3>2
  <2>3. CASE tRunning' = FALSE /\ to = "relook" /\ tAt[t] = "release" /\ t \in TrayWindows
    <3>1. \A w \in TrayWindows : tAt'[w] \notin L
      <4> TAKE w \in TrayWindows
      <4>1. CASE w = t
        BY <1>1, <1>4, <2>3, <4>1
      <4>2. CASE w # t
        BY <1>1, <1>2, <1>4, <2>3, <4>2, WindowsAsk
      <4> QED BY <4>1, <4>2
    <3> QED BY <3>1
  <2> QED BY <2>1, <2>2, <2>3 DEF L
<1> QED BY <1>1, <1>5 DEF LoopIsOne, Tray!OneLoop

\* A choice is made, and the menu is to follow.
LEMMA ChooseFits == ASSUME TrayInv, NEW t \in Tray!Tasks, Tray!Choose(t) PROVE TrayInv'
<1>1. tAt[t] = "idle" /\ tVersion' = tVersion + 1 /\ tRunning' = tRunning /\ tPending' = tPending /\ tLost' = tLost
      /\ tMenu' = tMenu /\ tSeen' = tSeen /\ tCrossed' = tCrossed
  BY DEF Tray!Choose, Tray!Flags, Tray!Shape
<1>2. DOMAIN tNow' = DOMAIN tNow
  BY DEF Tray!Choose
<1>3. PICK to \in {"ask", "update"} : Tray!Goes(t, to) /\ (t \in TrayWindows => to = "ask") /\
             (t \notin TrayWindows => to = "update")
  BY DEF Tray!Choose
<1>4. MenuTaskGoes(t, to)
  BY <1>3, TrayGoes DEF MenuTaskGoes, TrayInv, TrayPlaces, Tray!Looking
<1>6. ViewFits(tMenu)'
  BY <1>1 DEF ViewFits, TrayInv, MenuTyped
<1>7. \A u \in Tray!Tasks : ViewFits(tSeen[u])'
  <2> TAKE u \in Tray!Tasks
  <2>1. ViewFits(tSeen[u]) /\ tVersion \in Nat
    BY DEF TrayInv, MenuTyped
  <2> QED BY <1>1, <2>1 DEF ViewFits
<1>8. MenuTyped'
  BY <1>1, <1>2, <1>4, <1>6, <1>7 DEF TrayInv, MenuTyped, MenuTaskGoes
<1>9. LoopIsOne'
  <2>1. t \in TrayWindows \/ to = "update"
    BY <1>3
  <2>2. to \in TrayPlaces /\ (to \in Tray!Looking \ {"relook"} /\ t \in TrayWindows =>
          tAt[t] \in Tray!Looking \ {"relook"})
    BY <1>3 DEF TrayPlaces, Tray!Looking
  <2> QED BY <1>1, <1>4, <2>1, <2>2, LoopStays DEF TrayInv
<1>10. ChoiceIsServed'
  BY <1>3, <1>4 DEF ChoiceIsServed, MenuTaskGoes
<1> QED BY <1>8, <1>9, <1>10 DEF TrayInv

\* Steps that leave the choice and the views alone.
LEMMA ViewsStay ==
  ASSUME MenuTyped, UNCHANGED tNow, UNCHANGED tVersion, UNCHANGED tMenu, UNCHANGED tSeen,
           tAt' \in [Tray!Tasks -> TrayPlaces],
         tRunning' \in BOOLEAN, tPending' \in BOOLEAN, tLost' \in BOOLEAN, tCrossed' \in BOOLEAN
  PROVE  MenuTyped'
BY DEF MenuTyped, ViewFits

\* The requests: each is served by the loop, or left for it.
LEMMA AskFits ==
  ASSUME TrayInv, NEW t \in Tray!Tasks, Tray!Ask(t) \/ Tray!LeaveRequest(t) \/ Tray!Look(t) \/ Tray!Release(t) \/
           Tray!LookAgain(t) \/ Tray!Retake(t)
  PROVE  TrayInv'
<1>1. tNow' = tNow /\ tVersion' = tVersion /\ tMenu' = tMenu /\ tSeen' = tSeen /\ tCrossed' = tCrossed
  BY DEF Tray!Ask, Tray!LeaveRequest, Tray!Look, Tray!Release, Tray!LookAgain, Tray!Retake, Tray!Shape
<1> DEFINE L == Tray!Looking \ {"relook"}
<1>2. PICK to \in TrayPlaces :
        /\ Tray!Goes(t, to) /\ tRunning' \in BOOLEAN /\ tPending' \in BOOLEAN /\ tLost' \in BOOLEAN
        /\ \/ tRunning' = tRunning /\ (to \in L /\ t \in TrayWindows => tAt[t] \in L)
           \/ tRunning = FALSE /\ tRunning' = TRUE
           \/ tRunning' = FALSE /\ to = "relook" /\ tAt[t] = "release"
        /\ tLost' = FALSE => tLost = FALSE
        /\ tAt[t] = "ask" => tPending' = tPending /\ to \in {"leave", "update"}
        /\ tAt[t] = "leave" => tPending' = TRUE /\ (tLost' = FALSE => \E w \in TrayWindows : tAt[w] \in Tray!Looking)
        /\ tAt[t] \in {"look", "relook"} => \/ tPending = FALSE /\ tPending' = FALSE
                                            \/ to \in {"update", "retake"}
        /\ tAt[t] = "release" => tPending' = tPending /\ to = "relook"
        /\ tAt[t] = "retake" => /\ tPending' = tPending
                                /\ to = "update" \/ (tLost' = FALSE => \E w \in TrayWindows : tAt[w] = "update")
        /\ tAt[t] \in {"ask", "leave", "look", "release", "relook", "retake"}
  <2>1. tRunning \in BOOLEAN /\ tPending \in BOOLEAN /\ tLost \in BOOLEAN
    BY DEF TrayInv, MenuTyped
  <2>2. L = {"update", "set", "look", "release"}
    BY DEF Tray!Looking
  <2> HIDE DEF L
  <2>3. CASE Tray!Ask(t)
    BY <2>1, <2>2, <2>3 DEF Tray!Ask, TrayPlaces, Tray!Looking
  <2>4. CASE Tray!LeaveRequest(t)
    BY <2>1, <2>2, <2>4 DEF Tray!LeaveRequest, TrayPlaces
  <2>5. CASE Tray!Look(t)
    BY <2>1, <2>2, <2>5 DEF Tray!Look, TrayPlaces, Tray!Looking
  <2>6. CASE Tray!Release(t)
    BY <2>1, <2>2, <2>6 DEF Tray!Release, Tray!AfterRelease, TrayPlaces, Tray!Looking
  <2>7. CASE Tray!LookAgain(t)
    BY <2>1, <2>2, <2>7 DEF Tray!LookAgain, TrayPlaces
  <2>8. CASE Tray!Retake(t)
    BY <2>1, <2>2, <2>8 DEF Tray!Retake, TrayPlaces, Tray!Looking
  <2> QED BY <2>3, <2>4, <2>5, <2>6, <2>7, <2>8
<1>3. MenuTaskGoes(t, to)
  BY <1>2, TrayGoes DEF MenuTaskGoes, TrayInv
<1>4. tAt'[t] = to /\ \A u \in Tray!Tasks \ {t} : tAt'[u] = tAt[u]
  BY <1>3 DEF MenuTaskGoes
<1>5. MenuTyped'
  BY <1>1, <1>2, <1>3, ViewsStay DEF TrayInv, MenuTyped, MenuTaskGoes
<1>6. LoopIsOne'
  <2>1. t \in TrayWindows
    BY <1>2 DEF TrayInv, LoopIsOne
  <2> QED BY <1>2, <1>3, <2>1, LoopStays DEF TrayInv
<1>7. tLost' = FALSE /\ tCrossed' = FALSE => ChoiceIsServed'
  <2> SUFFICES ASSUME tLost' = FALSE, tCrossed' = FALSE PROVE ChoiceIsServed'
    OBVIOUS
  <2>1. ChoiceIsServed /\ tLost = FALSE
    BY <1>1, <1>2 DEF TrayInv
  <2>2. CASE \E u \in Tray!Tasks : tAt[u] \in {"ask", "leave", "update", "retake"} /\ u # t
    BY <1>4, <2>2 DEF ChoiceIsServed
  <2>3. CASE tAt[t] = "ask"
    BY <1>2, <1>4, <2>3 DEF ChoiceIsServed
  <2>4. CASE tAt[t] = "leave"
    <3>1. PICK w \in TrayWindows : tAt[w] \in Tray!Looking
      BY <1>2, <2>4
    <3>2. w # t
      BY <2>4, <3>1 DEF Tray!Looking
    <3> QED BY <1>2, <1>4, <2>4, <3>1, <3>2, WindowsAsk DEF ChoiceIsServed
  <2>5. CASE tAt[t] = "retake"
    <3>1. CASE to = "update"
      BY <1>4, <3>1 DEF ChoiceIsServed
    <3>2. CASE to # "update"
      <4>1. PICK w \in TrayWindows : tAt[w] = "update"
        BY <1>2, <2>5, <3>2
      <4> QED BY <1>4, <2>5, <4>1, WindowsAsk DEF ChoiceIsServed
    <3> QED BY <3>1, <3>2
  <2>6. CASE \E u \in Tray!Tasks : tAt[u] = "set" /\ tSeen[u].version = tVersion
    BY <1>1, <1>2, <1>4, <2>6 DEF ChoiceIsServed
  <2>7. CASE tPending = TRUE /\ (\E w \in TrayWindows : tAt[w] \in Tray!Looking) /\
               tAt[t] \in {"look", "release", "relook"}
    <3>1. CASE to \in {"update", "retake"}
      BY <1>4, <3>1 DEF ChoiceIsServed
    <3>2. CASE to \notin {"update", "retake"}
      <4>1. tPending' = TRUE /\ to = "relook"
        BY <1>2, <2>7, <3>2
      <4>2. \E w \in TrayWindows : tAt'[w] \in Tray!Looking
        <5>1. PICK w \in TrayWindows : tAt[w] \in Tray!Looking
          BY <2>7
        <5> QED BY <1>4, <4>1, <5>1, WindowsAsk DEF Tray!Looking
      <4> QED BY <4>1, <4>2 DEF ChoiceIsServed
    <3> QED BY <3>1, <3>2
  <2>8. CASE tMenu.version = tVersion
    BY <1>1, <2>8 DEF ChoiceIsServed
  <2> QED BY <1>2, <2>1, <2>2, <2>3, <2>4, <2>5, <2>6, <2>7, <2>8 DEF ChoiceIsServed
<1>8. tLost' \in BOOLEAN /\ tCrossed' \in BOOLEAN
  BY <1>5 DEF MenuTyped
<1> QED BY <1>5, <1>6, <1>7, <1>8 DEF TrayInv

\* What is in use is read for the menu.
LEMMA ReadMenuFits == ASSUME TrayInv, NEW t \in Tray!Tasks, Tray!Read(t) PROVE TrayInv'
<1>1. tAt[t] = "update" /\ tVersion' = tVersion /\ tNow' = tNow /\ tRunning' = tRunning /\ tPending' = tPending
      /\ tMenu' = tMenu /\ tCrossed' = tCrossed /\ tMode' = tMode /\ tDisplay' = tDisplay
  BY DEF Tray!Read, Tray!Flags, Tray!Settings
<1>2. PICK n \in {tNow, Tray!Empty} : tSeen' = [tSeen EXCEPT ![t] = Tray!View(tVersion, n)]
  BY DEF Tray!Read
<1>3. "set" \in TrayPlaces /\ Tray!Goes(t, "set")
  BY DEF Tray!Read, TrayPlaces, Tray!Looking
<1>4. MenuTaskGoes(t, "set")
  BY <1>3, TrayGoes DEF MenuTaskGoes, TrayInv
<1>5. tAt'[t] = "set" /\ \A u \in Tray!Tasks \ {t} : tAt'[u] = tAt[u]
  BY <1>4 DEF MenuTaskGoes
<1>6. tLost' \in BOOLEAN
  BY DEF Tray!Read
<1>7. tSeen' = [u \in Tray!Tasks |-> tSeen'[u]] /\ tSeen'[t] = Tray!View(tVersion, n) /\
        \A u \in Tray!Tasks \ {t} : tSeen'[u] = tSeen[u]
  BY <1>2 DEF TrayInv, MenuTyped
<1>8. ViewFits(tMenu)' /\ \A u \in Tray!Tasks : ViewFits(tSeen[u])'
  <2>1. ViewFits(tMenu)' /\ \A u \in Tray!Tasks \ {t} : ViewFits(tSeen[u])'
    BY <1>1, <1>7 DEF ViewFits, TrayInv, MenuTyped
  <2>2. DOMAIN n \subseteq DOMAIN TrayGroups
    BY DEF TrayInv, MenuTyped, Tray!Empty
  <2>3. ViewFits(tSeen[t])'
    BY <1>1, <1>7, <2>2 DEF ViewFits, Tray!View, TrayInv, MenuTyped
  <2> QED BY <2>1, <2>3
<1>9. MenuTyped'
  BY <1>1, <1>4, <1>6, <1>7, <1>8 DEF TrayInv, MenuTyped, MenuTaskGoes
<1>10. LoopIsOne'
  <2>1. tAt[t] \in Tray!Looking \ {"relook"}
    BY <1>1 DEF Tray!Looking
  <2> QED BY <1>1, <1>3, <1>4, <2>1, LoopStays DEF TrayInv
<1>11. ChoiceIsServed'
  BY <1>1, <1>5, <1>7 DEF ChoiceIsServed, Tray!View
<1> QED BY <1>9, <1>10, <1>11 DEF TrayInv

\* What was read is set.
LEMMA SetMenuFits == ASSUME TrayInv, NEW t \in Tray!Tasks, Tray!Set(t) PROVE TrayInv'
<1>1. tAt[t] = "set" /\ tVersion' = tVersion /\ tNow' = tNow /\ tRunning' = tRunning /\ tPending' = tPending
      /\ tSeen' = tSeen /\ tLost' = tLost /\ tMenu' = tSeen[t]
      /\ tCrossed' = (tSeen[t].version < tMenu.version \/ (tCrossed /\ tSeen[t].version # tVersion))
  BY DEF Tray!Set, Tray!Flags
<1>2. PICK to \in TrayPlaces : Tray!Goes(t, to) /\ to = IF t \in TrayWindows THEN "look" ELSE "idle"
  BY DEF Tray!Set, TrayPlaces, Tray!Looking
<1>3. MenuTaskGoes(t, to)
  BY <1>2, TrayGoes DEF MenuTaskGoes, TrayInv
<1>4. tAt'[t] = to /\ \A u \in Tray!Tasks \ {t} : tAt'[u] = tAt[u]
  BY <1>3 DEF MenuTaskGoes
<1>5. tCrossed' \in BOOLEAN
  BY <1>1 DEF TrayInv, MenuTyped
<1>6. MenuTyped'
  <2>1. ViewFits(tMenu)' /\ \A u \in Tray!Tasks : ViewFits(tSeen[u])'
    BY <1>1 DEF ViewFits, TrayInv, MenuTyped
  <2> QED BY <1>1, <1>3, <1>5, <2>1 DEF TrayInv, MenuTyped, MenuTaskGoes
<1>7. LoopIsOne'
  <2>1. tAt[t] \in Tray!Looking \ {"relook"}
    BY <1>1 DEF Tray!Looking
  <2>2. t \in TrayWindows \/ to = "idle"
    BY <1>2
  <2> QED BY <1>1, <1>3, <2>1, <2>2, LoopStays DEF TrayInv
<1>8. tLost' = FALSE /\ tCrossed' = FALSE => ChoiceIsServed'
  <2> SUFFICES ASSUME tLost' = FALSE, tCrossed' = FALSE PROVE ChoiceIsServed'
    OBVIOUS
  <2>1. tSeen[t].version \in Nat /\ tMenu.version \in Nat /\ tVersion \in Nat /\ tMenu.version <= tVersion
        /\ tSeen[t].version <= tVersion
    BY DEF TrayInv, MenuTyped, ViewFits
  <2>2. CASE tSeen[t].version = tVersion
    BY <1>1, <2>2 DEF ChoiceIsServed
  <2>3. CASE tSeen[t].version # tVersion
    <3>1. tLost = FALSE /\ tCrossed = FALSE /\ tMenu.version # tVersion
      <4>1. ~(tSeen[t].version < tMenu.version) /\ tCrossed # TRUE
        BY <1>1, <2>3
      <4> QED BY <1>1, <2>1, <2>3, <4>1 DEF TrayInv, MenuTyped
    <3>2. \/ \E u \in Tray!Tasks : tAt[u] \in {"ask", "leave", "update", "retake"}
          \/ \E u \in Tray!Tasks : tAt[u] = "set" /\ tSeen[u].version = tVersion
          \/ tPending = TRUE /\ \E w \in TrayWindows : tAt[w] \in Tray!Looking
      BY <3>1 DEF TrayInv, ChoiceIsServed
    <3>3. CASE \E u \in Tray!Tasks : tAt[u] \in {"ask", "leave", "update", "retake"}
      BY <1>1, <1>4, <3>3 DEF ChoiceIsServed
    <3>4. CASE \E u \in Tray!Tasks : tAt[u] = "set" /\ tSeen[u].version = tVersion
      BY <1>1, <1>4, <2>3, <3>4 DEF ChoiceIsServed
    <3>5. CASE tPending = TRUE /\ \E w \in TrayWindows : tAt[w] \in Tray!Looking
      <4>1. \E w \in TrayWindows : tAt'[w] \in Tray!Looking
        <5>1. PICK w \in TrayWindows : tAt[w] \in Tray!Looking
          BY <3>5
        <5> QED BY <1>2, <1>4, <5>1, WindowsAsk DEF Tray!Looking
      <4> QED BY <1>1, <3>5, <4>1 DEF ChoiceIsServed
    <3> QED BY <3>2, <3>3, <3>4, <3>5
  <2> QED BY <2>2, <2>3
<1>9. tLost' \in BOOLEAN
  BY <1>6 DEF MenuTyped
<1> QED BY <1>5, <1>6, <1>7, <1>8, <1>9 DEF TrayInv

\* Every step keeps the invariant.
LEMMA TrayNext == TrayInv /\ [Tray!Next]_(Tray!vars) => TrayInv'
<1> SUFFICES ASSUME TrayInv, [Tray!Next]_(Tray!vars) PROVE TrayInv'
  OBVIOUS
<1>1. CASE UNCHANGED Tray!vars
  BY <1>1 DEF Tray!vars, TrayInv, MenuTyped, ViewFits, LoopIsOne, Tray!OneLoop, ChoiceIsServed
<1> QED BY <1>1, ChooseFits, AskFits, ReadMenuFits, SetMenuFits DEF Tray!Next

\* A word before another, a name of one word, and a click with what it is of.
LEMMA WordBefore ==
  ASSUME NEW W, NEW a \in W, NEW g \in Seq(W), Len(g) = 1
  PROVE  <<a>> \o g \in Seq(W) /\ Len(<<a>> \o g) = 2 /\ (<<a>> \o g)[1] = a /\ (<<a>> \o g)[2] = g[1]
<1>1. <<a>> \in Seq(W)
  OBVIOUS
<1>2. Len(<<a>>) = 1 /\ <<a>>[1] = a
  OBVIOUS
<1>3. <<a>> \o g \in Seq(W) /\ Len(<<a>> \o g) = 2
  BY <1>1, <1>2, ConcatProperties
<1>4. (<<a>> \o g)[1] = a /\ (<<a>> \o g)[2] = g[1]
  BY <1>1, <1>2, ConcatProperties
<1> QED BY <1>3, <1>4

\* A name of one word.
LEMMA NameIsWord == ASSUME NEW W, NEW g \in Seq(W), Len(g) = 1 PROVE g = <<g[1]>>
<1>1. g[1] \in W
  OBVIOUS
<1>2. <<g[1]>> \in Seq(W) /\ Len(<<g[1]>>) = 1 /\ <<g[1]>>[1] = g[1]
  BY <1>1
<1> QED BY <1>2, SeqEqual

\* A word before two.
LEMMA ThreeWords == ASSUME NEW a, NEW b, NEW c PROVE <<a>> \o <<b, c>> = <<a, b, c>>
<1> PICK S : S = {a, b, c}
  OBVIOUS
<1>1. <<a>> \in Seq(S) /\ <<b, c>> \in Seq(S) /\ <<a, b, c>> \in Seq(S)
  OBVIOUS
<1>2. Len(<<a>> \o <<b, c>>) = 3 /\ \A i \in 1..3 : (<<a>> \o <<b, c>>)[i] = <<a, b, c>>[i]
  BY <1>1, ConcatProperties
<1>3. <<a>> \o <<b, c>> \in Seq(S)
  BY <1>1, ConcatProperties
<1> QED BY <1>1, <1>2, <1>3, SeqEqual

\* A click on a node's item does what the item stands for.
LEMMA NodeDispatched ==
  ASSUME NEW W, "proxy" \in W, NEW g \in Seq(W), Len(g) = 1, NEW n \in Seq(W), n # << >>
  PROVE  Tray!Dispatch(<<"proxy">> \o g \o n) = <<"node", g, n>>
<1> DEFINE id == <<"proxy">> \o g \o n
<1>1. PICK k \in Nat : k = Len(n) /\ k > 0
  <2>1. Len(n) \in Nat /\ Len(n) # 0
    OBVIOUS
  <2> QED BY <2>1
<1>2. id \in Seq(W) /\ Len(id) = 2 + k /\ id[1] = "proxy" /\ id[2] = g[1] /\ \A i \in 1..k : id[i + 2] = n[i]
  <2>1. PICK p \in Seq(W) : p = <<"proxy">> \o g /\ Len(p) = 2 /\ p[1] = "proxy" /\ p[2] = g[1]
    BY WordBefore
  <2>2. p \o n \in Seq(W) /\ Len(p \o n) = 2 + k /\ (p \o n)[1] = "proxy" /\ (p \o n)[2] = g[1]
    BY <1>1, <2>1
  <2>3. \A i \in 1..k : (p \o n)[i + 2] = n[i]
    BY <1>1, <2>1
  <2> QED BY <2>1, <2>2, <2>3
<1> HIDE DEF id
<1>3. Tail(id) \in Seq(W) /\ Len(Tail(id)) = 1 + k /\ \A i \in 1..1 + k : Tail(id)[i] = id[i + 1]
  BY <1>1, <1>2
<1>4. Head(Tail(id)) = g[1]
  BY <1>1, <1>2, <1>3
<1>5. Tail(Tail(id)) = n
  <2>1. Tail(Tail(id)) \in Seq(W) /\ Len(Tail(Tail(id))) = k /\ \A i \in 1..k : Tail(Tail(id))[i] = Tail(id)[i + 1]
    BY <1>1, <1>3
  <2>2. \A i \in 1..k : Tail(Tail(id))[i] = n[i]
    BY <1>1, <1>2, <1>3, <2>1
  <2> QED BY <1>1, <2>1, <2>2
<1>6. <<Head(Tail(id))>> = g
  <2>1. g = <<g[1]>>
    BY NameIsWord
  <2> QED BY <1>4, <2>1
<1>7. Tray!Cut(Tail(id)) = <<g, n>>
  BY <1>5, <1>6 DEF Tray!Cut
<1>8. Tray!Dispatch(id) = <<"node">> \o Tray!Cut(Tail(id))
  <2>1. id[1] # "tray" /\ id[1] # "profiles" /\ Len(id) > 2 /\ id # <<"tray", "exit">> /\
          id # <<"tray", "system", "proxy">>
    BY <1>1, <1>2
  <2> QED BY <1>2, <2>1 DEF Tray!Dispatch
<1>9. <<"node">> \o <<g, n>> = <<"node", g, n>>
  BY ThreeWords
<1> QED BY <1>7, <1>8, <1>9 DEF id

\* So does one on the other items.
LEMMA OthersDispatched ==
  /\ \A m \in {"rule", "global", "direct"} : Tray!Dispatch(<<"tray", m, "mode">>) = <<"mode", m>>
  /\ Tray!Dispatch(<<"tray", "exit">>) = <<"exit">> /\ Tray!Dispatch(<<"tray", "system", "proxy">>) = <<"proxy">>
  /\ Tray!Dispatch(<<"profiles", "p1">>) = <<"profile", "p1">>
BY DEF Tray!Dispatch

\* The menu shows the last choice, unless its renewal was lost or overtaken, one task renews it
\* at a time, and its items do what they stand for (TrayFollows), for every list of groups and
\* any number of choices.
THEOREM TrayHolds == TrayGiven => (Tray!Spec => []Tray!TrayFollows)
<1> SUFFICES ASSUME TrayGiven PROVE Tray!Spec => []Tray!TrayFollows
  OBVIOUS
<1>1. TrayInv => Tray!MenuShowsChoice
  BY WindowsAsk DEF Tray!MenuShowsChoice, TrayInv, MenuTyped, ViewFits, ChoiceIsServed, Tray!Looking
<1>2. TrayInv => Tray!ClickReaches
  <2> SUFFICES ASSUME TrayInv, NEW item \in Tray!Items(tMenu), item.means[1] = "node" => Len(item.means[2]) = 1
               PROVE  Tray!Dispatch(item.id) = item.means
    BY DEF Tray!ClickReaches
  <2>1. CASE item \in Tray!ModeItems(tMenu) \cup Tray!Fixed \cup Tray!ProfileItems
    BY <2>1, OthersDispatched DEF Tray!ModeItems, Tray!Fixed, Tray!ProfileItems, Tray!Item
  <2>2. CASE item \in Tray!NodeItems(tMenu)
    <3>1. PICK g \in DOMAIN tMenu.now : \E n \in TrayGroups[g].all : item = Tray!Item(<<"proxy">> \o g \o n,
                 <<"node", g, n>>, tMenu.now[g] = n)
      BY <2>2 DEF Tray!NodeItems
    <3>2. PICK n \in TrayGroups[g].all : item = Tray!Item(<<"proxy">> \o g \o n, <<"node", g, n>>, tMenu.now[g] = n)
      BY <3>1
    <3>3. g \in Seq(STRING) /\ n \in Seq(STRING) /\ n # << >>
      BY <3>1, <3>2 DEF TrayGiven, TrayInv, MenuTyped, ViewFits
    <3>4. item.id = <<"proxy">> \o g \o n /\ item.means = <<"node", g, n>>
      BY <3>2 DEF Tray!Item
    <3>5. Len(g) = 1
      BY <3>4
    <3>6. PICK W : W = STRING \cup {"proxy"}
      OBVIOUS
    <3>7. "proxy" \in W /\ g \in Seq(W) /\ n \in Seq(W)
      BY <3>3, <3>6
    <3> QED BY <3>3, <3>4, <3>5, <3>7, NodeDispatched
  <2> QED BY <2>1, <2>2 DEF Tray!Items
<1>3. TrayInv => Tray!TrayFollows
  BY <1>1, <1>2 DEF Tray!TrayFollows, TrayInv, LoopIsOne
<1> QED BY <1>3, TrayStarts, TrayNext, PTL DEF Tray!Spec

-----------------------------------------------------------------------------
(* The speed beside the icon.                                               *)

VARIABLES eSlot, eShared, eAt, eWhom, eHeld, eAborted, eOpen, eMade, eExiting, eCalls, eExcused
speedVars == <<eSlot, eShared, eAt, eWhom, eHeld, eAborted, eOpen, eMade, eExiting, eCalls,
      eExcused>>
Speed == INSTANCE SpeedTask WITH slot <- eSlot, shared <- eShared, at <- eAt, whom <- eWhom,
    held <- eHeld, aborted <- eAborted, open <- eOpen, made <- eMade, exiting <- eExiting,
    calls <- eCalls, excused <- eExcused, MaxCalls <- MaxSpeedCalls

SpeedGiven == MaxSpeedCalls \in Nat

ASSUME SpeedAssumption == SpeedGiven

SpeedPlaces == Speed!Reader \cup Speed!Stopper \cup {"none", "done"}
SpeedTyped ==
  /\ eAt \in [Speed!Calls -> SpeedPlaces] /\ eWhom \in [Speed!Calls -> Speed!Calls \cup {Speed!None}]
  /\ eSlot \in Speed!Calls \cup {Speed!None} /\ eCalls \in Speed!Calls \cup {Speed!None} /\ eMade \in Nat /\
       eOpen \subseteq 1..eMade
  /\ eShared \in Nat /\ eHeld \in [Speed!Calls -> Nat] /\ eExiting \in BOOLEAN /\ eExcused \in BOOLEAN
\* Calls are numbered as they come; the task that is kept is one of them, and nobody stops it.
CallsFit ==
  /\ eSlot <= eCalls /\ \A c \in Speed!Calls : c > eCalls => eAt[c] = "none"
  /\ \A c \in Speed!Calls : eWhom[c] <= eCalls /\ (eSlot # Speed!None => eWhom[c] # eSlot)
  /\ \A c \in eAborted : \E d \in Speed!Calls : eAt[d] # "none" /\ eWhom[d] = c
  /\ \A c \in Speed!Calls : eAt[c] \in {"abort", "join"} => eWhom[c] # Speed!None
\* A task that reads is the one that is kept, or somebody is stopping it.
ReadersAreKnown ==
  \A c \in Speed!Calls : eAt[c] \in Speed!Reader => c = eSlot \/
      \E d \in Speed!Calls : eAt[d] \in {"abort", "join"} /\ eWhom[d] = c
\* As long as no task was started beside another that is being stopped there is one that
\* reads, and nobody stops a task while one is kept.
OneReader ==
  ~eExcused =>
    /\ \A c, d \in Speed!Calls : eAt[c] \in Speed!Reader /\ eAt[d] \in Speed!Reader => c = d
    /\ eSlot # Speed!None => \A c \in Speed!Calls : eAt[c] \notin Speed!Stopper
\* Every connection that is open is known: to all, or to the one that is about to close it.
StreamsAreKnown ==
  /\ \A c \in Speed!Calls : eHeld[c] # Speed!None => eAt[c] \in {"closing", "close"}
  /\ ~eExcused =>
       /\ \A i \in eOpen : i = eShared \/ \E c \in Speed!Calls : eHeld[c] = i
       /\ \A c \in Speed!Calls : eAt[c] \in {"connect", "closing", "pause"} => eShared = Speed!None
       /\ eShared # Speed!None => \E c \in Speed!Calls : eAt[c] \in {"stream", "abort", "join", "take"}
       /\ eSlot # Speed!None /\ eAt[eSlot] = "stream" => eShared # Speed!None
SpeedInv == SpeedTyped /\ CallsFit /\ ReadersAreKnown /\ OneReader /\ StreamsAreKnown

\* A call that goes on, when the others stay.
LEMMA CallGoes ==
  ASSUME SpeedTyped, NEW c \in Speed!Calls, NEW to \in SpeedPlaces, Speed!Goes(c, to)
  PROVE  eAt' \in [Speed!Calls -> SpeedPlaces] /\ eAt'[c] = to /\ \A d \in Speed!Calls \ {c} : eAt'[d] = eAt[d]
BY DEF SpeedTyped, Speed!Goes

\* What a call holds, or whom it stops, the others keeping theirs.
LEMMA CallNotes ==
  ASSUME NEW S, NEW f \in [Speed!Calls -> S], NEW c \in Speed!Calls, NEW n \in S, NEW g, g = [f EXCEPT ![c] = n]
  PROVE  g \in [Speed!Calls -> S] /\ g[c] = n /\ \A d \in Speed!Calls \ {c} : g[d] = f[d]
OBVIOUS

\* The places apart from one another.
LEMMA PlacesDiffer ==
  /\ Speed!Reader \subseteq SpeedPlaces /\ Speed!Stopper \subseteq SpeedPlaces /\ Speed!Reader \cap Speed!Stopper = {}
  /\ "none" \notin Speed!Reader \cup Speed!Stopper /\ "done" \notin Speed!Reader \cup Speed!Stopper
BY DEF Speed!Reader, Speed!Stopper, SpeedPlaces

\* The invariant holds at first.
LEMMA SpeedStarts == SpeedGiven /\ Speed!Init => SpeedInv
<1> SUFFICES ASSUME SpeedGiven, Speed!Init PROVE SpeedInv
  OBVIOUS
<1>1. \A c \in Speed!Calls : eAt[c] = "none" /\ eWhom[c] = Speed!None /\ eHeld[c] = Speed!None
  BY DEF Speed!Init
<1>2. SpeedTyped
  BY DEF Speed!Init, SpeedTyped, SpeedPlaces, Speed!None
<1>3. CallsFit /\ ReadersAreKnown /\ OneReader
  BY <1>1 DEF Speed!Init, CallsFit, ReadersAreKnown, OneReader, Speed!Reader, Speed!Stopper, Speed!None, Speed!Calls
<1>4. StreamsAreKnown
  BY <1>1 DEF Speed!Init, StreamsAreKnown, Speed!None
<1> QED BY <1>2, <1>3, <1>4 DEF SpeedInv

\* A call that is made is the next.
LEMMA CallIsNext ==
  ASSUME SpeedGiven, SpeedInv, eCalls < MaxSpeedCalls, eCalls' = eCalls + 1
  PROVE  eCalls' \in Speed!Calls /\ eCalls \in Nat /\ eSlot \in Nat /\ eSlot # eCalls' /\
           eAt[eCalls'] = "none" /\ eHeld[eCalls'] = Speed!None
         /\ eCalls' \notin eAborted /\ eCalls' # Speed!None
         /\ \A c \in Speed!Calls : eAt[c] # "none" => c <= eCalls /\ eWhom[c] # eCalls'
<1>1. eCalls \in Nat /\ eSlot \in Nat /\ eSlot <= eCalls /\ eCalls' \in Speed!Calls /\ eCalls' > eCalls
  BY DEF SpeedGiven, SpeedInv, SpeedTyped, CallsFit, Speed!Calls, Speed!None
<1>2. \A c \in Speed!Calls : eWhom[c] # eCalls'
  BY <1>1 DEF SpeedInv, SpeedTyped, CallsFit, Speed!Calls, Speed!None
<1>3. eAt[eCalls'] = "none" /\ eHeld[eCalls'] = Speed!None
  BY <1>1 DEF SpeedInv, CallsFit, StreamsAreKnown
<1> QED BY <1>1, <1>2, <1>3 DEF SpeedInv, SpeedTyped, CallsFit, Speed!Calls, Speed!None

\* A task is started where none reads.
LEMMA StartFits == ASSUME SpeedGiven, SpeedInv, Speed!Start PROVE SpeedInv'
<1>1. eCalls < MaxSpeedCalls /\ eCalls' = eCalls + 1
  BY DEF Speed!Start
<1>2. /\ eCalls' \in Speed!Calls /\ eCalls \in Nat /\ eSlot \in Nat /\ eSlot # eCalls' /\
           eAt[eCalls'] = "none" /\ eHeld[eCalls'] = Speed!None
      /\ eCalls' \notin eAborted /\ eCalls' # Speed!None
      /\ \A c \in Speed!Calls : eAt[c] # "none" => c <= eCalls /\ eWhom[c] # eCalls'
  BY <1>1, CallIsNext
<1>3. UNCHANGED eShared /\ UNCHANGED eWhom /\ UNCHANGED eHeld /\ UNCHANGED eAborted /\ UNCHANGED eOpen
      /\ UNCHANGED eMade /\ UNCHANGED eExiting
  BY DEF Speed!Start
<1>4. CASE UNCHANGED <<eSlot, eAt, eExcused>>
  <2>1. SpeedTyped'
    BY <1>2, <1>3, <1>4 DEF SpeedInv, SpeedTyped
  <2>2. CallsFit'
    BY <1>1, <1>2, <1>3, <1>4 DEF SpeedInv, SpeedTyped, CallsFit, Speed!Calls, Speed!None
  <2>3. ReadersAreKnown' /\ OneReader' /\ StreamsAreKnown'
    BY <1>3, <1>4 DEF SpeedInv, ReadersAreKnown, OneReader, StreamsAreKnown
  <2> QED BY <2>1, <2>2, <2>3 DEF SpeedInv
<1>5. CASE /\ eSlot = Speed!None \/ eAt[eSlot] \notin Speed!Reader
           /\ eSlot' = eCalls' /\ Speed!Goes(eCalls', "connect")
           /\ eExcused' = (eExcused \/ \E c \in Speed!Calls : eAt[c] \in Speed!Stopper)
  <2>1. eAt' \in [Speed!Calls -> SpeedPlaces] /\ eAt'[eCalls'] = "connect" /\
          \A d \in Speed!Calls \ {eCalls'} : eAt'[d] = eAt[d]
    BY <1>2, <1>5, CallGoes DEF SpeedInv, SpeedPlaces, Speed!Reader
  <2>2. SpeedTyped'
    BY <1>2, <1>3, <1>5, <2>1 DEF SpeedInv, SpeedTyped
  <2>3. CallsFit'
    <3>1. \A c \in Speed!Calls : eWhom[c] <= eCalls /\ eWhom[c] \in Nat
      BY DEF SpeedInv, SpeedTyped, CallsFit, Speed!Calls, Speed!None
    <3> QED BY <1>1, <1>2, <1>3, <1>5, <2>1, <3>1 DEF SpeedInv, CallsFit, Speed!Calls, Speed!None
  <2>4. ReadersAreKnown'
    <3>1. \A c \in Speed!Calls \ {eCalls'} : eAt[c] \in Speed!Reader =>
            \E d \in Speed!Calls \ {eCalls'} : eAt[d] \in {"abort", "join"} /\ eWhom[d] = c
      BY <1>2, <1>5 DEF SpeedInv, ReadersAreKnown, Speed!Calls, Speed!None
    <3> QED BY <1>2, <1>3, <1>5, <2>1, <3>1 DEF ReadersAreKnown
  <2>5. ~eExcused' => ~eExcused /\ \A c \in Speed!Calls : eAt[c] \notin Speed!Reader /\ eAt[c] \notin Speed!Stopper
    <3>1. ~eExcused' => ~eExcused /\ \A c \in Speed!Calls : eAt[c] \notin Speed!Stopper
      BY <1>5
    <3>2. \A c \in Speed!Calls : eAt[c] \in Speed!Reader => \E d \in Speed!Calls : eAt[d] \in Speed!Stopper
      BY <1>5 DEF SpeedInv, ReadersAreKnown, Speed!Stopper, Speed!Calls, Speed!None
    <3> QED BY <3>1, <3>2
  <2>6. OneReader'
    BY <1>2, <2>1, <2>5, PlacesDiffer DEF OneReader, Speed!Stopper
  <2>7. StreamsAreKnown'
    <3>1. \A c \in Speed!Calls : eHeld'[c] # Speed!None => eAt'[c] \in {"closing", "close"}
      BY <1>2, <1>3, <2>1 DEF SpeedInv, StreamsAreKnown
    <3>2. ~eExcused' => eShared = Speed!None
      BY <2>5 DEF SpeedInv, StreamsAreKnown, Speed!Reader, Speed!Stopper
    <3> QED BY <1>2, <1>3, <1>5, <2>1, <2>5, <3>1, <3>2 DEF SpeedInv, StreamsAreKnown
  <2> QED BY <2>2, <2>3, <2>4, <2>6, <2>7 DEF SpeedInv
<1> QED BY <1>4, <1>5 DEF Speed!Start

\* A task is to be stopped: nobody is kept, and whoever stops it knows it.
LEMMA StopFits == ASSUME SpeedGiven, SpeedInv, Speed!Stop PROVE SpeedInv'
<1>1. eCalls < MaxSpeedCalls /\ eCalls' = eCalls + 1
  BY DEF Speed!Stop
<1>2. /\ eCalls' \in Speed!Calls /\ eCalls \in Nat /\ eSlot \in Nat /\ eSlot # eCalls' /\
           eAt[eCalls'] = "none" /\ eHeld[eCalls'] = Speed!None
      /\ eCalls' \notin eAborted /\ eCalls' # Speed!None
      /\ \A c \in Speed!Calls : eAt[c] # "none" => c <= eCalls /\ eWhom[c] # eCalls'
  BY <1>1, CallIsNext
<1>3. UNCHANGED eShared /\ UNCHANGED eHeld /\ UNCHANGED eAborted /\ UNCHANGED eOpen
      /\ UNCHANGED eMade /\ UNCHANGED eExiting /\ UNCHANGED eExcused /\ eSlot' = Speed!None
  BY DEF Speed!Stop
<1>4. PICK to : to = IF eSlot = Speed!None THEN "take" ELSE "abort"
  OBVIOUS
<1>5. eAt' \in [Speed!Calls -> SpeedPlaces] /\ eAt'[eCalls'] = to /\
        \A d \in Speed!Calls \ {eCalls'} : eAt'[d] = eAt[d]
  BY <1>2, <1>4, CallGoes DEF Speed!Stop, SpeedInv, SpeedPlaces, Speed!Stopper
<1>6. eWhom' \in [Speed!Calls -> Speed!Calls \cup {Speed!None}] /\ eWhom'[eCalls'] = eSlot /\
        \A d \in Speed!Calls \ {eCalls'} : eWhom'[d] = eWhom[d]
  <2>1. eWhom \in [Speed!Calls -> Speed!Calls \cup {Speed!None}] /\ eSlot \in Speed!Calls \cup {Speed!None} /\
          eWhom' = [eWhom EXCEPT ![eCalls'] = eSlot]
    BY DEF SpeedInv, SpeedTyped, Speed!Stop
  <2> QED BY <1>2, <2>1, CallNotes
<1>7. SpeedTyped'
  BY <1>2, <1>3, <1>5, <1>6 DEF SpeedInv, SpeedTyped
<1>8. CallsFit'
  <2>1. \A c \in Speed!Calls : eWhom[c] <= eCalls /\ eWhom[c] \in Nat /\ eSlot <= eCalls
    BY DEF SpeedInv, SpeedTyped, CallsFit, Speed!Calls, Speed!None
  <2>2. \A c \in eAborted : \E d \in Speed!Calls : eAt'[d] # "none" /\ eWhom'[d] = c
    <3> TAKE c \in eAborted
    <3>1. PICK d \in Speed!Calls : eAt[d] # "none" /\ eWhom[d] = c
      BY DEF SpeedInv, CallsFit
    <3> QED BY <1>2, <1>5, <1>6, <3>1
  <2>3. \A c \in Speed!Calls : eAt'[c] \in {"abort", "join"} => eWhom'[c] # Speed!None
    BY <1>2, <1>4, <1>5, <1>6 DEF SpeedInv, CallsFit
  <2>4. eSlot' <= eCalls' /\ \A c \in Speed!Calls : c > eCalls' => eAt'[c] = "none"
    BY <1>1, <1>2, <1>3, <1>5 DEF SpeedInv, CallsFit, Speed!Calls, Speed!None
  <2>5. \A c \in Speed!Calls : eWhom'[c] <= eCalls'
    <3> TAKE c \in Speed!Calls
    <3>1. CASE c = eCalls'
      BY <1>1, <1>2, <1>6, <2>1, <3>1
    <3>2. CASE c # eCalls'
      BY <1>1, <1>2, <1>6, <2>1, <3>2
    <3> QED BY <3>1, <3>2
  <2> QED BY <1>3, <2>2, <2>3, <2>4, <2>5 DEF CallsFit
<1>9. ReadersAreKnown'
  <2> SUFFICES ASSUME NEW c \in Speed!Calls, eAt'[c] \in Speed!Reader
               PROVE  \E d \in Speed!Calls : eAt'[d] \in {"abort", "join"} /\ eWhom'[d] = c
    BY DEF ReadersAreKnown
  <2>1. c # eCalls' /\ eAt[c] \in Speed!Reader
    BY <1>4, <1>5 DEF Speed!Reader
  <2>2. CASE c = eSlot
    BY <1>2, <1>4, <1>5, <1>6, <2>1, <2>2 DEF Speed!Calls, Speed!None
  <2>3. CASE c # eSlot
    <3>1. PICK d \in Speed!Calls : eAt[d] \in {"abort", "join"} /\ eWhom[d] = c
      BY <2>1, <2>3 DEF SpeedInv, ReadersAreKnown
    <3> QED BY <1>2, <1>5, <1>6, <3>1
  <2> QED BY <2>2, <2>3
<1>10. OneReader'
  BY <1>3, <1>4, <1>5 DEF SpeedInv, OneReader, Speed!Reader
<1>11. StreamsAreKnown'
  <2>1. \A c \in Speed!Calls : eHeld'[c] # Speed!None => eAt'[c] \in {"closing", "close"}
    BY <1>2, <1>3, <1>5 DEF SpeedInv, StreamsAreKnown
  <2>2. ~eExcused' /\ eShared # Speed!None => \E c \in Speed!Calls : eAt'[c] \in {"stream", "abort", "join", "take"}
    BY <1>2, <1>4, <1>5
  <2>3. ~eExcused' => \A c \in Speed!Calls : eAt'[c] \in {"connect", "closing", "pause"} => eShared = Speed!None
    BY <1>3, <1>4, <1>5 DEF SpeedInv, StreamsAreKnown
  <2> QED BY <1>3, <2>1, <2>2, <2>3 DEF SpeedInv, StreamsAreKnown
<1> QED BY <1>7, <1>8, <1>9, <1>10, <1>11 DEF SpeedInv

\* A step of one call: the others stay where they are, and hold what they did.
OneGoes(c, to) ==
  /\ eAt' \in [Speed!Calls -> SpeedPlaces] /\ eAt'[c] = to /\ \A d \in Speed!Calls \ {c} : eAt'[d] = eAt[d]
\* It is still known who reads, and who stops whom, unless a call starts to read.
LEMMA CallsStay ==
  ASSUME SpeedInv, NEW c \in Speed!Calls, NEW to \in SpeedPlaces \ {"none"}, OneGoes(c, to), eAt[c] # "none",
           Speed!Kept,
         to \in {"abort", "join"} => eAt[c] \in {"abort", "join"}, to \in Speed!Reader => eAt[c] \in Speed!Reader,
         to \in Speed!Stopper => eAt[c] \in Speed!Stopper,
         eAt[c] \in {"abort", "join"} /\ to \notin {"abort", "join"} => eAt[eWhom[c]] \notin Speed!Reader,
         \A d \in eAborted' : d \in eAborted \/ d = eWhom[c],
         eExcused \in BOOLEAN, eExcused => eExcused'
  PROVE  CallsFit' /\ ReadersAreKnown' /\ OneReader'
<1>1. eSlot' = eSlot /\ eWhom' = eWhom /\ eCalls' = eCalls
  BY DEF Speed!Kept
<1>2. eAt'[c] = to /\ \A d \in Speed!Calls \ {c} : eAt'[d] = eAt[d]
  BY DEF OneGoes
<1>3. CallsFit'
  <2>1. \A d \in Speed!Calls : d > eCalls' => eAt'[d] = "none"
    BY <1>1, <1>2 DEF SpeedInv, CallsFit
  <2>2. \A d \in eAborted' : \E b \in Speed!Calls : eAt'[b] # "none" /\ eWhom'[b] = d
    BY <1>1, <1>2 DEF SpeedInv, CallsFit
  <2> QED BY <1>1, <1>2, <2>1, <2>2 DEF SpeedInv, CallsFit
<1>4. ReadersAreKnown'
  <2> SUFFICES ASSUME NEW d \in Speed!Calls, eAt'[d] \in Speed!Reader, d # eSlot
               PROVE  \E b \in Speed!Calls : eAt'[b] \in {"abort", "join"} /\ eWhom[b] = d
    BY <1>1 DEF ReadersAreKnown
  <2>1. eAt[d] \in Speed!Reader
    BY <1>2
  <2>2. PICK b \in Speed!Calls : eAt[b] \in {"abort", "join"} /\ eWhom[b] = d
    BY <2>1 DEF SpeedInv, ReadersAreKnown
  <2> QED BY <1>2, <2>1, <2>2
<1>5. OneReader'
  BY <1>1, <1>2 DEF SpeedInv, OneReader
<1> QED BY <1>3, <1>4, <1>5

\* A task that reads makes a connection, or none.
LEMMA ConnectFits == ASSUME SpeedInv, NEW c \in Speed!Calls, Speed!Connect(c) PROVE SpeedInv'
<1>1. eAt[c] = "connect" /\ Speed!Kept /\ eHeld' = eHeld /\ eAborted' = eAborted /\ eExcused' = eExcused
      /\ eSlot' = eSlot /\ eWhom' = eWhom /\ eExiting' = eExiting /\ eCalls' = eCalls
  BY DEF Speed!Connect, Speed!Kept
<1>2. PICK to \in {"pause", "stream", "done"} :
        /\ Speed!Goes(c, to)
        /\ to # "stream" => eOpen' = eOpen /\ eMade' = eMade /\ eShared' \in {eShared, Speed!None}
        /\ to = "pause" => eShared' = eShared
        /\ to = "done" => eShared' = Speed!None
        /\ to = "stream" => eMade' = eMade + 1 /\ eOpen' = eOpen \cup {eMade'} /\ eShared' = eMade'
  BY DEF Speed!Connect, Speed!Ends
<1>3. OneGoes(c, to)
  BY <1>2, CallGoes DEF OneGoes, SpeedInv, SpeedPlaces, Speed!Reader
<1>4. eAt'[c] = to /\ \A d \in Speed!Calls \ {c} : eAt'[d] = eAt[d]
  BY <1>3 DEF OneGoes
<1>5. CallsFit' /\ ReadersAreKnown' /\ OneReader'
  <2>1. to \in SpeedPlaces \ {"none"} /\ to \notin Speed!Stopper /\ eAt[c] \in Speed!Reader /\
          eAt[c] \notin {"abort", "join", "none"}
    BY <1>1 DEF SpeedPlaces, Speed!Reader, Speed!Stopper
  <2>2. eExcused \in BOOLEAN
    BY DEF SpeedInv, SpeedTyped
  <2> QED BY <1>1, <1>3, <2>1, <2>2, CallsStay DEF Speed!Stopper
<1>6. SpeedTyped'
  <2>1. eOpen' \subseteq 1..eMade' /\ eMade' \in Nat /\ eShared' \in Nat
    <3>1. eOpen \subseteq 1..eMade /\ eMade \in Nat /\ eShared \in Nat
      BY DEF SpeedInv, SpeedTyped
    <3>2. CASE to = "stream"
      <4>1. eMade' = eMade + 1 /\ eOpen' = eOpen \cup {eMade + 1} /\ eShared' = eMade + 1
        BY <1>2, <3>2
      <4> QED BY <3>1, <4>1
    <3>3. CASE to # "stream"
      <4>1. eMade' = eMade /\ eOpen' = eOpen /\ eShared' \in {eShared, 0}
        BY <1>2, <3>3 DEF Speed!None
      <4> QED BY <3>1, <4>1
    <3> QED BY <3>2, <3>3
  <2> QED BY <1>1, <1>3, <2>1 DEF SpeedInv, SpeedTyped, OneGoes
<1>7. StreamsAreKnown'
  <2>1. \A d \in Speed!Calls : eHeld'[d] # Speed!None => eAt'[d] \in {"closing", "close"}
    BY <1>1, <1>4 DEF SpeedInv, StreamsAreKnown
  <2>2. ~eExcused => eShared = Speed!None /\ \A d \in Speed!Calls \ {c} : eAt[d] \notin Speed!Reader
    BY <1>1 DEF SpeedInv, StreamsAreKnown, OneReader, Speed!Reader
  <2>3. ~eExcused => \A i \in eOpen' : i = eShared' \/ \E d \in Speed!Calls : eHeld'[d] = i
    <3>1. ~eExcused => \A i \in eOpen : i # Speed!None
      BY DEF SpeedInv, SpeedTyped, Speed!None
    <3> QED BY <1>1, <1>2, <2>2, <3>1 DEF SpeedInv, StreamsAreKnown
  <2>4. to = "stream" => eShared' # Speed!None
    BY <1>2 DEF SpeedInv, SpeedTyped, Speed!None
  <2>5. ~eExcused => /\ \A d \in Speed!Calls : eAt'[d] \in {"connect", "closing", "pause"} => eShared' = Speed!None
                     /\ eShared' # Speed!None => \E d \in Speed!Calls : eAt'[d] \in {"stream", "abort", "join",
                          "take"}
                     /\ eSlot' # Speed!None /\ eAt'[eSlot'] = "stream" => eShared' # Speed!None
    <3>1. ~eExcused => \A d \in Speed!Calls : eAt'[d] \in {"connect", "closing", "pause"} => eShared' = Speed!None
      BY <1>2, <1>4, <2>2 DEF Speed!Reader
    <3>2. ~eExcused /\ eShared' # Speed!None => to = "stream"
      BY <1>2, <2>2
    <3>3. ~eExcused /\ eSlot' # Speed!None /\ eAt'[eSlot'] = "stream" => eSlot' \in Speed!Calls /\ eSlot' = c
      BY <1>1, <1>4, <2>2 DEF SpeedInv, SpeedTyped, Speed!Reader
    <3> QED BY <1>4, <2>4, <3>1, <3>2, <3>3
  <2> QED BY <1>1, <2>1, <2>3, <2>5 DEF StreamsAreKnown
<1> QED BY <1>5, <1>6, <1>7 DEF SpeedInv

\* A connection that goes, and what its reader does with it.
LEMMA StreamFits ==
  ASSUME SpeedInv, NEW c \in Speed!Calls, Speed!StreamEnds(c) \/ Speed!Closed(c) \/ Speed!Again(c)
  PROVE  SpeedInv'
<1>1. eAt[c] \in {"stream", "closing", "pause"} /\ Speed!Kept /\ eAborted' = eAborted /\ eExcused' = eExcused /\
        eMade' = eMade
      /\ eSlot' = eSlot /\ eWhom' = eWhom /\ eExiting' = eExiting /\ eCalls' = eCalls
  BY DEF Speed!StreamEnds, Speed!Closed, Speed!Again, Speed!Kept
<1>2. PICK to \in {"closing", "pause", "connect", "done"} :
        /\ Speed!Goes(c, to)
        /\ eAt[c] = "stream" => /\ to = "closing" /\ eOpen' \subseteq eOpen
                                /\ eHeld' = [eHeld EXCEPT ![c] = eShared] /\ eShared' = Speed!None
        /\ eAt[c] = "closing" => /\ to # "closing" /\ eOpen' = eOpen \ {eHeld[c]} /\
                                      eHeld' = [eHeld EXCEPT ![c] = Speed!None]
                                 /\ eShared' \in {eShared, Speed!None}
        /\ eAt[c] = "pause" => to # "closing" /\ eOpen' = eOpen /\ eHeld' = eHeld /\ eShared' = eShared
  BY <1>1 DEF Speed!StreamEnds, Speed!Closed, Speed!Again, Speed!Ends
<1>3. OneGoes(c, to)
  BY <1>2, CallGoes DEF OneGoes, SpeedInv, SpeedPlaces, Speed!Reader
<1>4. eAt'[c] = to /\ \A d \in Speed!Calls \ {c} : eAt'[d] = eAt[d]
  BY <1>3 DEF OneGoes
<1>5. CallsFit' /\ ReadersAreKnown' /\ OneReader'
  <2>1. to \in SpeedPlaces \ {"none"} /\ to \notin Speed!Stopper /\ eAt[c] \in Speed!Reader /\
          eAt[c] \notin {"abort", "join", "none"}
    BY <1>1 DEF SpeedPlaces, Speed!Reader, Speed!Stopper
  <2>2. eExcused \in BOOLEAN
    BY DEF SpeedInv, SpeedTyped
  <2> QED BY <1>1, <1>3, <2>1, <2>2, CallsStay DEF Speed!Stopper
<1>6. /\ eHeld' \in [Speed!Calls -> Nat] /\ \A d \in Speed!Calls \ {c} : eHeld'[d] = eHeld[d]
      /\ eHeld'[c] = IF eAt[c] = "stream" THEN eShared ELSE Speed!None
  <2>1. eHeld \in [Speed!Calls -> Nat] /\ eShared \in Nat /\ Speed!None \in Nat
    BY DEF SpeedInv, SpeedTyped, Speed!None
  <2>2. CASE eAt[c] = "stream"
    BY <1>2, <2>1, <2>2, CallNotes
  <2>3. CASE eAt[c] = "closing"
    BY <1>2, <2>1, <2>3, CallNotes
  <2>4. CASE eAt[c] = "pause"
    BY <1>2, <2>1, <2>4 DEF SpeedInv, StreamsAreKnown
  <2> QED BY <1>1, <2>2, <2>3, <2>4
<1>7. eOpen' \subseteq eOpen /\ eShared' \in {eShared, Speed!None}
  BY <1>1, <1>2
<1>8. SpeedTyped'
  BY <1>1, <1>3, <1>6, <1>7 DEF SpeedInv, SpeedTyped, OneGoes, Speed!None
<1>9. StreamsAreKnown'
  <2>1. \A d \in Speed!Calls : eHeld'[d] # Speed!None => eAt'[d] \in {"closing", "close"}
    BY <1>2, <1>4, <1>6 DEF SpeedInv, StreamsAreKnown
  <2>2. ~eExcused => \A d \in Speed!Calls \ {c} : eAt[d] \notin Speed!Reader
    BY <1>1 DEF SpeedInv, OneReader, Speed!Reader
  <2>3. ~eExcused => eShared' = Speed!None
    BY <1>1, <1>2 DEF SpeedInv, StreamsAreKnown
  <2>4. ~eExcused => \A i \in eOpen' : i = eShared' \/ \E d \in Speed!Calls : eHeld'[d] = i
    <3> SUFFICES ASSUME ~eExcused, NEW i \in eOpen' PROVE \E d \in Speed!Calls : eHeld'[d] = i
      OBVIOUS
    <3>1. i \in eOpen /\ i # Speed!None /\ (i = eShared \/ \E d \in Speed!Calls : eHeld[d] = i)
      BY <1>7 DEF SpeedInv, SpeedTyped, StreamsAreKnown, Speed!None
    <3>2. CASE eAt[c] = "stream"
      BY <1>6, <3>1, <3>2 DEF SpeedInv, StreamsAreKnown
    <3>3. CASE eAt[c] # "stream"
      <4>1. i # eHeld[c] /\ i # eShared
        BY <1>1, <1>2, <3>1, <3>3 DEF SpeedInv, StreamsAreKnown
      <4> QED BY <1>6, <3>1, <4>1
    <3> QED BY <3>2, <3>3
  <2>5. ~eExcused => ~(eSlot' # Speed!None /\ eAt'[eSlot'] = "stream")
    BY <1>1, <1>2, <1>4, <2>2 DEF SpeedInv, SpeedTyped, Speed!Reader
  <2> QED BY <1>1, <2>1, <2>3, <2>4, <2>5 DEF StreamsAreKnown
<1> QED BY <1>5, <1>8, <1>9 DEF SpeedInv

\* An abort that is sent, and waited for.
LEMMA AbortFits == ASSUME SpeedInv, NEW c \in Speed!Calls, Speed!Abort(c) \/ Speed!Join(c) PROVE SpeedInv'
<1>1. eAt[c] \in {"abort", "join"} /\ Speed!Kept /\ eShared' = eShared /\ eHeld' = eHeld /\ eOpen' = eOpen /\
        eMade' = eMade
      /\ eExcused' = eExcused /\ eSlot' = eSlot /\ eWhom' = eWhom /\ eExiting' = eExiting /\ eCalls' = eCalls
  BY DEF Speed!Abort, Speed!Join, Speed!Kept
<1>2. PICK to \in {"join", "take"} :
        /\ Speed!Goes(c, to) /\ \A d \in eAborted' : d \in eAborted \/ d = eWhom[c]
        /\ to = "take" => eAt[eWhom[c]] \notin Speed!Reader
  BY DEF Speed!Abort, Speed!Join, Speed!AfterAbort
<1>3. OneGoes(c, to)
  BY <1>2, CallGoes DEF OneGoes, SpeedInv, SpeedPlaces, Speed!Stopper
<1>4. eAt'[c] = to /\ \A d \in Speed!Calls \ {c} : eAt'[d] = eAt[d]
  BY <1>3 DEF OneGoes
<1>5. CallsFit' /\ ReadersAreKnown' /\ OneReader'
  <2>1. to \in SpeedPlaces \ {"none"} /\ to \notin Speed!Reader /\ eAt[c] \in Speed!Stopper /\ eAt[c] # "none"
    BY <1>1 DEF SpeedPlaces, Speed!Reader, Speed!Stopper
  <2>2. eExcused \in BOOLEAN
    BY DEF SpeedInv, SpeedTyped
  <2> QED BY <1>1, <1>2, <1>3, <2>1, <2>2, CallsStay
<1>6. SpeedTyped'
  BY <1>1, <1>3 DEF SpeedInv, SpeedTyped, OneGoes
<1>7. StreamsAreKnown'
  <2>1. \A d \in Speed!Calls : eHeld'[d] # Speed!None => eAt'[d] \in {"closing", "close"}
    BY <1>1, <1>4 DEF SpeedInv, StreamsAreKnown
  <2>2. \A d \in Speed!Calls : eAt'[d] \in Speed!Reader => eAt[d] = eAt'[d]
    BY <1>4 DEF Speed!Reader
  <2>3. ~eExcused => \A d \in Speed!Calls : eAt'[d] \in {"connect", "closing", "pause"} => eShared = Speed!None
    BY <2>2 DEF SpeedInv, StreamsAreKnown, Speed!Reader
  <2>4. eSlot' # Speed!None /\ eAt'[eSlot'] = "stream" => eAt[eSlot] = "stream"
    BY <1>1, <2>2 DEF SpeedInv, SpeedTyped, Speed!Reader
  <2> QED BY <1>1, <1>4, <2>1, <2>3, <2>4 DEF SpeedInv, StreamsAreKnown
<1> QED BY <1>5, <1>6, <1>7 DEF SpeedInv

\* A task that is dropped is one that somebody stops.
LEMMA DroppedFits == ASSUME SpeedInv, NEW c \in Speed!Calls, Speed!Dropped(c) PROVE SpeedInv'
<1>1. /\ c \in eAborted /\ eAt[c] \in Speed!Reader /\ Speed!Goes(c, "done") /\ Speed!Kept /\
           eShared' = eShared /\ eAborted' = eAborted
      /\ eOpen' = eOpen /\ eMade' = eMade /\ eSlot' = eSlot /\ eWhom' = eWhom /\ eExiting' = eExiting /\
           eCalls' = eCalls
      /\ eHeld' = [eHeld EXCEPT ![c] = Speed!None] /\ eExcused' = (eExcused \/ eHeld[c] \in eOpen)
  BY DEF Speed!Dropped, Speed!Kept
<1>2. OneGoes(c, "done")
  BY <1>1, CallGoes DEF OneGoes, SpeedInv, SpeedPlaces
<1>3. eAt'[c] = "done" /\ \A d \in Speed!Calls \ {c} : eAt'[d] = eAt[d]
  BY <1>2 DEF OneGoes
<1>4. eHeld' \in [Speed!Calls -> Nat] /\ eHeld'[c] = Speed!None /\ \A d \in Speed!Calls \ {c} : eHeld'[d] = eHeld[d]
  <2>1. eHeld \in [Speed!Calls -> Nat] /\ Speed!None \in Nat
    BY DEF SpeedInv, SpeedTyped, Speed!None
  <2> QED BY <1>1, <2>1, CallNotes
<1>5. eExcused' \in BOOLEAN /\ (eExcused => eExcused') /\ (eHeld[c] \in eOpen => eExcused')
  BY <1>1 DEF SpeedInv, SpeedTyped
<1>6. CallsFit' /\ ReadersAreKnown' /\ OneReader'
  <2>1. "done" \in SpeedPlaces \ {"none"} /\ "done" \notin Speed!Stopper /\ "done" \notin Speed!Reader /\
          eAt[c] \notin {"abort", "join", "none"}
    BY <1>1 DEF SpeedPlaces, Speed!Reader, Speed!Stopper
  <2>2. eExcused \in BOOLEAN
    BY DEF SpeedInv, SpeedTyped
  <2> QED BY <1>1, <1>2, <1>5, <2>1, <2>2, CallsStay DEF Speed!Stopper
<1>7. SpeedTyped'
  BY <1>1, <1>2, <1>4, <1>5 DEF SpeedInv, SpeedTyped, OneGoes
<1>8. StreamsAreKnown'
  <2>1. \A d \in Speed!Calls : eHeld'[d] # Speed!None => eAt'[d] \in {"closing", "close"}
    BY <1>3, <1>4 DEF SpeedInv, StreamsAreKnown
  <2>2. PICK b \in Speed!Calls : eAt[b] # "none" /\ eWhom[b] = c
    BY <1>1 DEF SpeedInv, CallsFit
  <2>3. c # eSlot
    BY <2>2 DEF SpeedInv, CallsFit, Speed!Calls, Speed!None
  <2>4. PICK d \in Speed!Calls : eAt[d] \in {"abort", "join"}
    BY <1>1, <2>3 DEF SpeedInv, ReadersAreKnown
  <2>5. d # c
    BY <1>1, <2>4 DEF Speed!Reader
  <2>6. ~eExcused' => ~eExcused
    BY <1>5
  <2>7. ~eExcused' => \A i \in eOpen' : i = eShared' \/ \E e \in Speed!Calls : eHeld'[e] = i
    <3> SUFFICES ASSUME ~eExcused', NEW i \in eOpen, i # eShared PROVE \E e \in Speed!Calls : eHeld'[e] = i
      BY <1>1
    <3>1. PICK e \in Speed!Calls : eHeld[e] = i
      BY <2>6 DEF SpeedInv, StreamsAreKnown
    <3>2. e # c
      BY <1>5, <3>1
    <3> QED BY <1>4, <3>1, <3>2
  <2>8. ~eExcused' => \A e \in Speed!Calls : eAt'[e] \in {"connect", "closing", "pause"} => eShared' = Speed!None
    BY <1>1, <1>3, <2>6 DEF SpeedInv, StreamsAreKnown
  <2>9. \E e \in Speed!Calls : eAt'[e] \in {"stream", "abort", "join", "take"}
    BY <1>3, <2>4, <2>5
  <2>10. ~eExcused' => (eSlot' # Speed!None /\ eAt'[eSlot'] = "stream" => eShared' # Speed!None)
    BY <1>1, <1>3, <2>6 DEF SpeedInv, SpeedTyped, StreamsAreKnown
  <2> QED BY <2>1, <2>7, <2>8, <2>9, <2>10 DEF StreamsAreKnown
<1> QED BY <1>6, <1>7, <1>8 DEF SpeedInv

\* Whoever stops a task takes the connection that is shared and closes it.
LEMMA TakeFits == ASSUME SpeedInv, NEW c \in Speed!Calls, Speed!Take(c) \/ Speed!CloseIt(c) PROVE SpeedInv'
<1>1. eAt[c] \in {"take", "close"} /\ Speed!Kept /\ eAborted' = eAborted /\ eExcused' = eExcused /\ eMade' = eMade
      /\ eSlot' = eSlot /\ eWhom' = eWhom /\ eExiting' = eExiting /\ eCalls' = eCalls
  BY DEF Speed!Take, Speed!CloseIt, Speed!Kept
<1>2. PICK to \in {"close", "done"} :
        /\ Speed!Goes(c, to)
        /\ eAt[c] = "take" => /\ to = "close" /\ eOpen' = eOpen
                              /\ eHeld' = [eHeld EXCEPT ![c] = eShared] /\ eShared' = Speed!None
        /\ eAt[c] = "close" => /\ to = "done" /\ eOpen' = eOpen \ {eHeld[c]} /\
                                    eHeld' = [eHeld EXCEPT ![c] = Speed!None]
                               /\ eShared' = eShared
  BY <1>1 DEF Speed!Take, Speed!CloseIt
<1>3. OneGoes(c, to)
  BY <1>2, CallGoes DEF OneGoes, SpeedInv, SpeedPlaces, Speed!Stopper
<1>4. eAt'[c] = to /\ \A d \in Speed!Calls \ {c} : eAt'[d] = eAt[d]
  BY <1>3 DEF OneGoes
<1>5. CallsFit' /\ ReadersAreKnown' /\ OneReader'
  <2>1. to \in SpeedPlaces \ {"none"} /\ to \notin Speed!Reader /\ eAt[c] \in Speed!Stopper /\
          eAt[c] \notin {"abort", "join", "none"}
        /\ to \notin {"abort", "join"}
    BY <1>1 DEF SpeedPlaces, Speed!Reader, Speed!Stopper
  <2>2. eExcused \in BOOLEAN
    BY DEF SpeedInv, SpeedTyped
  <2> QED BY <1>1, <1>3, <2>1, <2>2, CallsStay
<1>6. /\ eHeld' \in [Speed!Calls -> Nat] /\ \A d \in Speed!Calls \ {c} : eHeld'[d] = eHeld[d]
      /\ eHeld'[c] = IF eAt[c] = "take" THEN eShared ELSE Speed!None
  <2>1. eHeld \in [Speed!Calls -> Nat] /\ eShared \in Nat /\ Speed!None \in Nat
    BY DEF SpeedInv, SpeedTyped, Speed!None
  <2>2. CASE eAt[c] = "take"
    BY <1>2, <2>1, <2>2, CallNotes
  <2>3. CASE eAt[c] = "close"
    BY <1>2, <2>1, <2>3, CallNotes
  <2> QED BY <1>1, <2>2, <2>3
<1>7. eOpen' \subseteq eOpen /\ eShared' \in {eShared, Speed!None}
  BY <1>1, <1>2
<1>8. SpeedTyped'
  BY <1>1, <1>3, <1>6, <1>7 DEF SpeedInv, SpeedTyped, OneGoes, Speed!None
<1>9. StreamsAreKnown'
  <2>1. \A d \in Speed!Calls : eHeld'[d] # Speed!None => eAt'[d] \in {"closing", "close"}
    BY <1>1, <1>2, <1>4, <1>6 DEF SpeedInv, StreamsAreKnown
  <2>2. ~eExcused => eSlot = Speed!None
    BY <1>1 DEF SpeedInv, OneReader, Speed!Stopper
  <2>3. ~eExcused => \A i \in eOpen' : i = eShared' \/ \E d \in Speed!Calls : eHeld'[d] = i
    <3> SUFFICES ASSUME ~eExcused, NEW i \in eOpen' PROVE i = eShared' \/ \E d \in Speed!Calls : eHeld'[d] = i
      OBVIOUS
    <3>1. i \in eOpen /\ (i = eShared \/ \E d \in Speed!Calls : eHeld[d] = i)
      BY <1>7 DEF SpeedInv, StreamsAreKnown
    <3>2. CASE eAt[c] = "take"
      <4>1. eHeld[c] = Speed!None /\ i # Speed!None
        BY <3>1, <3>2 DEF SpeedInv, SpeedTyped, StreamsAreKnown, Speed!None
      <4> QED BY <1>6, <3>1, <3>2, <4>1
    <3>3. CASE eAt[c] = "close"
      <4>1. i # eHeld[c] /\ eShared' = eShared
        BY <1>2, <3>3
      <4> QED BY <1>6, <3>1, <4>1
    <3> QED BY <1>1, <3>2, <3>3
  <2>4. ~eExcused => \A d \in Speed!Calls : eAt'[d] \in {"connect", "closing", "pause"} => eShared' = Speed!None
    BY <1>4, <1>7 DEF SpeedInv, StreamsAreKnown
  <2>5. ~eExcused /\ eShared' # Speed!None => \E d \in Speed!Calls : eAt'[d] \in {"stream", "abort", "join", "take"}
    BY <1>1, <1>2, <1>4 DEF SpeedInv, StreamsAreKnown
  <2> QED BY <1>1, <2>1, <2>2, <2>3, <2>4, <2>5 DEF StreamsAreKnown
<1> QED BY <1>5, <1>8, <1>9 DEF SpeedInv

\* Every step keeps the invariant.
LEMMA SpeedNext == SpeedGiven /\ SpeedInv /\ [Speed!Next]_(Speed!vars) => SpeedInv'
<1> SUFFICES ASSUME SpeedGiven, SpeedInv, [Speed!Next]_(Speed!vars) PROVE SpeedInv'
  OBVIOUS
<1>1. CASE Speed!Exit
  BY <1>1 DEF Speed!Exit, SpeedInv, SpeedTyped, CallsFit, ReadersAreKnown, OneReader, StreamsAreKnown
<1>2. CASE UNCHANGED Speed!vars
  BY <1>2 DEF Speed!vars, SpeedInv, SpeedTyped, CallsFit, ReadersAreKnown, OneReader, StreamsAreKnown
<1> QED BY <1>1, <1>2, StartFits, StopFits, ConnectFits, StreamFits, AbortFits, DroppedFits, TakeFits DEF Speed!Next

\* The speed reads one stream: a stop leaves no connection behind, and takes none from a task
\* that was started later (OneStream), for any number of calls.
THEOREM SpeedHolds == SpeedGiven => (Speed!Spec => []Speed!OneStream)
<1> SUFFICES ASSUME SpeedGiven PROVE Speed!Spec => []Speed!OneStream
  OBVIOUS
<1>1. SpeedInv => Speed!OneStream
  <2> SUFFICES ASSUME SpeedInv, \A c \in Speed!Calls : eAt[c] \notin Speed!Stopper, ~eExcused PROVE Speed!OneStream
    BY DEF Speed!OneStream
  <2>1. \A c \in Speed!Calls : eAt[c] \notin {"abort", "join", "take", "close"}
    BY DEF Speed!Stopper
  <2>2. \A c \in Speed!Calls : eAt[c] \in Speed!Reader => c = eSlot
    BY <2>1 DEF SpeedInv, ReadersAreKnown
  <2>3. \A c \in Speed!Calls : eAt[c] = "stream" => eShared # Speed!None
    BY <2>2 DEF SpeedInv, SpeedTyped, StreamsAreKnown, Speed!Reader, Speed!Calls, Speed!None
  <2>4. ASSUME NEW i \in eOpen
        PROVE  \E c \in {c \in Speed!Calls : eAt[c] \in Speed!Reader} : i = IF eHeld[c] # Speed!None THEN eHeld[c] ELSE eShared
    <3>1. i # Speed!None /\ (i = eShared \/ \E c \in Speed!Calls : eHeld[c] = i)
      BY DEF SpeedInv, SpeedTyped, StreamsAreKnown, Speed!None
    <3>2. CASE \E c \in Speed!Calls : eHeld[c] = i
      <4>1. PICK c \in Speed!Calls : eHeld[c] = i
        BY <3>2
      <4>2. eAt[c] \in Speed!Reader
        BY <2>1, <3>1, <4>1 DEF SpeedInv, StreamsAreKnown, Speed!Reader
      <4> QED BY <3>1, <4>1, <4>2
    <3>3. CASE i = eShared
      <4>1. PICK c \in Speed!Calls : eAt[c] = "stream"
        BY <2>1, <3>1, <3>3 DEF SpeedInv, StreamsAreKnown
      <4>2. eHeld[c] = Speed!None /\ eAt[c] \in Speed!Reader
        BY <4>1 DEF SpeedInv, StreamsAreKnown, Speed!Reader
      <4> QED BY <3>3, <4>2
    <3> QED BY <3>1, <3>2, <3>3
  <2>5. eOpen \subseteq {IF eHeld[c] # Speed!None THEN eHeld[c] ELSE eShared : c \in {c \in Speed!Calls : eAt[c] \in Speed!Reader}}
    BY <2>4
  <2>6. \A c, d \in Speed!Calls : eAt[c] \in Speed!Reader /\ eAt[d] \in Speed!Reader => c = d
    BY <2>2
  <2> QED BY <2>3, <2>5, <2>6 DEF Speed!OneStream
<1> QED BY <1>1, SpeedStarts, SpeedNext, PTL DEF Speed!Spec

-----------------------------------------------------------------------------
(* Lightweight mode.                                                        *)

VARIABLES oMode, oWindow, oLimited, oAuto, oTx, oTimers, oArming, oCall, oAsks
lightVars == <<oMode, oWindow, oLimited, oAuto, oTx, oTimers, oArming, oCall, oAsks>>
Light == INSTANCE Lightweight WITH mode <- oMode, window <- oWindow, limited <- oLimited,
    auto <- oAuto, tx <- oTx, timers <- oTimers, arming <- oArming, call <- oCall,
    asks <- oAsks, Threads <- LightThreads, MaxAsks <- MaxLightAsks

\* Each timer that was armed has its state, and the one that sleeps is the one whose sender is kept.
LightInv == oTimers = [t \in Light!Ids |-> oTimers[t]] /\ Light!SleeperCanBeCancelled

\* At first no timer is armed.
LEMMA LightStarts == Light!Init => LightInv
BY DEF Light!Init, LightInv, Light!SleeperCanBeCancelled

\* Whoever takes the sender leaves nobody asleep.
LEMMA LightCancelFits == LightInv /\ Light!CancelTimer => LightInv'
BY DEF Light!CancelTimer, LightInv, Light!SleeperCanBeCancelled

\* Whoever does not touch the timers leaves them as they are.
LEMMA LightTimersStay == LightInv /\ UNCHANGED <<oTx, oTimers>> => LightInv'
BY DEF LightInv, Light!SleeperCanBeCancelled

\* A timer is armed when none sleeps.
LEMMA LightArmFits == LightInv /\ Light!Arm => LightInv'
<1> SUFFICES ASSUME LightInv, Light!Arm PROVE LightInv'
  OBVIOUS
<1>1. CASE UNCHANGED <<oTx, oTimers>>
  BY <1>1, LightTimersStay
<1>2. CASE ~UNCHANGED <<oTx, oTimers>>
  <2>1. PICK t \in Light!Ids : oTx = 0 /\ oTx' = t /\ oTimers' = [oTimers EXCEPT ![t] = "sleeping"]
    BY <1>2 DEF Light!Arm
  <2>2. \A u \in Light!Ids : oTimers[u] # "sleeping"
    BY <2>1 DEF LightInv, Light!SleeperCanBeCancelled, Light!Ids
  <2> QED BY <2>1, <2>2 DEF LightInv, Light!SleeperCanBeCancelled
<1> QED BY <1>1, <1>2

\* A timer that expires, or has noticed its cancellation, drops the sender that it finds.
LEMMA LightTimerFits == ASSUME LightInv, NEW t \in Light!Ids, Light!Timer(t) PROVE LightInv'
<1>1. CASE Light!Expire(t)
  <2>1. PICK d : d = Light!Dropped(t)
    OBVIOUS
  <2>2. d = [u \in Light!Ids |-> d[u]] /\ \A u \in Light!Ids : u # t => d[u] # "sleeping"
    BY <2>1 DEF Light!Dropped, LightInv, Light!SleeperCanBeCancelled
  <2>3. oTimers' = [d EXCEPT ![t] = "over"]
    BY <1>1, <2>1 DEF Light!Expire
  <2> QED BY <2>2, <2>3 DEF LightInv, Light!SleeperCanBeCancelled
<1>2. CASE Light!Stopped(t)
  BY <1>2 DEF Light!Stopped, LightInv, Light!SleeperCanBeCancelled
<1> QED BY <1>1, <1>2 DEF Light!Timer

\* A call that goes on takes the sender or leaves the timers alone.
LEMMA LightStepFits == ASSUME LightInv, NEW c \in Light!Entrants, Light!Step(c) PROVE LightInv'
<1>1. Light!CancelTimer \/ UNCHANGED <<oTx, oTimers>>
  BY DEF Light!Step, Light!Enter, Light!RecordIn, Light!Destroy, Light!Leave, Light!RecordExiting, Light!Listen,
     Light!Settle, Light!Show, Light!Build
<1> QED BY <1>1, LightCancelFits, LightTimersStay

\* So does the user.
LEMMA LightUserFits == LightInv /\ Light!User => LightInv'
<1>1. Light!User => Light!CancelTimer \/ UNCHANGED <<oTx, oTimers>>
  BY DEF Light!User, Light!Focus, Light!Blur, Light!CloseRequest, Light!Hide, Light!SetAuto
<1> QED BY <1>1, LightCancelFits, LightTimersStay

\* Each step keeps it.
LEMMA LightNext == LightInv /\ [Light!Next]_(Light!vars) => LightInv'
<1> SUFFICES ASSUME LightInv, [Light!Next]_(Light!vars) PROVE LightInv'
  OBVIOUS
<1>1. CASE \E c \in LightThreads : Light!Ask(c)
  BY <1>1, LightTimersStay DEF Light!Ask
<1>2. CASE Light!Arm
  BY <1>2, LightArmFits
<1>3. CASE Light!Limiter
  BY <1>3, LightTimersStay DEF Light!Limiter
<1>4. CASE UNCHANGED Light!vars
  BY <1>4, LightTimersStay DEF Light!vars
<1> QED BY <1>1, <1>2, <1>3, <1>4, LightStepFits, LightTimerFits, LightUserFits DEF Light!Next

\* A timer that still sleeps can be cancelled: no task sleeps towards lightweight mode that the focus
\* cannot stop, however expiries, closes and focuses interleave.
THEOREM LightHolds == Light!Spec => []Light!SleeperCanBeCancelled
<1>1. Light!Init => LightInv
  BY LightStarts
<1>2. LightInv /\ [Light!Next]_(Light!vars) => LightInv'
  BY LightNext
<1>3. LightInv => Light!SleeperCanBeCancelled
  BY DEF LightInv
<1> QED BY <1>1, <1>2, <1>3, PTL DEF Light!Spec

-----------------------------------------------------------------------------
(* The credentials of the server of backups.                                *)

VARIABLES gCreds, gVerge, gFrom, gConfig, gClients, gAt, gOp, gHeld, gOwn, gZip, gSaves, gOps,
          gCrossed
webdavVars == <<gCreds, gVerge, gFrom, gConfig, gClients, gAt, gOp, gHeld, gOwn, gZip, gSaves,
      gOps, gCrossed>>
Webdav == INSTANCE WebDav WITH creds <- gCreds, verge <- gVerge, from <- gFrom,
    config <- gConfig, clients <- gClients, at <- gAt, op <- gOp, held <- gHeld, own <- gOwn,
    zip <- gZip, saves <- gSaves, ops <- gOps, crossed <- gCrossed, Tasks <- DavTasks,
    Operations <- DavOperations, MaxOps <- MaxDavOperations

WebdavGiven == "upload" \in DavOperations

ASSUME WebdavAssumption == WebdavGiven

DavSteps == Webdav!Making \cup Webdav!Restoring \cup {"idle", "write", "reset", "client", "use", "end"}
DavTyped ==
  /\ gCreds \in Nat /\ gVerge \in [creds : Nat, from : Nat] /\ gFrom \in Nat
  /\ gConfig \in Nat /\ gClients \in [DavOperations -> Nat]
  /\ gAt \in [DavTasks -> DavSteps] /\ gOp \in [DavTasks -> DavOperations]
  /\ gHeld \in [DavTasks -> Nat] /\ gOwn \in [DavTasks -> Nat] /\ gZip \in [DavTasks -> Nat]
  /\ gSaves \in Nat /\ gOps \in Nat /\ gCrossed \in BOOLEAN
\* A task that downloads has its backup until it ends, or the directory cannot be made.
BackupIsNamed ==
  \A t \in DavTasks : gAt[t] \in Webdav!Restoring \/ (gAt[t] \in Webdav!Making \cup {"client", "use"} /\
      gOp[t] = "download") => gZip[t] # 0
\* The clients that are kept, and those being made, have the credentials, unless a task is
\* about to have them forgotten.
ClientsFit ==
  ~gCrossed /\ (\A t \in DavTasks : gAt[t] \notin {"write", "reset"}) =>
    /\ gConfig \in {Webdav!None, gCreds} /\ \A o \in DavOperations : gClients[o] \in {Webdav!None, gCreds}
    /\ \A t \in DavTasks : gAt[t] \in Webdav!Making => gHeld[t] = gCreds
\* Credentials that are saved, and those that a restore is to keep, are those of the settings.
CredentialsFit ==
  ~gCrossed =>
    /\ gCreds = gSaves
    /\ \A t \in DavTasks : gZip[t] # 0 => gOwn[t] = gCreds /\ \A u \in DavTasks : gAt[u] # "write"
\* The file is that of the settings, but for the task that is about to write or commit it.
DavFileFits ==
  /\ \A t, u \in DavTasks : gAt[t] \in {"read", "commit"} /\ gAt[u] \in {"read", "commit"} => t = u
  /\ ~gCrossed =>
       /\ (\A t \in DavTasks : gAt[t] \notin {"write", "read", "commit"}) =>
            gVerge = [creds |-> gCreds, from |-> gFrom]
       /\ \A t \in DavTasks : gAt[t] = "commit" => gVerge = [creds |-> gOwn[t], from |-> gHeld[t]]
DavInv == DavTyped /\ BackupIsNamed /\ ClientsFit /\ CredentialsFit /\ DavFileFits

\* A task that goes on, and what it notes, when the others stay.
LEMMA DavTaskGoes ==
  ASSUME DavTyped, NEW t \in DavTasks, NEW to \in DavSteps, Webdav!Goes(t, to)
  PROVE  gAt' \in [DavTasks -> DavSteps] /\ gAt'[t] = to /\ \A u \in DavTasks \ {t} : gAt'[u] = gAt[u]
BY DEF DavTyped, Webdav!Goes

\* What a task notes, the others keeping theirs.
LEMMA TaskNotes ==
  ASSUME NEW f \in [DavTasks -> Nat], NEW t \in DavTasks, NEW n \in Nat, NEW g, g = [f EXCEPT ![t] = n]
  PROVE  g \in [DavTasks -> Nat] /\ g[t] = n /\ \A u \in DavTasks \ {t} : g[u] = f[u]
OBVIOUS

\* The invariant holds at first.
LEMMA DavStarts == WebdavGiven /\ Webdav!Init => DavInv
<1> SUFFICES ASSUME WebdavGiven, Webdav!Init PROVE DavInv
  OBVIOUS
<1>1. DavTyped
  BY DEF WebdavGiven, Webdav!Init, DavTyped, Webdav!None, DavSteps
<1>2. \A t \in DavTasks : gAt[t] = "idle" /\ gZip[t] = 0
  BY DEF Webdav!Init
<1>3. BackupIsNamed
  BY <1>2 DEF BackupIsNamed, Webdav!Restoring, Webdav!Making
<1>4. ClientsFit /\ CredentialsFit /\ DavFileFits
  BY <1>2 DEF Webdav!Init, ClientsFit, CredentialsFit, DavFileFits, Webdav!Making, Webdav!None
<1> QED BY <1>1, <1>3, <1>4 DEF DavInv

\* Credentials are saved in the settings.
LEMMA SaveFits ==
  ASSUME DavInv, NEW t \in DavTasks, Webdav!Save(t)
  PROVE  DavInv'
<1>1. gAt[t] = "idle" /\ gCreds' = gSaves' /\ gSaves' = gSaves + 1
  BY DEF Webdav!Save, Webdav!Idle
<1>2. gAt' \in [DavTasks -> DavSteps] /\ gAt'[t] = "write" /\ \A u \in DavTasks \ {t} : gAt'[u] = gAt[u]
  BY DavTaskGoes DEF Webdav!Save, DavInv, DavSteps, Webdav!Making, Webdav!Restoring
<1>3. gCrossed' = (gCrossed \/ \E u \in DavTasks : gZip[u] # 0)
  BY DEF Webdav!Save
<1>4. gVerge' = gVerge /\ gFrom' = gFrom /\ gHeld' = gHeld /\ gOps' = gOps /\ gConfig' = gConfig /\
        gClients' = gClients /\ gOp' = gOp /\ gZip' = gZip /\ gOwn' = gOwn
  BY DEF Webdav!Save, Webdav!Client, Webdav!Work
<1>5. DavTyped'
  BY <1>1, <1>2, <1>3, <1>4 DEF DavInv, DavTyped, Webdav!None
<1>6. BackupIsNamed'
  BY <1>1, <1>2, <1>3, <1>4 DEF DavInv, DavTyped, BackupIsNamed, Webdav!Restoring, Webdav!Making
<1>7. ClientsFit'
  BY <1>1, <1>2, <1>3, <1>4 DEF DavInv, DavTyped, ClientsFit, Webdav!Making, Webdav!None
<1>8. CredentialsFit'
  BY <1>1, <1>2, <1>3, <1>4 DEF DavInv, DavTyped, CredentialsFit
<1>9. DavFileFits'
  BY <1>1, <1>2, <1>3, <1>4 DEF DavInv, DavTyped, DavFileFits
<1> QED BY <1>5, <1>6, <1>7, <1>8, <1>9 DEF DavInv

\* They are written, or the task gives up.
LEMMA SaveFileFits ==
  ASSUME DavInv, NEW t \in DavTasks, Webdav!SaveFile(t)
  PROVE  DavInv'
<1>1. gAt[t] = "write"
  BY DEF Webdav!SaveFile
<1>2. \/ gVerge' = [creds |-> gCreds, from |-> gFrom] /\ Webdav!Goes(t, "reset") /\ gCrossed' = gCrossed
      \/ gVerge' = gVerge /\ Webdav!Goes(t, "idle") /\ gCrossed' = TRUE
  BY DEF Webdav!SaveFile
<1>3. PICK to \in {"reset", "idle"} : Webdav!Goes(t, to) /\ (to = "idle" => gCrossed' = TRUE /\ gVerge' = gVerge)
        /\ (to = "reset" => gVerge' = [creds |-> gCreds, from |-> gFrom] /\ gCrossed' = gCrossed)
  BY <1>2
<1>4. gAt' \in [DavTasks -> DavSteps] /\ gAt'[t] = to /\ \A u \in DavTasks \ {t} : gAt'[u] = gAt[u]
  BY <1>3, DavTaskGoes DEF DavInv, DavSteps
<1>5. [creds |-> gCreds, from |-> gFrom] \in [creds : Nat, from : Nat] /\ gVerge \in [creds : Nat, from : Nat] /\
        gCrossed \in BOOLEAN
  BY DEF DavInv, DavTyped
<1>6. gVerge' \in [creds : Nat, from : Nat] /\ gCrossed' \in BOOLEAN
  BY <1>3, <1>5
<1>7. gCreds' = gCreds /\ gFrom' = gFrom /\ gHeld' = gHeld /\ gConfig' = gConfig /\ gClients' = gClients /\
        gOp' = gOp /\ gZip' = gZip /\ gOwn' = gOwn /\ gSaves' = gSaves /\ gOps' = gOps
  BY DEF Webdav!SaveFile, Webdav!Client, Webdav!Work, Webdav!Bounds
<1>8. ~gCrossed => \A u \in DavTasks : gZip[u] = 0
  BY <1>1 DEF DavInv, DavTyped, CredentialsFit
<1>9. ~gCrossed => \A u \in DavTasks : gAt[u] \notin {"read", "commit"}
  BY <1>8 DEF DavInv, BackupIsNamed, Webdav!Restoring
<1>10. DavTyped'
  BY <1>1, <1>2, <1>3, <1>4, <1>5, <1>6, <1>7, <1>8, <1>9 DEF DavInv, DavTyped, Webdav!None
<1>11. BackupIsNamed'
  BY <1>1, <1>2, <1>3, <1>4, <1>5, <1>6, <1>7, <1>8, <1>9 DEF DavInv, DavTyped, BackupIsNamed, Webdav!Restoring,
     Webdav!Making
<1>12. ClientsFit'
  BY <1>1, <1>2, <1>3, <1>4, <1>5, <1>6, <1>7, <1>8, <1>9 DEF DavInv, DavTyped, ClientsFit, Webdav!Making,
     Webdav!None
<1>13. CredentialsFit'
  BY <1>1, <1>2, <1>3, <1>4, <1>5, <1>6, <1>7, <1>8, <1>9 DEF DavInv, DavTyped, CredentialsFit
<1>14. DavFileFits'
  BY <1>1, <1>2, <1>3, <1>4, <1>5, <1>6, <1>7, <1>8, <1>9 DEF DavInv, DavTyped, DavFileFits
<1> QED BY <1>10, <1>11, <1>12, <1>13, <1>14 DEF DavInv

\* The clients are forgotten.
LEMMA ResetFits ==
  ASSUME DavInv, NEW t \in DavTasks, Webdav!Reset(t)
  PROVE  DavInv'
<1>1. gAt[t] = "reset" /\ gConfig' = Webdav!None
  BY DEF Webdav!Reset
<1>2. gAt' \in [DavTasks -> DavSteps] /\ gAt'[t] = "idle" /\ \A u \in DavTasks \ {t} : gAt'[u] = gAt[u]
  BY DavTaskGoes DEF Webdav!Reset, DavInv, DavSteps, Webdav!Making, Webdav!Restoring
<1>3. gClients' \in [DavOperations -> Nat] /\ \A o \in DavOperations : gClients'[o] = Webdav!None
  BY DEF Webdav!Reset, Webdav!Forgotten, Webdav!None
<1>4. gCrossed' = (gCrossed \/ \E u \in DavTasks : gAt[u] \in Webdav!Making)
  BY DEF Webdav!Reset
<1>5. gCrossed' \in BOOLEAN
  BY <1>4 DEF DavInv, DavTyped
<1>6. gHeld' = gHeld /\ gOp' = gOp /\ gZip' = gZip /\ gOwn' = gOwn /\ gCreds' = gCreds /\ gVerge' = gVerge /\
        gFrom' = gFrom /\ gSaves' = gSaves /\ gOps' = gOps
  BY DEF Webdav!Reset, Webdav!Work, Webdav!Documents, Webdav!Bounds
<1>7. DavTyped'
  BY <1>1, <1>2, <1>3, <1>4, <1>5, <1>6 DEF DavInv, DavTyped, Webdav!None
<1>8. BackupIsNamed'
  BY <1>1, <1>2, <1>3, <1>4, <1>5, <1>6 DEF DavInv, DavTyped, BackupIsNamed, Webdav!Restoring, Webdav!Making
<1>9. ClientsFit'
  BY <1>1, <1>2, <1>3, <1>4, <1>5, <1>6 DEF DavInv, DavTyped, ClientsFit, Webdav!Making, Webdav!None
<1>10. CredentialsFit'
  BY <1>1, <1>2, <1>3, <1>4, <1>5, <1>6 DEF DavInv, DavTyped, CredentialsFit
<1>11. DavFileFits'
  BY <1>1, <1>2, <1>3, <1>4, <1>5, <1>6 DEF DavInv, DavTyped, DavFileFits
<1> QED BY <1>7, <1>8, <1>9, <1>10, <1>11 DEF DavInv

\* An operation begins; a restore notes the credentials it is to keep.
LEMMA OperationBegins ==
  ASSUME DavInv, NEW t \in DavTasks, Webdav!Begin(t)
  PROVE  DavInv'
<1>1. gAt[t] = "idle" /\ gOps' = gOps + 1 /\ gHeld' = gHeld /\ gSaves' = gSaves /\ gCreds' = gCreds /\
        gVerge' = gVerge /\ gFrom' = gFrom /\ gConfig' = gConfig /\ gClients' = gClients
  BY DEF Webdav!Begin, Webdav!Idle, Webdav!Documents, Webdav!Client
<1>2. PICK o \in DavOperations, local \in BOOLEAN :
         /\ local => o = "download"
         /\ gOp' = [gOp EXCEPT ![t] = o]
         /\ gZip' = [gZip EXCEPT ![t] = IF o = "download" THEN gOps' ELSE 0]
         /\ Webdav!Goes(t, IF local THEN "unzip" ELSE "client")
         /\ gCrossed' = (gCrossed \/ (o = "download" /\ \E u \in DavTasks : gAt[u] = "write"))
  BY DEF Webdav!Begin
<1>3. gAt' \in [DavTasks -> DavSteps] /\ gAt'[t] = (IF local THEN "unzip" ELSE "client") /\
        \A u \in DavTasks \ {t} : gAt'[u] = gAt[u]
  BY <1>2, DavTaskGoes DEF DavInv, DavSteps, Webdav!Restoring
<1>4. PICK n \in Nat : n = IF o = "download" THEN gOps' ELSE 0
  BY <1>1 DEF DavInv, DavTyped
<1>5. gZip' \in [DavTasks -> Nat] /\ gZip'[t] = n /\ \A u \in DavTasks \ {t} : gZip'[u] = gZip[u]
  BY <1>2, <1>4, TaskNotes DEF DavInv, DavTyped
<1>6. gOwn' \in [DavTasks -> Nat] /\ gOwn'[t] = gCreds /\ \A u \in DavTasks \ {t} : gOwn'[u] = gOwn[u]
  BY TaskNotes DEF Webdav!Begin, Webdav!Own, DavInv, DavTyped
<1>7. gOp' \in [DavTasks -> DavOperations] /\ gOp'[t] = o /\ \A u \in DavTasks \ {t} : gOp'[u] = gOp[u]
  BY <1>2 DEF DavInv, DavTyped
<1>8. gOps' # 0
  BY <1>1 DEF DavInv, DavTyped
<1>9. gCrossed' \in BOOLEAN /\ (~gCrossed' => ~gCrossed)
  BY <1>2 DEF DavInv, DavTyped
<1>10. DavTyped'
  BY <1>1, <1>2, <1>3, <1>4, <1>5, <1>6, <1>7, <1>8, <1>9 DEF DavInv, DavTyped, Webdav!None
<1>11. BackupIsNamed'
  BY <1>1, <1>2, <1>3, <1>4, <1>5, <1>6, <1>7, <1>8, <1>9 DEF DavInv, DavTyped, BackupIsNamed, Webdav!Restoring,
     Webdav!Making
<1>12. ClientsFit'
  BY <1>1, <1>2, <1>3, <1>4, <1>5, <1>6, <1>7, <1>8, <1>9 DEF DavInv, DavTyped, ClientsFit, Webdav!Making,
     Webdav!None
<1>13. CredentialsFit'
  BY <1>1, <1>2, <1>3, <1>4, <1>5, <1>6, <1>7, <1>8, <1>9 DEF DavInv, DavTyped, CredentialsFit
<1>14. DavFileFits'
  BY <1>1, <1>2, <1>3, <1>4, <1>5, <1>6, <1>7, <1>8, <1>9 DEF DavInv, DavTyped, DavFileFits
<1> QED BY <1>10, <1>11, <1>12, <1>13, <1>14 DEF DavInv

\* An operation takes the client that is kept.
LEMMA KeptClientFits ==
  ASSUME DavInv, NEW t \in DavTasks, Webdav!KeptClient(t)
  PROVE  DavInv'
<1>1. gAt[t] = "client" /\ gClients[gOp[t]] # Webdav!None
  BY DEF Webdav!KeptClient
<1>2. gAt' \in [DavTasks -> DavSteps] /\ gAt'[t] = "use" /\ \A u \in DavTasks \ {t} : gAt'[u] = gAt[u]
  BY DavTaskGoes DEF Webdav!KeptClient, DavInv, DavSteps, Webdav!Making, Webdav!Restoring
<1>3. gHeld' \in [DavTasks -> Nat] /\ \A u \in DavTasks \ {t} : gHeld'[u] = gHeld[u]
  BY <1>2 DEF Webdav!KeptClient, DavInv, DavTyped, Webdav!None
<1>4. gCrossed' = gCrossed /\ gCreds' = gCreds /\ gVerge' = gVerge /\ gFrom' = gFrom /\ gConfig' = gConfig /\
        gClients' = gClients /\ gOp' = gOp /\ gZip' = gZip /\ gOwn' = gOwn /\ gSaves' = gSaves /\ gOps' = gOps
  BY DEF Webdav!KeptClient, Webdav!Documents, Webdav!Client, Webdav!Work, Webdav!Bounds
<1>5. DavTyped'
  BY <1>1, <1>2, <1>3, <1>4 DEF DavInv, DavTyped, Webdav!None
<1>6. BackupIsNamed'
  BY <1>1, <1>2, <1>3, <1>4 DEF DavInv, DavTyped, BackupIsNamed, Webdav!Restoring, Webdav!Making
<1>7. ClientsFit'
  BY <1>1, <1>2, <1>3, <1>4 DEF DavInv, DavTyped, ClientsFit, Webdav!Making, Webdav!None
<1>8. CredentialsFit'
  BY <1>1, <1>2, <1>3, <1>4 DEF DavInv, DavTyped, CredentialsFit
<1>9. DavFileFits'
  BY <1>1, <1>2, <1>3, <1>4 DEF DavInv, DavTyped, DavFileFits
<1> QED BY <1>5, <1>6, <1>7, <1>8, <1>9 DEF DavInv

\* Or takes credentials for a new one.
LEMMA NewClientFits ==
  ASSUME DavInv, NEW t \in DavTasks, Webdav!NewClient(t)
  PROVE  DavInv'
<1>1. gAt[t] = "client"
  BY DEF Webdav!NewClient
<1>2. PICK c \in Nat : c = IF gConfig # Webdav!None THEN gConfig ELSE gCreds
  BY DEF DavInv, DavTyped
<1>3. gHeld' = [gHeld EXCEPT ![t] = c] /\ Webdav!Goes(t, IF c = Webdav!None THEN "end" ELSE "config")
  BY <1>2 DEF Webdav!NewClient
<1>4. gHeld' \in [DavTasks -> Nat] /\ gHeld'[t] = c /\ \A u \in DavTasks \ {t} : gHeld'[u] = gHeld[u]
  BY <1>3, TaskNotes DEF DavInv, DavTyped
<1>5. gAt' \in [DavTasks -> DavSteps] /\ gAt'[t] = (IF c = Webdav!None THEN "end" ELSE "config") /\
        \A u \in DavTasks \ {t} : gAt'[u] = gAt[u]
  BY <1>3, DavTaskGoes DEF DavInv, DavSteps, Webdav!Making
<1>6. gCrossed' = gCrossed /\ gCreds' = gCreds /\ gVerge' = gVerge /\ gFrom' = gFrom /\ gConfig' = gConfig /\
        gClients' = gClients /\ gOp' = gOp /\ gZip' = gZip /\ gOwn' = gOwn /\ gSaves' = gSaves /\ gOps' = gOps
  BY DEF Webdav!NewClient, Webdav!Documents, Webdav!Client, Webdav!Work, Webdav!Bounds
<1>7. DavTyped'
  BY <1>1, <1>2, <1>3, <1>4, <1>5, <1>6 DEF DavInv, DavTyped, Webdav!None
<1>8. BackupIsNamed'
  BY <1>1, <1>2, <1>3, <1>4, <1>5, <1>6 DEF DavInv, DavTyped, BackupIsNamed, Webdav!Restoring, Webdav!Making
<1>9. ClientsFit'
  BY <1>1, <1>2, <1>3, <1>4, <1>5, <1>6 DEF DavInv, DavTyped, ClientsFit, Webdav!Making, Webdav!None
<1>10. CredentialsFit'
  BY <1>1, <1>2, <1>3, <1>4, <1>5, <1>6 DEF DavInv, DavTyped, CredentialsFit
<1>11. DavFileFits'
  BY <1>1, <1>2, <1>3, <1>4, <1>5, <1>6 DEF DavInv, DavTyped, DavFileFits
<1> QED BY <1>7, <1>8, <1>9, <1>10, <1>11 DEF DavInv

\* The credentials of a new client are kept.
LEMMA ConfigStored ==
  ASSUME DavInv, NEW t \in DavTasks, Webdav!StoreConfig(t)
  PROVE  DavInv'
<1>1. gAt[t] = "config" /\ gConfig' = gHeld[t]
  BY DEF Webdav!StoreConfig
<1>2. gAt' \in [DavTasks -> DavSteps] /\ gAt'[t] = "mkcol" /\ \A u \in DavTasks \ {t} : gAt'[u] = gAt[u]
  BY DavTaskGoes DEF Webdav!StoreConfig, DavInv, DavSteps, Webdav!Making, Webdav!Restoring
<1>3. gClients' = gClients /\ gHeld' = gHeld /\ gCrossed' = gCrossed /\ gCreds' = gCreds /\ gVerge' = gVerge /\
        gFrom' = gFrom /\ gOp' = gOp /\ gZip' = gZip /\ gOwn' = gOwn /\ gSaves' = gSaves /\ gOps' = gOps
  BY DEF Webdav!StoreConfig, Webdav!Documents, Webdav!Work, Webdav!Bounds
<1>4. DavTyped'
  BY <1>1, <1>2, <1>3 DEF DavInv, DavTyped, Webdav!None
<1>5. BackupIsNamed'
  BY <1>1, <1>2, <1>3 DEF DavInv, DavTyped, BackupIsNamed, Webdav!Restoring, Webdav!Making
<1>6. ClientsFit'
  BY <1>1, <1>2, <1>3 DEF DavInv, DavTyped, ClientsFit, Webdav!Making, Webdav!None
<1>7. CredentialsFit'
  BY <1>1, <1>2, <1>3 DEF DavInv, DavTyped, CredentialsFit
<1>8. DavFileFits'
  BY <1>1, <1>2, <1>3 DEF DavInv, DavTyped, DavFileFits
<1> QED BY <1>4, <1>5, <1>6, <1>7, <1>8 DEF DavInv

\* The directory is made, or cannot be.
LEMMA DirectoryMade ==
  ASSUME DavInv, NEW t \in DavTasks, Webdav!MakeDirectory(t)
  PROVE  DavInv'
<1>1. gAt[t] = "mkcol"
  BY DEF Webdav!MakeDirectory
<1>2. PICK to \in {"insert", "reset"} : Webdav!Goes(t, to) /\ (to = "insert" => gZip' = gZip) /\
             (to = "reset" => gZip' = [gZip EXCEPT ![t] = 0])
  BY DEF Webdav!MakeDirectory
<1>3. gAt' \in [DavTasks -> DavSteps] /\ gAt'[t] = to /\ \A u \in DavTasks \ {t} : gAt'[u] = gAt[u]
  BY <1>2, DavTaskGoes DEF DavInv, DavSteps, Webdav!Making
<1>4. gZip' \in [DavTasks -> Nat] /\ (gZip'[t] # 0 => gZip'[t] = gZip[t]) /\ (to = "insert" => gZip' = gZip) /\
        \A u \in DavTasks \ {t} : gZip'[u] = gZip[u]
  BY <1>2, TaskNotes DEF DavInv, DavTyped
<1>5. gOp' = gOp /\ gHeld' = gHeld /\ gOwn' = gOwn /\ gCrossed' = gCrossed /\ gCreds' = gCreds /\
        gVerge' = gVerge /\ gFrom' = gFrom /\ gConfig' = gConfig /\ gClients' = gClients /\ gSaves' = gSaves /\
            gOps' = gOps
  BY DEF Webdav!MakeDirectory, Webdav!Documents, Webdav!Client, Webdav!Bounds
<1>6. DavTyped'
  BY <1>1, <1>2, <1>3, <1>4, <1>5 DEF DavInv, DavTyped, Webdav!None
<1>7. BackupIsNamed'
  BY <1>1, <1>2, <1>3, <1>4, <1>5 DEF DavInv, DavTyped, BackupIsNamed, Webdav!Restoring, Webdav!Making
<1>8. ClientsFit'
  BY <1>1, <1>2, <1>3, <1>4, <1>5 DEF DavInv, DavTyped, ClientsFit, Webdav!Making, Webdav!None
<1>9. CredentialsFit'
  BY <1>1, <1>2, <1>3, <1>4, <1>5 DEF DavInv, DavTyped, CredentialsFit
<1>10. DavFileFits'
  BY <1>1, <1>2, <1>3, <1>4, <1>5 DEF DavInv, DavTyped, DavFileFits
<1> QED BY <1>6, <1>7, <1>8, <1>9, <1>10 DEF DavInv

\* The new client is kept.
LEMMA ClientInserted ==
  ASSUME DavInv, NEW t \in DavTasks, Webdav!InsertClient(t)
  PROVE  DavInv'
<1>1. gAt[t] = "insert" /\ gClients' = [gClients EXCEPT ![gOp[t]] = gHeld[t]]
  BY DEF Webdav!InsertClient
<1>2. gAt' \in [DavTasks -> DavSteps] /\ gAt'[t] = "use" /\ \A u \in DavTasks \ {t} : gAt'[u] = gAt[u]
  BY DavTaskGoes DEF Webdav!InsertClient, DavInv, DavSteps, Webdav!Making, Webdav!Restoring
<1>3. gClients' \in [DavOperations -> Nat] /\ \A o \in DavOperations : gClients'[o] \in {gClients[o], gHeld[t]}
  BY <1>1 DEF DavInv, DavTyped
<1>4. gConfig' = gConfig /\ gHeld' = gHeld /\ gCrossed' = gCrossed /\ gCreds' = gCreds /\ gVerge' = gVerge /\
        gFrom' = gFrom /\ gOp' = gOp /\ gZip' = gZip /\ gOwn' = gOwn /\ gSaves' = gSaves /\ gOps' = gOps
  BY DEF Webdav!InsertClient, Webdav!Documents, Webdav!Work, Webdav!Bounds
<1>5. DavTyped'
  BY <1>1, <1>2, <1>3, <1>4 DEF DavInv, DavTyped, Webdav!None
<1>6. BackupIsNamed'
  BY <1>1, <1>2, <1>3, <1>4 DEF DavInv, DavTyped, BackupIsNamed, Webdav!Restoring, Webdav!Making
<1>7. ClientsFit'
  BY <1>1, <1>2, <1>3, <1>4 DEF DavInv, DavTyped, ClientsFit, Webdav!Making, Webdav!None
<1>8. CredentialsFit'
  BY <1>1, <1>2, <1>3, <1>4 DEF DavInv, DavTyped, CredentialsFit
<1>9. DavFileFits'
  BY <1>1, <1>2, <1>3, <1>4 DEF DavInv, DavTyped, DavFileFits
<1> QED BY <1>5, <1>6, <1>7, <1>8, <1>9 DEF DavInv

\* The client is used.
LEMMA ClientUsed ==
  ASSUME DavInv, NEW t \in DavTasks, Webdav!Use(t)
  PROVE  DavInv'
<1>1. gAt[t] = "use"
  BY DEF Webdav!Use
<1>2. PICK to \in {"reset", "end", "unzip"} : Webdav!Goes(t, to) /\ (to = "unzip" => gOp[t] = "download")
  BY DEF Webdav!Use
<1>3. gAt' \in [DavTasks -> DavSteps] /\ gAt'[t] = to /\ \A u \in DavTasks \ {t} : gAt'[u] = gAt[u]
  BY <1>2, DavTaskGoes DEF DavInv, DavSteps, Webdav!Restoring
<1>4. gHeld' = gHeld /\ gCrossed' = gCrossed /\ gCreds' = gCreds /\ gVerge' = gVerge /\ gFrom' = gFrom /\
        gConfig' = gConfig /\ gClients' = gClients /\ gOp' = gOp /\ gZip' = gZip /\ gOwn' = gOwn /\
            gSaves' = gSaves /\ gOps' = gOps
  BY DEF Webdav!Use, Webdav!Documents, Webdav!Client, Webdav!Work, Webdav!Bounds
<1>5. DavTyped'
  BY <1>1, <1>2, <1>3, <1>4 DEF DavInv, DavTyped, Webdav!None
<1>6. BackupIsNamed'
  BY <1>1, <1>2, <1>3, <1>4 DEF DavInv, DavTyped, BackupIsNamed, Webdav!Restoring, Webdav!Making
<1>7. ClientsFit'
  BY <1>1, <1>2, <1>3, <1>4 DEF DavInv, DavTyped, ClientsFit, Webdav!Making, Webdav!None
<1>8. CredentialsFit'
  BY <1>1, <1>2, <1>3, <1>4 DEF DavInv, DavTyped, CredentialsFit
<1>9. DavFileFits'
  BY <1>1, <1>2, <1>3, <1>4 DEF DavInv, DavTyped, DavFileFits
<1> QED BY <1>5, <1>6, <1>7, <1>8, <1>9 DEF DavInv

\* An operation ends.
LEMMA OperationEnds ==
  ASSUME DavInv, NEW t \in DavTasks, Webdav!End(t)
  PROVE  DavInv'
<1>1. gAt[t] = "end"
  BY DEF Webdav!End
<1>2. gAt' \in [DavTasks -> DavSteps] /\ gAt'[t] = "idle" /\ \A u \in DavTasks \ {t} : gAt'[u] = gAt[u]
  BY DavTaskGoes DEF Webdav!End, DavInv, DavSteps, Webdav!Making, Webdav!Restoring
<1>3. gZip' \in [DavTasks -> Nat] /\ gZip'[t] = 0 /\ \A u \in DavTasks \ {t} : gZip'[u] = gZip[u]
  BY TaskNotes DEF Webdav!End, DavInv, DavTyped
<1>4. gHeld' \in [DavTasks -> Nat] /\ \A u \in DavTasks \ {t} : gHeld'[u] = gHeld[u]
  BY TaskNotes DEF Webdav!End, DavInv, DavTyped, Webdav!None
<1>5. gOwn' \in [DavTasks -> Nat] /\ \A u \in DavTasks \ {t} : gOwn'[u] = gOwn[u]
  BY TaskNotes DEF Webdav!End, DavInv, DavTyped, Webdav!None
<1>6. gOp' = gOp /\ gCrossed' = gCrossed /\ gCreds' = gCreds /\ gVerge' = gVerge /\ gFrom' = gFrom /\
        gConfig' = gConfig /\ gClients' = gClients /\ gSaves' = gSaves /\ gOps' = gOps
  BY DEF Webdav!End, Webdav!Documents, Webdav!Client, Webdav!Bounds
<1>7. DavTyped'
  BY <1>1, <1>2, <1>3, <1>4, <1>5, <1>6 DEF DavInv, DavTyped, Webdav!None
<1>8. BackupIsNamed'
  BY <1>1, <1>2, <1>3, <1>4, <1>5, <1>6 DEF DavInv, DavTyped, BackupIsNamed, Webdav!Restoring, Webdav!Making
<1>9. ClientsFit'
  BY <1>1, <1>2, <1>3, <1>4, <1>5, <1>6 DEF DavInv, DavTyped, ClientsFit, Webdav!Making, Webdav!None
<1>10. CredentialsFit'
  BY <1>1, <1>2, <1>3, <1>4, <1>5, <1>6 DEF DavInv, DavTyped, CredentialsFit
<1>11. DavFileFits'
  BY <1>1, <1>2, <1>3, <1>4, <1>5, <1>6 DEF DavInv, DavTyped, DavFileFits
<1> QED BY <1>7, <1>8, <1>9, <1>10, <1>11 DEF DavInv

\* A backup replaces the settings in the file, also one that then fails.
LEMMA BackupUnzipped ==
  ASSUME DavInv, NEW t \in DavTasks, Webdav!Unzip(t)
  PROVE  DavInv'
<1>1. gAt[t] = "unzip" /\ \A u \in DavTasks : gAt[u] \notin {"read", "commit"}
  BY DEF Webdav!Unzip, Webdav!Restoring
<1>2. PICK done \in BOOLEAN, reached \in BOOLEAN :
         /\ done => reached
         /\ Webdav!Goes(t, IF done THEN "read" ELSE "end") /\ gCrossed' = (gCrossed \/ ~done)
         /\ gVerge' = IF reached THEN [creds |-> Webdav!None, from |-> gZip[t]] ELSE gVerge
  BY DEF Webdav!Unzip
<1>3. gAt' \in [DavTasks -> DavSteps] /\ gAt'[t] = (IF done THEN "read" ELSE "end") /\
        \A u \in DavTasks \ {t} : gAt'[u] = gAt[u]
  BY <1>2, DavTaskGoes DEF DavInv, DavSteps, Webdav!Restoring
<1>4. [creds |-> Webdav!None, from |-> gZip[t]] \in [creds : Nat, from : Nat] /\ gVerge \in [creds : Nat, from : Nat]
  BY DEF DavInv, DavTyped, Webdav!None
<1>5. gVerge' \in [creds : Nat, from : Nat]
  BY <1>2, <1>4
<1>6. gCrossed' \in BOOLEAN /\ (~gCrossed' => ~gCrossed /\ gAt'[t] = "read")
  BY <1>2, <1>3 DEF DavInv, DavTyped
<1>7. gCreds' = gCreds /\ gFrom' = gFrom /\ gHeld' = gHeld /\ gConfig' = gConfig /\ gClients' = gClients /\
        gOp' = gOp /\ gZip' = gZip /\ gOwn' = gOwn /\ gSaves' = gSaves /\ gOps' = gOps
  BY DEF Webdav!Unzip, Webdav!Client, Webdav!Work, Webdav!Bounds
<1>8. DavTyped'
  BY <1>1, <1>2, <1>3, <1>4, <1>5, <1>6, <1>7 DEF DavInv, DavTyped, Webdav!None
<1>9. BackupIsNamed'
  BY <1>1, <1>2, <1>3, <1>4, <1>5, <1>6, <1>7 DEF DavInv, DavTyped, BackupIsNamed, Webdav!Restoring, Webdav!Making
<1>10. ClientsFit'
  BY <1>1, <1>2, <1>3, <1>4, <1>5, <1>6, <1>7 DEF DavInv, DavTyped, ClientsFit, Webdav!Making, Webdav!None
<1>11. CredentialsFit'
  BY <1>1, <1>2, <1>3, <1>4, <1>5, <1>6, <1>7 DEF DavInv, DavTyped, CredentialsFit
<1>12. DavFileFits'
  BY <1>1, <1>2, <1>3, <1>4, <1>5, <1>6, <1>7 DEF DavInv, DavTyped, DavFileFits
<1> QED BY <1>8, <1>9, <1>10, <1>11, <1>12 DEF DavInv

\* The credentials are put back into the file.
LEMMA SettingsCompleted ==
  ASSUME DavInv, NEW t \in DavTasks, Webdav!Complete(t)
  PROVE  DavInv'
<1>1. gAt[t] = "read"
  BY DEF Webdav!Complete
<1>2. PICK to \in {"commit", "end"} : Webdav!Goes(t, to) /\ (to = "end" => gVerge' = gVerge /\ gCrossed' = TRUE)
        /\ (to = "commit" => gVerge' = [gVerge EXCEPT !.creds = gOwn[t]] /\ gCrossed' = gCrossed)
  BY DEF Webdav!Complete
<1>3. gAt' \in [DavTasks -> DavSteps] /\ gAt'[t] = to /\ \A u \in DavTasks \ {t} : gAt'[u] = gAt[u]
  BY <1>2, DavTaskGoes DEF DavInv, DavSteps, Webdav!Restoring
<1>4. gVerge' \in [creds : Nat, from : Nat] /\ (to = "commit" => gVerge' = [creds |-> gOwn[t], from |-> gVerge'.from])
  BY <1>2 DEF DavInv, DavTyped
<1>5. gHeld' \in [DavTasks -> Nat] /\ gHeld'[t] = gVerge'.from /\ \A u \in DavTasks \ {t} : gHeld'[u] = gHeld[u]
  BY <1>4, TaskNotes DEF Webdav!Complete, DavInv, DavTyped
<1>6. (to = "commit" /\ gCrossed' = gCrossed) \/ gCrossed' = TRUE
  BY <1>2
<1>7. gCrossed \in BOOLEAN
  BY DEF DavInv, DavTyped
<1>8. gCrossed' \in BOOLEAN
  BY <1>6, <1>7
<1>9. ~gCrossed' => to = "commit"
  BY <1>6
<1>10. ~gCrossed' => ~gCrossed
  BY <1>6
<1>11. gCreds' = gCreds /\ gFrom' = gFrom /\ gConfig' = gConfig /\ gClients' = gClients /\ gOp' = gOp /\
         gZip' = gZip /\ gOwn' = gOwn /\ gSaves' = gSaves /\ gOps' = gOps
  BY DEF Webdav!Complete, Webdav!Client, Webdav!Work, Webdav!Bounds
<1>12. \A u \in DavTasks : gAt[u] = "commit" => u = t
  BY <1>1 DEF DavInv, DavFileFits
<1>13. DavTyped'
  BY <1>1, <1>2, <1>3, <1>4, <1>5, <1>6, <1>7, <1>8, <1>9, <1>10, <1>11, <1>12 DEF DavInv, DavTyped, Webdav!None
<1>14. BackupIsNamed'
  BY <1>1, <1>2, <1>3, <1>4, <1>5, <1>6, <1>7, <1>8, <1>9, <1>10, <1>11, <1>12 DEF DavInv, DavTyped, BackupIsNamed,
     Webdav!Restoring, Webdav!Making
<1>15. ClientsFit'
  BY <1>1, <1>2, <1>3, <1>4, <1>5, <1>6, <1>7, <1>8, <1>9, <1>10, <1>11, <1>12 DEF DavInv, DavTyped, ClientsFit,
     Webdav!Making, Webdav!None
<1>16. CredentialsFit'
  BY <1>1, <1>2, <1>3, <1>4, <1>5, <1>6, <1>7, <1>8, <1>9, <1>10, <1>11, <1>12 DEF DavInv, DavTyped, CredentialsFit
<1>17. DavFileFits'
  BY <1>1, <1>2, <1>3, <1>4, <1>5, <1>6, <1>7, <1>8, <1>9, <1>10, <1>11, <1>12 DEF DavInv, DavTyped, DavFileFits
<1> QED BY <1>13, <1>14, <1>15, <1>16, <1>17 DEF DavInv

\* The settings in memory follow the file.
LEMMA SettingsCommitted ==
  ASSUME DavInv, NEW t \in DavTasks, Webdav!Commit(t)
  PROVE  DavInv'
<1>1. gAt[t] = "commit" /\ gCreds' = gOwn[t] /\ gFrom' = gHeld[t]
  BY DEF Webdav!Commit
<1>2. gAt' \in [DavTasks -> DavSteps] /\ gAt'[t] = "end" /\ \A u \in DavTasks \ {t} : gAt'[u] = gAt[u]
  BY DavTaskGoes DEF Webdav!Commit, DavInv, DavSteps, Webdav!Making, Webdav!Restoring
<1>3. gVerge' = gVerge /\ gHeld' = gHeld /\ gCrossed' = gCrossed /\ gConfig' = gConfig /\ gClients' = gClients /\
        gOp' = gOp /\ gZip' = gZip /\ gOwn' = gOwn /\ gSaves' = gSaves /\ gOps' = gOps
  BY DEF Webdav!Commit, Webdav!Client, Webdav!Work, Webdav!Bounds
<1>4. gZip[t] # 0
  BY <1>1 DEF DavInv, BackupIsNamed, Webdav!Restoring
<1>5. ~gCrossed => gOwn[t] = gCreds
  BY <1>4 DEF DavInv, CredentialsFit
<1>6. \A u \in DavTasks : gAt[u] \in {"read", "commit"} => u = t
  BY <1>1 DEF DavInv, DavFileFits
<1>7. DavTyped'
  BY <1>1, <1>2, <1>3, <1>4, <1>5, <1>6 DEF DavInv, DavTyped, Webdav!None
<1>8. BackupIsNamed'
  BY <1>1, <1>2, <1>3, <1>4, <1>5, <1>6 DEF DavInv, DavTyped, BackupIsNamed, Webdav!Restoring, Webdav!Making
<1>9. ClientsFit'
  BY <1>1, <1>2, <1>3, <1>4, <1>5, <1>6 DEF DavInv, DavTyped, ClientsFit, Webdav!Making, Webdav!None
<1>10. CredentialsFit'
  BY <1>1, <1>2, <1>3, <1>4, <1>5, <1>6 DEF DavInv, DavTyped, CredentialsFit
<1>11. DavFileFits'
  BY <1>1, <1>2, <1>3, <1>4, <1>5, <1>6 DEF DavInv, DavTyped, DavFileFits
<1> QED BY <1>7, <1>8, <1>9, <1>10, <1>11 DEF DavInv

\* Every step keeps the invariant.
LEMMA DavNext == DavInv /\ [Webdav!Next]_(Webdav!vars) => DavInv'
<1> SUFFICES ASSUME DavInv, [Webdav!Next]_(Webdav!vars) PROVE DavInv'
  OBVIOUS
<1>1. CASE UNCHANGED Webdav!vars
  BY <1>1 DEF Webdav!vars, DavInv, DavTyped, BackupIsNamed, ClientsFit, CredentialsFit, DavFileFits
<1>2. CASE Webdav!Next
  BY <1>2, SaveFits, SaveFileFits, ResetFits, OperationBegins, KeptClientFits, NewClientFits, ConfigStored,
     DirectoryMade, ClientInserted, ClientUsed, OperationEnds, BackupUnzipped, SettingsCompleted, SettingsCommitted
     DEF Webdav!Next
<1> QED BY <1>1, <1>2

\* When nobody is at work every client that is kept has the credentials of the settings, and
\* no restore has lost any (CredentialsStand), for every set of tasks and of operations.
THEOREM WebdavHolds == WebdavGiven => (Webdav!Spec => []Webdav!CredentialsStand)
<1> SUFFICES ASSUME WebdavGiven PROVE Webdav!Spec => []Webdav!CredentialsStand
  OBVIOUS
<1>1. DavInv => Webdav!CredentialsStand
  <2> SUFFICES ASSUME DavInv, \A t \in DavTasks : gAt[t] = "idle", ~gCrossed
               PROVE  /\ {gConfig} \cup Webdav!Range(gClients) \subseteq {Webdav!None, gCreds}
                      /\ gVerge = [creds |-> gCreds, from |-> gFrom]
                      /\ gCreds = gSaves
    BY DEF Webdav!CredentialsStand, Webdav!Idle
  <2>1. gConfig \in {Webdav!None, gCreds} /\ \A o \in DavOperations : gClients[o] \in {Webdav!None, gCreds}
    BY DEF DavInv, ClientsFit
  <2>2. Webdav!Range(gClients) \subseteq {Webdav!None, gCreds}
    BY <2>1 DEF DavInv, DavTyped, Webdav!Range
  <2>3. gVerge = [creds |-> gCreds, from |-> gFrom] /\ gCreds = gSaves
    BY DEF DavInv, DavFileFits, CredentialsFit
  <2> QED BY <2>1, <2>2, <2>3
<1> QED BY <1>1, DavStarts, DavNext, PTL DEF Webdav!Spec

-----------------------------------------------------------------------------
(* The start at logon.                                                      *)

VARIABLES aTasks, aCall, aCalls
logonVars == <<aTasks, aCall, aCalls>>
Logon == INSTANCE AutoLaunch WITH tasks <- aTasks, call <- aCall, calls <- aCalls

LogonInv == aTasks \subseteq Logon!Modes /\ Logon!StartsOnce
\* A task created or removed, and not, leaves what it says.
LEMMA CreatedIs ==
  ASSUME NEW by, NEW ts, NEW mode, NEW o \in Logon!Created(by, ts, mode)
  PROVE  (o.ok = TRUE /\ o.tasks = ts \cup {mode} /\ Logon!Allowed(by, mode)) \/ (o.ok = FALSE /\ o.tasks = ts)
BY DEF Logon!Created

\* What is left of the tasks when some are removed.
LEMMA EntriesRemovedIs ==
  ASSUME NEW by, NEW ts, NEW mode, NEW o \in Logon!Removed(by, ts, mode)
  PROVE  \/ o.ok = TRUE /\ o.tasks = ts \ {mode}
         \/ o.ok = FALSE /\ o.tasks = ts /\ mode \in ts
BY DEF Logon!Removed

\* An enabling leaves the own task alone, or says that it failed.
LEMMA EnabledIs ==
  ASSUME NEW by \in Logon!Modes, NEW ts \in SUBSET Logon!Modes, NEW o \in Logon!Enabled(by, ts)
  PROVE  /\ o.ok \in BOOLEAN /\ o.tasks \subseteq Logon!Modes
         /\ o.ok => o.tasks = {by}
         /\ ~o.ok => o.tasks \subseteq ts \/ (by = "Admin" /\ o.tasks = Logon!Modes)
<1>1. CASE by = "User" /\ "Admin" \in ts
  <2>1. o = [ok |-> FALSE, tasks |-> ts]
    BY <1>1 DEF Logon!Enabled
  <2> QED BY <1>1, <2>1
<1>2. CASE by = "User" /\ "Admin" \notin ts
  <2>1. o \in Logon!Created(by, ts, by)
    BY <1>2 DEF Logon!Enabled
  <2>2. (o.ok = TRUE /\ o.tasks = ts \cup {by} /\ Logon!Allowed(by, by)) \/ (o.ok = FALSE /\ o.tasks = ts)
    BY <2>1, CreatedIs
  <2> QED BY <1>2, <2>2 DEF Logon!Modes
<1>3. CASE by = "Admin"
  <2>1. PICK c \in Logon!Created(by, ts, by) :
          o \in IF ~c.ok THEN {c}
                ELSE UNION {IF r.ok THEN {r} ELSE {Logon!Failed(b) : b \in Logon!Removed(by, r.tasks, by)}
                              : r \in Logon!Removed(by, c.tasks, "User")}
    BY <1>3 DEF Logon!Enabled
  <2>2. CASE c.ok = FALSE /\ c.tasks = ts
    BY <1>3, <2>1, <2>2
  <2>3. CASE c.ok = TRUE /\ c.tasks = ts \cup {by}
    <3>1. PICK r \in Logon!Removed(by, c.tasks, "User") :
            o \in IF r.ok THEN {r} ELSE {Logon!Failed(b) : b \in Logon!Removed(by, r.tasks, by)}
      BY <2>1, <2>3
    <3>2. CASE r.ok = TRUE /\ r.tasks = c.tasks \ {"User"}
      BY <1>3, <2>3, <3>1, <3>2 DEF Logon!Modes
    <3>3. CASE r.ok = FALSE /\ r.tasks = c.tasks /\ "User" \in c.tasks
      <4>1. PICK b \in Logon!Removed(by, r.tasks, by) : o = Logon!Failed(b)
        BY <3>1, <3>3
      <4>2. o.ok = FALSE /\ o.tasks = b.tasks
        BY <4>1 DEF Logon!Failed
      <4>3. b.tasks = r.tasks \ {by} \/ b.tasks = r.tasks
        <5>1. (b.ok = TRUE /\ b.tasks = r.tasks \ {by}) \/ (b.ok = FALSE /\ b.tasks = r.tasks /\ by \in r.tasks)
          BY EntriesRemovedIs
        <5> QED BY <5>1
      <4> QED BY <1>3, <2>3, <3>3, <4>2, <4>3 DEF Logon!Modes
    <3>4. (r.ok = TRUE /\ r.tasks = c.tasks \ {"User"}) \/ (r.ok = FALSE /\ r.tasks = c.tasks /\ "User" \in c.tasks)
      BY EntriesRemovedIs
    <3> QED BY <3>2, <3>3, <3>4
  <2>4. (c.ok = TRUE /\ c.tasks = ts \cup {by} /\ Logon!Allowed(by, by)) \/ (c.ok = FALSE /\ c.tasks = ts)
    BY CreatedIs
  <2> QED BY <2>2, <2>3, <2>4
<1> QED BY <1>1, <1>2, <1>3 DEF Logon!Modes

\* A disabling leaves no task, or says that it failed, and adds none.
LEMMA DisabledIs ==
  ASSUME NEW by \in Logon!Modes, NEW ts \in SUBSET Logon!Modes, NEW o \in Logon!Disabled(by, ts)
  PROVE  o.ok \in BOOLEAN /\ (o.ok => o.tasks = {}) /\ o.tasks \subseteq ts
<1>1. PICK r \in Logon!Removed(by, ts, "User") :
        o \in IF by = "User"
              THEN {IF r.ok /\ "Admin" \in r.tasks THEN Logon!Failed(r) ELSE r}
              ELSE {[ok |-> r.ok /\ a.ok, tasks |-> a.tasks] : a \in Logon!Removed(by, r.tasks, "Admin")}
  BY DEF Logon!Disabled
<1>2. /\ r.ok \in BOOLEAN /\ r.tasks \subseteq ts
      /\ r.ok => r.tasks = ts \ {"User"}
  <2>1. (r.ok = TRUE /\ r.tasks = ts \ {"User"}) \/ (r.ok = FALSE /\ r.tasks = ts /\ "User" \in ts)
    BY EntriesRemovedIs
  <2> QED BY <2>1
<1>3. CASE by = "User"
  <2>1. o = IF r.ok /\ "Admin" \in r.tasks THEN Logon!Failed(r) ELSE r
    BY <1>1, <1>3
  <2> QED BY <1>2, <2>1 DEF Logon!Failed, Logon!Modes
<1>4. CASE by # "User"
  <2>1. PICK a \in Logon!Removed(by, r.tasks, "Admin") : o = [ok |-> r.ok /\ a.ok, tasks |-> a.tasks]
    BY <1>1, <1>4
  <2>2. a.ok \in BOOLEAN /\ a.tasks \subseteq r.tasks /\ (a.ok => a.tasks = r.tasks \ {"Admin"})
    <3>1. (a.ok = TRUE /\ a.tasks = r.tasks \ {"Admin"}) \/ (a.ok = FALSE /\ a.tasks = r.tasks /\ "Admin" \in r.tasks)
      BY EntriesRemovedIs
    <3> QED BY <3>1
  <2> QED BY <1>2, <2>1, <2>2 DEF Logon!Modes
<1> QED BY <1>3, <1>4

\* A change of the start at logon that succeeds leaves what it was asked for, and one that
\* fails leaves no second task of its own unless what undoes it fails too, so that the
\* application is not started twice; for any number of calls.
THEOREM LogonHolds == Logon!Spec => []Logon!StartsOnce
<1>1. Logon!Init => LogonInv
  BY DEF Logon!Init, LogonInv, Logon!StartsOnce
<1>2. LogonInv /\ [Logon!Next]_(Logon!vars) => LogonInv'
  <2> SUFFICES ASSUME LogonInv, [Logon!Next]_(Logon!vars) PROVE LogonInv'
    OBVIOUS
  <2>1. ASSUME NEW enable \in BOOLEAN, NEW by \in Logon!Modes, Logon!Change(enable, by) PROVE LogonInv'
    <3>1. PICK o \in IF enable THEN Logon!Enabled(by, aTasks) ELSE Logon!Disabled(by, aTasks) :
            aTasks' = o.tasks /\ aCall' = [enable |-> enable, by |-> by, ok |-> o.ok, was |-> aTasks]
      BY <2>1 DEF Logon!Change
    <3>2. /\ o.ok \in BOOLEAN /\ o.tasks \subseteq Logon!Modes
          /\ o.ok => o.tasks = IF enable THEN {by} ELSE {}
          /\ ~o.ok => o.tasks \subseteq aTasks \/ (by = "Admin" /\ o.tasks = Logon!Modes)
      BY <3>1, EnabledIs, DisabledIs DEF LogonInv
    <3>3. aCall'.enable = enable /\ aCall'.by = by /\ aCall'.ok = o.ok /\ aCall'.was = aTasks
      BY <3>1
    <3> QED BY <3>1, <3>2, <3>3 DEF LogonInv, Logon!StartsOnce
  <2>2. CASE UNCHANGED Logon!vars
    BY <2>2 DEF LogonInv, Logon!StartsOnce, Logon!vars
  <2> QED BY <2>1, <2>2 DEF Logon!Next
<1>3. LogonInv => Logon!StartsOnce
  BY DEF LogonInv
<1> QED BY <1>1, <1>2, <1>3, PTL DEF Logon!Spec

-----------------------------------------------------------------------------
(* One process of the application.                                          *)

VARIABLES iAt, iLock, iRecord, iBound, iReady, iHeard, iLinks, iForeign
singleVars == <<iAt, iLock, iRecord, iBound, iReady, iHeard, iLinks, iForeign>>
Single == INSTANCE Singleton WITH at <- iAt, lock <- iLock, record <- iRecord, bound <- iBound,
    ready <- iReady, heard <- iHeard, links <- iLinks, foreign <- iForeign, Ports <- ServerPorts

SingleGiven == Single!Nobody \notin Procs

ASSUME SingleAssumption == SingleGiven

LaunchPlaces == {"none", "trying", "waiting", "failed", "binding", "bound", "primary", "secondary", "closing",
    "ended"}
TakenOver(h, l) == h.by = Single!Foreign \/ (h.ready /\ h.holds /\ l > 0)
\* Whoever is past the check holds the lock, and was told so when it took a launch over.
SingleInv ==
  /\ iAt \in [Procs -> LaunchPlaces] /\ iLinks \in [Procs -> 0..2]
  /\ \A p \in Procs : iAt[p] \in {"binding", "bound", "primary", "closing"} => iLock = p
  /\ DOMAIN iHeard = Procs
  /\ \A p \in Procs : iAt[p] = "secondary" => TakenOver(iHeard[p], iLinks[p])

\* The invariant holds at first.
LEMMA SingleStarts == Single!Init => SingleInv
BY DEF Single!Init, SingleInv, LaunchPlaces

\* Of whoever does not go on as it was: it stays behind the check or holds the lock.
LEMMA SingleGoes ==
  ASSUME SingleInv, NEW p \in Procs, NEW to \in LaunchPlaces, Single!Goes(p, to), UNCHANGED <<iHeard, iLinks>>,
           to # "secondary",
         \A q \in Procs : iAt'[q] \in {"binding", "bound", "primary", "closing"} => iLock' = q
  PROVE  SingleInv'
<1>1. iAt' \in [Procs -> LaunchPlaces] /\ \A q \in Procs : q # p => iAt'[q] = iAt[q]
  BY DEF SingleInv, Single!Goes
<1>2. iAt'[p] = to
  BY DEF SingleInv, Single!Goes
<1> QED BY <1>1, <1>2 DEF SingleInv, TakenOver

\* Every step of a launch keeps the invariant.
LEMMA SingleSteps == ASSUME SingleGiven PROVE SingleInv /\ [Single!Next]_(Single!vars) => SingleInv'
<1> SUFFICES ASSUME SingleInv, [Single!Next]_(Single!vars) PROVE SingleInv'
  OBVIOUS
<1>1. ASSUME NEW p \in Procs, Single!TryLock(p) PROVE SingleInv'
  <2>1. CASE iLock = Single!Nobody
    BY <1>1, <2>1, SingleGoes DEF Single!TryLock, SingleInv, Single!Goes, LaunchPlaces, SingleGiven
  <2>2. CASE iLock # Single!Nobody
    BY <1>1, <2>2, SingleGoes DEF Single!TryLock, SingleInv, Single!Goes, LaunchPlaces
  <2> QED BY <2>1, <2>2
<1>2. ASSUME NEW p \in Procs, Single!Launch(p) \/ Single!GivesUp(p) \/ Single!Bind(p) \/
               Single!Close(p) PROVE SingleInv'
  <2>1. PICK to \in LaunchPlaces : /\ Single!Goes(p, to) /\ to # "secondary" /\ UNCHANGED iLock /\
                                        UNCHANGED iHeard /\ UNCHANGED iLinks
                                   /\ to \in {"bound", "closing"} => iAt[p] \in {"binding", "primary"}
                                   /\ to \notin {"binding", "primary"}
    BY <1>2 DEF Single!Launch, Single!GivesUp, Single!Bind, Single!Close, Single!Serving, LaunchPlaces
  <2>2. \A q \in Procs : iAt'[q] \in {"binding", "bound", "primary", "closing"} => iLock' = q
    <3>1. \A q \in Procs : iAt'[q] = IF q = p THEN to ELSE iAt[q]
      BY <2>1 DEF SingleInv, Single!Goes
    <3> QED BY <2>1, <3>1 DEF SingleInv, LaunchPlaces
  <2> QED BY <2>1, <2>2, SingleGoes
<1>3. ASSUME NEW p \in Procs, Single!Record(p) PROVE SingleInv'
  <2>1. Single!Goes(p, "primary") /\ iLock = p /\ iLock' = p /\ UNCHANGED iHeard /\ UNCHANGED iLinks
    BY <1>3 DEF Single!Record, Single!Holder, SingleInv
  <2> QED BY <2>1, SingleGoes DEF SingleInv, Single!Goes, LaunchPlaces
<1>4. ASSUME NEW p \in Procs, Single!End(p) PROVE SingleInv'
  <2>1. Single!Goes(p, "ended") /\ iLock = p /\ UNCHANGED iHeard /\ UNCHANGED iLinks
    BY <1>4 DEF Single!End, SingleInv
  <2> QED BY <2>1, SingleGoes DEF SingleInv, Single!Goes, LaunchPlaces
<1>5. ASSUME NEW p \in Procs, NEW q \in Procs, Single!Relaunch(p, q) PROVE SingleInv'
  <2>1. Single!Goes(q, "trying") /\ UNCHANGED iLock /\ UNCHANGED iHeard /\ UNCHANGED iLinks
    BY <1>5 DEF Single!Relaunch
  <2> QED BY <2>1, SingleGoes DEF SingleInv, Single!Goes, LaunchPlaces
<1>6. ASSUME NEW p \in Procs, Single!Notify(p) PROVE SingleInv'
  <2>1. iAt[p] = "waiting" /\ UNCHANGED iLock
    BY <1>6 DEF Single!Notify
  <2>2. CASE /\ Single!Goes(p, "secondary") /\ UNCHANGED iLinks
             /\ iHeard' = [iHeard EXCEPT ![p] = [by |-> Single!Foreign, ready |-> FALSE, holds |-> FALSE]]
    <3>1. iHeard'[p].by = Single!Foreign /\ \A q \in Procs : q # p => iHeard'[q] = iHeard[q] /\ iAt'[q] = iAt[q]
      BY <2>2 DEF SingleInv, Single!Goes
    <3> QED BY <2>1, <2>2, <3>1 DEF SingleInv, Single!Goes, LaunchPlaces, TakenOver
  <2>3. ASSUME NEW q \in Procs, Single!Accepts(q, iRecord.token),
               iLinks' = [iLinks EXCEPT ![p] = IF @ = 2 THEN 2 ELSE @ + 1]
        PROVE  /\ iLinks' \in [Procs -> 0..2] /\ iLinks'[p] > 0 /\ iLock = q /\ iReady[q]
               /\ \A r \in Procs : r # p => iLinks'[r] = iLinks[r]
    BY <2>3 DEF SingleInv, Single!Accepts, Single!Serving
  <2>4. ASSUME NEW q \in Procs, Single!Accepts(q, iRecord.token),
               iLinks' = [iLinks EXCEPT ![p] = IF @ = 2 THEN 2 ELSE @ + 1], Single!Goes(p, "secondary"),
               iHeard' = [iHeard EXCEPT ![p] = [by |-> q, ready |-> iReady[q], holds |-> iLock = q]]
        PROVE  SingleInv'
    <3>1. iHeard'[p].ready = iReady[q] /\ iHeard'[p].holds = (iLock = q)
      BY <2>4 DEF SingleInv
    <3>2. \A r \in Procs : r # p => iHeard'[r] = iHeard[r] /\ iAt'[r] = iAt[r]
      BY <2>4 DEF SingleInv, Single!Goes
    <3>3. TakenOver(iHeard'[p], iLinks'[p])
      BY <2>3, <2>4, <3>1 DEF TakenOver
    <3>4. iAt' \in [Procs -> LaunchPlaces] /\ iAt'[p] = "secondary" /\ DOMAIN iHeard' = Procs
      BY <2>4 DEF SingleInv, Single!Goes, LaunchPlaces
    <3>5. \A r \in Procs : iAt'[r] = "secondary" => TakenOver(iHeard'[r], iLinks'[r])
      BY <2>3, <2>4, <3>2, <3>3 DEF SingleInv
    <3> QED BY <2>1, <2>3, <2>4, <3>2, <3>4, <3>5 DEF SingleInv
  <2>5. ASSUME NEW q \in Procs, Single!Accepts(q, iRecord.token),
               iLinks' = [iLinks EXCEPT ![p] = IF @ = 2 THEN 2 ELSE @ + 1], UNCHANGED iAt, UNCHANGED iHeard
        PROVE  SingleInv'
    BY <2>1, <2>3, <2>5 DEF SingleInv
  <2> QED BY <1>6, <2>2, <2>4, <2>5 DEF Single!Notify
<1>7. CASE UNCHANGED <<iAt, iLock, iHeard, iLinks>>
  BY <1>7 DEF SingleInv
<1>8. ASSUME NEW p \in Procs, Single!Ready(p) PROVE UNCHANGED <<iAt, iLock, iHeard, iLinks>>
  BY <1>8 DEF Single!Ready
<1>9. Single!TakePort \/ UNCHANGED Single!vars => UNCHANGED <<iAt, iLock, iHeard, iLinks>>
  BY DEF Single!TakePort, Single!vars
<1> QED BY <1>1, <1>2, <1>3, <1>4, <1>5, <1>6, <1>7, <1>8, <1>9 DEF Single!Next

\* No two processes are past the check, and a launch that ended because another serves was
\* taken over by one that served, was ready and held the lock, or by a foreign program at the
\* port; for every set of launches and ports.
THEOREM SingleHolds == ASSUME SingleGiven PROVE Single!Spec => []Single!OneInstance
<1>1. Single!Init => SingleInv
  BY SingleStarts
<1>2. SingleInv /\ [Single!Next]_(Single!vars) => SingleInv'
  BY SingleSteps
<1>3. SingleInv => Single!OneInstance
  BY DEF SingleInv, Single!OneInstance, Single!Live, TakenOver
<1> QED BY <1>1, <1>2, <1>3, PTL DEF Single!Spec

-----------------------------------------------------------------------------
(* Parts that are proved in a module of their own, and the others.          *)

AnyOf(S) == CHOOSE x \in S : TRUE

\* The settings of the system proxy that each platform starts from.
Wants(s, p, g) == [sys |-> s, pac |-> p, guard |-> g]
NoProxy == Wants(FALSE, FALSE, TRUE)
SomeSettings == [macos   |-> {NoProxy, Wants(TRUE, FALSE, TRUE)},
                 linux   |-> {NoProxy, Wants(TRUE, FALSE, FALSE)},
                 windows |-> {Wants(TRUE, TRUE, TRUE)}]

\* Configurations of profiles and of the application, and what is written over them.
ProfileConfigs ==
  {("mode" :> "script") @@ ("Socks-Port" :> "7") @@ ("dns.mode" :> "redir-host"),
   ("socks-port" :> "7") @@ ("ipv6" :> "on") @@ ("dns.range6" :> "") @@ ("bind-address" :> "loopback")}
AppConfigs ==
  {("secret" :> "s") @@ ("socks-port" :> "1") @@ ("external-controller" :> "c") @@ ("tun.stack" :> "mixed"),
   ("allow-lan" :> "on") @@ ("ipv6" :> "off")}
DnsPages == {("dns.ipv6" :> "on")}
SwitchesOn == {{}, {"socks", "builtin"}, {"tun", "controller"}, {"dns", "builtin"}, {"tun", "dns", "builtin"}}
UserWrites ==
  {("secret" :> "w") @@ ("free" :> "w") @@ ("socks-port" :> "9"),
   ("tun.enable" :> "off") @@ ("free" :> "v") @@ ("mode" :> "script"),
   ("dns.ipv6" :> "off") @@ ("bind-address" :> "loopback")}

\* Lists of profiles, and edits of them.
Node(n) == [name |-> n]
Members(n, t, ps, us) == [name |-> n, type |-> t, proxies |-> ps, use |-> us]
NoNames == <<"no list">>
Edit(p, a, d) == [prepend |-> p, append |-> a, delete |-> d]
ListBases ==
  {[rules |-> <<"r1", "r2">>, proxies |-> <<Node("a"), Node("b")>>, providers |-> {"p"},
    groups |-> <<Members("auto", "url-test", <<"a", "b">>, NoNames),
                 Members("G", "select", <<"a", "auto", "DIRECT">>, NoNames),
                 Members("H", "select", <<"b">>, <<"p", "q">>)>>],
   [rules |-> <<"r1">>, proxies |-> <<Node("a")>>, providers |-> {},
    groups |-> <<Members("G", "select", NoNames, <<"q">>),
                 Members("H", "selector", <<"a", "lost", "G">>, <<"q">>)>>]}
EditsOfRules == {Edit(<< >>, << >>, {}), Edit(<<"r0">>, <<"r9">>, {"r1"})}
EditsOfProxies ==
  {Edit(p, a, d) : p \in {<< >>, <<Node("n")>>}, a \in {<< >>, <<Node("n")>>, <<Node("a")>>},
                   d \in {{}, {"a"}, {"b", "auto"}}}
EditsOfGroups ==
  {Edit(p, a, d) : p \in {<< >>, <<Members("N", "select", <<"a", "n">>, NoNames)>>},
                   a \in {<< >>, <<Members("O", "select", <<"H", "zz">>, <<"p">>)>>},
                   d \in {{}, {"H"}, {"G", "auto"}}}

VARIABLES xPlatform, xVerge, xPatch, xMode, xSession, xLost, xNet, xReapply, xOs, xGen, xOpLock,
          xLocal, xLoops, xCall, xPromise, xWriter, xFailures, xCalls, xPatches
proxyVars == <<xPlatform, xVerge, xPatch, xMode, xSession, xLost, xNet, xReapply, xOs, xGen,
      xOpLock, xLocal, xLoops, xCall, xPromise, xWriter, xFailures, xCalls, xPatches>>
Proxy == INSTANCE ProxyGuardProofs WITH platform <- xPlatform, verge <- xVerge, patch <- xPatch,
    mode <- xMode, session <- xSession, lost <- xLost, net <- xNet, reapply <- xReapply,
    os <- xOs, gen <- xGen, opLock <- xOpLock, local <- xLocal, loops <- xLoops, call <- xCall,
    promise <- xPromise, writer <- xWriter, failures <- xFailures, calls <- xCalls,
    patches <- xPatches, Platforms <- {"macos", "linux", "windows"}, Settings <- SomeSettings,
    MaxCalls <- 3, MaxPatches <- 1, MaxFails <- 1

VARIABLES sData, sDraft, sDisk, sPermit, sSwitching, sPlock, sFlag, sRuntime, sCore, sSavers,
          sOp, sLeft, sExcused
switchVars == <<sData, sDraft, sDisk, sPermit, sSwitching, sPlock, sFlag, sRuntime, sCore,
      sSavers, sOp, sLeft, sExcused>>
Switch == INSTANCE ProfileSwitchProofs WITH data <- sData, draft <- sDraft, disk <- sDisk,
    permit <- sPermit, switching <- sSwitching, plock <- sPlock, flag <- sFlag,
    runtime <- sRuntime, core <- sCore, savers <- sSavers, op <- sOp, left <- sLeft,
    excused <- sExcused, Callers <- {"c1", "c2"}, Uids <- <<"a", "b">>, Imported <- "n",
    MaxOps <- 3, Kinds <- {"switch", "delete", "import", "update", "patch", "enhance"}

VARIABLES hProfile, hApp, hPage, hSwitch, hConfig, hTodo, hOwned, hNotes, hWritten, hDiscarded
enhanceVars == <<hProfile, hApp, hPage, hSwitch, hConfig, hTodo, hOwned, hNotes, hWritten,
      hDiscarded>>
Result == INSTANCE Enhance WITH profile <- hProfile, app <- hApp, page <- hPage,
    switch <- hSwitch, config <- hConfig, todo <- hTodo, owned <- hOwned, notes <- hNotes,
    written <- hWritten, discarded <- hDiscarded, Profiles <- ProfileConfigs,
    Apps <- AppConfigs, Pages <- DnsPages, Switches <- SwitchesOn, Writes <- UserWrites,
    Removals <- {"secret", "tun.enable"}, MaxWrites <- 2

VARIABLES mBase, mConfig, mEdits, mTodo
listsVars == <<mBase, mConfig, mEdits, mTodo>>
List == INSTANCE SeqEdit WITH base <- mBase, config <- mConfig, edits <- mEdits, todo <- mTodo,
    Bases <- ListBases, RuleEdits <- EditsOfRules, ProxyEdits <- EditsOfProxies,
    GroupEdits <- EditsOfGroups

VARIABLES qLinks, qChain
chainVars == <<qLinks, qChain>>
Chain == INSTANCE ProxyChain WITH links <- qLinks, chain <- qChain, Proxies <- {"a", "b", "c"},
    Names <- {"a", "b", "c", "x"}, MaxLength <- 3

-----------------------------------------------------------------------------
(* The whole.                                                               *)

VARIABLE part
allVars == <<part, upgradeVars, updaterVars, keyboardVars, syncVars, watchVars, patchVars,
      backupVars, trayVars, speedVars, lightVars, webdavVars, logonVars, singleVars, bundleVars,
      updateVars, selectionVars, portsVars, probeVars, dnsVars, proxyVars, switchVars,
      enhanceVars, listsVars, chainVars>>
Init ==
  /\ part \in {"upgrade", "updater", "keyboard", "sync", "watch", "patch", "backup", "tray",
        "speed", "light", "webdav", "logon", "single", "bundle", "update", "selection", "ports",
        "probe", "dns", "proxy", "switch", "enhance", "lists", "chain"}
  /\ Upgrade!Init /\ (part # "upgrade" => ~cWindows /\ cFile["core"] = 1 /\ cMode = "Service")
  /\ Updater!Init /\ (part # "updater" => vDisk = AnyOf(VersionsBefore))
  /\ Keyboard!Init /\ (part # "keyboard" => kConfig.global /\ kConfig.list = Keyboard!Nothing /\ kDoubt = {})
  /\ Sync!Init
  /\ Watch!Init
  /\ Patch!Init /\ (part # "patch" => ~dLinux)
  /\ Backup!Init
  /\ Tray!Init /\ (part # "tray" => tMode = "rule" /\ tDisplay = "default")
  /\ Speed!Init
  /\ Light!Init /\ (part # "light" => ~oAuto)
  /\ Webdav!Init
  /\ Logon!Init /\ (part # "logon" => aTasks = {})
  /\ Single!Init
  /\ Bundle!Init
  /\ Update!Init /\ <<zKind, zExt, zInUse, zCore.mode, zFile, zData>> \in SavedItems /\ (part # "update" => zInUse)
  /\ Selection!Init /\ <<lCurrent, lRecords>> \in SavedSelections
  /\ Port!Init /\ (part # "ports" => pFile["verge"] = 1)
  /\ Probe!Init /\ (part # "probe" => bPlatform = "linux")
  /\ Dns!Init /\ nSource \in SavedSources
  /\ Proxy!Init /\ (part # "proxy" => xPlatform = "macos" /\ xVerge = NoProxy)
  /\ Switch!Init
  /\ Result!Init /\ (part # "enhance" => hProfile = AnyOf(ProfileConfigs) /\ hApp = AnyOf(AppConfigs) /\ hSwitch = {})
  /\ List!Init /\ (part # "lists" => mBase = AnyOf(ListBases) /\ mEdits = AnyOf(List!AllEdits))
  /\ Chain!Init /\ (part # "chain" => qLinks = Chain!NoLinks)

\* The parts that a behaviour is not of stay as they are.
Rest ==
  /\ UNCHANGED part
  /\ IF part = "upgrade" THEN TRUE ELSE UNCHANGED upgradeVars
  /\ IF part = "updater" THEN TRUE ELSE UNCHANGED updaterVars
  /\ IF part = "keyboard" THEN TRUE ELSE UNCHANGED keyboardVars
  /\ IF part = "sync" THEN TRUE ELSE UNCHANGED syncVars
  /\ IF part = "watch" THEN TRUE ELSE UNCHANGED watchVars
  /\ IF part = "patch" THEN TRUE ELSE UNCHANGED patchVars
  /\ IF part = "backup" THEN TRUE ELSE UNCHANGED backupVars
  /\ IF part = "tray" THEN TRUE ELSE UNCHANGED trayVars
  /\ IF part = "speed" THEN TRUE ELSE UNCHANGED speedVars
  /\ IF part = "light" THEN TRUE ELSE UNCHANGED lightVars
  /\ IF part = "webdav" THEN TRUE ELSE UNCHANGED webdavVars
  /\ IF part = "logon" THEN TRUE ELSE UNCHANGED logonVars
  /\ IF part = "single" THEN TRUE ELSE UNCHANGED singleVars
  /\ IF part = "bundle" THEN TRUE ELSE UNCHANGED bundleVars
  /\ IF part = "update" THEN TRUE ELSE UNCHANGED updateVars
  /\ IF part = "selection" THEN TRUE ELSE UNCHANGED selectionVars
  /\ IF part = "ports" THEN TRUE ELSE UNCHANGED portsVars
  /\ IF part = "probe" THEN TRUE ELSE UNCHANGED probeVars
  /\ IF part = "dns" THEN TRUE ELSE UNCHANGED dnsVars
  /\ IF part = "proxy" THEN TRUE ELSE UNCHANGED proxyVars
  /\ IF part = "switch" THEN TRUE ELSE UNCHANGED switchVars
  /\ IF part = "enhance" THEN TRUE ELSE UNCHANGED enhanceVars
  /\ IF part = "lists" THEN TRUE ELSE UNCHANGED listsVars
  /\ IF part = "chain" THEN TRUE ELSE UNCHANGED chainVars
Next ==
  \/ part = "upgrade" /\ Rest /\ Upgrade!Next
  \/ part = "updater" /\ Rest /\ Updater!Next
  \/ part = "keyboard" /\ Rest /\ Keyboard!Next
  \/ part = "sync" /\ Rest /\ Sync!Next
  \/ part = "watch" /\ Rest /\ Watch!Next
  \/ part = "patch" /\ Rest /\ Patch!Next
  \/ part = "backup" /\ Rest /\ Backup!Next
  \/ part = "tray" /\ Rest /\ Tray!Next
  \/ part = "speed" /\ Rest /\ Speed!Next
  \/ part = "light" /\ Rest /\ Light!Next
  \/ part = "webdav" /\ Rest /\ Webdav!Next
  \/ part = "logon" /\ Rest /\ Logon!Next
  \/ part = "single" /\ Rest /\ Single!Next
  \/ part = "bundle" /\ Rest /\ Bundle!Next
  \/ part = "update" /\ Rest /\ Update!Next
  \/ part = "selection" /\ Rest /\ Selection!Next
  \/ part = "ports" /\ Rest /\ Port!Next
  \/ part = "probe" /\ Rest /\ Probe!Next
  \/ part = "dns" /\ Rest /\ Dns!Next
  \/ part = "proxy" /\ Rest /\ Proxy!Next
  \/ part = "switch" /\ Rest /\ Switch!Next
  \/ part = "enhance" /\ Rest /\ Result!Next
  \/ part = "lists" /\ Rest /\ List!Next
  \/ part = "chain" /\ Rest /\ Chain!Next
Spec == Init /\ [][Next]_allVars

\* The system has the proxy of the last setting, and no guard that was stopped writes again.
ProxyFollows == part = "proxy" => Proxy!LastWriteStands /\ Proxy!StoppedMeansStopped
\* Between operations the file, the records and the core agree on the ports; a probe of a
\* port answers what the port is.
PortsFollow == (part = "ports" => Port!SettledPorts) /\ (part = "probe" => Probe!AnswerIsTrue)
\* The core runs the current profile, and profiles.yaml says what the data say.
ProfilesAgree == part = "switch" => Switch!CoreRunsCurrent /\ Switch!FileFollowsData
\* What the user has chosen stands: a node, in the core and on the disk; the DNS page over a
\* provider, only where it was confirmed.
ChoicesStand == (part = "selection" => Selection!SelectionStands /\ Selection!ChoiceIsRecorded) /\ (part = "dns" => Dns!OverrideFollows)
\* A runtime file is published as a whole; providers of one source share a file, those of
\* two do not.
ProvidersWhole == (part = "sync" => Sync!PublishedWhole) /\ (part = "bundle" => Bundle!SourcesKeptApart)
\* A core is given up only for a loss that lasted.
GivenUpForCause == part = "watch" => Watch!GivenUpForCause
\* No upgrade, however it ends, loses the core or fools the next one; what is installed is
\* what was offered, and newer.
UpdatesHold == (part = "upgrade" => Upgrade!UpgradeKeepsCore) /\ (part = "updater" => Updater!UpdateIsTheOffered)
\* The desktop has the shortcuts of the configuration, starts the application once at logon,
\* has one process of it that serves and that launches are handed to, and a timer of
\* lightweight mode only where the focus can cancel it.
DesktopFollows == (part = "keyboard" => Keyboard!HotkeysFollow) /\ (part = "logon" => Logon!StartsOnce) /\ (part = "single" => Single!OneInstance) /\ (part = "light" => Light!SleeperCanBeCancelled)
\* What the settings drive acts on what was committed.
SettingsAct == part = "patch" => Patch!SettingsAct
\* The menu of the tray shows and does what it says, and its speed reads one stream.
TrayFollows == (part = "tray" => Tray!TrayFollows) /\ (part = "speed" => Speed!OneStream)
\* Backups are spaced and kept; those of a server, and what is restored from them, keep the
\* credentials.
BackupsHold == (part = "backup" => Backup!BackupsKept) /\ (part = "webdav" => Webdav!CredentialsStand)
\* The configuration of the core is what settings, profile and edits say, in their order,
\* and a chain of proxies is read as it was set.
ResultFollows == (part = "enhance" => Result!ResultFollows) /\ (part = "lists" => List!ListsFollow) /\ (part = "chain" => Chain!ChainReads)
\* Only what was checked is put in the core, an update that fails leaves no trace, and a
\* file that was refused is put back.
ConfigStands == part = "update" => Update!ConfigStands

-----------------------------------------------------------------------------
(* What is proved of the whole.                                             *)

\* The system proxy takes its own steps and no others.
LEMMA ProxySteps == Init /\ [][Next]_allVars => Proxy!Spec
<1>1. Init => Proxy!Init
  BY DEF Init
<1>2. [Next]_allVars => [Proxy!Next]_(Proxy!vars)
  BY DEF Next, Rest, allVars, proxyVars, Proxy!vars
<1> QED BY <1>1, <1>2, PTL DEF Proxy!Spec

\* The system has the proxy of the last setting, no guard that was stopped writes again, and
\* none that works is said to have stopped.
THEOREM ProxyIsFollowed == Spec => []ProxyFollows
<1>1. Spec => Proxy!Spec
  BY ProxySteps DEF Spec
<1>2. Proxy!LastWriteStands /\ Proxy!StoppedMeansStopped => ProxyFollows
  BY DEF ProxyFollows
<1>3. Proxy!Spec => []Proxy!LastWriteStands
  BY Proxy!LastStands
<1>4. Proxy!Spec => []Proxy!StoppedMeansStopped
  BY Proxy!StoppedIsStopped
<1> QED BY <1>1, <1>2, <1>3, <1>4, PTL

\* The profiles take their own steps and no others.
LEMMA SwitchSteps == Init /\ [][Next]_allVars => Switch!Spec
<1>1. Init => Switch!Init
  BY DEF Init
<1>2. [Next]_allVars => [Switch!Next]_(Switch!vars)
  BY DEF Next, Rest, allVars, switchVars, Switch!vars
<1> QED BY <1>1, <1>2, PTL DEF Switch!Spec

\* What is proved of the profiles is proved of these: profiles and callers have names of
\* their own.
LEMMA SwitchGiven == Switch!Given
<1>1. Switch!Members(<<"a", "b">>) = {"a", "b"}
  <2>1. DOMAIN <<"a", "b">> = {1, 2} /\ <<"a", "b">>[1] = "a" /\ <<"a", "b">>[2] = "b"
    OBVIOUS
  <2> QED BY <2>1 DEF Switch!Members
<1>2. <<"a", "b">> \in Seq({"a", "b"}) /\ <<"a", "b">> # << >>
  OBVIOUS
<1> QED BY <1>1, <1>2 DEF Switch!Given, Switch!Nobody, Switch!NoDraft

\* When nothing is under way the core runs the current profile, and the file holds the
\* profiles of memory.
THEOREM ProfilesStayAgreed == Spec => []ProfilesAgree
<1>1. Spec => Switch!Spec
  BY SwitchSteps DEF Spec
<1>2. Switch!CoreRunsCurrent /\ Switch!FileFollowsData => ProfilesAgree
  BY DEF ProfilesAgree
<1>3. Switch!Spec => []Switch!CoreRunsCurrent
  BY SwitchGiven, Switch!RunsCurrent
<1>4. Switch!Spec => []Switch!FileFollowsData
  BY SwitchGiven, Switch!FileFollows
<1> QED BY <1>1, <1>2, <1>3, <1>4, PTL


\* An upgrade takes its own steps and no others.
LEMMA UpgradeBehaves == Init /\ [][Next]_allVars => Upgrade!Spec
<1>1. Init => Upgrade!Init
  BY DEF Init
<1>2. [Next]_allVars => [Upgrade!Next]_(Upgrade!vars)
  BY DEF Next, Rest, allVars, upgradeVars, Upgrade!vars
<1> QED BY <1>1, <1>2, PTL DEF Upgrade!Spec

\* The updates of the application take their own steps and no others.
LEMMA UpdaterBehaves == Init /\ [][Next]_allVars => Updater!Spec
<1>1. Init => Updater!Init
  BY DEF Init
<1>2. [Next]_allVars => [Updater!Next]_(Updater!vars)
  BY DEF Next, Rest, allVars, updaterVars, Updater!vars
<1> QED BY <1>1, <1>2, PTL DEF Updater!Spec

\* The shortcuts take their own steps and no others.
LEMMA KeyboardBehaves == Init /\ [][Next]_allVars => Keyboard!Spec
<1>1. Init => Keyboard!Init
  BY DEF Init
<1>2. [Next]_allVars => [Keyboard!Next]_(Keyboard!vars)
  BY DEF Next, Rest, allVars, keyboardVars, Keyboard!vars
<1> QED BY <1>1, <1>2, PTL DEF Keyboard!Spec

\* The synchronisation takes its own steps and no others.
LEMMA SyncBehaves == Init /\ [][Next]_allVars => Sync!Spec
<1>1. Init => Sync!Init
  BY DEF Init
<1>2. [Next]_allVars => [Sync!Next]_(Sync!vars)
  BY DEF Next, Rest, allVars, syncVars, Sync!vars, Sync!core
<1> QED BY <1>1, <1>2, PTL DEF Sync!Spec

\* The monitor takes its own steps and no others.
LEMMA WatchBehaves == Init /\ [][Next]_allVars => Watch!Spec
<1>1. Init => Watch!Init
  BY DEF Init
<1>2. [Next]_allVars => [Watch!Next]_(Watch!vars)
  BY DEF Next, Rest, allVars, watchVars, Watch!vars
<1> QED BY <1>1, <1>2, PTL DEF Watch!Spec

\* The patches take their own steps and no others.
LEMMA PatchBehaves == Init /\ [][Next]_allVars => Patch!Spec
<1>1. Init => Patch!Init
  BY DEF Init
<1>2. [Next]_allVars => [Patch!Next]_(Patch!vars)
  BY DEF Next, Rest, allVars, patchVars, Patch!vars
<1> QED BY <1>1, <1>2, PTL DEF Patch!Spec

\* The backups take their own steps and no others.
LEMMA BackupBehaves == Init /\ [][Next]_allVars => Backup!Spec
<1>1. Init => Backup!Init
  BY DEF Init
<1>2. [Next]_allVars => [Backup!Next]_(Backup!vars)
  BY DEF Next, Rest, allVars, backupVars, Backup!vars
<1> QED BY <1>1, <1>2, PTL DEF Backup!Spec

\* The menu takes its own steps and no others.
LEMMA TrayBehaves == Init /\ [][Next]_allVars => Tray!Spec
<1>1. Init => Tray!Init
  BY DEF Init
<1>2. [Next]_allVars => [Tray!Next]_(Tray!vars)
  BY DEF Next, Rest, allVars, trayVars, Tray!vars
<1> QED BY <1>1, <1>2, PTL DEF Tray!Spec

\* The reading of the speed takes its own steps and no others.
LEMMA SpeedBehaves == Init /\ [][Next]_allVars => Speed!Spec
<1>1. Init => Speed!Init
  BY DEF Init
<1>2. [Next]_allVars => [Speed!Next]_(Speed!vars)
  BY DEF Next, Rest, allVars, speedVars, Speed!vars
<1> QED BY <1>1, <1>2, PTL DEF Speed!Spec

\* Lightweight mode takes its own steps and no others.
LEMMA LightBehaves == Init /\ [][Next]_allVars => Light!Spec
<1>1. Init => Light!Init
  BY DEF Init
<1>2. [Next]_allVars => [Light!Next]_(Light!vars)
  BY DEF Next, Rest, allVars, lightVars, Light!vars
<1> QED BY <1>1, <1>2, PTL DEF Light!Spec

\* The operations on the server take their own steps and no others.
LEMMA WebdavBehaves == Init /\ [][Next]_allVars => Webdav!Spec
<1>1. Init => Webdav!Init
  BY DEF Init
<1>2. [Next]_allVars => [Webdav!Next]_(Webdav!vars)
  BY DEF Next, Rest, allVars, webdavVars, Webdav!vars
<1> QED BY <1>1, <1>2, PTL DEF Webdav!Spec

\* The start at logon takes its own steps and no others.
LEMMA LogonBehaves == Init /\ [][Next]_allVars => Logon!Spec
<1>1. Init => Logon!Init
  BY DEF Init
<1>2. [Next]_allVars => [Logon!Next]_(Logon!vars)
  BY DEF Next, Rest, allVars, logonVars, Logon!vars
<1> QED BY <1>1, <1>2, PTL DEF Logon!Spec

\* The launches take their own steps and no others.
LEMMA SingleBehaves == Init /\ [][Next]_allVars => Single!Spec
<1>1. Init => Single!Init
  BY DEF Init
<1>2. [Next]_allVars => [Single!Next]_(Single!vars)
  BY DEF Next, Rest, allVars, singleVars, Single!vars
<1> QED BY <1>1, <1>2, PTL DEF Single!Spec

\* A bundle takes its own steps and no others.
LEMMA BundleBehaves == Init /\ [][Next]_allVars => Bundle!Spec
<1>1. Init => Bundle!Init
  BY DEF Init
<1>2. [Next]_allVars => [Bundle!Next]_(Bundle!vars)
  BY DEF Next, Rest, allVars, bundleVars, Bundle!vars
<1> QED BY <1>1, <1>2, PTL DEF Bundle!Spec

\* An update of the configuration takes its own steps and no others.
LEMMA UpdateBehaves == Init /\ [][Next]_allVars => Update!Spec
<1>1. Init => Update!Init
  BY DEF Init
<1>2. [Next]_allVars => [Update!Next]_(Update!vars)
  BY DEF Next, Rest, allVars, updateVars, Update!vars, Update!Item
<1> QED BY <1>1, <1>2, PTL DEF Update!Spec

\* The selections take their own steps and no others.
LEMMA SelectionBehaves == Init /\ [][Next]_allVars => Selection!Spec
<1>1. Init => Selection!Init
  BY DEF Init
<1>2. [Next]_allVars => [Selection!Next]_(Selection!vars)
  BY DEF Next, Rest, allVars, selectionVars, Selection!vars
<1> QED BY <1>1, <1>2, PTL DEF Selection!Spec

\* A behaviour of the whole is one of the mixed port.
LEMMA PortBehaves == Init /\ [][Next]_allVars => Port!Spec
<1>1. Init => Port!Init
  BY DEF Init
<1>2. [Next]_allVars => [Port!Next]_(Port!vars)
  BY DEF Next, Rest, allVars, portsVars, Port!vars, Port!layers, Port!serving
<1> QED BY <1>1, <1>2, PTL DEF Port!Spec

\* A behaviour of the whole is one of the probe.
LEMMA ProbeBehaves == Init /\ [][Next]_allVars => Probe!Spec
<1>1. Init => Probe!Init
  BY DEF Init
<1>2. [Next]_allVars => [Probe!Next]_(Probe!vars)
  BY DEF Next, Rest, allVars, probeVars, Probe!vars
<1> QED BY <1>1, <1>2, PTL DEF Probe!Spec

\* The override of the DNS takes its own steps and no others.
LEMMA DnsBehaves == Init /\ [][Next]_allVars => Dns!Spec
<1>1. Init => Dns!Init
  BY DEF Init
<1>2. [Next]_allVars => [Dns!Next]_(Dns!vars)
  BY DEF Next, Rest, allVars, dnsVars, Dns!vars
<1> QED BY <1>1, <1>2, PTL DEF Dns!Spec

\* Only what was checked is put in the core, an update that fails leaves no trace, and a
\* file that was refused is put back.
THEOREM ConfigurationStands == Spec => []ConfigStands
<1>1. Spec => []Update!ConfigStands
  BY UpdateBehaves, UpdateHolds, UpdateAssumption, PTL DEF Spec
<1>2. Update!ConfigStands => ConfigStands
  BY DEF ConfigStands
<1> QED BY <1>1, <1>2, PTL

\* With nothing under way the core serves the port that the system proxy is set to and that
\* the settings name, however startups, changes of the port and crashes went; a probe that says
\* a port is free is right, and so is one that says it is not.
THEOREM PortsAreFollowed == Spec => []PortsFollow
<1>1. Spec => []Port!SettledPorts
  BY PortBehaves, PortHolds, PTL DEF Spec
<1>2. Spec => []Probe!AnswerIsTrue
  BY ProbeBehaves, ProbeHolds, ProbeAssumption, PTL DEF Spec
<1>3. Port!SettledPorts /\ Probe!AnswerIsTrue => PortsFollow
  BY DEF PortsFollow
<1> QED BY <1>1, <1>2, <1>3, PTL

\* What the user has chosen stands, whatever restores nodes, loads groups, switches profiles
\* or makes configurations at once: a node, in the core and in its record; the DNS page over a
\* provider, only where that was confirmed.
THEOREM ChoicesAreKept == Spec => []ChoicesStand
<1>1. Spec => []Selection!SelectionStands
  BY SelectionBehaves, SelectionHolds, SelectionAssumption, PTL DEF Spec
<1>2. Spec => []Selection!ChoiceIsRecorded
  BY SelectionBehaves, SelectionHolds, SelectionAssumption, PTL DEF Spec
<1>3. Spec => []Dns!OverrideFollows
  BY DnsBehaves, DnsHolds, DnsAssumption, PTL DEF Spec
<1>4. Selection!SelectionStands /\ Selection!ChoiceIsRecorded /\ Dns!OverrideFollows => ChoicesStand
  BY DEF ChoicesStand
<1> QED BY <1>1, <1>2, <1>3, <1>4, PTL

\* The menu of the tray shows the choice that was made last and does what its items say, and
\* its speed reads one stream, in whatever order menus are read and set and the speed is
\* stopped.
THEOREM TrayIsFollowed == Spec => []TrayFollows
<1>1. Spec => []Tray!TrayFollows
  BY TrayBehaves, TrayHolds, TrayAssumption, PTL DEF Spec
<1>2. Spec => []Speed!OneStream
  BY SpeedBehaves, SpeedHolds, SpeedAssumption, PTL DEF Spec
<1>3. Tray!TrayFollows /\ Speed!OneStream => TrayFollows
  BY DEF TrayFollows
<1> QED BY <1>1, <1>2, <1>3, PTL

\* Backups are spaced and kept, and the credentials of their server outlive what is saved,
\* used and restored at once.
THEOREM BackupsAreHeld == Spec => []BackupsHold
<1>1. Spec => []Backup!BackupsKept
  BY BackupBehaves, BackupHolds, BackupAssumption, PTL DEF Spec
<1>2. Spec => []Webdav!CredentialsStand
  BY WebdavBehaves, WebdavHolds, WebdavAssumption, PTL DEF Spec
<1>3. Backup!BackupsKept /\ Webdav!CredentialsStand => BackupsHold
  BY DEF BackupsHold
<1> QED BY <1>1, <1>2, <1>3, PTL

\* What a setting drives acts on the committed value once no patch is under way, in whatever
\* order settings were patched and the tray was refreshed, where nothing failed or overtook it.
THEOREM SettingsTakeEffect == Spec => []SettingsAct
<1>1. Spec => []Patch!SettingsAct
  BY PatchBehaves, PatchHolds, PatchAssumption, PTL DEF Spec
<1>2. Patch!SettingsAct => SettingsAct
  BY DEF SettingsAct
<1> QED BY <1>1, <1>2, PTL

\* A helper is given up for a cause, whatever was heard of it and in whatever order, and
\* when there is one.
THEOREM OwnerIsGivenUpForCause == Spec => []GivenUpForCause
<1>1. Spec => []Watch!GivenUpForCause
  BY WatchBehaves, WatchHolds, WatchAssumption, PTL DEF Spec
<1>2. Watch!GivenUpForCause => GivenUpForCause
  BY DEF GivenUpForCause
<1> QED BY <1>1, <1>2, PTL

\* No upgrade, however it ends, loses the core or fools the next one; what is installed is
\* what was offered, and newer.
THEOREM UpdatesAreHeld == Spec => []UpdatesHold
<1>1. Spec => []Upgrade!UpgradeKeepsCore
  BY UpgradeBehaves, UpgradeHolds, PTL DEF Spec
<1>2. Spec => []Updater!UpdateIsTheOffered
  BY UpdaterBehaves, UpdaterHolds, UpdaterAssumption, PTL DEF Spec
<1>3. Upgrade!UpgradeKeepsCore /\ Updater!UpdateIsTheOffered => UpdatesHold
  BY DEF UpdatesHold
<1> QED BY <1>1, <1>2, <1>3, PTL

\* The desktop has the shortcuts of the configuration, starts the application once at logon,
\* has one process of it that serves and that launches are handed to, and no timer of
\* lightweight mode that the focus cannot cancel.
THEOREM DesktopIsFollowed == Spec => []DesktopFollows
<1>1. Spec => []Keyboard!HotkeysFollow
  BY KeyboardBehaves, KeyboardHolds, KeyboardAssumption, PTL DEF Spec
<1>2. Spec => []Logon!StartsOnce
  BY LogonBehaves, LogonHolds, PTL DEF Spec
<1>3. Spec => []Single!OneInstance
  BY SingleBehaves, SingleHolds, SingleAssumption, PTL DEF Spec
<1>4. Spec => []Light!SleeperCanBeCancelled
  BY LightBehaves, LightHolds, PTL DEF Spec
<1>5. Keyboard!HotkeysFollow /\ Logon!StartsOnce /\ Single!OneInstance /\ Light!SleeperCanBeCancelled => DesktopFollows
  BY DEF DesktopFollows
<1> QED BY <1>1, <1>2, <1>3, <1>4, <1>5, PTL

\* A runtime file is published as a whole; providers of one source share a file, those of
\* two do not.
THEOREM ProvidersAreWhole == Spec => []ProvidersWhole
<1>1. Spec => []Sync!PublishedWhole
  BY SyncBehaves, SyncHolds, SyncAssumption, PTL DEF Spec
<1>2. Spec => []Bundle!SourcesKeptApart
  BY BundleBehaves, BundleHolds, PTL DEF Spec
<1>3. Sync!PublishedWhole /\ Bundle!SourcesKeptApart => ProvidersWhole
  BY DEF ProvidersWhole
<1> QED BY <1>1, <1>2, <1>3, PTL
===============================================================================
