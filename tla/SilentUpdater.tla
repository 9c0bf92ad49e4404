---------------------------- MODULE SilentUpdater ----------------------------
(***************************************************************************)
(* The update of the application itself (core/updater.rs): an update is       *)
(* downloaded while the application runs, kept in two files, offered at the   *)
(* next start and installed from there.                                       *)
(***************************************************************************)
EXTENDS Naturals, Sequences

CONSTANTS Current,    \* the versions the application may be of at first
          Releases,   \* the versions released in turn; the first is out
          MaxCrashes, MaxStarts  \* bounds: ends in mid-write, starts

VARIABLES disk,       \* the version installed
          out,        \* how many of the Releases are out: releases only move on
          app,        \* what the process does, "off" when there is none
          self,       \* the version of the process
          meta,       \* pending_update.json: the version it names, or None
          bin,        \* pending_update.bin: the version it holds or held, or None
          ready,      \* update_ready
          given,      \* the release the process works on
          install,    \* ghost: the last installation
          crashes, starts
vars == <<disk, out, app, self, meta, bin, ready, given, install, crashes, starts>>

None == [nums |-> << >>, tag |-> "none"]   \* no file, or one that cannot be parsed
NoInstall == [bytes |-> None, confirmed |-> None, over |-> None, late |-> FALSE]
Offer == Releases[out]

----------------------------------------------------------------------------
(* Versions: the numbers, and what follows them ("", "pre" for -x, "build")   *)

BuildToStable(current, remote) == current.tag = "build" /\ remote.tag = "" /\ current.nums = remote.nums

Component(v, i) == IF i \in DOMAIN v.nums THEN v.nums[i] ELSE 0
Length(v, w) == IF Len(v.nums) > Len(w.nums) THEN Len(v.nums) ELSE Len(w.nums)
\* version_lte: the first component that differs decides, and what follows is not compared.
VersionLte(v, w) ==
  \/ \A i \in 1..Length(v, w) : Component(v, i) = Component(w, i)
  \/ \E i \in 1..Length(v, w) :
       Component(v, i) < Component(w, i) /\ \A j \in 1..i - 1 : Component(v, j) = Component(w, j)

\* fault: a build is never replaced by the release of its number.
Outdated_Lte(cached, current) == VersionLte(cached, current)
Outdated(cached, current) == ~BuildToStable(current, cached) /\ VersionLte(cached, current)

\* The updater plugin's comparator (lib.rs): greater by semver, or the release of this build.
Newer(release, current) ==
  \/ ~VersionLte(release, current)
  \/ release.nums = current.nums /\ release.tag = "" /\ current.tag = "pre"
  \/ BuildToStable(current, release)

----------------------------------------------------------------------------

Init ==
  /\ disk \in Current /\ self = disk /\ app = "off" /\ out = 1
  /\ meta = None /\ bin = None /\ ready = FALSE /\ given = None /\ install = NoInstall
  /\ crashes = 0 /\ starts = 0

Release == out < Len(Releases) /\ out' = out + 1
           /\ UNCHANGED <<disk, app, self, meta, bin, ready, given, install, crashes, starts>>

\* delete_cache: a directory may be removed in part.
Deleted == meta' \in {meta, None} /\ bin' \in {bin, None}
Kept == UNCHANGED <<meta, bin>>

\* try_install_on_startup: the cache is read, and the user asked.
Start ==
  /\ app = "off" /\ starts < MaxStarts /\ starts' = starts + 1
  /\ self' = disk /\ ready' = FALSE /\ given' = None
  /\ IF meta = None THEN app' = "running" /\ Kept
     ELSE IF Outdated(meta, disk) THEN app' = "running" /\ Deleted
     ELSE app' = "asking" /\ Kept
  /\ UNCHANGED <<disk, out, install, crashes>>

Skip == app = "asking" /\ app' = "running" /\ Kept
        /\ UNCHANGED <<disk, out, self, ready, given, install, crashes, starts>>

\* What the server must say of the cached update.
\* fault: any newer release will do.
StillOffered_Any == Newer(Offer, self)
StillOffered == Newer(Offer, self) /\ Offer = meta
\* The bytes are read, and the server asked for what goes with them; it may not answer.
Confirm ==
  /\ app = "asking"
  /\ \/ bin = None /\ app' = "running" /\ Deleted /\ UNCHANGED <<given, install>>
     \/ bin # None /\ app' = "running" /\ Kept /\ UNCHANGED <<given, install>>
     \/ bin # None /\ ~StillOffered /\ app' = "running" /\ Deleted /\ UNCHANGED <<given, install>>
     \/ /\ bin # None /\ StillOffered /\ app' = "installing" /\ Kept
        /\ given' = Offer
        /\ install' = [bytes |-> bin, confirmed |-> meta, over |-> self, late |-> FALSE]
  /\ UNCHANGED <<disk, out, self, ready, crashes, starts>>

\* The installer ends in time, fails, or goes on behind a normal start.
Installed ==
  /\ app = "installing" /\ disk' = install.bytes /\ Deleted /\ app' = "off"
  /\ UNCHANGED <<out, self, ready, given, install, crashes, starts>>
NotInstalled ==
  /\ app = "installing" /\ app' = "running"
  /\ \E late \in BOOLEAN : install' = [install EXCEPT !.late = late]
  /\ UNCHANGED <<disk, out, self, meta, bin, ready, given, crashes, starts>>
InstalledLate ==
  /\ install.late /\ install' = [install EXCEPT !.late = FALSE] /\ disk' = install.bytes
  /\ UNCHANGED <<out, app, self, meta, bin, ready, given, crashes, starts>>

----------------------------------------------------------------------------
(* check_and_download, every day; a breaking release or a switched-off check   *)
(* ends a cycle before the download                                          *)

Check ==
  /\ app = "running" /\ ~ready /\ Newer(Offer, self)
  /\ app' = "downloading" /\ given' = Offer
  /\ UNCHANGED <<disk, out, self, meta, bin, ready, install, crashes, starts>>
DownloadFails == app = "downloading" /\ app' = "running"
                 /\ UNCHANGED <<disk, out, self, meta, bin, ready, given, install, crashes, starts>>
\* write_cache: the bytes, then what they are.  A write that fails ends it, not the cycle.
WriteBin ==
  /\ app = "downloading" /\ bin' = given
  /\ \/ app' = "writing" /\ UNCHANGED ready
     \/ app' = "running" /\ ready' = TRUE
  /\ UNCHANGED <<disk, out, self, meta, given, install, crashes, starts>>
WriteMeta ==
  /\ app = "writing" /\ app' = "running" /\ ready' = TRUE /\ meta' \in {given, None}
  /\ UNCHANGED <<disk, out, self, bin, given, install, crashes, starts>>

Quit ==
  /\ app = "running" /\ app' = "off"
  /\ UNCHANGED <<disk, out, self, meta, bin, ready, given, install, crashes, starts>>
\* The process ends in the middle of something; a file being written may be torn.
Crash ==
  /\ app \notin {"off", "running"} /\ crashes < MaxCrashes /\ crashes' = crashes + 1 /\ app' = "off"
  /\ meta' \in IF app = "writing" THEN {meta, None} ELSE {meta}
  /\ install' = IF app = "installing" THEN [install EXCEPT !.late = TRUE] ELSE install
  /\ UNCHANGED <<disk, out, self, bin, ready, given, starts>>

Next ==
  \/ Release \/ Start \/ Skip \/ Confirm \/ Installed \/ NotInstalled \/ InstalledLate
  \/ Check \/ DownloadFails \/ WriteBin \/ WriteMeta \/ Quit \/ Crash
Spec == Init /\ [][Next]_vars

----------------------------------------------------------------------------
(* What must hold                                                            *)

\* What is installed is what the user agreed to, however the two files came to be as they
\* are, and it is newer than what it replaces.  That the bytes are whole is not said: a
\* second download of one version overwrites them in place.
InstallsWhatWasOffered ==
  install # NoInstall => install.bytes = install.confirmed /\ Newer(install.bytes, install.over)

\* An update that the plugin would download is not thrown away at the next start, unless it
\* is the release of one's own pre-release.
NewerIsOffered ==
  app = "off" /\ meta # None /\ Newer(meta, disk) /\ disk.tag # "pre" => ~Outdated(meta, disk)

UpdateIsTheOffered == InstallsWhatWasOffered /\ NewerIsOffered
=============================================================================
