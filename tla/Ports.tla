------------------------------- MODULE Ports -------------------------------
(***************************************************************************)
(* The mixed proxy port: what the two sources on disk (config.yaml of the  *)
(* core, verge.yaml of the application) and the generated runtime file say, *)
(* the port borrowed for a session when a program holds the configured one  *)
(* at startup (config/port.rs, CoreManager::init), and a change of the port *)
(* by the user (feat/listener.rs), which restarts the core in between.      *)
(* The other listeners follow the same path and are left out.               *)
(***************************************************************************)
EXTENDS Naturals

CONSTANTS Last,        \* bound: the ports are 1 .. Last
          Reserved,    \* those of the other listeners
          MaxRetries,  \* MAX_PORT_FALLBACK_RETRIES
          MaxSaves,    \* bound: changes of the port
          MaxForeign,  \* bound: how often a program takes or leaves a port
          MaxCrashes   \* bound: crashes of the application

None == 0
AllPorts == 1 .. Last
Layers == {"clash", "verge", "runtime"}

VARIABLES file, data, draft,  \* of each layer: on disk, committed, staged
          session,            \* SESSION_FALLBACK
          core,               \* the port the core serves; None: no core runs
          relic,              \* the port of a service core that outlived the application
          pac,                \* PAC_AVAILABLE
          proxy,              \* the port the system proxy is set to
          taken,              \* ports that other programs hold
          launch, tried,      \* the startup, and the ports it started the core with
          save,               \* the change of the port
          left                \* how many saves, foreign changes and crashes may come

layers == <<file, data, draft>>
serving == <<core, pac, proxy>>
vars == <<layers, session, serving, relic, taken, launch, tried, save, left>>

NoSave == [at |-> "idle", want |-> None, was |-> FALSE, borrowed |-> None,
           snap |-> [l \in Layers |-> None], seen |-> FALSE, outcome |-> "none"]

Latest(l) == IF draft[l] # None THEN draft[l] ELSE data[l]
Either(port, other) == IF port # None THEN port ELSE other

\* MixedPort::desired: what PAC and the system proxy name.
Desired == Either(session, Either(Latest("verge"), Latest("clash")))

\* Config::generate: what the core will serve.
Generated == Either(session, Latest("clash"))

\* fault: the retry looks at the port on disk again.
Selected_OnDisk == Latest("clash")
Selected == Either(session, Latest("clash"))

Distance(from, to) == IF to > from THEN to - from ELSE to + Last - from

\* find_next_available_port: the first port after this one that can be had.
Candidates(from) == {p \in AllPorts : p # from /\ p \notin Reserved \cup taken /\ p # relic}
FirstAfter(from) ==
  IF Candidates(from) = {} THEN None
  ELSE CHOOSE p \in Candidates(from) : \A q \in Candidates(from) : Distance(from, p) <= Distance(from, q)

Init ==
  /\ \E inVerge \in {None, 1} :
       file = [l \in Layers |-> CASE l = "clash" -> 1 [] l = "verge" -> inVerge [] OTHER -> None]
  /\ data = [file EXCEPT !["runtime"] = None] /\ draft = [l \in Layers |-> None]
  /\ session = None /\ core = None /\ relic = None /\ pac = FALSE /\ proxy = None /\ taken = {}
  /\ launch = [at |-> "look", retries |-> 0, next |-> None] /\ tried = {}
  /\ save = NoSave
  /\ left = [saves |-> MaxSaves, foreign |-> MaxForeign, crashes |-> MaxCrashes]

Discard == draft' = [l \in Layers |-> None] /\ UNCHANGED <<file, data>>
Restored(ok) ==
  IF ok THEN file' = save.snap
  ELSE \E some \in SUBSET Layers :     \* and the runtime file is generated again
         file' = [l \in Layers |-> IF l = "runtime" THEN data["runtime"]
                                   ELSE IF l \in some THEN save.snap[l] ELSE file[l]]

\* A start writes the runtime file once more; then enter_mode, and once the core
\* answers apply_proxy_after_start.
Serves ==
  /\ Latest("runtime") \notin taken \cup {None}
  /\ file' = [file EXCEPT !["runtime"] = Latest("runtime")] /\ core' = Latest("runtime")
  /\ pac' = TRUE /\ proxy' = Desired /\ relic' = None
  /\ UNCHANGED <<data, draft>>
Stopped == core' = None /\ pac' = FALSE /\ proxy' = None

----------------------------------------------------------------------------
(* Startup.                                                                 *)

LaunchGoes(to) == launch' = [launch EXCEPT !.at = to]
Quiet == launch.at \in {"up", "down"}

\* resolve_startup_mixed_port: only a proven conflict moves the port, and not one
\* with the core that the service still runs for this user.
Look ==
  /\ launch.at = "look"
  /\ \/ /\ Selected \notin taken      \* a relic is not somebody else's
        /\ LaunchGoes(IF launch.retries > 0 THEN "down" ELSE "generate")
     \/ /\ Selected \in taken
        /\ launch' = [launch EXCEPT !.at = IF FirstAfter(Selected) = None THEN "down" ELSE "borrow",
                                    !.next = FirstAfter(Selected)]
     \/ \* the probe could not tell: the port is kept
        LaunchGoes(IF launch.retries > 0 THEN "down" ELSE "generate")
  /\ UNCHANGED <<layers, session, serving, relic, taken, tried, save, left>>

\* apply_startup_mixed_port_fallback: the runtime configuration alone moves, for
\* this session; what fails puts back the port of the hop before.
Borrow ==
  /\ launch.at = "borrow"
  /\ \/ /\ session' = launch.next
        /\ data' = [data EXCEPT !["runtime"] = launch.next]
        /\ file' = [file EXCEPT !["runtime"] = launch.next]
        /\ LaunchGoes("start")
     \/ LaunchGoes("down") /\ UNCHANGED <<session, data, file>>
  /\ UNCHANGED <<draft, serving, relic, taken, tried, save, left>>

\* generate_and_validate.
Materialize ==
  /\ launch.at = "generate"
  /\ data' = [data EXCEPT !["runtime"] = Generated]
  /\ file' = [file EXCEPT !["runtime"] = Generated]
  /\ LaunchGoes("start")
  /\ UNCHANGED <<draft, session, serving, relic, taken, tried, save, left>>

\* One turn of the loop of CoreManager::init.
StartCore ==
  /\ launch.at = "start"
  /\ tried' = tried \cup {Latest("runtime")}
  /\ \/ Serves /\ LaunchGoes("up")
     \/ /\ launch' = IF launch.retries < MaxRetries
                       THEN [launch EXCEPT !.at = "look", !.retries = @ + 1]
                       ELSE [launch EXCEPT !.at = "down"]
        /\ Stopped /\ UNCHANGED <<layers, relic>>
  /\ UNCHANGED <<session, taken, save, left>>

\* The user starts or restarts the core later.
UserStarts ==
  /\ Quiet /\ save.at = "idle" /\ core = None /\ Serves
  /\ UNCHANGED <<session, taken, launch, tried, save, left>>

----------------------------------------------------------------------------
(* save_proxy_ports, under CONFIG_WRITE_LOCK and the config_update flag.     *)

Goes(to) == save' = [save EXCEPT !.at = to]
Ends(outcome) == save' = [save EXCEPT !.at = "unborrow", !.outcome = outcome]

\* After a change that could not be undone none is made any more (bound).
BeginSave ==
  /\ save.at = "idle" /\ save.outcome # "broken" /\ Quiet /\ left.saves > 0 /\ data["runtime"] # None
  /\ \E p \in AllPorts \ Reserved : save' = [NoSave EXCEPT !.at = "stage", !.want = p]
  /\ left' = [left EXCEPT !.saves = @ - 1]
  /\ UNCHANGED <<layers, session, serving, relic, taken, launch, tried>>

Stage ==
  /\ save.at = "stage"
  /\ draft' = [draft EXCEPT !["clash"] = save.want, !["verge"] = save.want]
  /\ Goes("close")
  /\ UNCHANGED <<file, data, session, serving, relic, taken, launch, tried, left>>

\* core_starting, and the borrowed port is given up for now.
ClosePac ==
  /\ save.at = "close"
  /\ pac' = FALSE
  /\ save' = [save EXCEPT !.at = "generate", !.borrowed = session]
  /\ session' = None
  /\ UNCHANGED <<layers, core, proxy, relic, taken, launch, tried, left>>

GenerateCandidate ==
  /\ save.at = "generate"
  /\ \/ draft' = [draft EXCEPT !["runtime"] = Generated] /\ Goes("probe")
     \/ Ends("failed") /\ UNCHANGED draft
  /\ UNCHANGED <<file, data, session, serving, relic, taken, launch, tried, left>>

ProbeCandidate ==
  /\ save.at = "probe"
  /\ \/ /\ save.want \notin taken
        /\ save' = [save EXCEPT !.at = "validate", !.was = core # None]
     \/ save.want \in taken /\ Ends("conflict")
     \/ Ends("failed")
  /\ UNCHANGED <<layers, session, serving, relic, taken, launch, tried, left>>

\* The validator accepts the candidate, and the files are remembered.
ValidateCandidate ==
  /\ save.at = "validate"
  /\ \/ save' = [save EXCEPT !.at = "write", !.snap = file]
     \/ Ends("failed")
  /\ UNCHANGED <<layers, session, serving, relic, taken, launch, tried, left>>

WriteCandidate ==
  /\ save.at = "write"
  /\ \/ /\ file' = [file EXCEPT !["runtime"] = draft["runtime"]]
        /\ Goes(IF save.was THEN "stop" ELSE "persistClash")
     \/ Goes("writeBack") /\ UNCHANGED file
  /\ UNCHANGED <<data, draft, session, serving, relic, taken, launch, tried, left>>

\* A runtime file that could not be written: the drafts go, the files are put back.
WriteBack ==
  /\ save.at = "writeBack"
  /\ draft' = [l \in Layers |-> None]
  /\ \E ok \in BOOLEAN : Restored(ok) /\ Ends(IF ok THEN "failed" ELSE "broken")
  /\ UNCHANGED <<data, session, serving, relic, taken, launch, tried, left>>

StopForSave ==
  /\ save.at = "stop"
  /\ \/ Stopped /\ Goes("start")
     \/ UNCHANGED serving /\ Goes("giveUp")     \* the core could not be stopped
  /\ UNCHANGED <<layers, session, relic, taken, launch, tried, left>>

StartForSave ==
  /\ save.at = "start"
  /\ \/ Serves /\ Goes("persistClash")
     \/ UNCHANGED <<layers, serving, relic>> /\ Goes("giveUp")
  /\ UNCHANGED <<session, taken, launch, tried, left>>

PersistClash ==
  /\ save.at = "persistClash"
  /\ \/ file' = [file EXCEPT !["clash"] = draft["clash"]] /\ Goes("persistVerge")
     \/ Goes("giveUp") /\ UNCHANGED file
  /\ UNCHANGED <<data, draft, session, serving, relic, taken, launch, tried, left>>

PersistVerge ==
  /\ save.at = "persistVerge"
  /\ \/ file' = [file EXCEPT !["verge"] = draft["verge"]] /\ Goes("commit")
     \/ Goes("giveUp") /\ UNCHANGED file
  /\ UNCHANGED <<data, draft, session, serving, relic, taken, launch, tried, left>>

Commit ==
  /\ save.at = "commit"
  /\ data' = [l \in Layers |-> Latest(l)] /\ draft' = [l \in Layers |-> None]
  /\ save' = [save EXCEPT !.at = "settle", !.outcome = "saved"]
  /\ UNCHANGED <<file, session, serving, relic, taken, launch, tried, left>>

\* The transaction is rolled back while PAC may be open on the new port.
GiveUp ==
  /\ save.at = "giveUp"
  /\ Discard /\ Goes("putBack")
  /\ UNCHANGED <<session, serving, relic, taken, launch, tried, left>>

\* fault: the borrowed port is left to the guard that drops at the end.
PutBack_Later ==
  /\ save.at = "putBack"
  /\ \E ok \in BOOLEAN :
       /\ Restored(ok)
       /\ save' = [save EXCEPT !.at = IF save.was THEN "stopOld" ELSE "unborrow",
                               !.outcome = IF ok THEN "failed" ELSE "broken"]
  /\ UNCHANGED <<data, draft, session, serving, relic, taken, launch, tried, left>>

\* restore_borrowed_port, then rollback_proxy_ports: the files, and the old core.
PutBack ==
  /\ save.at = "putBack"
  /\ session' = save.borrowed
  /\ \E ok \in BOOLEAN :
       /\ Restored(ok)
       /\ save' = [save EXCEPT !.at = IF save.was THEN "stopOld" ELSE "unborrow",
                               !.outcome = IF ok THEN "failed" ELSE "broken"]
  /\ UNCHANGED <<data, draft, serving, relic, taken, launch, tried, left>>

StopOld ==
  /\ save.at = "stopOld"
  /\ \/ Stopped /\ Goes("startOld")
     \/ core # None /\ UNCHANGED serving /\ Ends("broken")
  /\ UNCHANGED <<layers, session, relic, taken, launch, tried, left>>

StartOld ==
  /\ save.at = "startOld"
  /\ Goes("unborrow")
  /\ Serves \/ UNCHANGED <<layers, serving, relic>>
  /\ UNCHANGED <<session, taken, launch, tried, left>>

\* The guards drop: the borrowed port, then PAC, and the transaction last.
Unborrow ==
  /\ save.at = "unborrow"
  /\ session' = save.borrowed /\ Goes("settle")
  /\ UNCHANGED <<layers, serving, relic, taken, launch, tried, left>>

SettleReads ==
  /\ save.at = "settle"
  /\ save' = [save EXCEPT !.at = "settling", !.seen = core # None]
  /\ UNCHANGED <<layers, session, serving, relic, taken, launch, tried, left>>

SettleOpens ==
  /\ save.at = "settling"
  /\ pac' = save.seen /\ Goes("drop")
  /\ UNCHANGED <<layers, session, core, proxy, relic, taken, launch, tried, left>>

DropTransaction ==
  /\ save.at = "drop"
  /\ Discard /\ save' = [NoSave EXCEPT !.outcome = save.outcome]
  /\ UNCHANGED <<session, serving, relic, taken, launch, tried, left>>

----------------------------------------------------------------------------
(* What happens meanwhile.                                                  *)

\* The core ends by itself, and its reader clears what it stood for.
CoreDies ==
  /\ core # None /\ left.foreign > 0 /\ left' = [left EXCEPT !.foreign = @ - 1]
  /\ Stopped
  /\ UNCHANGED <<layers, session, relic, taken, launch, tried, save>>

Foreign ==
  /\ left.foreign > 0 /\ left' = [left EXCEPT !.foreign = @ - 1]
  /\ \E p \in AllPorts \ {core, relic} :
       taken' = IF p \in taken THEN taken \ {p} ELSE taken \cup {p}
  /\ UNCHANGED <<layers, session, serving, relic, launch, tried, save>>

\* The application ends and is started again; a core of the service may live on.
Crash ==
  /\ left.crashes > 0 /\ left' = [left EXCEPT !.crashes = @ - 1]
  /\ data' = [file EXCEPT !["runtime"] = None] /\ draft' = [l \in Layers |-> None]
  /\ session' = None /\ relic' \in {None, Either(core, relic)}
  /\ Stopped
  /\ launch' = [at |-> "look", retries |-> 0, next |-> None] /\ tried' = {}
  /\ save' = NoSave
  /\ UNCHANGED <<file, taken>>

Next ==
  \/ Look \/ Borrow \/ Materialize \/ StartCore \/ UserStarts
  \/ BeginSave \/ Stage \/ ClosePac \/ GenerateCandidate \/ ProbeCandidate \/ ValidateCandidate
  \/ WriteCandidate \/ WriteBack \/ StopForSave \/ StartForSave \/ PersistClash \/ PersistVerge
  \/ Commit \/ GiveUp \/ PutBack \/ StopOld \/ StartOld
  \/ Unborrow \/ SettleReads \/ SettleOpens \/ DropTransaction
  \/ CoreDies \/ Foreign \/ Crash

Spec == Init /\ [][Next]_vars

----------------------------------------------------------------------------
TypeOK ==
  /\ {file, data, draft} \subseteq [Layers -> AllPorts \cup {None}]
  /\ {session, core, relic, proxy} \subseteq AllPorts \cup {None}
  /\ taken \subseteq AllPorts /\ tried \subseteq AllPorts
  /\ core \notin taken /\ relic \notin taken

\* With nothing under way, a core that runs serves the port that the system
\* proxy is set to and that the application goes on naming, whichever way a
\* change of the port, with a port borrowed before it, has failed.  Left out:
\* files that could not be put back, and sources that a crash left apart.
Agreed == file["verge"] \in {None, file["clash"]}
SettledPorts ==
  save.at = "idle" /\ Quiet /\ core # None /\ save.outcome # "broken" /\ Agreed =>
    core = Desired /\ proxy = core

\* A start is only tried again on a port that this startup has not tried yet
\* (resolve_startup_mixed_port: "walking past it").
RetriesMove ==
  [][StartCore => Latest("runtime") \notin tried]_vars

\* With no change of the port under way, the PAC file is served exactly when a
\* core runs.  manager/mod.rs:193 says so of core_start_settled: "PAC goes back to
\* following the Running Mode".
PacFollowsMode == save.at = "idle" => pac = (core # None)
============================================================================
