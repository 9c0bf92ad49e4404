---------------------------- MODULE CoreLifecycle ----------------------------
(***************************************************************************)
(* The owner of the proxy core (core/manager): calls that start, stop and  *)
(* replace the core one at a time under the lifecycle lock, as a child     *)
(* process (Sidecar) or through the privileged helper (Service), and apply *)
(* the system proxy once the core answers.  What happens without the lock: *)
(* a task per child reads its output and learns that it ended; an owner    *)
(* monitor per session learns that the helper works for somebody else;     *)
(* replies of the helper get lost; probes change what is known of it.      *)
(* The handover watcher and the fallbacks of Windows are not modelled.     *)
(* A definition X_Y, next to X, is what X would be with a plausible fault; *)
(* no specification uses it.                                               *)
(***************************************************************************)
EXTENDS Naturals

CONSTANTS Calls,     \* tasks that call the manager
          None,
          Kinds,     \* the operations they may call
          Budget,    \* bound: what the operations called in a behaviour may cost, 2 each
          Heavy,     \* the kinds that cost 3
          IsMac,     \* cfg!(target_os = "macos")
          Settings   \* enable_system_proxy, as the application may find it

ToSidecar == {"continue", "uninstall"}
Flagged == {"start", "restart", "continue", "uninstall", "update"}
Callable == Flagged \cup {"stop", "reinstall", "sysproxy", "quit"}

ASSUME LifecycleAssumption ==
  /\ None \notin Calls \cup Callable \cup {"replace", "undo", "leave"}
  /\ Kinds \subseteq Callable /\ Heavy \subseteq Kinds /\ Budget \in Nat /\ IsMac \in BOOLEAN
  /\ Settings \subseteq BOOLEAN

MaxOps == Budget \div 2
Pids == 1 .. 2 * MaxOps      \* an operation starts at most two children
Modes == {"NotRunning", "Sidecar", "Service"}
Healths == {"Ready", "NotInstalled", "Blocked"}   \* Blocked: whatever else makes a start wait

VARIABLES flag,        \* config_update_in_progress: the call that set it
          writer,      \* holder of CONFIG_WRITE_LOCK
          lock,        \* holder of lifecycle_lock; None: free
          op,          \* what each call is doing
          mode, pac,   \* running mode, and whether the PAC file is served
          ready,       \* core_readiness_state
          child,       \* child_sidecar; 0: none
          exitTask,    \* sidecar_exit: the child whose end is waited for; 0: none
          proc,        \* the child processes
          drain,       \* the task that reads the events of each child
          drainGen,    \* the readiness that task may withdraw
          spawned,     \* children started so far
          reservation, \* the child the machine-wide reservation is held for; 0: free
          session,     \* ACTIVE_SERVICE_SESSION; 0: none
          served,      \* the session the helper works for; 0: not ours
          svcCore,     \* the helper runs a core for us
          granted,     \* sessions the helper granted so far
          monGen,      \* OWNER_MONITOR_GENERATION
          monitors,    \* owner monitors
          health, allowed,    \* what is known of the helper; sidecar_allowed
          enable, proxy, guard,  \* enable_system_proxy; proxy set in the OS; guard running
          exiting, exited,    \* is_exiting; how the application has ended: "no", "clean", "dirty"
          begun        \* cost of the operations called so far

locks == <<flag, writer, lock>>
core  == <<mode, pac, ready>>
procs == <<proc, drain, drainGen, spawned>>
side  == <<child, exitTask, procs, reservation>>
svc   == <<served, svcCore, granted>>
owner == <<session, monGen, monitors>>
known == <<health, allowed>>
os    == <<enable, proxy, guard>>
life  == <<exiting, exited, begun>>
vars  == <<locks, op, core, side, svc, owner, known, os, life>>

Nothing == [mode |-> "NotRunning", gen |-> 0, mon |-> 0]
Idle == [kind |-> None, at |-> "idle", handOver |-> FALSE, seen |-> Nothing]
NotReady(r) == IF r.active THEN [gen |-> r.gen + 1, active |-> FALSE] ELSE r
NowReady(r) == [gen |-> r.gen + 1, active |-> TRUE]

Init ==
  /\ flag = None /\ writer = None /\ lock = None
  /\ op = [c \in Calls |-> Idle]
  /\ mode = "NotRunning" /\ pac = FALSE /\ ready = [gen |-> 0, active |-> FALSE]
  /\ child = 0 /\ exitTask = 0 /\ spawned = 0 /\ reservation = 0
  /\ proc = [p \in Pids |-> "unborn"]
  /\ drain = [p \in Pids |-> "unborn"] /\ drainGen = [p \in Pids |-> 0]
  /\ served = 0 /\ svcCore = FALSE /\ granted = 0
  /\ session = 0 /\ monGen = 0 /\ monitors = {}
  /\ health \in Healths /\ allowed = FALSE
  /\ enable \in Settings /\ proxy = FALSE /\ guard = FALSE
  /\ exiting = FALSE /\ exited = "no" /\ begun = 0

-----------------------------------------------------------------------------
(* What several operations do.                                             *)

Holds(c, s) == lock = c /\ op[c].at = s
Goto(c, s) == op' = [op EXCEPT ![c].at = s]
Become(c, k, s) == op' = [op EXCEPT ![c].kind = k, ![c].at = s]

CoreStarted(m) == mode' = m /\ pac' = TRUE
\* fault: the PAC file stays open after the core.
CoreStopped_KeepsPac == mode' = "NotRunning" /\ UNCHANGED pac /\ ready' = NotReady(ready)

CoreStopped == mode' = "NotRunning" /\ pac' = FALSE /\ ready' = NotReady(ready)

\* proxy_control::clear: the guard stops even if the proxy cannot be unset.
Cleared == guard' = FALSE /\ proxy' = FALSE /\ UNCHANGED enable
ClearFailed == guard' = FALSE /\ UNCHANGED <<enable, proxy>>
StopGuard == guard' = FALSE /\ UNCHANGED <<enable, proxy>>

StartMonitor ==
  /\ monGen' = monGen + 1
  /\ monitors' = monitors \cup
       {[gen |-> monGen + 1, sess |-> session', at |-> "watching", why |-> "nothing"]}

\* fault: the guard is left to the proxy's clearing, which macOS leaves out.
Recover_KeepsGuard(why) ==
  /\ IF why = "TransportFailure"
     THEN health' = "Blocked" /\ allowed' = FALSE
     ELSE UNCHANGED known
  /\ session' = 0
  /\ CoreStopped
  /\ IF IsMac THEN UNCHANGED os ELSE \/ Cleared \/ UNCHANGED os

\* recover_after_owner_loss_while_locked; why it was called decides what is known.
Recover(why) ==
  /\ IF why = "TransportFailure"
     THEN health' = "Blocked" /\ allowed' = FALSE
     ELSE UNCHANGED known
  /\ session' = 0
  /\ CoreStopped
  /\ guard' = FALSE /\ UNCHANGED enable
  /\ proxy' \in IF IsMac THEN {proxy} ELSE {FALSE, proxy}

Decision ==
  IF allowed \/ health = "NotInstalled" THEN "Sidecar"
  ELSE IF health = "Ready" THEN "Service" ELSE "Wait"

Serving == mode # "NotRunning" /\ ready.active

\* Where an operation goes once the core has stopped, once a start has failed,
\* and when the system proxy is, or could not be, applied.
AfterStop(k) ==
  CASE k = "restart" -> "start"
    [] k \in {"uninstall", "reinstall", "undo"} -> k
    [] k = "replace" -> "svcStart"
    [] OTHER -> "ok"
GivesUp(k) == IF k \in ToSidecar THEN "rollback" ELSE "failed"

-----------------------------------------------------------------------------
(* Entering an operation.                                                  *)

Cost(k) == IF k \in Heavy THEN 3 ELSE 2

\* The flag is tried, never waited for: a call that finds it set fails at once.
Begin(c, k) ==
  /\ op[c].kind = None /\ exited = "no" /\ begun + Cost(k) <= Budget
  /\ k \in Flagged => flag = None
  /\ k = "update" => ~exiting
  /\ op' = [op EXCEPT ![c] = [Idle EXCEPT !.kind = k, !.at =
              IF k \in ToSidecar \cup {"sysproxy"} THEN "write"
              ELSE IF k = "update" THEN "validate" ELSE "lock"]]
  /\ flag' = IF k \in Flagged THEN c ELSE flag
  /\ exiting' = (exiting \/ k = "quit")
  /\ begun' = begun + Cost(k)
  /\ UNCHANGED <<writer, lock, core, side, svc, owner, known, os, exited>>

LockWrite(c) ==
  /\ op[c].at = "write" /\ writer = None
  /\ writer' = c
  /\ UNCHANGED <<flag, lock, core, side, svc, owner, known, proxy, guard, life>>
  /\ \/ op[c].kind \in ToSidecar /\ Goto(c, "lock") /\ UNCHANGED enable
     \/ /\ op[c].kind = "sysproxy"
        /\ enable' = ~enable
        /\ Goto(c, "lock")

\* A configuration that passes the validator is applied where the core runs.
Validate(c) ==
  /\ op[c].at = "validate"
  /\ \/ Goto(c, "failed")
     \/ IF mode = "Service" THEN Become(c, "replace", "lock") ELSE Goto(c, "reload")
  /\ UNCHANGED <<locks, core, side, svc, owner, known, os, life>>

Reload(c) ==
  /\ op[c].at = "reload"
  /\ Goto(c, "ok") \/ Become(c, "restart", "lock")
  /\ UNCHANGED <<locks, core, side, svc, owner, known, os, life>>

FirstStage(k) ==
  CASE k = "start" -> "start"
    [] k = "restart" -> "plan"
    [] k = "continue" -> "admit"
    [] k = "replace" -> "restage"
    [] k = "sysproxy" -> "proxy"
    [] OTHER -> "stop"

LockLifecycle(c) ==
  /\ op[c].at = "lock" /\ lock = None
  /\ lock' = c
  /\ Goto(c, FirstStage(op[c].kind))
  /\ UNCHANGED <<flag, writer, core, side, svc, owner, known, os, life>>

\* The guards drop.
Return(c) ==
  /\ op[c].at \in {"ok", "failed"} /\ op[c].kind \notin {"quit", "leave"}
  /\ op' = [op EXCEPT ![c] = Idle]
  /\ flag' = IF flag = c THEN None ELSE flag
  /\ writer' = IF writer = c THEN None ELSE writer
  /\ lock' = IF lock = c THEN None ELSE lock
  /\ enable' = IF op[c].kind = "sysproxy" /\ op[c].at = "failed" THEN ~enable ELSE enable
  /\ UNCHANGED <<core, side, svc, owner, known, proxy, guard, life>>

\* fault: a core that could not be stopped does not keep the application.
Cleaned_Anyway(c) ==
  /\ op[c].kind = "quit" /\ lock = c
  /\ op[c].at \in {"ok", "failed"} /\ Goto(c, "exit")
  /\ lock' = None
  /\ UNCHANGED <<flag, writer, core, side, svc, owner, known, os, life>>

\* fault: the lock is held on while the application exits.
Cleaned_Locked(c) ==
  /\ op[c].kind = "quit" /\ lock = c
  /\ \/ op[c].at = "ok" /\ Goto(c, "exit")
     \/ op[c].at = "failed" /\ Goto(c, "stay")
  /\ UNCHANGED <<locks, core, side, svc, owner, known, os, life>>

\* quit: the core has stopped, or it has not and the application goes on.
Cleaned(c) ==
  /\ op[c].kind = "quit" /\ lock = c
  /\ \/ op[c].at = "ok" /\ Goto(c, "exit")
     \/ op[c].at = "failed" /\ Goto(c, "stay")
  /\ lock' = None
  /\ UNCHANGED <<flag, writer, core, side, svc, owner, known, os, life>>

\* The event loop stops the core once more when it exits with is_exiting cleared.
Exit(c) ==
  /\ \/ /\ op[c].at = "stay" /\ exiting' = FALSE
        /\ op' = [op EXCEPT ![c] = Idle] /\ UNCHANGED exited
     \/ /\ op[c].at = "exit" /\ exiting /\ exited' = "clean"
        /\ op' = [op EXCEPT ![c] = Idle] /\ UNCHANGED exiting
     \/ /\ op[c].at = "exit" /\ ~exiting /\ exiting' = TRUE
        /\ Become(c, "leave", "lock") /\ UNCHANGED exited
  /\ UNCHANGED <<locks, core, side, svc, owner, known, os, begun>>

\* That last stop fails or is dropped after some seconds: the process ends as it is.
Left(c) ==
  /\ op[c].kind = "leave"
  /\ \/ op[c].at = "ok" /\ exited' = "clean" /\ lock' = None
     \/ op[c].at # "ok" /\ exited' = "dirty" /\ UNCHANGED lock
  /\ op' = [op EXCEPT ![c] = Idle]
  /\ UNCHANGED <<flag, writer, core, side, svc, owner, known, os, exiting, begun>>

\* continue_with_sidecar: the user accepts Sidecar for this session.
Admit(c) ==
  /\ Holds(c, "admit")
  /\ UNCHANGED <<flag, lock, core, side, svc, owner, health, life>>
  /\ \/ /\ ~allowed
        /\ \/ mode = "NotRunning" /\ health # "Ready"
           \/ mode = "Sidecar" /\ health = "Blocked"
        /\ writer' = None
        /\ \/ allowed' = TRUE /\ StopGuard /\ Goto(c, "start")
           \/ UNCHANGED <<allowed, os>> /\ Goto(c, "failed")
     \/ UNCHANGED <<writer, allowed, os>> /\ Goto(c, "failed")

\* The application of a configuration by the helper, and its privileged setup.
Restage(c) ==
  /\ Holds(c, "restage")
  /\ \/ mode # "Service" /\ Goto(c, "failed")
     \/ mode = "Service" /\ \E s \in {"ok", "failed", "stop"} : Goto(c, s)
  /\ UNCHANGED <<locks, core, side, svc, owner, known, os, life>>

SetUp(c) ==
  /\ \E k \in {"uninstall", "reinstall"} : Holds(c, k)
  /\ \/ /\ served' = 0 /\ svcCore' = FALSE
        /\ health' = IF op[c].kind = "uninstall" THEN "NotInstalled" ELSE "Ready"
        /\ \E s \in IF op[c].kind = "uninstall" THEN {"start", "rollback"} ELSE {"ok"} : Goto(c, s)
     \/ /\ health' \in Healths
        /\ Goto(c, GivesUp(op[c].kind))
        /\ UNCHANGED <<served, svcCore>>
  /\ allowed' = FALSE
  /\ UNCHANGED <<locks, core, side, granted, owner, os, life>>

-----------------------------------------------------------------------------
(* Stopping the core.                                                      *)

\* On macOS a child that is replaced by the helper leaves it the proxy.
Plan(c) ==
  /\ Holds(c, "plan")
  /\ op' = [op EXCEPT ![c].at = "stop",
              ![c].handOver = (IsMac /\ mode = "Sidecar" /\ Decision = "Service")]
  /\ UNCHANGED <<locks, core, side, svc, owner, known, os, life>>

StopProxy(c) ==
  /\ Holds(c, "stop")
  /\ IF mode = "NotRunning" THEN UNCHANGED os /\ Goto(c, "stopCore")
     ELSE IF (mode = "Sidecar" /\ op[c].handOver) \/ (mode = "Service" /\ IsMac)
     THEN StopGuard /\ Goto(c, "stopCore")
     ELSE \/ Cleared /\ Goto(c, "stopCore")
          \/ ClearFailed /\ Goto(c, "failed")
  /\ UNCHANGED <<locks, core, side, svc, owner, known, life>>

Killed(p) == proc' = [proc EXCEPT ![p] = IF @ = "up" THEN "dying" ELSE @]

StopCore(c) ==
  /\ Holds(c, "stopCore")
  /\ UNCHANGED <<locks, core, exitTask, drain, drainGen, spawned, reservation, svc,
                 session, monitors, known, os, life>>
  /\ \/ /\ mode = "NotRunning"
        /\ Goto(c, AfterStop(op[c].kind)) /\ UNCHANGED <<child, proc, monGen>>
     \/ /\ mode = "Sidecar"
        /\ child' = 0
        /\ IF child # 0 THEN Killed(child) ELSE UNCHANGED proc
        /\ Goto(c, "stopExit") /\ UNCHANGED monGen
     \/ /\ mode = "Service"
        /\ monGen' = monGen + 1
        /\ Goto(c, "stopIpc") /\ UNCHANGED <<child, proc>>

\* wait_for_sidecar_exit: the task that waits for the child has ended, or 5 s pass.
Exited == exitTask = 0 \/ reservation # exitTask

StopExit(c) ==
  /\ Holds(c, "stopExit")
  /\ CoreStopped
  /\ \/ Exited /\ exitTask' = 0 /\ Goto(c, AfterStop(op[c].kind))
     \/ ~Exited /\ UNCHANGED exitTask /\ Goto(c, "failed")
  /\ UNCHANGED <<locks, child, procs, reservation, svc, owner, known, os, life>>

\* fault: a stop that fails leaves the core without a monitor.
StopIpc_Unwatched(c) ==
  /\ Holds(c, "stopIpc")
  /\ UNCHANGED <<locks, side, granted, monGen, monitors, life>>
  /\ \/ /\ session # 0 /\ served = session
        /\ served' = 0 /\ svcCore' = FALSE
        /\ session' = 0 /\ CoreStopped
        /\ proxy' = (proxy /\ ~IsMac)
        /\ Goto(c, AfterStop(op[c].kind))
        /\ UNCHANGED <<known, enable, guard>>
     \/ /\ session # 0 /\ served # session
        /\ Recover("Displaced")
        /\ Goto(c, "failed")
        /\ UNCHANGED <<served, svcCore>>
     \/ Goto(c, "failed") /\ UNCHANGED <<served, svcCore, session, core, known, os>>

\* The helper stops the core, works for somebody else, or does not answer: then
\* it may have stopped the core all the same.
StopIpc(c) ==
  /\ Holds(c, "stopIpc")
  /\ UNCHANGED <<locks, side, granted, life>>
  /\ \/ /\ session # 0 /\ served = session
        /\ served' = 0 /\ svcCore' = FALSE
        /\ session' = 0 /\ CoreStopped
        /\ proxy' = (proxy /\ ~IsMac)
        /\ Goto(c, AfterStop(op[c].kind))
        /\ UNCHANGED <<monGen, monitors, known, enable, guard>>
     \/ /\ session # 0 /\ served # session
        /\ Recover("Displaced")
        /\ Goto(c, "failed")
        /\ UNCHANGED <<served, svcCore, monGen, monitors>>
     \/ /\ \/ UNCHANGED <<served, svcCore>>
           \/ session # 0 /\ served = session /\ served' = 0 /\ svcCore' = FALSE
        /\ session' = session /\ StartMonitor
        /\ Goto(c, "failed")
        /\ UNCHANGED <<core, known, os>>

-----------------------------------------------------------------------------
(* Starting the core.                                                      *)

Start(c) ==
  /\ Holds(c, "start")
  /\ Goto(c, IF exiting \/ mode # "NotRunning" THEN "started" ELSE "decide")
  /\ UNCHANGED <<locks, core, side, svc, owner, known, os, life>>

Decide(c) ==
  /\ Holds(c, "decide")
  /\ IF Decision = "Wait" THEN StopGuard /\ CoreStopped /\ Goto(c, "started")
     ELSE /\ UNCHANGED os
          /\ IF exiting THEN CoreStopped /\ Goto(c, "started")
             ELSE IF Decision = "Sidecar" THEN UNCHANGED core /\ Goto(c, "sideExit")
             ELSE pac' = FALSE /\ UNCHANGED <<mode, ready>> /\ Goto(c, "svcRefresh")
  /\ UNCHANGED <<locks, side, svc, owner, known, life>>

\* A failed start is rolled back, except where the caller does it.
StartFailed(c) ==
  /\ Holds(c, "startFailed")
  /\ IF op[c].kind = "replace" THEN UNCHANGED <<core, os>> ELSE StopGuard /\ CoreStopped
  /\ Goto(c, GivesUp(op[c].kind))
  /\ UNCHANGED <<locks, side, svc, owner, known, life>>

ServiceRefresh(c) ==
  /\ Holds(c, "svcRefresh")
  /\ health' \in Healths /\ allowed' = FALSE
  /\ Goto(c, IF health' = "Ready" THEN "svcStart" ELSE "startFailed")
  /\ UNCHANGED <<locks, core, side, svc, owner, os, life>>

ServiceStart(c) ==
  /\ Holds(c, "svcStart")
  /\ session' = 0
  /\ Goto(c, "svcIpc")
  /\ UNCHANGED <<locks, core, side, svc, monGen, monitors, known, os, life>>

\* The helper grants a session unless a child holds the reservation; the reply
\* may be lost, and a refusal is remembered.
Grant ==
  /\ reservation = 0
  /\ granted' = granted + 1 /\ served' = granted + 1 /\ svcCore' = TRUE

ServiceIpc(c) ==
  /\ Holds(c, "svcIpc")
  /\ UNCHANGED <<locks, core, side, os, life>>
  /\ \/ /\ Grant
        /\ Goto(c, "svcStarted") /\ UNCHANGED <<owner, known>>
     \/ /\ Grant \/ UNCHANGED svc
        /\ UNCHANGED known
        /\ session' = session /\ StartMonitor /\ Goto(c, "startFailed")
     \/ /\ UNCHANGED svc
        /\ session' = session /\ StartMonitor
        /\ IF mode = "NotRunning"
           THEN health' = "Blocked" /\ allowed' = FALSE ELSE UNCHANGED known
        /\ Goto(c, "startFailed")

\* fault: the session is counted here instead of taken from the reply.
ServiceStarted_Counts(c) ==
  /\ Holds(c, "svcStarted")
  /\ session' = granted + 1 /\ StartMonitor
  /\ ready' = NowReady(ready) /\ CoreStarted("Service")
  /\ Goto(c, "started")
  /\ UNCHANGED <<locks, side, svc, known, os, life>>

ServiceStarted(c) ==
  /\ Holds(c, "svcStarted")
  /\ session' = granted /\ StartMonitor
  /\ ready' = NowReady(ready) /\ CoreStarted("Service")
  /\ Goto(c, "started")
  /\ UNCHANGED <<locks, side, svc, known, os, life>>

SidecarExit(c) ==
  /\ Holds(c, "sideExit")
  /\ \/ Exited /\ exitTask' = 0 /\ Goto(c, "sideReserve")
     \/ ~Exited /\ UNCHANGED exitTask /\ Goto(c, "startFailed")
  /\ UNCHANGED <<locks, core, child, procs, reservation, svc, owner, known, os, life>>

\* fault: the reservation does not look for the core of the helper.
SidecarReserve_Local(c) ==
  /\ Holds(c, "sideReserve")
  /\ IF reservation = 0
     THEN /\ reservation' = spawned + 1
          /\ CoreStopped /\ Goto(c, "sideSpawn")
     ELSE UNCHANGED <<reservation, core>> /\ Goto(c, "startFailed")
  /\ UNCHANGED <<locks, child, exitTask, procs, svc, owner, known, os, life>>

\* The reservation is machine-wide: it is not given while a core runs anywhere.
SidecarReserve(c) ==
  /\ Holds(c, "sideReserve")
  /\ IF reservation = 0 /\ ~svcCore
     THEN /\ reservation' = spawned + 1
          /\ CoreStopped /\ Goto(c, "sideSpawn")
     ELSE UNCHANGED <<reservation, core>> /\ Goto(c, "startFailed")
  /\ UNCHANGED <<locks, child, exitTask, procs, svc, owner, known, os, life>>

SidecarSpawn(c) ==
  /\ Holds(c, "sideSpawn")
  /\ \/ /\ spawned' = spawned + 1 /\ exitTask' = spawned + 1
        /\ proc' = [proc EXCEPT ![spawned + 1] = "up"]
        /\ ready' = NowReady(ready)
        /\ drain' = [drain EXCEPT ![spawned + 1] = "reading"]
        /\ drainGen' = [drainGen EXCEPT ![spawned + 1] = ready.gen + 1]
        /\ Goto(c, "sideProbe") /\ UNCHANGED reservation
     \/ /\ reservation' = 0
        /\ Goto(c, "startFailed") /\ UNCHANGED <<procs, exitTask, ready>>
  /\ UNCHANGED <<locks, mode, pac, child, svc, owner, known, os, life>>

SidecarProbe(c) ==
  /\ Holds(c, "sideProbe")
  /\ \/ proc[spawned] = "up" /\ Goto(c, "sideReady") /\ UNCHANGED <<proc, core, os>>
     \/ StopGuard /\ CoreStopped /\ Killed(spawned) /\ Goto(c, "startFailed")
  /\ UNCHANGED <<locks, child, exitTask, drain, drainGen, spawned, reservation, svc, owner, known, life>>

SidecarReady(c) ==
  /\ Holds(c, "sideReady")
  /\ child' = spawned /\ CoreStarted("Sidecar")
  /\ Goto(c, "started")
  /\ UNCHANGED <<locks, ready, exitTask, procs, reservation, svc, owner, known, os, life>>

-----------------------------------------------------------------------------
(* Applying the system proxy to the core that has started.                 *)

Required(k) == IF k \in ToSidecar THEN {"Sidecar"}
               ELSE IF k = "replace" THEN {"Service"} ELSE {"Sidecar", "Service"}

Started(c) ==
  /\ Holds(c, "started")
  /\ Goto(c, IF Serving /\ mode \in Required(op[c].kind) THEN "apply"
             ELSE IF op[c].kind = "start" THEN "ok" ELSE GivesUp(op[c].kind))
  /\ UNCHANGED <<locks, core, side, svc, owner, known, os, life>>

\* What the proxy is applied for: this mode, readiness and, for the helper, monitor.
Expectation == [mode |-> mode, gen |-> ready.gen, mon |-> IF mode = "Service" THEN monGen ELSE 0]
StillValid(c) == Serving /\ Expectation = op[c].seen

\* At login on macOS a proxy without a network is left to the network watcher.
Capture(c) ==
  /\ Holds(c, "apply")
  /\ \/ ~Serving /\ Goto(c, GivesUp(op[c].kind))
     \/ IsMac /\ Serving /\ enable /\ Goto(c, "ok")
     \/ Serving /\ op' = [op EXCEPT ![c].at = "applyWrite", ![c].seen = Expectation]
  /\ UNCHANGED <<locks, core, side, svc, owner, known, os, life>>

\* Sysopt::update_sysproxy, or the helper on macOS.  A failed write leaves the
\* proxy as it was or unset, and the guard, if it ran, running or not.
ThroughHelper == IsMac /\ mode = "Service"
Written(value) ==
  /\ ThroughHelper => session # 0 /\ served = session
  /\ proxy' = value /\ guard' = FALSE /\ UNCHANGED enable
NotWritten ==
  /\ proxy' \in {proxy, FALSE} /\ guard' \in {guard, FALSE} /\ UNCHANGED enable

ApplyWrite(c) ==
  /\ Holds(c, "applyWrite")
  /\ \/ Written(enable) /\ Goto(c, "applyCheck")
     \/ NotWritten /\ Goto(c, GivesUp(op[c].kind))
  /\ UNCHANGED <<locks, core, side, svc, owner, known, life>>

ApplyCheck(c) ==
  /\ Holds(c, "applyCheck")
  /\ Goto(c, IF StillValid(c) THEN "applyGuard" ELSE "applyUndo")
  /\ UNCHANGED <<locks, core, side, svc, owner, known, os, life>>

\* The guard starts when the proxy is enabled; it may refuse to.
ApplyGuard(c) ==
  /\ Holds(c, "applyGuard")
  /\ guard' \in {FALSE, enable} /\ UNCHANGED <<enable, proxy>>
  /\ \/ Goto(c, "applyRecheck")
     \/ ThroughHelper /\ enable /\ ~guard' /\ Goto(c, GivesUp(op[c].kind))
  /\ UNCHANGED <<locks, core, side, svc, owner, known, life>>

ApplyRecheck(c) ==
  /\ Holds(c, "applyRecheck")
  /\ Goto(c, IF StillValid(c) THEN "ok" ELSE "applyUndo")
  /\ UNCHANGED <<locks, core, side, svc, owner, known, os, life>>

ApplyUndo(c) ==
  /\ Holds(c, "applyUndo")
  /\ Cleared \/ ClearFailed
  /\ Goto(c, GivesUp(op[c].kind))
  /\ UNCHANGED <<locks, core, side, svc, owner, known, life>>

\* The user turns the proxy on or off; off needs no core.
SetProxy(c) ==
  /\ Holds(c, "proxy")
  /\ \/ enable /\ Goto(c, "apply") /\ UNCHANGED os
     \/ ~enable /\ Written(FALSE) /\ Goto(c, "ok")
     \/ ~enable /\ NotWritten /\ Goto(c, "failed")
  /\ UNCHANGED <<locks, core, side, svc, owner, known, life>>

\* rollback_failed_sidecar_transition: if the proxy cannot be cleared the child stays.
RollBack(c) ==
  /\ Holds(c, "rollback")
  /\ allowed' = IF op[c].kind = "continue" THEN FALSE ELSE allowed
  /\ \/ mode # "Sidecar" /\ Become(c, "undo", "undo") /\ UNCHANGED os
     \/ mode = "Sidecar" /\ Cleared /\ Become(c, "undo", "stopCore")
     \/ mode = "Sidecar" /\ ClearFailed /\ Goto(c, "failed")
  /\ UNCHANGED <<locks, core, side, svc, owner, health, life>>

Undo(c) ==
  /\ Holds(c, "undo")
  /\ StopGuard /\ CoreStopped
  /\ Goto(c, "failed")
  /\ UNCHANGED <<locks, side, svc, owner, known, life>>

-----------------------------------------------------------------------------
(* What happens without the lifecycle lock.                                *)

Observe ==
  /\ health' \in Healths /\ allowed' = FALSE
  /\ UNCHANGED <<locks, op, core, side, svc, owner, os, life>>

ChildEnds(p) ==
  /\ proc[p] \in {"up", "dying"}
  /\ proc' = [proc EXCEPT ![p] = "dead"]
  /\ UNCHANGED <<locks, op, core, child, exitTask, drain, drainGen, spawned, reservation,
                 svc, owner, known, os, life>>

\* The reader of a child's events learns that it ended and says so, which ends
\* the exit task; withdraws the readiness it started with; clears what is left.
DrainTells(p) ==
  /\ proc[p] = "dead" /\ drain[p] = "reading"
  /\ drain' = [drain EXCEPT ![p] = "told"]
  /\ reservation' = IF reservation = p THEN 0 ELSE reservation
  /\ UNCHANGED <<locks, op, core, child, exitTask, proc, drainGen, spawned,
                 svc, owner, known, os, life>>

\* fault: a readiness withdrawn already is taken for a child cleared already.
DrainInvalidates_Stops(p) ==
  /\ drain[p] = "told"
  /\ IF ready.gen = drainGen[p]
     THEN ready' = NotReady(ready) /\ drain' = [drain EXCEPT ![p] = "waiting"]
     ELSE UNCHANGED ready /\ drain' = [drain EXCEPT ![p] = "done"]
  /\ UNCHANGED <<locks, op, mode, pac, child, exitTask, proc, drainGen, spawned, reservation,
                 svc, owner, known, os, life>>

DrainInvalidates(p) ==
  /\ drain[p] = "told"
  /\ drain' = [drain EXCEPT ![p] = "waiting"]
  /\ ready' = IF ready.gen = drainGen[p] THEN NotReady(ready) ELSE ready
  /\ UNCHANGED <<locks, op, mode, pac, child, exitTask, proc, drainGen, spawned, reservation,
                 svc, owner, known, os, life>>

\* fault: whatever child is reported is taken for the one that ended.
DrainClears_AnyChild(p) ==
  /\ drain[p] = "waiting" /\ lock = None
  /\ drain' = [drain EXCEPT ![p] = "done"]
  /\ IF mode = "Sidecar"
     THEN child' = 0 /\ StopGuard /\ CoreStopped
     ELSE UNCHANGED <<child, core, os>>
  /\ UNCHANGED <<locks, op, exitTask, proc, drainGen, spawned, reservation, svc, owner, known, life>>

DrainClears(p) ==
  /\ drain[p] = "waiting" /\ lock = None
  /\ drain' = [drain EXCEPT ![p] = "done"]
  /\ IF mode = "Sidecar" /\ child = p
     THEN child' = 0 /\ StopGuard /\ CoreStopped
     ELSE UNCHANGED <<child, core, os>>
  /\ UNCHANGED <<locks, op, exitTask, proc, drainGen, spawned, reservation, svc, owner, known, life>>

\* The helper: its core ends and is started again, another user takes it over.
ServiceCoreEnds ==
  /\ svcCore /\ svcCore' = FALSE
  /\ UNCHANGED <<locks, op, core, side, served, granted, owner, known, os, life>>
ServiceCoreReturns ==
  /\ served # 0 /\ ~svcCore /\ reservation = 0 /\ svcCore' = TRUE
  /\ UNCHANGED <<locks, op, core, side, served, granted, owner, known, os, life>>
Displaced ==
  /\ served # 0 /\ served' = 0 /\ svcCore' = FALSE
  /\ UNCHANGED <<locks, op, core, side, granted, owner, known, os, life>>

\* A monitor ends when it is superseded or the helper is not used any more.
Swap(m, n) == monitors' = (monitors \ {m}) \cup {n}
MonitorEnds(m) ==
  /\ m.at = "watching" /\ (monGen # m.gen \/ mode # "Service")
  /\ monitors' = monitors \ {m}
  /\ UNCHANGED <<locks, op, core, side, svc, session, monGen, known, os, life>>

\* The samples that make it recover: OwnerWatch; nobody answers; not ours; no core.
Whys == {"TransportFailure", "Displaced", "SameOwnerFailure"}
Loss(why) ==
  \/ why = "TransportFailure"
  \/ why = "Displaced" /\ (session = 0 \/ served # session)
  \/ why = "SameOwnerFailure" /\ session # 0 /\ served = session /\ ~svcCore

\* recover_after_owner_loss: first it claims the generation it watched ...
MonitorClaims(m, why) ==
  /\ m.at = "watching" /\ mode = "Service" /\ monGen = m.gen
  /\ Loss(why)
  /\ Swap(m, [m EXCEPT !.at = "claimed", !.why = why])
  /\ monGen' = m.gen + 1
  /\ UNCHANGED <<locks, op, core, side, svc, session, known, os, life>>

\* ... then it withdraws the readiness, whatever that is of by now ...
MonitorInvalidates(m) ==
  /\ m.at = "claimed"
  /\ Swap(m, [m EXCEPT !.at = "waiting"])
  /\ ready' = NotReady(ready)
  /\ UNCHANGED <<locks, op, mode, pac, side, svc, session, monGen, known, os, life>>

\* fault: nothing is looked at again once the lock is there.
MonitorRecovers_Blindly(m) ==
  /\ m.at = "waiting" /\ lock = None
  /\ monitors' = monitors \ {m}
  /\ IF mode = "Service" THEN Recover(m.why)
     ELSE UNCHANGED <<session, core, known, os>>
  /\ UNCHANGED <<locks, op, side, svc, monGen, life>>

\* fault: the generation is compared with the one before the claim.
MonitorRecovers_Captured(m) ==
  /\ m.at = "waiting" /\ lock = None
  /\ monitors' = monitors \ {m}
  /\ IF monGen = m.gen /\ mode = "Service" THEN Recover(m.why)
     ELSE UNCHANGED <<session, core, known, os>>
  /\ UNCHANGED <<locks, op, side, svc, monGen, life>>

\* ... and then it waits for the lock and looks again.
MonitorRecovers(m) ==
  /\ m.at = "waiting" /\ lock = None
  /\ monitors' = monitors \ {m}
  /\ IF monGen = m.gen + 1 /\ mode = "Service" THEN Recover(m.why)
     ELSE UNCHANGED <<session, core, known, os>>
  /\ UNCHANGED <<locks, op, side, svc, monGen, life>>

-----------------------------------------------------------------------------
Work(c) ==
  \/ LockWrite(c) \/ Validate(c) \/ Reload(c) \/ LockLifecycle(c)
  \/ Return(c) \/ Cleaned(c) \/ Exit(c) \/ Left(c)
  \/ Admit(c) \/ Restage(c) \/ SetUp(c)
  \/ Plan(c) \/ StopProxy(c) \/ StopCore(c) \/ StopExit(c) \/ StopIpc(c)
  \/ Start(c) \/ Decide(c) \/ StartFailed(c)
  \/ ServiceRefresh(c) \/ ServiceStart(c) \/ ServiceIpc(c) \/ ServiceStarted(c)
  \/ SidecarExit(c) \/ SidecarReserve(c) \/ SidecarSpawn(c) \/ SidecarProbe(c) \/ SidecarReady(c)
  \/ Started(c) \/ Capture(c) \/ ApplyWrite(c) \/ ApplyCheck(c) \/ ApplyGuard(c)
  \/ ApplyRecheck(c) \/ ApplyUndo(c) \/ SetProxy(c) \/ RollBack(c) \/ Undo(c)

Drain(p) == DrainTells(p) \/ DrainInvalidates(p) \/ DrainClears(p)
Monitor(m) ==
  \/ MonitorEnds(m) \/ MonitorInvalidates(m) \/ MonitorRecovers(m)
  \/ \E why \in Whys : MonitorClaims(m, why)

Next ==
  \/ \E c \in Calls : Work(c) \/ \E k \in Kinds : Begin(c, k)
  \/ \E p \in Pids : ChildEnds(p) \/ Drain(p)
  \/ \E m \in monitors : Monitor(m)
  \/ Observe \/ ServiceCoreEnds \/ ServiceCoreReturns \/ Displaced

Spec == Init /\ [][Next]_vars

(* What the runtime owes: it polls every task, requests to the helper and to   *)
(* the core have timeouts, and so does the wait for a child.  The mutexes are  *)
(* fair, so weak fairness is enough while MaxOps bounds the calls; the same    *)
(* bound makes one condition for all the readers of children, and one for all  *)
(* the monitors, as good as one for each.                                      *)
(* Nobody owes that a request gets lost, or that a child ends.                 *)
Watches(m) ==
  \/ MonitorEnds(m) \/ MonitorInvalidates(m) \/ MonitorRecovers(m)
  \/ MonitorClaims(m, "Displaced")
Fairness ==
  /\ \A c \in Calls : WF_vars(Work(c))
  /\ WF_vars(\E p \in Pids : Drain(p))
  /\ WF_vars(\E m \in monitors : Watches(m))

FairSpec == Spec /\ Fairness

-----------------------------------------------------------------------------
(* Properties.                                                             *)

Stages == {"idle", "lock", "write", "validate", "reload", "admit", "restage", "uninstall", "reinstall", "plan", "stop", "stopCore",
           "stopExit", "stopIpc", "start", "decide", "startFailed", "svcRefresh", "svcStart",
           "svcIpc", "svcStarted", "sideExit", "sideReserve", "sideSpawn", "sideProbe",
           "sideReady", "started", "apply", "applyWrite", "applyCheck", "applyGuard",
           "applyRecheck", "applyUndo", "proxy", "rollback", "undo", "ok", "failed",
           "exit", "stay"}

\* Every variable keeps to its range: a child that is known has been started,
\* and a session that is known has been granted.
TypeOK ==
  /\ {flag, writer, lock} \subseteq Calls \cup {None}
  /\ op \in [Calls -> [kind : Callable \cup {None, "replace", "undo", "leave"},
                       at : Stages, handOver : BOOLEAN,
                       seen : [mode : Modes, gen : Nat, mon : Nat]]]
  /\ mode \in Modes /\ pac \in BOOLEAN
  /\ ready \in [gen : Nat, active : BOOLEAN]
  /\ spawned \in 0 .. 2 * MaxOps
  /\ {child, exitTask} \subseteq 0 .. spawned /\ reservation \in 0 .. spawned + 1
  /\ proc \in [Pids -> {"unborn", "up", "dying", "dead"}]
  /\ drain \in [Pids -> {"unborn", "reading", "told", "waiting", "done"}]
  /\ drainGen \in [Pids -> Nat]
  /\ granted \in Nat /\ {served, session} \subseteq 0 .. granted
  /\ monGen \in Nat
  /\ \A m \in monitors :
       /\ m.gen \in 1 .. monGen /\ m.sess \in 0 .. granted
       /\ m.at \in {"watching", "claimed", "waiting"} /\ m.why \in Whys \cup {"nothing"}
  /\ health \in Healths /\ exited \in {"no", "clean", "dirty"} /\ begun \in 0 .. Budget
  /\ {svcCore, allowed, enable, proxy, guard, exiting} \subseteq BOOLEAN

\* Whatever the calls, the readers of the children and the helper do meanwhile,
\* two cores never run at the same time: neither two children of which one is
\* only on its way out, nor a child beside the core of the helper
\* (start_core_by_sidecar takes the machine-wide reservation, state.rs).
Alive(p) == proc[p] \in {"up", "dying"}
OneCore ==
  /\ \A p, q \in Pids : Alive(p) /\ Alive(q) => p = q
  /\ svcCore => \A p \in Pids : ~Alive(p)

\* With the lifecycle lock free, what the manager reports fits together: a
\* Sidecar has its child, no other child goes on running, a Service has its
\* session, only a core that runs is ready, a Sidecar's readiness is the one its
\* reader may withdraw, and a child that has ended is reported only until its
\* reader has looked (clear_terminated_sidecar).
SettledCore ==
  lock = None =>
    /\ (mode = "Sidecar") <=> (child # 0)
    /\ \A p \in Pids : proc[p] = "up" => child = p
    /\ mode = "Service" => session # 0
    /\ ready.active => mode # "NotRunning"
    /\ ready.active /\ mode = "Sidecar" => ready.gen = drainGen[child]
    /\ mode = "Sidecar" /\ proc[child] = "dead" => drain[child] # "done"

\* With the lifecycle lock free, the proxy guard, which keeps setting the system
\* proxy, never outlives the core it was started for, however that core ended
\* (stop_guard and clear in lifecycle.rs, state.rs and service.rs).
GuardServed == lock = None /\ guard => mode # "NotRunning"

\* With the lifecycle lock free, a core of the helper is always watched: a
\* monitor of the current generation looks, or has claimed a recovery that the
\* current generation still lets it carry out (start_owner_monitor, service.rs).
ServiceWatched ==
  lock = None /\ mode = "Service" =>
    \E m \in monitors :
      /\ m.sess = session
      /\ m.gen = (IF m.at = "watching" THEN monGen ELSE monGen - 1)

\* A recovery gives up only the session its monitor watched: never that of a
\* core that was started after the loss was noticed (recover_after_owner_loss).
RecoveryHitsItsSession ==
  [][\A m \in monitors : MonitorRecovers(m) /\ session' # session => m.sess = session]_vars

\* An application that leaves without giving up, and with no other quit under
\* way, leaves no core it reports and no child it has not killed, whatever quits
\* failed before and whatever starts were waiting (quit, RunEvent::Exit).
QuitLeavesNoCore ==
  [][exited = "no" /\ exited' = "clean" /\ (\A c \in Calls : op'[c].kind \notin {"quit", "leave"})
       => mode' = "NotRunning" /\ \A p \in Pids : proc'[p] # "up"]_vars

\* With the lifecycle lock free, the PAC file is served exactly when a core runs,
\* whatever ended it or failed to start it (enter_mode, runstate/mod.rs).
PacFollowsMode == lock = None => pac = (mode # "NotRunning")

\* A restart whose start fails leaves the proxy direct, the guard stopped and PAC
\* unavailable: lifecycle.rs:1326 (its stop had a core to take them from).
RestartFailsDirect ==
  [][\A c \in Calls : StartFailed(c) /\ op[c].kind = "restart" /\ op[c].handOver
       => ~proxy' /\ ~guard' /\ ~pac']_vars

\* Every call comes back, though it waits for up to three locks and for a child
\* that may not end, unless the last stop of an application that leaves is dropped.
EveryCallEnds ==
  \A c \in Calls : op[c].kind # None ~> op[c].kind = None \/ exited = "dirty"

\* A child that has ended is not reported for ever, even when what it had made
\* ready was withdrawn for another reason (monitor_stdout's end, state.rs).
DeadReported == child # 0 /\ proc[child] = "dead"
DeadChildNoticed == DeadReported ~> (~DeadReported \/ exited = "dirty")

\* A helper that works for somebody else is not reported as ours for ever.
LossNoticed ==
  (mode = "Service" /\ served # session) ~>
    (mode # "Service" \/ served = session \/ exited = "dirty")
=============================================================================
