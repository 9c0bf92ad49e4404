----------------------------- MODULE ProxyGuard -----------------------------
(***************************************************************************)
(* Who writes the system proxy, and in what order (core/proxy_control.rs,  *)
(* core/sysopt.rs, core/network_watch.rs, core/notification.rs).           *)
(* A call made under the lifecycle lock applies or clears the proxy, either *)
(* from this process, or on macOS through the privileged helper when the   *)
(* core runs there.  Two kinds of guard write it again without that lock:  *)
(* the local one, a thread of the sysproxy crate, and one loop per         *)
(* generation that asks the helper.  A patch of the settings edits what    *)
(* everybody reads before it gets the lock, and takes it back when it      *)
(* fails.  Failures are kept in a table for the window.                    *)
(* update_lock and guard_operation_lock only ever have one holder, the     *)
(* call under the lifecycle lock, and are left out.                        *)
(***************************************************************************)
EXTENDS Naturals, Sequences

CONSTANTS Platforms,   \* those the application may find itself on
          Settings,    \* on each: enable_system_proxy, proxy_auto_config, enable_proxy_guard
          MaxCalls,    \* bound: calls, and patches of the settings,
          MaxPatches,  \* bound: of these
          MaxFails     \* GUARD_FAILURES_BEFORE_STOPPING

VARIABLES platform,
          verge,     \* the settings latest_arc returns
          patch,     \* the patch in progress
          mode,      \* running mode of the core
          session,   \* proof of the helper session; 0: none
          lost,      \* the helper works for somebody else, and nobody has acted on it
          net,       \* macOS has a network service to write the proxy on
          reapply,   \* tasks network_watch has spawned that have not got the locks
          os,        \* what the OS has for each of the two kinds of proxy
          gen,       \* guard_generation
          opLock,    \* operation_lock: "free", "call" or "loop"
          local,     \* the local guard
          loops,     \* loops that ask the helper
          call,      \* the call under the lifecycle lock
          promise,   \* what the last apply or clear says the OS has, and the last guard writes
          writer,    \* the latest generation whose write through the helper has landed
          failures,  \* PENDING_FAILURES: the operation filed under each code
          calls, patches

vars == <<platform, verge, patch, mode, session, lost, net, reapply, os, gen, opLock,
          local, loops, call, promise, writer, failures,
          calls, patches>>

Kinds == {"global", "pac"}
Off == [k \in Kinds |-> "off"]
Wanted(v) == IF v.sys THEN IF v.pac THEN "pac" ELSE "global" ELSE "none"
Target(v) == [k \in Kinds |-> IF k = Wanted(v) THEN "on" ELSE "off"]
IsMac == platform = "macos"

-----------------------------------------------------------------------------
(* The table of failures.                                                  *)

Requests == {"Enable", "Disable"}
Operations == Requests \cup {"Restore", "Guard"}
Codes == {"PrivilegeRequired", "DirectFallback", "SystemCallFailed", "GuardStopped"}

Outranks(a, b) == a \in Requests /\ b = "Restore"
\* fault: any success answers for everything.
RetiredBy_Any(o, asked) == o # "Guard" /\ asked # "Guard"
RetiredBy(o, asked) ==
  o # "Guard" /\ asked # "Guard" /\ (asked \in Requests \/ o = "Restore")

Recorded(t, o, code) ==
  [t EXCEPT ![code] = IF Outranks(t[code], o) THEN t[code] ELSE o]
Retired(t, asked) ==
  [c \in Codes |-> IF t[c] # "none" /\ RetiredBy(t[c], asked) THEN "none" ELSE t[c]]
GuardRetired(t) == [c \in Codes |-> IF t[c] = "Guard" THEN "none" ELSE t[c]]

-----------------------------------------------------------------------------
(* The call under the lifecycle lock: what it still has to do, and where   *)
(* it is in the first of these.                                            *)

Idle == [why |-> "none", todo |-> << >>, at |-> "next", asked |-> "Restore",
         cfg |-> [sys |-> FALSE, pac |-> FALSE, guard |-> FALSE], mine |-> 0,
         was |-> FALSE, drained |-> TRUE, wrote |-> FALSE, skipped |-> FALSE,
         code |-> "none", tries |-> 1, valid |-> TRUE]

Put(o) == [os |-> o, guard |-> {}, meant |-> {}]

Init ==
  /\ platform \in Platforms
  /\ verge \in Settings[platform]
  /\ patch = [at |-> "none", old |-> verge]
  /\ mode = "NotRunning" /\ session = 0 /\ lost = FALSE /\ net = TRUE /\ reapply = 0
  /\ os = Off /\ gen = 0 /\ opLock = "free"
  /\ local = [run |-> "stopped", type |-> "none", writes |-> "none"] /\ loops = {}
  /\ call = Idle /\ promise = Put({}) /\ writer = 0
  /\ failures = [c \in Codes |-> "none"] /\ calls = 0 /\ patches = 0

core == <<mode, session, lost>>
settings == <<verge, patch>>
watch == <<platform, net, reapply>>
guards == <<local, loops>>
locks == <<gen, opLock>>
said == <<promise, writer>>

Begin(why, todo, asked) ==
  /\ call.why = "none" /\ calls + patches < MaxCalls /\ calls' = calls + 1
  /\ call' = [Idle EXCEPT !.why = why, !.todo = todo, !.asked = asked]

\* apply_proxy_after_start: readiness is checked again after each write.
Applying == <<"apply", "check", "refresh", "check">>
CanApply == verge.sys => mode # "NotRunning"

\* A start, in either mode.
Start(m) ==
  /\ mode = "NotRunning" /\ Begin("apply", Applying, "Restore")
  /\ mode' = m /\ session' = IF m = "Service" THEN calls + 1 ELSE 0
  /\ UNCHANGED <<lost, watch, settings, os, locks, guards, said, failures, patches>>

\* run_controlled_stop_transition: a handover keeps the proxy for the helper, and on macOS
\* the helper unsets what it has set when its core stops.
Stop(handOver) ==
  /\ mode # "NotRunning" /\ (handOver => mode = "Sidecar")
  /\ Begin("stop", IF handOver \/ (mode = "Service" /\ IsMac) THEN <<"stop", "end">>
                                                              ELSE <<"clear", "end">>, "Restore")
  /\ UNCHANGED <<core, watch, settings, os, locks, guards, said, failures, patches>>

\* The owner monitor withdraws readiness, then waits for the lock.
LoseOwner ==
  /\ mode = "Service" /\ ~lost
  /\ lost' = TRUE /\ call' = [call EXCEPT !.valid = FALSE]
  /\ UNCHANGED <<mode, session, watch, settings, os, locks, guards, said, failures, calls, patches>>
\* recover_after_owner_loss_while_locked; macOS leaves the proxy to the other owner.
Recover ==
  /\ lost /\ mode = "Service"
  /\ Begin("loss", IF IsMac THEN <<"stop", "end">> ELSE <<"stop", "end", "clear">>, "Restore")
  /\ UNCHANGED <<core, watch, settings, os, locks, guards, said, failures, patches>>

\* apply_verge_patch_locked: everybody reads the edit before the patch has the lock.
Edit(v) ==
  /\ patch.at = "none" /\ v # verge /\ patches < MaxPatches /\ patches' = patches + 1
  /\ patch' = [at |-> "waiting", old |-> verge] /\ verge' = v
  /\ UNCHANGED <<watch, core, os, locks, guards, call, said, failures, calls>>
AskedBy(old, new) ==
  IF old.sys = new.sys THEN "Restore" ELSE IF new.sys THEN "Enable" ELSE "Disable"
ApplyPatch ==
  /\ patch.at = "waiting" /\ call.why = "none"
  /\ IF CanApply
     THEN /\ Begin("patch", IF verge.sys THEN Applying ELSE <<"apply", "refresh">>,
                   AskedBy(patch.old, verge))
          /\ patch' = [patch EXCEPT !.at = "applying"] /\ UNCHANGED verge
     ELSE /\ patch' = [patch EXCEPT !.at = "none"] /\ verge' = patch.old
          /\ UNCHANGED <<call, calls>>
  /\ UNCHANGED <<watch, core, os, locks, guards, said, failures, patches>>

\* A side effect of the patch that comes before the proxy has failed.
RefusePatch ==
  /\ patch.at = "waiting" /\ verge' = patch.old /\ patch' = [patch EXCEPT !.at = "none"]
  /\ UNCHANGED <<watch, core, os, locks, guards, call, said, failures, calls, patches>>

\* The system loses or gains a network service, which the monitor reports.
Network ==
  /\ IsMac /\ calls < MaxCalls /\ net' = ~net
  /\ reapply' = IF net' THEN 1 ELSE reapply
  /\ UNCHANGED <<platform, settings, core, os, locks, guards, call, said, failures, calls, patches>>
\* network_watch::reapply, under the lock of the configuration and the lifecycle's.
Reapply ==
  /\ reapply > 0 /\ reapply' = 0 /\ patch.at = "none" /\ call.why = "none"
  /\ IF verge.sys /\ net /\ mode # "NotRunning"
     THEN Begin("apply", Applying, "Restore")
     ELSE UNCHANGED <<call, calls>>
  /\ UNCHANGED <<platform, net, settings, core, os, locks, guards, said, failures, patches>>

-----------------------------------------------------------------------------
(* The steps of a call.                                                    *)

Doing(p, s) == call.todo # << >> /\ Head(call.todo) = p /\ call.at = s
Goto(s) == call' = [call EXCEPT !.at = s]
quiet == <<core, settings, watch, calls, patches>>   \* what most steps leave alone
other == <<core, watch, calls, patches>>

\* A call ends when it has nothing left to do, or a step of it fails: a patch that fails
\* puts the settings back.
Finish(ok) ==
  /\ call' = Idle
  /\ IF call.why = "patch"
     THEN patch' = [patch EXCEPT !.at = "none"] /\ verge' = IF ok THEN verge ELSE patch.old
     ELSE UNCHANGED settings
StepDone ==
  IF Len(call.todo) = 1 THEN Finish(TRUE)
  ELSE /\ call' = [Idle EXCEPT !.why = call.why, !.todo = Tail(call.todo),
                               !.asked = call.asked, !.valid = call.valid]
       /\ UNCHANGED settings
StepFailed == Finish(FALSE)

\* settle_table: an apply that succeeds retires what it answers; a clear only files.
Settled(code) ==
  failures' = IF code # "none" THEN Recorded(failures, call.asked, code)
              ELSE IF Head(call.todo) = "apply" THEN Retired(failures, call.asked) ELSE failures

Vouch(target, written) ==
  promise' = [promise EXCEPT !.os = IF call.drained /\ written THEN {target} ELSE {},
                             !.meant = IF call.drained THEN {target} ELSE {}]

ThroughHelper == IsMac /\ mode = "Service"
NewGeneration == gen' = gen + 1
\* Telling the local guard to stop: it finishes the write it is in.
Shutdown ==
  local' = [local EXCEPT !.run = IF @ \in {"writing", "draining"} THEN "draining" ELSE "stopped"]
Drained == local.run = "stopped"

\* apply and clear without the helper: the local guard is told to stop.
Local(p) ==
  /\ Doing(p, "next") /\ p \in {"apply", "clear"} /\ ~ThroughHelper
  /\ \/ /\ Shutdown /\ promise' = Put({})
        /\ call' = [call EXCEPT !.at = "wait", !.cfg = IF p = "apply" THEN verge ELSE Idle.cfg,
                                !.was = local.run # "stopped", !.wrote = FALSE, !.code = "none"]
        /\ UNCHANGED settings
     \/ /\ p = "apply" /\ StepFailed /\ UNCHANGED <<local, promise>>    \* no PAC server
  /\ UNCHANGED <<other, os, locks, loops, writer, failures>>

\* GUARD_DRAIN_TIMEOUT: a guard that hangs in its write is not waited for any longer.
Wait(p) ==
  /\ Doing(p, "wait")
  /\ call' = [call EXCEPT !.at = CASE p = "apply" /\ ThroughHelper -> "invalidate"
                                   [] p \in {"stop", "refresh"} -> "release"
                                   [] OTHER -> "first",
                          !.drained = Drained]
  /\ UNCHANGED <<quiet, os, locks, guards, said, failures>>

\* The order of the two writes of an apply: PAC is unset before a global proxy is set.
Step(c, s) == IF (Wanted(c) = "global") = (s = "first") THEN "pac" ELSE "global"
GuardType(c) == IF c.guard THEN Wanted(c) ELSE "none"

Outcome(p) == IF platform = "macos" THEN {"none", "PrivilegeRequired"}
              ELSE IF platform = "windows" THEN {"none", "SystemCallFailed"} ELSE {"none"}
\* On Linux a setter that returned says nothing about what was written.
Unknown(partly) == platform # "linux" /\ (call.wrote \/ partly)

\* fault: a write that found no network service counts as written.
Written_Unserved == TRUE
Written == ~call.skipped /\ (IsMac => net)
ApplyDone ==
  /\ local' = [local EXCEPT !.type = GuardType(call.cfg)]
  /\ Settled("none") /\ StepDone
  /\ Vouch(Target(call.cfg), Written)
\* On macOS nothing is written when the OS, read after the guard has drained, has it all.
AlreadyApplied ==
  /\ Doing("apply", "first") /\ IsMac /\ net /\ call.drained /\ os = Target(call.cfg)
  /\ ApplyDone
  /\ UNCHANGED <<other, os, locks, loops, writer>>
Write(s) ==
  LET k == Step(call.cfg, s)
      to == Target(call.cfg)[k]
      unserved == IsMac /\ ~net
  IN /\ Doing("apply", s) /\ s \in {"first", "second"}
     /\ s = "first" => ~(IsMac /\ net /\ call.drained /\ os = Target(call.cfg))
     /\ unserved => to = "off"                       \* skip_without_network_service
     /\ os' = IF unserved THEN os ELSE [os EXCEPT ![k] = to]
     /\ IF s = "first"
        THEN /\ call' = [call EXCEPT !.at = "second", !.wrote = ~unserved, !.skipped = unserved]
             /\ UNCHANGED <<settings, local, promise, failures>>
        ELSE ApplyDone
     /\ UNCHANGED <<other, locks, loops, writer>>
\* recover_from_failed_write: an OS that is as it was gets its guard back; one in an unknown
\* state gets no guard and is turned off.
WriteFails(s, partly, code) ==
  LET k == Step(call.cfg, s)
  IN /\ Doing("apply", s) /\ s \in {"first", "second"} /\ code \in Outcome("apply")
     /\ partly => (IsMac => net)
     /\ os' = IF partly THEN [os EXCEPT ![k] = "part"] ELSE os
     /\ IF Unknown(partly)
        THEN /\ local' = [local EXCEPT !.type = "none"]
             /\ call' = [call EXCEPT !.at = "compensate", !.code = code]
             /\ UNCHANGED <<settings, failures>>
        ELSE /\ local' = IF call.was /\ Drained THEN [local EXCEPT !.run = "running"] ELSE local
             /\ Settled(code) /\ StepFailed
     /\ UNCHANGED <<other, locks, loops, said>>
\* Both kinds are turned off, each whether or not the other could be.
TurnedOff(failed) == [k \in Kinds |-> IF k \in failed \/ (IsMac /\ ~net) THEN os[k] ELSE "off"]
Compensate(failed) ==
  /\ Doing("apply", "compensate") /\ os' = TurnedOff(failed)
  /\ Settled(call.code) /\ StepFailed
  /\ UNCHANGED <<other, locks, guards, said>>

-----------------------------------------------------------------------------
(* Clearing.                                                               *)

ClearDone ==
  /\ Settled("none") /\ StepDone
  /\ Vouch(Off, Written)
AlreadyCleared ==
  /\ Doing("clear", "first") /\ IsMac /\ net /\ call.drained /\ os = Off
  /\ ClearDone
  /\ UNCHANGED <<other, os, locks, guards, writer>>
\* disable_until_the_last_write_is_ours: after a guard that did not stop, once more.
TurnOff(s) ==
  /\ Doing("clear", s) /\ s \in {"first", "second"}
  /\ s = "first" => ~(IsMac /\ net /\ call.drained /\ os = Off)
  /\ os' = TurnedOff({})
  /\ IF s = "second" \/ call.drained THEN ClearDone
     ELSE /\ call' = [call EXCEPT !.at = "again", !.skipped = IsMac /\ ~net]
          /\ UNCHANGED <<settings, promise, failures>>
  /\ UNCHANGED <<other, locks, guards, writer>>
WaitAgain ==
  /\ Doing("clear", "again")
  /\ call' = [call EXCEPT !.at = "second", !.drained = Drained]
  /\ UNCHANGED <<quiet, os, locks, guards, said, failures>>
\* CLEAR_ATTEMPTS: a failed system call is tried again, and after a loss any failure is.
\* (The two nested loops of a loss are one here.)
TurnOffFails(s, failed, code) ==
  /\ Doing("clear", s) /\ s \in {"first", "second"} /\ code \in Outcome("clear")
  /\ os' = TurnedOff(failed)
  /\ IF (code = "SystemCallFailed" \/ call.why = "loss") /\ call.tries < 3
     THEN /\ call' = [call EXCEPT !.tries = @ + 1, !.at = "next"]
          /\ UNCHANGED <<settings, failures>>
     ELSE Settled(code) /\ StepFailed
  /\ UNCHANGED <<other, locks, guards, said>>

-----------------------------------------------------------------------------
(* Through the helper: a newer generation first, then the operation lock.  *)

Helper(p) ==
  /\ Doing(p, "next") /\ p \in {"apply", "clear"} /\ ThroughHelper
  /\ \/ /\ p = "apply" /\ Shutdown /\ promise' = Put({})
        /\ call' = [call EXCEPT !.at = "wait", !.cfg = verge]
        /\ UNCHANGED settings
     \/ /\ p = "apply" /\ StepFailed /\ UNCHANGED <<local, promise>>    \* no port: not filed
     \/ /\ p = "clear" /\ promise' = Put({})
        /\ call' = [call EXCEPT !.at = "invalidate", !.cfg = Idle.cfg]
        /\ UNCHANGED <<settings, local>>
  /\ UNCHANGED <<other, os, locks, loops, writer, failures>>
Invalidate ==
  /\ Doing(Head(call.todo), "invalidate") /\ NewGeneration
  /\ call' = [call EXCEPT !.at = "queue", !.mine = gen + 1]
  /\ UNCHANGED <<quiet, os, opLock, guards, said, failures>>
\* cancel_and_drain: refresh_guard and stop_guard.
Cancel(p) ==
  /\ Doing(p, "next") /\ p \in {"stop", "refresh"} /\ NewGeneration
  /\ call' = [call EXCEPT !.at = "queue", !.mine = gen + 1]
  /\ UNCHANGED <<quiet, os, opLock, guards, said, failures>>
Queue ==
  /\ Doing(Head(call.todo), "queue") /\ opLock = "free" /\ opLock' = "call"
  /\ IF Head(call.todo) \in {"stop", "refresh"} THEN Shutdown /\ Goto("wait")
     ELSE UNCHANGED local /\ Goto("ask")
  /\ UNCHANGED <<quiet, os, gen, loops, said, failures>>
\* set_system_proxy_by_service: refused, lost on its way, its answer lost, or done; the
\* helper may have fallen back to no proxy, which answers a request for none.
Asked(landed, answer) ==
  /\ Doing(Head(call.todo), "ask") /\ opLock' = "free"
  /\ lost => ~landed
  /\ answer # "error" => landed
  /\ os' = IF ~landed THEN os ELSE IF answer = "fallback" THEN Off ELSE Target(call.cfg)
  /\ writer' = IF landed THEN call.mine ELSE writer
  /\ IF answer = "applied" \/ (answer = "fallback" /\ ~call.cfg.sys)
     THEN Settled("none") /\ StepDone /\ Vouch(Target(call.cfg), TRUE)
     ELSE Settled(IF answer = "fallback" THEN "DirectFallback" ELSE "none") /\ StepFailed
          /\ UNCHANGED promise
  /\ UNCHANGED <<other, gen, guards>>

-----------------------------------------------------------------------------
(* The guards.                                                             *)

\* stop_guard ends here; refresh_guard goes on to start another.
Release ==
  /\ Doing(Head(call.todo), "release") /\ opLock' = "free"
  /\ promise' = IF call.drained
                THEN [promise EXCEPT !.guard = {}, !.os = IF @ = {} THEN @ ELSE @ \cup promise.guard]
                ELSE Put({})
  /\ IF Head(call.todo) = "stop" THEN StepDone ELSE Goto("guard") /\ UNCHANGED settings
  /\ UNCHANGED <<other, os, gen, guards, writer, failures>>
Guarded == verge.sys /\ verge.guard
\* Sysopt::refresh_guard; a guard that has not finished refuses to start.
GuardLocally ==
  /\ Doing("refresh", "guard") /\ ~ThroughHelper
  /\ local' = IF Guarded /\ local.run = "stopped" THEN [local EXCEPT !.run = "running"] ELSE local
  /\ promise' = IF Guarded /\ local.type # "none"
                THEN [promise EXCEPT !.guard = {[Off EXCEPT ![local.type] = "on"]}] ELSE promise
  /\ failures' = GuardRetired(failures) /\ StepDone
  /\ UNCHANGED <<other, os, locks, loops, writer>>
\* The loop keeps the generation of the refresh, the session and the settings it found.
NewLoop == [gen |-> call.mine, proof |-> session, cfg |-> verge, fails |-> 0, at |-> "sleep"]
GuardThroughHelper ==
  /\ Doing("refresh", "guard") /\ ThroughHelper
  /\ \/ /\ IF Guarded THEN loops' = loops \cup {NewLoop} /\ promise' = [promise EXCEPT !.guard = {Target(verge)}]
           ELSE UNCHANGED <<loops, promise>>
        /\ failures' = GuardRetired(failures) /\ StepDone
     \/ Guarded /\ StepFailed /\ UNCHANGED <<loops, promise, failures>>   \* no port, no session
  /\ UNCHANGED <<other, os, locks, local, writer>>

\* Readiness, checked after each write: undone when it has changed.
Check ==
  /\ Doing("check", "next")
  /\ IF call.valid THEN StepDone
     ELSE call' = [call EXCEPT !.todo = <<"clear", "stop", "fail">>, !.valid = TRUE] /\ UNCHANGED settings
  /\ UNCHANGED <<other, os, locks, guards, said, failures>>
Fail ==
  /\ Doing("fail", "next") /\ StepFailed
  /\ UNCHANGED <<other, os, locks, guards, said, failures>>
\* The core is gone, and its session; on macOS the helper has unset the proxy.
End ==
  /\ Doing("end", "next") /\ StepDone
  /\ mode' = "NotRunning" /\ session' = 0 /\ lost' = FALSE
  /\ os' = IF ThroughHelper THEN Off ELSE os
  /\ promise' = IF ThroughHelper THEN Put({}) ELSE promise
  /\ UNCHANGED <<watch, calls, patches, locks, guards, writer, failures>>

\* The thread of the sysproxy crate: it reads its target, writes, and may hang in the write.
LocalBegins ==
  /\ local.run = "running" /\ local.type # "none"
  /\ local' = [local EXCEPT !.run = "writing", !.writes = local.type]
  /\ UNCHANGED <<quiet, os, locks, loops, call, said, failures>>
LocalLands ==
  /\ local.run \in {"writing", "draining"}
  /\ local' = [local EXCEPT !.run = IF @ = "writing" THEN "running" ELSE "stopped", !.writes = "none"]
  /\ os' = IF IsMac /\ ~net THEN os ELSE [os EXCEPT ![local.writes] = "on"]
  /\ UNCHANGED <<quiet, locks, loops, call, said, failures>>

\* fault: only the session is compared.
Current_AnyGeneration(l) == mode = "Service" /\ session = l.proof
\* run_guard_request: under the operation lock a loop that has been overtaken ends.
Current(l) == l.gen = gen /\ mode = "Service" /\ session = l.proof
Becomes(l, m) == loops' = (loops \ {l}) \cup {m}
LoopAsks(l) ==
  /\ l.at = "sleep" /\ opLock = "free"
  /\ IF Current(l) THEN opLock' = "loop" /\ Becomes(l, [l EXCEPT !.at = "asking"])
     ELSE loops' = loops \ {l} /\ UNCHANGED opLock
  /\ UNCHANGED <<quiet, os, gen, local, call, said, failures>>
\* fault: one failure too late.
GaveUp_Late(l) == l.fails + 1 > MaxFails
GaveUp(l) == l.fails + 1 >= MaxFails
LoopAnswered(l, landed, ok) ==
  /\ l.at = "asking" /\ opLock' = "free"
  /\ ok => landed
  /\ lost => ~landed
  /\ os' = IF landed THEN Target(l.cfg) ELSE os
  /\ writer' = IF landed THEN l.gen ELSE writer
  /\ Becomes(l, IF ok THEN [l EXCEPT !.at = "sleep", !.fails = 0]
                ELSE [l EXCEPT !.at = IF GaveUp(l) THEN "report" ELSE "sleep",
                               !.fails = @ + 1])
  /\ UNCHANGED <<quiet, gen, local, call, promise, failures>>
\* fault: a loop that has been replaced reports all the same.
MayReport_Always(l) == TRUE
\* report_guard_stopped: a loop that has been replaced says nothing.
MayReport(l) == l.gen = gen
LoopReports(l) ==
  /\ l.at = "report" /\ opLock = "free" /\ loops' = loops \ {l}
  /\ failures' = IF MayReport(l) THEN Recorded(failures, "Guard", "GuardStopped") ELSE failures
  /\ UNCHANGED <<quiet, os, locks, local, call, said>>

-----------------------------------------------------------------------------
CallStep ==
  \/ \E p \in {"apply", "clear", "stop", "refresh"} :
        Local(p) \/ Wait(p) \/ Helper(p) \/ Cancel(p)
  \/ AlreadyApplied \/ AlreadyCleared \/ WaitAgain
  \/ \E s \in {"first", "second"} :
        \/ Write(s) \/ TurnOff(s)
        \/ \E code \in Codes \cup {"none"} :
              \/ \E partly \in BOOLEAN : WriteFails(s, partly, code)
              \/ \E failed \in SUBSET Kinds \ {{}} : TurnOffFails(s, failed, code)
  \/ \E failed \in SUBSET Kinds : Compensate(failed)
  \/ call.todo # << >> /\ (Invalidate \/ Queue \/ Release)
  \/ \E landed \in BOOLEAN, answer \in {"applied", "fallback", "error"} :
        call.todo # << >> /\ Asked(landed, answer)
  \/ GuardLocally \/ GuardThroughHelper \/ Check \/ Fail \/ End
LoopStep == \E l \in loops : \/ LoopAsks(l) \/ LoopReports(l)
                             \/ \E landed, ok \in BOOLEAN : LoopAnswered(l, landed, ok)
Next ==
  \/ \E m \in {"Service", "Sidecar"} : Start(m)
  \/ \E handOver \in BOOLEAN : Stop(handOver)
  \/ LoseOwner \/ Recover \/ ApplyPatch \/ RefusePatch \/ Network \/ Reapply
  \/ \E v \in Settings[platform] : Edit(v)
  \/ CallStep \/ LoopStep \/ LocalBegins \/ LocalLands

Spec == Init /\ [][Next]_vars

-----------------------------------------------------------------------------
TypeOK ==
  /\ platform \in Platforms /\ {verge, patch.old} \subseteq Settings[platform]
  /\ patch.at \in {"none", "waiting", "applying"}
  /\ mode \in {"NotRunning", "Sidecar", "Service"} /\ {lost, net} \subseteq BOOLEAN
  /\ os \in [Kinds -> {"on", "off", "part"}]
  /\ opLock \in {"free", "call", "loop"}
  /\ local.run \in {"stopped", "running", "writing", "draining"}
  /\ {local.type, local.writes} \subseteq Kinds \cup {"none"}
  /\ \A l \in loops : l.gen \in 1 .. gen /\ l.fails \in 0 .. MaxFails
  /\ \A c \in Codes : failures[c] \in Operations \cup {"none"}

\* What an apply or a clear put in the OS stays there: until the next one begins nothing
\* else is written than what the guard started since was told, whichever guards of earlier
\* calls are asleep, on their way to the helper, or late to finish (stop_proxy_guard,
\* apply_through_service, run_guard_request).
LastWriteStands == promise.os # {} => os \in promise.os \cup promise.guard

\* Through the helper, what a generation asks for never lands after what a newer one has
\* asked for (invalidate_guard, cancel_and_drain).
WritesInOrder == [][writer' >= writer]_vars

\* With no call in progress, the window is not told that the guard has stopped while a
\* guard that has not been replaced is at work (report_guard_stopped, refresh_guard).
StoppedMeansStopped ==
  call.why = "none" /\ failures["GuardStopped"] # "none"
     => \A l \in loops : ~Current(l)

\* The failure of something the user asked for stays filed until something the user asks
\* for succeeds: neither a restore that fails nor one that succeeds takes its place.
RequestStaysOwed ==
  [][\A c \in Codes : failures[c] \in Requests /\ failures'[c] \notin Requests
        => call.why = "patch" /\ call.asked \in Requests]_vars

\* network_watch.rs:3-4, "A write that found no service wrote nothing, and a switch to
\* another service leaves the proxy on the old one; both need the write repeated": once a
\* network is back and nothing is left to do, the OS has what was last asked for.
WriteIsRepeated ==
  call.why = "none" /\ patch.at = "none" /\ reapply = 0 /\ net
     /\ ~verge.sys /\ promise.meant = {Off}
     => \A k \in Kinds : os[k] # "on"

\* network_watch.rs:39-40 (and feat/backup.rs:56), what is applied "is committed state, not
\* a patch that may still roll back": at rest no proxy is left, and none is guarded, but
\* that of the settings.
CommittedProxy ==
  call.why = "none" /\ patch.at = "none"
     => \A t \in promise.os \cup promise.guard : t \in {Off, Target(verge)}
=============================================================================
