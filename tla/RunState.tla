------------------------------- MODULE RunState -------------------------------
(***************************************************************************)
(* The store of the Run State (core/runstate): what is known of the        *)
(* privileged service, which action on it is pending and whether the       *)
(* session settled on the sidecar.  Tasks of the multi-threaded runtime    *)
(* call it; each call is a sequence of steps, cut where the code awaits,   *)
(* unlocks or reads another atomic.  The machine's answers (installation   *)
(* evidence, IPC replies, the outcome of a privileged command) are         *)
(* nondeterministic.                                                       *)
(*                                                                         *)
(* A definition X_Fault, next to X, is what X would be with a plausible    *)
(* mistake in the code; a run that puts it in X's place must fail.         *)
(***************************************************************************)
EXTENDS Naturals

CONSTANTS Tasks,      \* the tasks that may be inside the store at once
          MaxCalls    \* bound: how many calls begin in a behaviour

ASSUME RunStateAssumption == MaxCalls \in Nat

PendingAction == {"Install", "Uninstall", "Reinstall", "ForceReinstall"}
NoAction == "None"

\* ServiceHealth: Unavailable(reason) is its reason.
Unavailable == {"Undetectable", "Silent", "CoreUnavailable", "Lost"}
Health == {"Unknown", "Ready", "NotInstalled", "VersionMismatch"} \cup Unavailable

VersionedService == [health : Health, pending : PendingAction \cup {NoAction},
                     sidecar : BOOLEAN, observation : Nat]

----------------------------------------------------------------------------
\* StoredService (health.rs)

Observed(v, h)  == [v EXCEPT !.health = h, !.pending = NoAction, !.sidecar = FALSE]
Requested(v, a) == [v EXCEPT !.pending = a, !.sidecar = FALSE]
Allowed_KeepsPending(v) == [v EXCEPT !.sidecar = TRUE]
Allowed(v)      == [v EXCEPT !.pending = NoAction, !.sidecar = TRUE]

----------------------------------------------------------------------------
\* Probes (probe.rs).  A reply is what its code, protocol and core say.

Replies == [compatible : BOOLEAN, core : {"Ready", "Rejected", "Missing"}]

VersionCheck(reply) ==
  IF ~reply.compatible THEN "NeedsReinstall"
  ELSE IF reply.core = "Ready" THEN "Ready" ELSE "CoreUnavailable"

ReplyHealth_Verdict(reply) == VersionCheck(reply)

\* The health a reply is recorded as, by a probe and by a detection alike.
ReplyHealth(reply) ==
  [Ready |-> "Ready", NeedsReinstall |-> "VersionMismatch",
   CoreUnavailable |-> "CoreUnavailable"][VersionCheck(reply)]

----------------------------------------------------------------------------
\* RunStateStore (mod.rs): each operator is one critical section.

Bump(v) == [v EXCEPT !.observation = @ + 1]

Quiet(v) == v.pending = NoAction /\ ~v.sidecar

\* fault: an observation replaces the record and does not move the revision
Observe_Silent(v, h) == Observed(v, h)

Observe(v, h) == IF v.health = h /\ Quiet(v) THEN Bump(v) ELSE Bump(Observed(v, h))

\* fault: the reservation is not compared
CommitReserved_Unchecked(v, h, reservation) == Observed(v, h)

CommitReserved(v, h, reservation) ==
  IF v.observation # reservation THEN v
  ELSE IF v.health = h /\ Quiet(v) THEN v ELSE Observed(v, h)

RequestAction(v, a) ==
  IF v.pending = a /\ ~v.sidecar THEN Bump(v) ELSE Bump(Requested(v, a))

AcceptSidecar(v) ==
  IF v.sidecar /\ v.pending = NoAction THEN Bump(v) ELSE Bump(Allowed(v))

RestoreAllowance(v) ==
  IF v.sidecar THEN Bump(v)
  ELSE IF v.health = "Ready" THEN v ELSE Bump(Allowed(v))

WithdrawAllowance(v) ==
  IF v.sidecar THEN Bump([v EXCEPT !.sidecar = FALSE]) ELSE v

\* allow_sidecar_for_session permits ...
SidecarPermitted(v, running) ==
  /\ ~running
  /\ \/ v.pending = "Install"
     \/ Quiet(v) /\ v.health \in {"NotInstalled", "VersionMismatch"} \cup Unavailable

AllowAfterRefusal(v) == Bump(Allowed([v EXCEPT !.health = "Lost"]))

\* fault: the absence of the service is not confirmed
Requirable_Unconfirmed(v) == Quiet(v)

\* require_install_for_session, once no operation is running
Requirable(v) == Quiet(v) /\ v.health = "NotInstalled"

RequireInstall(v) ==
  IF Requirable(v) THEN Bump(Requested(v, "Install"))
  ELSE IF v.pending = "Install" THEN Bump(v) ELSE v

----------------------------------------------------------------------------
VARIABLES
  store,       \* VersionedService, under its mutex
  opRunning,   \* operation_running
  waiters,     \* tasks registered with operation_done and not yet notified
  pc,          \* where each task is in its call
  local,       \* the locals of each task's call
  calls,       \* calls begun so far
  overtaken    \* history: readings begun before somebody wrote the store

vars == <<store, opRunning, waiters, pc, local, calls, overtaken>>

Calls == {"Startup", "Probe", "Refresh", "Current", "Continue"} \cup PendingAction

Reading   == {"inspecting", "querying", "committing"}
Operating == {"requesting", "privileged", "restoring", "releasing"}
Settling  == {"registered", "cloned", "waiting"}
Steps     == {"idle", "probing", "notifying", "returned", "allowing", "starting"}
               \cup Reading \cup Operating \cup Settling

Service == [health : Health, pending : PendingAction \cup {NoAction}, sidecar : BOOLEAN]

Locals == [call : Calls \cup {NoAction},    \* what the task was called for
           displaced : BOOLEAN,             \* the request cleared an allowance
           reservation : Nat,               \* revision its reading reserved
           found : Health,                  \* health its reading found
           snap : Service]                  \* service cloned by settled()

ServiceOf(v) == [health |-> v.health, pending |-> v.pending, sidecar |-> v.sidecar]

Fresh == [health |-> "Unknown", pending |-> NoAction, sidecar |-> FALSE, observation |-> 0]
Blank == [call |-> NoAction, displaced |-> FALSE, reservation |-> 0, found |-> "Unknown",
          snap |-> ServiceOf(Fresh)]

Init == /\ store = Fresh
        /\ opRunning = FALSE
        /\ waiters = {}
        /\ pc = [t \in Tasks |-> "idle"]
        /\ local = [t \in Tasks |-> Blank]
        /\ calls = 0
        /\ overtaken = {}

----------------------------------------------------------------------------
\* Tasks taking a reading, and the ones that own the operation slot.
ReadingTasks == {t \in Tasks : pc[t] \in Reading}

Privileged(t) == local[t].call \in PendingAction \cup {"Refresh"}
Holds(t) == \/ pc[t] \in Operating
            \/ pc[t] \in Reading \cup {"probing"} /\ Privileged(t)

Goto(t, label) == pc' = [pc EXCEPT ![t] = label] /\ UNCHANGED local
Return(t) == /\ pc' = [pc EXCEPT ![t] = "idle"]
             /\ local' = [local EXCEPT ![t] = Blank]

\* A write of the store by anyone overtakes every reading under way.
Say(v) == store' = v /\ overtaken' = ReadingTasks
SayIf(stated, v) == store' = v /\ overtaken' = IF stated THEN ReadingTasks ELSE overtaken
SayNothing == UNCHANGED <<store, overtaken>>

\* observe_current_health begins: reserve a revision, then inspect the machine.
Reserve(t, call) ==
  /\ store' = Bump(store)
  /\ overtaken' = ReadingTasks
  /\ pc' = [pc EXCEPT ![t] = "inspecting"]
  /\ local' = [local EXCEPT ![t].call = call, ![t].reservation = store'.observation]

----------------------------------------------------------------------------
\* Startup, alone: nothing else calls the store before it is over.
StartupDone == calls > 0 /\ \A t \in Tasks : local[t].call # "Startup"

DetectStartupStatus(t) ==
  /\ calls = 0 /\ calls' = 1 /\ MaxCalls > 0
  /\ pc[t] = "idle"
  /\ Reserve(t, "Startup")
  /\ UNCHANGED <<opRunning, waiters>>

\* The dev-sidecar build settles on the sidecar without looking.
AcceptSidecarAtStartup ==
  /\ calls = 0 /\ calls' = 1 /\ MaxCalls > 0
  /\ Say(AcceptSidecar(store))
  /\ UNCHANGED <<opRunning, waiters, pc, local>>

Called == StartupDone /\ calls < MaxCalls /\ calls' = calls + 1

Begin(t, call, label) ==
  /\ Called
  /\ pc[t] = "idle"
  /\ pc' = [pc EXCEPT ![t] = label]
  /\ local' = [local EXCEPT ![t].call = call]

----------------------------------------------------------------------------
\* A reading: evidence, then IPC, then the commit.
InspectEvidence(t) ==
  /\ pc[t] = "inspecting"
  /\ \/ Goto(t, "querying")
     \/ \E h \in {"NotInstalled", "Undetectable"} :
          /\ pc' = [pc EXCEPT ![t] = "committing"]
          /\ local' = [local EXCEPT ![t].found = h]
  /\ SayNothing /\ UNCHANGED <<opRunning, waiters, calls>>

QueryService(t) ==
  /\ pc[t] = "querying"
  /\ \E h \in {ReplyHealth(reply) : reply \in Replies} \cup {"Undetectable"} :
       local' = [local EXCEPT ![t].found = h]
  /\ pc' = [pc EXCEPT ![t] = "committing"]
  /\ SayNothing /\ UNCHANGED <<opRunning, waiters, calls>>

CommitReading(t) ==
  /\ pc[t] = "committing"
  /\ store' = CommitReserved(store, local[t].found, local[t].reservation)
  /\ overtaken' = overtaken \ {t}
  /\ IF local[t].call = "Startup" THEN Return(t) ELSE Goto(t, "restoring")
  /\ UNCHANGED <<opRunning, waiters, calls>>

----------------------------------------------------------------------------
\* probe() and await_ready(): a readable reply is recorded, whoever asked.
BeginProbe(t) ==
  /\ Begin(t, "Probe", "probing")
  /\ SayNothing /\ UNCHANGED <<opRunning, waiters>>

HearReply(t) ==
  /\ pc[t] = "probing"
  /\ \E reply \in Replies :
       /\ Say(Observe(store, ReplyHealth(reply)))
       /\ CASE local[t].call = "Probe" -> Return(t)
            [] local[t].call \in PendingAction /\ VersionCheck(reply) # "Ready" -> Goto(t, "restoring")
            [] OTHER -> Goto(t, "releasing")
  /\ UNCHANGED <<opRunning, waiters, calls>>

\* fault: silence after a privileged action is not recorded
GiveUp_Unrecorded(t) ==
  /\ pc[t] = "probing"
  /\ CASE local[t].call = "Probe"   -> Return(t)
       [] local[t].call = "Refresh" -> Goto(t, "releasing")
       [] OTHER -> Goto(t, "restoring")
  /\ SayNothing /\ UNCHANGED <<opRunning, waiters, calls>>

\* fault: a refresh that hears nothing returns without its guard
GiveUp_LeaksSlot(t) ==
  /\ pc[t] = "probing"
  /\ CASE local[t].call \in {"Probe", "Refresh"} -> Return(t) /\ SayNothing
       [] OTHER -> Goto(t, "restoring") /\ Say(Observe(store, "Silent"))
  /\ UNCHANGED <<opRunning, waiters, calls>>

\* No readable reply: only the wait that follows a privileged action records it.
GiveUp(t) ==
  /\ pc[t] = "probing"
  /\ CASE local[t].call = "Probe"   -> Return(t) /\ SayNothing
       [] local[t].call = "Refresh" -> Goto(t, "releasing") /\ SayNothing
       [] OTHER -> Goto(t, "restoring") /\ Say(Observe(store, "Silent"))
  /\ UNCHANGED <<opRunning, waiters, calls>>

----------------------------------------------------------------------------
\* Privileged operations: claim the slot, request, run, wait, restore, release.
\* fault: the slot is set without looking at its old value
BeginOperation_Unclaimed(t) ==
  /\ opRunning' = TRUE
  /\ \/ Begin(t, "Refresh", "probing")
     \/ \E a \in PendingAction : Begin(t, a, "requesting")
  /\ Say(Bump(store))
  /\ UNCHANGED waiters

BeginOperation(t) ==
  /\ ~opRunning
  /\ opRunning' = TRUE
  /\ \/ Begin(t, "Refresh", "probing")
     \/ \E a \in PendingAction : Begin(t, a, "requesting")
  /\ Say(Bump(store))
  /\ UNCHANGED waiters

RequestPending(t) ==
  /\ pc[t] = "requesting"
  /\ Say(RequestAction(store, local[t].call))
  /\ pc' = [pc EXCEPT ![t] = "privileged"]
  /\ local' = [local EXCEPT ![t].displaced = store.sidecar]
  /\ UNCHANGED <<opRunning, waiters, calls>>

Perform(t) ==
  /\ pc[t] = "privileged"
  /\ \/ /\ local[t].call = "Uninstall"
        /\ Say(Observe(store, "NotInstalled"))
        /\ Goto(t, "releasing")
     \/ /\ local[t].call # "Uninstall"
        /\ SayNothing
        /\ Goto(t, "probing")
     \/ Reserve(t, local[t].call)
  /\ UNCHANGED <<opRunning, waiters, calls>>

\* run_action_restoring_sidecar, after a failure
Restore(t) ==
  /\ pc[t] = "restoring"
  /\ IF local[t].displaced
       THEN SayIf(store.sidecar \/ store.health # "Ready", RestoreAllowance(store))
       ELSE SayNothing
  /\ Goto(t, "releasing")
  /\ UNCHANGED <<opRunning, waiters, calls>>

\* fault: the guard clears the slot and wakes nobody
ReleaseSlot_Silent(t) ==
  /\ pc[t] = "releasing"
  /\ opRunning' = FALSE
  /\ Return(t)
  /\ SayNothing /\ UNCHANGED <<waiters, calls>>

\* OperationGuard::drop clears the slot, then notifies.
ReleaseSlot(t) ==
  /\ pc[t] = "releasing"
  /\ opRunning' = FALSE
  /\ Goto(t, "notifying")
  /\ SayNothing /\ UNCHANGED <<waiters, calls>>

NotifyWaiters(t) ==
  /\ pc[t] = "notifying"
  /\ waiters' = {}
  /\ Return(t)
  /\ SayNothing /\ UNCHANGED <<opRunning, calls>>

----------------------------------------------------------------------------
\* settled(): register, clone the service under its lock, then read the slot.
BeginSettled(t) ==
  /\ \E call \in {"Current", "Continue"} : Begin(t, call, "registered")
  /\ waiters' = waiters \cup {t}
  /\ SayNothing /\ UNCHANGED opRunning

CloneService(t) ==
  /\ pc[t] = "registered"
  /\ pc' = [pc EXCEPT ![t] = "cloned"]
  /\ local' = [local EXCEPT ![t].snap = ServiceOf(store)]
  /\ SayNothing /\ UNCHANGED <<opRunning, waiters, calls>>

ReadSlot(t) ==
  /\ pc[t] = "cloned"
  /\ IF opRunning
       THEN Goto(t, "waiting") /\ UNCHANGED waiters
       ELSE Goto(t, "returned") /\ waiters' = waiters \ {t}
  /\ SayNothing /\ UNCHANGED <<opRunning, calls>>

Wake(t) ==
  /\ pc[t] = "waiting" /\ t \notin waiters
  /\ waiters' = waiters \cup {t}
  /\ Goto(t, "registered")
  /\ SayNothing /\ UNCHANGED <<opRunning, calls>>

\* continue_with_sidecar goes on from a status that can_allow_sidecar accepts.
CanAllow(service) ==
  \/ service.pending = "Install"
  \/ Quiet(service) /\ service.health \in {"NotInstalled", "VersionMismatch"} \cup Unavailable

UseSettled(t) ==
  /\ pc[t] = "returned"
  /\ IF local[t].call = "Continue" /\ CanAllow(local[t].snap)
       THEN Goto(t, "allowing") ELSE Return(t)
  /\ SayNothing /\ UNCHANGED <<opRunning, waiters, calls>>

----------------------------------------------------------------------------
\* The sidecar decision and its withdrawal.
AllowForSession(t) ==
  /\ pc[t] = "allowing"
  /\ IF SidecarPermitted(store, opRunning)
       THEN Say(Bump(Allowed(store))) /\ Goto(t, "starting")
       ELSE SayNothing /\ Return(t)
  /\ UNCHANGED <<opRunning, waiters, calls>>

FallBack(t) ==
  /\ Begin(t, "Continue", "starting")
  /\ ~opRunning /\ store.pending = NoAction
  /\ Say(AllowAfterRefusal(store))
  /\ UNCHANGED <<opRunning, waiters>>

SidecarStart(t) ==
  /\ pc[t] = "starting"
  /\ \/ SayNothing
     \/ SayIf(store.sidecar, WithdrawAllowance(store))
  /\ Return(t)
  /\ UNCHANGED <<opRunning, waiters, calls>>

----------------------------------------------------------------------------
\* Single calls: a lost owner or a refused start, and a required installation.
ServiceLost ==
  /\ Called
  /\ Say(Observe(store, "Lost"))
  /\ UNCHANGED <<opRunning, waiters, pc, local>>

RequireInstallForSession ==
  /\ Called
  /\ ~opRunning
  /\ SayIf(Requirable(store) \/ store.pending = "Install", RequireInstall(store))
  /\ UNCHANGED <<opRunning, waiters, pc, local>>

----------------------------------------------------------------------------
\* What a task does by itself once it was called ...
Continue(t) ==
  \/ InspectEvidence(t) \/ QueryService(t) \/ CommitReading(t)
  \/ HearReply(t) \/ GiveUp(t)
  \/ RequestPending(t) \/ Perform(t) \/ Restore(t) \/ ReleaseSlot(t) \/ NotifyWaiters(t)
  \/ CloneService(t) \/ ReadSlot(t) \/ Wake(t) \/ UseSettled(t)
  \/ AllowForSession(t) \/ SidecarStart(t)

\* ... and the calls, which nothing obliges anybody to make.
Call(t) ==
  \/ DetectStartupStatus(t)
  \/ BeginProbe(t) \/ BeginOperation(t) \/ BeginSettled(t) \/ FallBack(t)

Next == \/ \E t \in Tasks : Continue(t) \/ Call(t)
        \/ AcceptSidecarAtStartup \/ ServiceLost \/ RequireInstallForSession

Spec == Init /\ [][Next]_vars

\* The runtime polls every task that can go on, every IPC call has a timeout,
\* and a privileged command returns once the user answered its prompt.
FairSpec == Spec /\ \A t \in Tasks : WF_vars(Continue(t))

----------------------------------------------------------------------------
\* Every variable stays in its range.
TypeOK ==
  /\ store \in VersionedService
  /\ opRunning \in BOOLEAN
  /\ waiters \subseteq Tasks
  /\ pc \in [Tasks -> Steps]
  /\ local \in [Tasks -> Locals]
  /\ calls \in 0 .. MaxCalls
  /\ overtaken \subseteq Tasks

\* health.rs: "pending and sidecar_allowed are mutually exclusive", whatever
\* the order in which requests, observations and allowances arrive.
IntentsExclusive == ~(store.pending # NoAction /\ store.sidecar)

\* Exactly the task between begin_operation and the drop of its guard holds
\* the operation slot: two privileged commands never run at once, and the slot
\* is neither lost nor left taken on any early return.
SlotHeldByOneOperation ==
  /\ opRunning <=> \E t \in Tasks : Holds(t)
  /\ \A t, u \in Tasks : Holds(t) /\ Holds(u) => t = u

\* A reading is refused exactly when somebody wrote the store since it began,
\* also when that write changed nothing visible.
StaleExactlyWhenOvertaken ==
  \A t \in ReadingTasks : t \in overtaken <=> local[t].reservation # store.observation

\* A request for a privileged action is on record only while the operation that
\* made it has still to settle it, or when an installation was required: no
\* outcome of the action, its wait or its reading leaves it behind.
Unsettled(t) == pc[t] \in {"privileged", "probing"} \cup Reading
NoOrphanedRequest ==
  store.pending # NoAction =>
    \/ \E t \in Tasks : Holds(t) /\ Unsettled(t) /\ local[t].call = store.pending
    \/ /\ store.pending = "Install"
       /\ \A t \in Tasks : Holds(t) => pc[t] = "requesting" \/ local[t].call = "Refresh"

\* A session never settles on the sidecar while the service is known to be
\* ready: neither the user's choice, nor a fallback, nor the restoration after
\* a failed operation can allow it then.
SidecarNeverShadowsReadyService == store.sidecar => store.health # "Ready"

\* What makes the invariants above inductive: what each task can have been
\* called for where it is, what is known before the first call, and who can
\* have written the store since a privileged task's request.
CallsFit ==
  \A t \in Tasks :
    /\ pc[t] \in Reading => local[t].call \in PendingAction \cup {"Startup"}
    /\ pc[t] = "probing" => local[t].call \in PendingAction \cup {"Probe", "Refresh"}
    /\ pc[t] \in {"requesting", "privileged", "restoring"} => local[t].call \in PendingAction

BeforeFirstCall ==
  calls = 0 => /\ \A t \in Tasks : pc[t] = "idle"
               /\ store.health = "Unknown" /\ Quiet(store)

ReservationsPast == \A t \in ReadingTasks : local[t].reservation <= store.observation

\* A privileged task whose reading was overtaken has no request left to settle.
OvertakenIsSettled ==
  \A t \in ReadingTasks : Holds(t) /\ t \in overtaken =>
    store.pending = NoAction

RequiredInstallIsForAbsence ==
  store.pending = "Install" =>
    \/ \E t \in Tasks : Holds(t) /\ Unsettled(t) /\ local[t].call = "Install"
    \/ store.health = "NotInstalled"

IInv == /\ TypeOK /\ CallsFit /\ BeforeFirstCall /\ ReservationsPast
        /\ IntentsExclusive /\ SlotHeldByOneOperation /\ StaleExactlyWhenOvertaken
        /\ OvertakenIsSettled /\ NoOrphanedRequest /\ RequiredInstallIsForAbsence
        /\ SidecarNeverShadowsReadyService

\* The store implements the register with fresh readings: a write makes every
\* reading under way stale, and only a fresh one lands.
Report(h) == [health |-> h, pending |-> NoAction, sidecar |-> FALSE]
Register == INSTANCE ServiceRegister WITH
  Readers <- Tasks,
  known   <- ServiceOf(store),
  reading <- ReadingTasks,
  fresh   <- ReadingTasks \ overtaken
ImplementsRegister == Register!Spec

\* settled() always returns to a caller that sleeps until the operation in
\* flight is over: no notification is lost between its check and its sleep.
SleeperWakes == \A t \in Tasks : pc[t] = "waiting" ~> pc[t] # "waiting"

\* Every privileged operation gives the slot back, on every outcome.
SlotIsFreed == opRunning ~> ~opRunning
==============================================================================
