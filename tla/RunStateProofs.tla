---------------------------- MODULE RunStateProofs ----------------------------
(***************************************************************************)
(* What RunState promises for every set of tasks and every bound: its      *)
(* types, the exclusive use of the operation slot, the exact staleness of  *)
(* readings and the implementation of ServiceRegister.                     *)
(***************************************************************************)
EXTENDS RunState, TLAPS

----------------------------------------------------------------------------
\* The critical sections of the store keep it a versioned service, and each
\* either moves the revision by one or leaves it.
LEMMA BumpType ==
  ASSUME NEW v \in VersionedService
  PROVE  /\ Bump(v) \in VersionedService
         /\ Bump(v).observation = v.observation + 1
         /\ Bump(v).health = v.health
         /\ Bump(v).pending = v.pending
         /\ Bump(v).sidecar = v.sidecar
         /\ ServiceOf(Bump(v)) = ServiceOf(v)
BY DEF Bump, VersionedService, ServiceOf

LEMMA ObservedType ==
  ASSUME NEW v \in VersionedService, NEW h \in Health
  PROVE  /\ Observed(v, h) \in VersionedService
         /\ Observed(v, h).observation = v.observation
         /\ ServiceOf(Observed(v, h)) = Report(h)
BY DEF Observed, VersionedService, ServiceOf, Report

LEMMA RequestedType ==
  ASSUME NEW v \in VersionedService, NEW a \in PendingAction
  PROVE  /\ Requested(v, a) \in VersionedService
         /\ Requested(v, a).observation = v.observation
         /\ Requested(v, a).health = v.health
         /\ Requested(v, a).pending = a
         /\ Requested(v, a).sidecar = FALSE
BY DEF Requested, VersionedService

LEMMA AllowedType ==
  ASSUME NEW v \in VersionedService
  PROVE  /\ Allowed(v) \in VersionedService
         /\ Allowed(v).observation = v.observation
         /\ Allowed(v).health = v.health
         /\ Allowed(v).pending = NoAction
         /\ Allowed(v).sidecar = TRUE
BY DEF Allowed, VersionedService

\* An observation is always recorded as itself, and always moves the revision.
LEMMA ObserveType ==
  ASSUME NEW v \in VersionedService, NEW h \in Health
  PROVE  /\ Observe(v, h) \in VersionedService
         /\ Observe(v, h).observation = v.observation + 1
         /\ ServiceOf(Observe(v, h)) = Report(h)
<1>1. CASE v.health = h /\ Quiet(v)
  <2>1. ServiceOf(v) = Report(h)
    BY <1>1 DEF VersionedService, ServiceOf, Report, Quiet
  <2> QED BY <1>1, <2>1, BumpType DEF Observe
<1>2. CASE ~(v.health = h /\ Quiet(v))
  BY <1>2, ObservedType, BumpType DEF Observe
<1> QED BY <1>1, <1>2

\* A reserved reading is recorded as itself when its revision still stands, and
\* otherwise changes nothing; it never moves the revision.
LEMMA CommitReservedType ==
  ASSUME NEW v \in VersionedService, NEW h \in Health, NEW r \in Nat
  PROVE  /\ CommitReserved(v, h, r) \in VersionedService
         /\ CommitReserved(v, h, r).observation = v.observation
         /\ v.observation = r => ServiceOf(CommitReserved(v, h, r)) = Report(h)
         /\ v.observation # r => CommitReserved(v, h, r) = v
<1>1. CASE v.health = h /\ Quiet(v)
  <2>1. ServiceOf(v) = Report(h)
    BY <1>1 DEF VersionedService, ServiceOf, Report, Quiet
  <2> QED BY <1>1, <2>1 DEF CommitReserved
<1>2. CASE ~(v.health = h /\ Quiet(v))
  BY <1>2, ObservedType DEF CommitReserved
<1> QED BY <1>1, <1>2

\* A request that is recorded anew, with its revision moved.
LEMMA BumpRequestedType ==
  ASSUME NEW v \in VersionedService, NEW a \in PendingAction
  PROVE  /\ Bump(Requested(v, a)) \in VersionedService
         /\ Bump(Requested(v, a)).observation = v.observation + 1
         /\ Bump(Requested(v, a)).health = v.health
         /\ Bump(Requested(v, a)).pending = a
         /\ Bump(Requested(v, a)).sidecar = FALSE
<1> DEFINE w == Requested(v, a)
<1>1. /\ w \in VersionedService
      /\ w.observation = v.observation /\ w.health = v.health
      /\ w.pending = a /\ w.sidecar = FALSE
  BY RequestedType
<1> HIDE DEF w
<1>2. /\ Bump(w) \in VersionedService
      /\ Bump(w).observation = v.observation + 1
      /\ Bump(w).health = v.health
      /\ Bump(w).pending = a
      /\ Bump(w).sidecar = FALSE
  BY <1>1, BumpType
<1> QED BY <1>2 DEF w

LEMMA RequestActionType ==
  ASSUME NEW v \in VersionedService, NEW a \in PendingAction
  PROVE  /\ RequestAction(v, a) \in VersionedService
         /\ RequestAction(v, a).observation = v.observation + 1
         /\ RequestAction(v, a).health = v.health
         /\ RequestAction(v, a).pending = a
         /\ RequestAction(v, a).sidecar = FALSE
<1>1. CASE v.pending = a /\ ~v.sidecar
  BY <1>1 DEF RequestAction, Bump, VersionedService
<1>2. CASE ~(v.pending = a /\ ~v.sidecar)
  BY <1>2, BumpRequestedType DEF RequestAction
<1> QED BY <1>1, <1>2

\* Allowing the sidecar, in each of the ways the code allows it.
LEMMA BumpAllowedType ==
  ASSUME NEW v \in VersionedService
  PROVE  /\ Bump(Allowed(v)) \in VersionedService
         /\ Bump(Allowed(v)).observation = v.observation + 1
         /\ Bump(Allowed(v)).health = v.health
         /\ Bump(Allowed(v)).pending = NoAction
         /\ Bump(Allowed(v)).sidecar = TRUE
BY AllowedType, BumpType

LEMMA AcceptSidecarType ==
  ASSUME NEW v \in VersionedService
  PROVE  /\ AcceptSidecar(v) \in VersionedService
         /\ AcceptSidecar(v).observation = v.observation + 1
         /\ AcceptSidecar(v).health = v.health
         /\ AcceptSidecar(v).pending = NoAction
         /\ AcceptSidecar(v).sidecar = TRUE
<1>1. CASE v.sidecar /\ v.pending = NoAction
  BY <1>1 DEF AcceptSidecar, Bump, VersionedService
<1>2. CASE ~(v.sidecar /\ v.pending = NoAction)
  BY <1>2, BumpAllowedType DEF AcceptSidecar
<1> QED BY <1>1, <1>2

LEMMA AllowAfterRefusalType ==
  ASSUME NEW v \in VersionedService
  PROVE  /\ AllowAfterRefusal(v) \in VersionedService
         /\ AllowAfterRefusal(v).observation = v.observation + 1
         /\ AllowAfterRefusal(v).health = "Lost"
         /\ AllowAfterRefusal(v).pending = NoAction
         /\ AllowAfterRefusal(v).sidecar = TRUE
<1> DEFINE w == [v EXCEPT !.health = "Lost"]
<1>1. w \in VersionedService /\ w.observation = v.observation /\ w.health = "Lost"
  BY DEF VersionedService, Health, Unavailable
<1>2. AllowAfterRefusal(v) = Bump(Allowed(w))
  BY DEF AllowAfterRefusal
<1> HIDE DEF w
<1> QED BY <1>1, <1>2, BumpAllowedType

\* Restoring states something unless the service is ready and nothing is allowed.
LEMMA RestoreAllowanceType ==
  ASSUME NEW v \in VersionedService
  PROVE  /\ RestoreAllowance(v) \in VersionedService
         /\ RestoreAllowance(v).health = v.health
         /\ v.sidecar \/ v.health # "Ready" =>
              /\ RestoreAllowance(v).observation = v.observation + 1
              /\ RestoreAllowance(v).sidecar = TRUE
              /\ RestoreAllowance(v).pending = IF v.sidecar THEN v.pending ELSE NoAction
         /\ ~(v.sidecar \/ v.health # "Ready") => RestoreAllowance(v) = v
<1>1. CASE v.sidecar
  BY <1>1 DEF RestoreAllowance, Bump, VersionedService
<1>2. CASE ~v.sidecar
  BY <1>2, BumpAllowedType DEF RestoreAllowance
<1> QED BY <1>1, <1>2

LEMMA WithdrawAllowanceType ==
  ASSUME NEW v \in VersionedService
  PROVE  /\ WithdrawAllowance(v) \in VersionedService
         /\ WithdrawAllowance(v).health = v.health
         /\ WithdrawAllowance(v).pending = v.pending
         /\ WithdrawAllowance(v).sidecar = FALSE
         /\ v.sidecar => WithdrawAllowance(v).observation = v.observation + 1
         /\ ~v.sidecar => WithdrawAllowance(v) = v
<1> DEFINE w == [v EXCEPT !.sidecar = FALSE]
<1>1. /\ w \in VersionedService
      /\ w.observation = v.observation /\ w.health = v.health
      /\ w.pending = v.pending /\ w.sidecar = FALSE
  BY DEF VersionedService
<1>2. WithdrawAllowance(v) = IF v.sidecar THEN Bump(w) ELSE v
  BY DEF WithdrawAllowance
<1>3. v.sidecar \in BOOLEAN
  BY DEF VersionedService
<1> HIDE DEF w
<1> QED BY <1>1, <1>2, <1>3, BumpType

LEMMA RequireInstallType ==
  ASSUME NEW v \in VersionedService
  PROVE  /\ RequireInstall(v) \in VersionedService
         /\ RequireInstall(v).health = v.health
         /\ Requirable(v) \/ v.pending = "Install" =>
              /\ RequireInstall(v).observation = v.observation + 1
              /\ RequireInstall(v).pending = "Install"
              /\ RequireInstall(v).sidecar => v.sidecar
         /\ ~(Requirable(v) \/ v.pending = "Install") => RequireInstall(v) = v
<1>1. CASE Requirable(v)
  <2>1. "Install" \in PendingAction
    BY DEF PendingAction
  <2>2. /\ RequireInstall(v) \in VersionedService
        /\ RequireInstall(v).observation = v.observation + 1
        /\ RequireInstall(v).health = v.health
        /\ RequireInstall(v).pending = "Install"
        /\ RequireInstall(v).sidecar = FALSE
    BY <1>1, <2>1, BumpRequestedType DEF RequireInstall
  <2> QED BY <1>1, <2>2
<1>2. CASE ~Requirable(v)
  BY <1>2 DEF RequireInstall, Bump, VersionedService
<1> QED BY <1>1, <1>2

LEMMA ReplyHealthType ==
  ASSUME NEW reply \in Replies
  PROVE  ReplyHealth(reply) \in Health
BY DEF Replies, ReplyHealth, VersionCheck, Health, Unavailable

----------------------------------------------------------------------------
\* Moving a task along its call, or out of it, keeps the types.
LEMMA GotoType ==
  ASSUME TypeOK, NEW t \in Tasks, NEW l \in Steps, Goto(t, l)
  PROVE  pc' \in [Tasks -> Steps] /\ local' \in [Tasks -> Locals]
BY DEF TypeOK, Goto

LEMMA BlankType == Blank \in Locals /\ Fresh \in VersionedService
<1>1. Fresh \in VersionedService
  BY DEF Fresh, VersionedService, Health, NoAction
<1>2. ServiceOf(Fresh) \in Service
  BY DEF Fresh, ServiceOf, Service, Health, NoAction
<1> QED BY <1>1, <1>2 DEF Blank, Locals, Health, NoAction

LEMMA ReturnType ==
  ASSUME TypeOK, NEW t \in Tasks, Return(t)
  PROVE  pc' \in [Tasks -> Steps] /\ local' \in [Tasks -> Locals]
BY BlankType DEF TypeOK, Return, Steps

\* A call begins: the caller was idle, and only its label and its call change.
LEMMA BeginType ==
  ASSUME TypeOK, NEW t \in Tasks, NEW c \in Calls, NEW l \in Steps, Begin(t, c, l)
  PROVE  /\ pc' \in [Tasks -> Steps] /\ local' \in [Tasks -> Locals]
         /\ calls' \in 0 .. MaxCalls
<1>1. local' \in [Tasks -> Locals]
  BY DEF TypeOK, Begin, Locals
<1> QED BY <1>1, RunStateAssumption DEF TypeOK, Begin, Called

LEMMA ReserveType ==
  ASSUME TypeOK, NEW t \in Tasks, NEW c \in Calls, Reserve(t, c)
  PROVE  /\ store' \in VersionedService
         /\ overtaken' \subseteq Tasks
         /\ pc' \in [Tasks -> Steps] /\ local' \in [Tasks -> Locals]
<1>1. store' \in VersionedService /\ store'.observation \in Nat
  BY BumpType DEF TypeOK, Reserve, VersionedService
<1>2. local' \in [Tasks -> Locals]
  BY <1>1 DEF TypeOK, Reserve, Locals
<1> QED BY <1>1, <1>2 DEF TypeOK, Reserve, Steps, Reading, ReadingTasks

\* Saying v, when v is a versioned service.
LEMMA SayType ==
  ASSUME TypeOK, NEW v \in VersionedService, NEW stated \in BOOLEAN,
         Say(v) \/ SayIf(stated, v)
  PROVE  store' \in VersionedService /\ overtaken' \subseteq Tasks
BY DEF TypeOK, Say, SayIf, ReadingTasks

LEMMA StepsAndCalls ==
  /\ {"idle", "probing", "inspecting", "querying", "committing", "requesting", "privileged",
       "restoring", "releasing", "notifying", "registered", "cloned", "waiting", "returned",
       "allowing", "starting"} \subseteq Steps
  /\ {"Startup", "Probe", "Refresh", "Current", "Continue"} \subseteq Calls
  /\ PendingAction \subseteq Calls
BY DEF Steps, Reading, Operating, Settling, Calls

\* Every variable stays in its range, for every set of tasks and every bound.
LEMMA TypeStep ==
  ASSUME TypeOK, CallsFit, [Next]_vars
  PROVE  TypeOK'
<1> USE StepsAndCalls
<1>1. ASSUME NEW t \in Tasks, InspectEvidence(t) PROVE TypeOK'
  <2>1. CASE Goto(t, "querying")
    BY <1>1, <2>1, GotoType DEF InspectEvidence, SayNothing, TypeOK
  <2>2. CASE \E h \in {"NotInstalled", "Undetectable"} :
               /\ pc' = [pc EXCEPT ![t] = "committing"]
               /\ local' = [local EXCEPT ![t].found = h]
    <3>1. local' \in [Tasks -> Locals]
      BY <2>2 DEF TypeOK, Locals, Health, Unavailable
    <3> QED BY <1>1, <2>2, <3>1 DEF InspectEvidence, SayNothing, TypeOK
  <2> QED BY <1>1, <2>1, <2>2 DEF InspectEvidence
<1>2. ASSUME NEW t \in Tasks, QueryService(t) PROVE TypeOK'
  <2>1. PICK h \in {ReplyHealth(reply) : reply \in Replies} \cup {"Undetectable"} :
          local' = [local EXCEPT ![t].found = h]
    BY <1>2 DEF QueryService
  <2>2. h \in Health
    BY ReplyHealthType DEF Health, Unavailable
  <2>3. local' \in [Tasks -> Locals]
    BY <2>1, <2>2 DEF TypeOK, Locals
  <2> QED BY <1>2, <2>3 DEF QueryService, SayNothing, TypeOK
<1>3. ASSUME NEW t \in Tasks, CommitReading(t) PROVE TypeOK'
  <2>1. store' \in VersionedService
    <3>1. local[t].found \in Health /\ local[t].reservation \in Nat
      BY DEF TypeOK, Locals
    <3> QED BY <1>3, <3>1, CommitReservedType DEF CommitReading, TypeOK
  <2>2. pc' \in [Tasks -> Steps] /\ local' \in [Tasks -> Locals]
    BY <1>3, GotoType, ReturnType DEF CommitReading
  <2> QED BY <1>3, <2>1, <2>2 DEF CommitReading, TypeOK
<1>4. ASSUME NEW t \in Tasks, BeginProbe(t) PROVE TypeOK'
  BY <1>4, BeginType DEF BeginProbe, SayNothing, TypeOK
<1>5. ASSUME NEW t \in Tasks, HearReply(t) PROVE TypeOK'
  <2>1. PICK reply \in Replies :
          /\ Say(Observe(store, ReplyHealth(reply)))
          /\ \/ Return(t) \/ Goto(t, "restoring") \/ Goto(t, "releasing")
    BY <1>5 DEF HearReply
  <2>2. Observe(store, ReplyHealth(reply)) \in VersionedService
    BY ReplyHealthType, ObserveType DEF TypeOK
  <2>3. store' \in VersionedService /\ overtaken' \subseteq Tasks
    BY <2>1, <2>2, SayType
  <2>4. pc' \in [Tasks -> Steps] /\ local' \in [Tasks -> Locals]
    BY <2>1, GotoType, ReturnType
  <2> QED BY <1>5, <2>3, <2>4 DEF HearReply, TypeOK
<1>6. ASSUME NEW t \in Tasks, GiveUp(t) PROVE TypeOK'
  <2>1. Observe(store, "Silent") \in VersionedService
    BY ObserveType DEF TypeOK, Health, Unavailable
  <2>2. /\ \/ Return(t) \/ Goto(t, "restoring") \/ Goto(t, "releasing")
        /\ \/ SayNothing \/ Say(Observe(store, "Silent"))
    BY <1>6 DEF GiveUp
  <2>3. store' \in VersionedService /\ overtaken' \subseteq Tasks
    BY <2>1, <2>2, SayType DEF SayNothing, TypeOK
  <2>4. pc' \in [Tasks -> Steps] /\ local' \in [Tasks -> Locals]
    BY <2>2, GotoType, ReturnType
  <2> QED BY <1>6, <2>3, <2>4 DEF GiveUp, TypeOK
<1>7. ASSUME NEW t \in Tasks, BeginOperation(t) PROVE TypeOK'
  <2>1. /\ pc' \in [Tasks -> Steps] /\ local' \in [Tasks -> Locals]
        /\ calls' \in 0 .. MaxCalls
    BY <1>7, BeginType DEF BeginOperation
  <2>2. store' \in VersionedService /\ overtaken' \subseteq Tasks
    BY <1>7, BumpType, SayType DEF BeginOperation, TypeOK
  <2> QED BY <1>7, <2>1, <2>2 DEF BeginOperation, TypeOK
<1>8. ASSUME NEW t \in Tasks, DetectStartupStatus(t) PROVE TypeOK'
  <2>1. calls' \in 0 .. MaxCalls
    BY <1>8, RunStateAssumption DEF DetectStartupStatus
  <2> QED BY <1>8, <2>1, ReserveType DEF DetectStartupStatus, TypeOK
<1>9. ASSUME AcceptSidecarAtStartup PROVE TypeOK'
  <2>1. calls' \in 0 .. MaxCalls
    BY <1>9, RunStateAssumption DEF AcceptSidecarAtStartup
  <2>2. store' \in VersionedService /\ overtaken' \subseteq Tasks
    BY <1>9, AcceptSidecarType, SayType DEF AcceptSidecarAtStartup, TypeOK
  <2> QED BY <1>9, <2>1, <2>2 DEF AcceptSidecarAtStartup, TypeOK
<1>10. ASSUME NEW t \in Tasks, RequestPending(t) PROVE TypeOK'
  <2>0. local[t].call \in PendingAction
    BY <1>10 DEF RequestPending, CallsFit
  <2>1. store' \in VersionedService /\ overtaken' \subseteq Tasks
    BY <1>10, <2>0, RequestActionType, SayType DEF RequestPending, TypeOK
  <2>2. local' \in [Tasks -> Locals]
    BY <1>10 DEF RequestPending, TypeOK, Locals, VersionedService
  <2> QED BY <1>10, <2>1, <2>2 DEF RequestPending, TypeOK
<1>11. ASSUME NEW t \in Tasks, Perform(t) PROVE TypeOK'
  <2>0. local[t].call \in PendingAction
    BY <1>11 DEF Perform, CallsFit
  <2>1. CASE Say(Observe(store, "NotInstalled")) /\ Goto(t, "releasing")
    <3>1. store' \in VersionedService /\ overtaken' \subseteq Tasks
      BY <2>1, ObserveType, SayType DEF TypeOK, Health
    <3> QED BY <1>11, <2>1, <3>1, GotoType DEF Perform, TypeOK
  <2>2. CASE SayNothing /\ Goto(t, "probing")
    BY <1>11, <2>2, GotoType DEF Perform, SayNothing, TypeOK
  <2>3. CASE Reserve(t, local[t].call)
    BY <1>11, <2>0, <2>3, ReserveType DEF Perform, TypeOK
  <2> QED BY <1>11, <2>1, <2>2, <2>3 DEF Perform
<1>12. ASSUME NEW t \in Tasks, Restore(t) PROVE TypeOK'
  <2>1. store' \in VersionedService /\ overtaken' \subseteq Tasks
    <3>1. CASE SayNothing
      BY <3>1 DEF SayNothing, TypeOK
    <3>2. CASE SayIf(store.sidecar \/ store.health # "Ready", RestoreAllowance(store))
      BY <3>2, RestoreAllowanceType DEF SayIf, TypeOK, ReadingTasks
    <3> QED BY <1>12, <3>1, <3>2 DEF Restore
  <2> QED BY <1>12, <2>1, GotoType DEF Restore, TypeOK
<1>13. ASSUME NEW t \in Tasks, ReleaseSlot(t) PROVE TypeOK'
  BY <1>13, GotoType DEF ReleaseSlot, SayNothing, TypeOK
<1>14. ASSUME NEW t \in Tasks, NotifyWaiters(t) PROVE TypeOK'
  BY <1>14, ReturnType DEF NotifyWaiters, SayNothing, TypeOK
<1>15. ASSUME NEW t \in Tasks, BeginSettled(t) PROVE TypeOK'
  BY <1>15, BeginType DEF BeginSettled, SayNothing, TypeOK
<1>16. ASSUME NEW t \in Tasks, CloneService(t) PROVE TypeOK'
  <2>1. ServiceOf(store) \in Service
    BY DEF TypeOK, ServiceOf, Service, VersionedService
  <2>2. local' \in [Tasks -> Locals]
    BY <1>16, <2>1 DEF CloneService, TypeOK, Locals
  <2> QED BY <1>16, <2>2 DEF CloneService, SayNothing, TypeOK
<1>17. ASSUME NEW t \in Tasks, ReadSlot(t) PROVE TypeOK'
  BY <1>17, GotoType DEF ReadSlot, SayNothing, TypeOK
<1>18. ASSUME NEW t \in Tasks, Wake(t) PROVE TypeOK'
  BY <1>18, GotoType DEF Wake, SayNothing, TypeOK
<1>19. ASSUME NEW t \in Tasks, UseSettled(t) PROVE TypeOK'
  BY <1>19, GotoType, ReturnType DEF UseSettled, SayNothing, TypeOK
<1>20. ASSUME NEW t \in Tasks, AllowForSession(t) PROVE TypeOK'
  <2>1. pc' \in [Tasks -> Steps] /\ local' \in [Tasks -> Locals]
    BY <1>20, GotoType, ReturnType DEF AllowForSession
  <2>2. store' \in VersionedService /\ overtaken' \subseteq Tasks
    BY <1>20, BumpAllowedType, SayType DEF AllowForSession, SayNothing, TypeOK
  <2> QED BY <1>20, <2>1, <2>2 DEF AllowForSession, TypeOK
<1>21. ASSUME NEW t \in Tasks, FallBack(t) PROVE TypeOK'
  <2>1. store' \in VersionedService /\ overtaken' \subseteq Tasks
    BY <1>21, AllowAfterRefusalType, SayType DEF FallBack, TypeOK
  <2> QED BY <1>21, <2>1, BeginType DEF FallBack, TypeOK
<1>22. ASSUME NEW t \in Tasks, SidecarStart(t) PROVE TypeOK'
  <2>1. store' \in VersionedService /\ overtaken' \subseteq Tasks
    <3>1. CASE SayNothing
      BY <3>1 DEF SayNothing, TypeOK
    <3>2. CASE SayIf(store.sidecar, WithdrawAllowance(store))
      BY <3>2, WithdrawAllowanceType DEF SayIf, TypeOK, ReadingTasks
    <3> QED BY <1>22, <3>1, <3>2 DEF SidecarStart
  <2> QED BY <1>22, <2>1, ReturnType DEF SidecarStart, TypeOK
<1>23. ASSUME ServiceLost PROVE TypeOK'
  <2>1. store' \in VersionedService /\ overtaken' \subseteq Tasks
    BY <1>23, ObserveType, SayType DEF ServiceLost, TypeOK, Health, Unavailable
  <2> QED BY <1>23, <2>1, RunStateAssumption DEF ServiceLost, Called, TypeOK
<1>24. ASSUME RequireInstallForSession PROVE TypeOK'
  <2>1. store' \in VersionedService /\ overtaken' \subseteq Tasks
    BY <1>24, RequireInstallType DEF RequireInstallForSession, SayIf, TypeOK, ReadingTasks
  <2> QED BY <1>24, <2>1, RunStateAssumption DEF RequireInstallForSession, Called, TypeOK
<1>25. CASE UNCHANGED vars
  BY <1>25 DEF vars, TypeOK
<1> QED
  BY <1>1, <1>2, <1>3, <1>4, <1>5, <1>6, <1>7, <1>8, <1>9, <1>10, <1>11, <1>12, <1>13,
     <1>14, <1>15, <1>16, <1>17, <1>18, <1>19, <1>20, <1>21, <1>22, <1>23, <1>24, <1>25
  DEF Next, Continue, Call

----------------------------------------------------------------------------
\* A task is where it is for a call that leads there.
LEMMA CallsFitStep ==
  ASSUME TypeOK, CallsFit, [Next]_vars
  PROVE  CallsFit'
<1>1. ASSUME NEW t \in Tasks, InspectEvidence(t) PROVE CallsFit'
  BY <1>1 DEF InspectEvidence, CallsFit, TypeOK, Goto, Return, Begin, Reserve, Blank, Reading, PendingAction, NoAction, Steps, Locals
<1>2. ASSUME NEW t \in Tasks, QueryService(t) PROVE CallsFit'
  BY <1>2 DEF QueryService, CallsFit, TypeOK, Goto, Return, Begin, Reserve, Blank, Reading, PendingAction, NoAction, Steps, Locals
<1>3. ASSUME NEW t \in Tasks, CommitReading(t) PROVE CallsFit'
  BY <1>3 DEF CommitReading, CallsFit, TypeOK, Goto, Return, Begin, Reserve, Blank, Reading, PendingAction, NoAction, Steps, Locals
<1>4. ASSUME NEW t \in Tasks, HearReply(t) PROVE CallsFit'
  BY <1>4 DEF HearReply, CallsFit, TypeOK, Goto, Return, Begin, Reserve, Blank, Reading, PendingAction, NoAction, Steps, Locals
<1>5. ASSUME NEW t \in Tasks, GiveUp(t) PROVE CallsFit'
  BY <1>5 DEF GiveUp, CallsFit, TypeOK, Goto, Return, Begin, Reserve, Blank, Reading, PendingAction, NoAction, Steps, Locals
<1>6. ASSUME NEW t \in Tasks, RequestPending(t) PROVE CallsFit'
  BY <1>6 DEF RequestPending, CallsFit, TypeOK, Goto, Return, Begin, Reserve, Blank, Reading, PendingAction, NoAction, Steps, Locals
<1>7. ASSUME NEW t \in Tasks, Perform(t) PROVE CallsFit'
  BY <1>7 DEF Perform, CallsFit, TypeOK, Goto, Return, Begin, Reserve, Blank, Reading, PendingAction, NoAction, Steps, Locals
<1>8. ASSUME NEW t \in Tasks, Restore(t) PROVE CallsFit'
  BY <1>8 DEF Restore, CallsFit, TypeOK, Goto, Return, Begin, Reserve, Blank, Reading, PendingAction, NoAction, Steps, Locals
<1>9. ASSUME NEW t \in Tasks, ReleaseSlot(t) PROVE CallsFit'
  BY <1>9 DEF ReleaseSlot, CallsFit, TypeOK, Goto, Return, Begin, Reserve, Blank, Reading, PendingAction, NoAction, Steps, Locals
<1>10. ASSUME NEW t \in Tasks, NotifyWaiters(t) PROVE CallsFit'
  BY <1>10 DEF NotifyWaiters, CallsFit, TypeOK, Goto, Return, Begin, Reserve, Blank, Reading, PendingAction, NoAction, Steps, Locals
<1>11. ASSUME NEW t \in Tasks, CloneService(t) PROVE CallsFit'
  BY <1>11 DEF CloneService, CallsFit, TypeOK, Goto, Return, Begin, Reserve, Blank, Reading, PendingAction, NoAction, Steps, Locals
<1>12. ASSUME NEW t \in Tasks, ReadSlot(t) PROVE CallsFit'
  BY <1>12 DEF ReadSlot, CallsFit, TypeOK, Goto, Return, Begin, Reserve, Blank, Reading, PendingAction, NoAction, Steps, Locals
<1>13. ASSUME NEW t \in Tasks, Wake(t) PROVE CallsFit'
  BY <1>13 DEF Wake, CallsFit, TypeOK, Goto, Return, Begin, Reserve, Blank, Reading, PendingAction, NoAction, Steps, Locals
<1>14. ASSUME NEW t \in Tasks, UseSettled(t) PROVE CallsFit'
  BY <1>14 DEF UseSettled, CallsFit, TypeOK, Goto, Return, Begin, Reserve, Blank, Reading, PendingAction, NoAction, Steps, Locals
<1>15. ASSUME NEW t \in Tasks, AllowForSession(t) PROVE CallsFit'
  BY <1>15 DEF AllowForSession, CallsFit, TypeOK, Goto, Return, Begin, Reserve, Blank, Reading, PendingAction, NoAction, Steps, Locals
<1>16. ASSUME NEW t \in Tasks, SidecarStart(t) PROVE CallsFit'
  BY <1>16 DEF SidecarStart, CallsFit, TypeOK, Goto, Return, Begin, Reserve, Blank, Reading, PendingAction, NoAction, Steps, Locals
<1>17. ASSUME NEW t \in Tasks, DetectStartupStatus(t) PROVE CallsFit'
  BY <1>17 DEF DetectStartupStatus, CallsFit, TypeOK, Goto, Return, Begin, Reserve, Blank, Reading, PendingAction, NoAction, Steps, Locals
<1>18. ASSUME NEW t \in Tasks, BeginProbe(t) PROVE CallsFit'
  BY <1>18 DEF BeginProbe, CallsFit, TypeOK, Goto, Return, Begin, Reserve, Blank, Reading, PendingAction, NoAction, Steps, Locals
<1>19. ASSUME NEW t \in Tasks, BeginOperation(t) PROVE CallsFit'
  BY <1>19 DEF BeginOperation, CallsFit, TypeOK, Goto, Return, Begin, Reserve, Blank, Reading, PendingAction, NoAction, Steps, Locals
<1>20. ASSUME NEW t \in Tasks, BeginSettled(t) PROVE CallsFit'
  BY <1>20 DEF BeginSettled, CallsFit, TypeOK, Goto, Return, Begin, Reserve, Blank, Reading, PendingAction, NoAction, Steps, Locals
<1>21. ASSUME NEW t \in Tasks, FallBack(t) PROVE CallsFit'
  BY <1>21 DEF FallBack, CallsFit, TypeOK, Goto, Return, Begin, Reserve, Blank, Reading, PendingAction, NoAction, Steps, Locals
<1>22. ASSUME AcceptSidecarAtStartup PROVE CallsFit'
  BY <1>22 DEF AcceptSidecarAtStartup, CallsFit, TypeOK, Goto, Return, Begin, Reserve, Blank, Reading, PendingAction, NoAction, Steps, Locals
<1>23. ASSUME ServiceLost PROVE CallsFit'
  BY <1>23 DEF ServiceLost, CallsFit, TypeOK, Goto, Return, Begin, Reserve, Blank, Reading, PendingAction, NoAction, Steps, Locals
<1>24. ASSUME RequireInstallForSession PROVE CallsFit'
  BY <1>24 DEF RequireInstallForSession, CallsFit, TypeOK, Goto, Return, Begin, Reserve, Blank, Reading, PendingAction, NoAction, Steps, Locals
<1>25. CASE UNCHANGED vars
  BY <1>25 DEF vars, CallsFit, TypeOK, Goto, Return, Begin, Reserve, Blank, Reading, PendingAction, NoAction, Steps, Locals
<1> QED
  BY <1>1, <1>2, <1>3, <1>4, <1>5, <1>6, <1>7, <1>8, <1>9, <1>10, <1>11, <1>12, <1>13,
     <1>14, <1>15, <1>16, <1>17, <1>18, <1>19, <1>20, <1>21, <1>22, <1>23, <1>24, <1>25
  DEF Next, Continue, Call

\* The slot has exactly one holder.
LEMMA SlotStep ==
  ASSUME TypeOK, CallsFit, SlotHeldByOneOperation, [Next]_vars
  PROVE  SlotHeldByOneOperation'
<1>1. ASSUME NEW t \in Tasks, InspectEvidence(t) PROVE SlotHeldByOneOperation'
  BY <1>1 DEF InspectEvidence, SlotHeldByOneOperation, Holds, Privileged, CallsFit, TypeOK, Goto, Return, Begin, Reserve, Blank, Reading, Operating, PendingAction, NoAction, Steps, Locals
<1>2. ASSUME NEW t \in Tasks, QueryService(t) PROVE SlotHeldByOneOperation'
  BY <1>2 DEF QueryService, SlotHeldByOneOperation, Holds, Privileged, CallsFit, TypeOK, Goto, Return, Begin, Reserve, Blank, Reading, Operating, PendingAction, NoAction, Steps, Locals
<1>3. ASSUME NEW t \in Tasks, CommitReading(t) PROVE SlotHeldByOneOperation'
  BY <1>3 DEF CommitReading, SlotHeldByOneOperation, Holds, Privileged, CallsFit, TypeOK, Goto, Return, Begin, Reserve, Blank, Reading, Operating, PendingAction, NoAction, Steps, Locals
<1>4. ASSUME NEW t \in Tasks, HearReply(t) PROVE SlotHeldByOneOperation'
  BY <1>4 DEF HearReply, SlotHeldByOneOperation, Holds, Privileged, CallsFit, TypeOK, Goto, Return, Begin, Reserve, Blank, Reading, Operating, PendingAction, NoAction, Steps, Locals
<1>5. ASSUME NEW t \in Tasks, GiveUp(t) PROVE SlotHeldByOneOperation'
  BY <1>5 DEF GiveUp, SlotHeldByOneOperation, Holds, Privileged, CallsFit, TypeOK, Goto, Return, Begin, Reserve, Blank, Reading, Operating, PendingAction, NoAction, Steps, Locals
<1>6. ASSUME NEW t \in Tasks, RequestPending(t) PROVE SlotHeldByOneOperation'
  BY <1>6 DEF RequestPending, SlotHeldByOneOperation, Holds, Privileged, CallsFit, TypeOK, Goto, Return, Begin, Reserve, Blank, Reading, Operating, PendingAction, NoAction, Steps, Locals
<1>7. ASSUME NEW t \in Tasks, Perform(t) PROVE SlotHeldByOneOperation'
  BY <1>7 DEF Perform, SlotHeldByOneOperation, Holds, Privileged, CallsFit, TypeOK, Goto, Return, Begin, Reserve, Blank, Reading, Operating, PendingAction, NoAction, Steps, Locals
<1>8. ASSUME NEW t \in Tasks, Restore(t) PROVE SlotHeldByOneOperation'
  BY <1>8 DEF Restore, SlotHeldByOneOperation, Holds, Privileged, CallsFit, TypeOK, Goto, Return, Begin, Reserve, Blank, Reading, Operating, PendingAction, NoAction, Steps, Locals
<1>9. ASSUME NEW t \in Tasks, ReleaseSlot(t) PROVE SlotHeldByOneOperation'
  BY <1>9 DEF ReleaseSlot, SlotHeldByOneOperation, Holds, Privileged, CallsFit, TypeOK, Goto, Return, Begin, Reserve, Blank, Reading, Operating, PendingAction, NoAction, Steps, Locals
<1>10. ASSUME NEW t \in Tasks, NotifyWaiters(t) PROVE SlotHeldByOneOperation'
  BY <1>10 DEF NotifyWaiters, SlotHeldByOneOperation, Holds, Privileged, CallsFit, TypeOK, Goto, Return, Begin, Reserve, Blank, Reading, Operating, PendingAction, NoAction, Steps, Locals
<1>11. ASSUME NEW t \in Tasks, CloneService(t) PROVE SlotHeldByOneOperation'
  <2>1. \A u \in Tasks : local'[u].call = local[u].call
    BY <1>11 DEF CloneService, TypeOK, Locals
  <2> QED BY <1>11, <2>1 DEF CloneService, SayNothing, SlotHeldByOneOperation, Holds, Privileged, TypeOK, Reading, Operating
<1>12. ASSUME NEW t \in Tasks, ReadSlot(t) PROVE SlotHeldByOneOperation'
  BY <1>12 DEF ReadSlot, SlotHeldByOneOperation, Holds, Privileged, CallsFit, TypeOK, Goto, Return, Begin, Reserve, Blank, Reading, Operating, PendingAction, NoAction, Steps, Locals
<1>13. ASSUME NEW t \in Tasks, Wake(t) PROVE SlotHeldByOneOperation'
  BY <1>13 DEF Wake, SlotHeldByOneOperation, Holds, Privileged, CallsFit, TypeOK, Goto, Return, Begin, Reserve, Blank, Reading, Operating, PendingAction, NoAction, Steps, Locals
<1>14. ASSUME NEW t \in Tasks, UseSettled(t) PROVE SlotHeldByOneOperation'
  BY <1>14 DEF UseSettled, SlotHeldByOneOperation, Holds, Privileged, CallsFit, TypeOK, Goto, Return, Begin, Reserve, Blank, Reading, Operating, PendingAction, NoAction, Steps, Locals
<1>15. ASSUME NEW t \in Tasks, AllowForSession(t) PROVE SlotHeldByOneOperation'
  BY <1>15 DEF AllowForSession, SlotHeldByOneOperation, Holds, Privileged, CallsFit, TypeOK, Goto, Return, Begin, Reserve, Blank, Reading, Operating, PendingAction, NoAction, Steps, Locals
<1>16. ASSUME NEW t \in Tasks, SidecarStart(t) PROVE SlotHeldByOneOperation'
  BY <1>16 DEF SidecarStart, SlotHeldByOneOperation, Holds, Privileged, CallsFit, TypeOK, Goto, Return, Begin, Reserve, Blank, Reading, Operating, PendingAction, NoAction, Steps, Locals
<1>17. ASSUME NEW t \in Tasks, DetectStartupStatus(t) PROVE SlotHeldByOneOperation'
  BY <1>17 DEF DetectStartupStatus, SlotHeldByOneOperation, Holds, Privileged, CallsFit, TypeOK, Goto, Return, Begin, Reserve, Blank, Reading, Operating, PendingAction, NoAction, Steps, Locals
<1>18. ASSUME NEW t \in Tasks, BeginProbe(t) PROVE SlotHeldByOneOperation'
  BY <1>18 DEF BeginProbe, SlotHeldByOneOperation, Holds, Privileged, CallsFit, TypeOK, Goto, Return, Begin, Reserve, Blank, Reading, Operating, PendingAction, NoAction, Steps, Locals
<1>19. ASSUME NEW t \in Tasks, BeginOperation(t) PROVE SlotHeldByOneOperation'
  BY <1>19 DEF BeginOperation, SlotHeldByOneOperation, Holds, Privileged, CallsFit, TypeOK, Goto, Return, Begin, Reserve, Blank, Reading, Operating, PendingAction, NoAction, Steps, Locals
<1>20. ASSUME NEW t \in Tasks, BeginSettled(t) PROVE SlotHeldByOneOperation'
  BY <1>20 DEF BeginSettled, SlotHeldByOneOperation, Holds, Privileged, CallsFit, TypeOK, Goto, Return, Begin, Reserve, Blank, Reading, Operating, PendingAction, NoAction, Steps, Locals
<1>21. ASSUME NEW t \in Tasks, FallBack(t) PROVE SlotHeldByOneOperation'
  BY <1>21 DEF FallBack, SlotHeldByOneOperation, Holds, Privileged, CallsFit, TypeOK, Goto, Return, Begin, Reserve, Blank, Reading, Operating, PendingAction, NoAction, Steps, Locals
<1>22. ASSUME AcceptSidecarAtStartup PROVE SlotHeldByOneOperation'
  BY <1>22 DEF AcceptSidecarAtStartup, SlotHeldByOneOperation, Holds, Privileged, CallsFit, TypeOK, Goto, Return, Begin, Reserve, Blank, Reading, Operating, PendingAction, NoAction, Steps, Locals
<1>23. ASSUME ServiceLost PROVE SlotHeldByOneOperation'
  BY <1>23 DEF ServiceLost, SlotHeldByOneOperation, Holds, Privileged, CallsFit, TypeOK, Goto, Return, Begin, Reserve, Blank, Reading, Operating, PendingAction, NoAction, Steps, Locals
<1>24. ASSUME RequireInstallForSession PROVE SlotHeldByOneOperation'
  BY <1>24 DEF RequireInstallForSession, SlotHeldByOneOperation, Holds, Privileged, CallsFit, TypeOK, Goto, Return, Begin, Reserve, Blank, Reading, Operating, PendingAction, NoAction, Steps, Locals
<1>25. CASE UNCHANGED vars
  BY <1>25 DEF vars, SlotHeldByOneOperation, Holds, Privileged, CallsFit, TypeOK, Goto, Return, Begin, Reserve, Blank, Reading, Operating, PendingAction, NoAction, Steps, Locals
<1> QED
  BY <1>1, <1>2, <1>3, <1>4, <1>5, <1>6, <1>7, <1>8, <1>9, <1>10, <1>11, <1>12, <1>13,
     <1>14, <1>15, <1>16, <1>17, <1>18, <1>19, <1>20, <1>21, <1>22, <1>23, <1>24, <1>25
  DEF Next, Continue, Call


\* Before the first call nothing is known and nobody is inside.
LEMMA BeforeFirstCallStep ==
  ASSUME TypeOK, CallsFit, BeforeFirstCall, [Next]_vars
  PROVE  BeforeFirstCall'
<1>1. ASSUME NEW t \in Tasks, InspectEvidence(t) PROVE BeforeFirstCall'
  BY <1>1 DEF InspectEvidence, BeforeFirstCall, TypeOK, Begin, Called
<1>2. ASSUME NEW t \in Tasks, QueryService(t) PROVE BeforeFirstCall'
  BY <1>2 DEF QueryService, BeforeFirstCall, TypeOK, Begin, Called
<1>3. ASSUME NEW t \in Tasks, CommitReading(t) PROVE BeforeFirstCall'
  BY <1>3 DEF CommitReading, BeforeFirstCall, TypeOK, Begin, Called
<1>4. ASSUME NEW t \in Tasks, HearReply(t) PROVE BeforeFirstCall'
  BY <1>4 DEF HearReply, BeforeFirstCall, TypeOK, Begin, Called
<1>5. ASSUME NEW t \in Tasks, GiveUp(t) PROVE BeforeFirstCall'
  BY <1>5 DEF GiveUp, BeforeFirstCall, TypeOK, Begin, Called
<1>6. ASSUME NEW t \in Tasks, RequestPending(t) PROVE BeforeFirstCall'
  BY <1>6 DEF RequestPending, BeforeFirstCall, TypeOK, Begin, Called
<1>7. ASSUME NEW t \in Tasks, Perform(t) PROVE BeforeFirstCall'
  BY <1>7 DEF Perform, BeforeFirstCall, TypeOK, Begin, Called
<1>8. ASSUME NEW t \in Tasks, Restore(t) PROVE BeforeFirstCall'
  BY <1>8 DEF Restore, BeforeFirstCall, TypeOK, Begin, Called
<1>9. ASSUME NEW t \in Tasks, ReleaseSlot(t) PROVE BeforeFirstCall'
  BY <1>9 DEF ReleaseSlot, BeforeFirstCall, TypeOK, Begin, Called
<1>10. ASSUME NEW t \in Tasks, NotifyWaiters(t) PROVE BeforeFirstCall'
  BY <1>10 DEF NotifyWaiters, BeforeFirstCall, TypeOK, Begin, Called
<1>11. ASSUME NEW t \in Tasks, CloneService(t) PROVE BeforeFirstCall'
  BY <1>11 DEF CloneService, BeforeFirstCall, TypeOK, Begin, Called
<1>12. ASSUME NEW t \in Tasks, ReadSlot(t) PROVE BeforeFirstCall'
  BY <1>12 DEF ReadSlot, BeforeFirstCall, TypeOK, Begin, Called
<1>13. ASSUME NEW t \in Tasks, Wake(t) PROVE BeforeFirstCall'
  BY <1>13 DEF Wake, BeforeFirstCall, TypeOK, Begin, Called
<1>14. ASSUME NEW t \in Tasks, UseSettled(t) PROVE BeforeFirstCall'
  BY <1>14 DEF UseSettled, BeforeFirstCall, TypeOK, Begin, Called
<1>15. ASSUME NEW t \in Tasks, AllowForSession(t) PROVE BeforeFirstCall'
  BY <1>15 DEF AllowForSession, BeforeFirstCall, TypeOK, Begin, Called
<1>16. ASSUME NEW t \in Tasks, SidecarStart(t) PROVE BeforeFirstCall'
  BY <1>16 DEF SidecarStart, BeforeFirstCall, TypeOK, Begin, Called
<1>17. ASSUME NEW t \in Tasks, DetectStartupStatus(t) PROVE BeforeFirstCall'
  BY <1>17 DEF DetectStartupStatus, BeforeFirstCall, TypeOK, Begin, Called
<1>18. ASSUME NEW t \in Tasks, BeginProbe(t) PROVE BeforeFirstCall'
  BY <1>18 DEF BeginProbe, BeforeFirstCall, TypeOK, Begin, Called
<1>19. ASSUME NEW t \in Tasks, BeginOperation(t) PROVE BeforeFirstCall'
  BY <1>19 DEF BeginOperation, BeforeFirstCall, TypeOK, Begin, Called
<1>20. ASSUME NEW t \in Tasks, BeginSettled(t) PROVE BeforeFirstCall'
  BY <1>20 DEF BeginSettled, BeforeFirstCall, TypeOK, Begin, Called
<1>21. ASSUME NEW t \in Tasks, FallBack(t) PROVE BeforeFirstCall'
  BY <1>21 DEF FallBack, BeforeFirstCall, TypeOK, Begin, Called
<1>22. ASSUME AcceptSidecarAtStartup PROVE BeforeFirstCall'
  BY <1>22 DEF AcceptSidecarAtStartup, BeforeFirstCall, TypeOK, Begin, Called
<1>23. ASSUME ServiceLost PROVE BeforeFirstCall'
  BY <1>23 DEF ServiceLost, BeforeFirstCall, TypeOK, Begin, Called
<1>24. ASSUME RequireInstallForSession PROVE BeforeFirstCall'
  BY <1>24 DEF RequireInstallForSession, BeforeFirstCall, TypeOK, Begin, Called
<1>25. CASE UNCHANGED vars
  BY <1>25 DEF vars, BeforeFirstCall, TypeOK, Begin, Called
<1> QED
  BY <1>1, <1>2, <1>3, <1>4, <1>5, <1>6, <1>7, <1>8, <1>9, <1>10, <1>11, <1>12, <1>13,
     <1>14, <1>15, <1>16, <1>17, <1>18, <1>19, <1>20, <1>21, <1>22, <1>23, <1>24, <1>25
  DEF Next, Continue, Call

----------------------------------------------------------------------------
\* A step that writes the store moves the revision and overtakes every reading;
\* one that does not leaves both.
Spoken == store'.observation = store.observation + 1 /\ overtaken' = ReadingTasks
Silent == store'.observation = store.observation /\ overtaken' = overtaken

\* The readings after a step were under way before it, with their reservations.
KeepsReadings == \A u \in Tasks :
  pc'[u] \in Reading => pc[u] \in Reading /\ local'[u].reservation = local[u].reservation

LEMMA StaleAfterWriting ==
  ASSUME TypeOK, ReservationsPast, Spoken, KeepsReadings
  PROVE  (ReservationsPast /\ StaleExactlyWhenOvertaken)'
<1>1. store.observation \in Nat /\ \A u \in Tasks : local[u].reservation \in Nat
  BY DEF TypeOK, VersionedService, Locals
<1> QED
  BY <1>1 DEF ReservationsPast, StaleExactlyWhenOvertaken, ReadingTasks, Spoken, KeepsReadings

LEMMA StaleAfterSilence ==
  ASSUME TypeOK, ReservationsPast, StaleExactlyWhenOvertaken, Silent, KeepsReadings
  PROVE  (ReservationsPast /\ StaleExactlyWhenOvertaken)'
BY DEF ReservationsPast, StaleExactlyWhenOvertaken, ReadingTasks, Silent, KeepsReadings

\* A reservation overtakes the others and stands itself.
LEMMA StaleAfterReserving ==
  ASSUME TypeOK, ReservationsPast, NEW t \in Tasks, NEW c, pc[t] \notin Reading, Reserve(t, c)
  PROVE  (ReservationsPast /\ StaleExactlyWhenOvertaken)'
<1>1. store.observation \in Nat /\ \A u \in Tasks : local[u].reservation \in Nat
  BY DEF TypeOK, VersionedService, Locals
<1>2. store'.observation = store.observation + 1
  BY BumpType DEF Reserve, TypeOK
<1>3. /\ local'[t].reservation = store'.observation
      /\ \A u \in Tasks \ {t} : local'[u] = local[u] /\ pc'[u] = pc[u]
  BY DEF Reserve, TypeOK, Locals
<1>4. overtaken' = ReadingTasks /\ ReadingTasks' = ReadingTasks \cup {t}
  BY <1>3 DEF Reserve, ReadingTasks, TypeOK, Reading
<1>5. t \notin ReadingTasks
  BY DEF ReadingTasks
<1>6. \A u \in ReadingTasks : local'[u].reservation = local[u].reservation
  BY <1>3, <1>5 DEF ReadingTasks
<1>7. \A u \in ReadingTasks : local'[u].reservation < store'.observation
  BY <1>1, <1>2, <1>6 DEF ReservationsPast, ReadingTasks
<1>8. \A u \in ReadingTasks' : u \in overtaken' <=> local'[u].reservation # store'.observation
  BY <1>1, <1>2, <1>3, <1>4, <1>5, <1>6, <1>7 DEF ReadingTasks
<1>9. \A u \in ReadingTasks' : local'[u].reservation <= store'.observation
  BY <1>1, <1>2, <1>3, <1>4, <1>6, <1>7 DEF ReadingTasks
<1> QED BY <1>8, <1>9 DEF ReservationsPast, StaleExactlyWhenOvertaken

\* A reading is stale exactly when a write overtook it.
LEMMA StalenessStep ==
  ASSUME TypeOK, CallsFit, BeforeFirstCall, ReservationsPast, StaleExactlyWhenOvertaken, [Next]_vars
  PROVE  (ReservationsPast /\ StaleExactlyWhenOvertaken)'
<1>1. ASSUME NEW t \in Tasks, InspectEvidence(t) PROVE (ReservationsPast /\ StaleExactlyWhenOvertaken)'
  BY <1>1 DEF InspectEvidence, ReservationsPast, StaleExactlyWhenOvertaken, ReadingTasks, BeforeFirstCall, TypeOK, Goto, Return, Begin, Say, SayNothing, Blank, Reading, Steps, Locals
<1>2. ASSUME NEW t \in Tasks, QueryService(t) PROVE (ReservationsPast /\ StaleExactlyWhenOvertaken)'
  BY <1>2 DEF QueryService, ReservationsPast, StaleExactlyWhenOvertaken, ReadingTasks, BeforeFirstCall, TypeOK, Goto, Return, Begin, Say, SayNothing, Blank, Reading, Steps, Locals
<1>3. ASSUME NEW t \in Tasks, CommitReading(t) PROVE (ReservationsPast /\ StaleExactlyWhenOvertaken)'
  <2>1. store'.observation = store.observation
    <3>1. local[t].found \in Health /\ local[t].reservation \in Nat
      BY DEF TypeOK, Locals
    <3> QED BY <1>3, <3>1, CommitReservedType DEF CommitReading, TypeOK
  <2>2. /\ pc'[t] \notin Reading
        /\ \A u \in Tasks \ {t} : pc'[u] = pc[u] /\ local'[u] = local[u]
    BY <1>3 DEF CommitReading, Goto, Return, TypeOK, Reading
  <2> QED BY <1>3, <2>1, <2>2 DEF CommitReading, ReservationsPast, StaleExactlyWhenOvertaken, ReadingTasks
<1>4. ASSUME NEW t \in Tasks, HearReply(t) PROVE (ReservationsPast /\ StaleExactlyWhenOvertaken)'
  <2>1. KeepsReadings
    BY <1>4 DEF HearReply, KeepsReadings, Goto, Return, Begin, Reading, TypeOK, Steps
  <2>2. PICK reply \in Replies : Say(Observe(store, ReplyHealth(reply)))
    BY <1>4 DEF HearReply
  <2>3. Spoken
    BY <2>2, ReplyHealthType, ObserveType DEF Spoken, Say, TypeOK
  <2> QED BY <2>1, <2>3, StaleAfterWriting
<1>5. ASSUME NEW t \in Tasks, GiveUp(t) PROVE (ReservationsPast /\ StaleExactlyWhenOvertaken)'
  <2>1. KeepsReadings
    BY <1>5 DEF GiveUp, KeepsReadings, Goto, Return, Begin, Reading, TypeOK, Steps
  <2>2. Spoken \/ Silent
    BY <1>5, ObserveType DEF GiveUp, Spoken, Silent, Say, SayIf, SayNothing, TypeOK, Health, Unavailable
  <2> QED BY <2>1, <2>2, StaleAfterWriting, StaleAfterSilence
<1>6. ASSUME NEW t \in Tasks, RequestPending(t) PROVE (ReservationsPast /\ StaleExactlyWhenOvertaken)'
  <2>1. KeepsReadings
    BY <1>6 DEF RequestPending, KeepsReadings, Reading, TypeOK, Locals
  <2>2. local[t].call \in PendingAction
    BY <1>6 DEF RequestPending, CallsFit
  <2>3. Spoken
    BY <1>6, <2>2, RequestActionType DEF RequestPending, Spoken, Say, TypeOK
  <2> QED BY <2>1, <2>3, StaleAfterWriting
<1>7. ASSUME NEW t \in Tasks, Perform(t) PROVE (ReservationsPast /\ StaleExactlyWhenOvertaken)'
  <2>1. CASE Say(Observe(store, "NotInstalled")) /\ Goto(t, "releasing")
    <3>1. KeepsReadings
      BY <1>7, <2>1 DEF Perform, KeepsReadings, Goto, Return, Begin, Reading, TypeOK, Steps
    <3>2. Spoken
      BY <2>1, ObserveType DEF Spoken, Say, TypeOK, Health
    <3> QED BY <3>1, <3>2, StaleAfterWriting
  <2>2. CASE SayNothing /\ Goto(t, "probing")
    <3>1. KeepsReadings /\ Silent
      BY <1>7, <2>2 DEF Perform, Silent, SayNothing, KeepsReadings, Goto, Return, Begin, Reading, TypeOK, Steps
    <3> QED BY <3>1, StaleAfterSilence
  <2>3. CASE Reserve(t, local[t].call)
    BY <1>7, <2>3, StaleAfterReserving DEF Perform, Reading
  <2> QED BY <1>7, <2>1, <2>2, <2>3 DEF Perform
<1>8. ASSUME NEW t \in Tasks, Restore(t) PROVE (ReservationsPast /\ StaleExactlyWhenOvertaken)'
  <2>1. KeepsReadings
    BY <1>8 DEF Restore, KeepsReadings, Goto, Return, Begin, Reading, TypeOK, Steps
  <2>2. Spoken \/ Silent
    BY <1>8, RestoreAllowanceType DEF Restore, Spoken, Silent, Say, SayIf, SayNothing, TypeOK
  <2> QED BY <2>1, <2>2, StaleAfterWriting, StaleAfterSilence
<1>9. ASSUME NEW t \in Tasks, ReleaseSlot(t) PROVE (ReservationsPast /\ StaleExactlyWhenOvertaken)'
  BY <1>9 DEF ReleaseSlot, ReservationsPast, StaleExactlyWhenOvertaken, ReadingTasks, BeforeFirstCall, TypeOK, Goto, Return, Begin, Say, SayNothing, Blank, Reading, Steps, Locals
<1>10. ASSUME NEW t \in Tasks, NotifyWaiters(t) PROVE (ReservationsPast /\ StaleExactlyWhenOvertaken)'
  BY <1>10 DEF NotifyWaiters, ReservationsPast, StaleExactlyWhenOvertaken, ReadingTasks, BeforeFirstCall, TypeOK, Goto, Return, Begin, Say, SayNothing, Blank, Reading, Steps, Locals
<1>11. ASSUME NEW t \in Tasks, CloneService(t) PROVE (ReservationsPast /\ StaleExactlyWhenOvertaken)'
  <2>1. KeepsReadings
    BY <1>11 DEF CloneService, KeepsReadings, Reading, TypeOK, Locals
  <2>2. Silent
    BY <1>11 DEF CloneService, SayNothing, Silent
  <2> QED BY <2>1, <2>2, StaleAfterSilence
<1>12. ASSUME NEW t \in Tasks, ReadSlot(t) PROVE (ReservationsPast /\ StaleExactlyWhenOvertaken)'
  BY <1>12 DEF ReadSlot, ReservationsPast, StaleExactlyWhenOvertaken, ReadingTasks, BeforeFirstCall, TypeOK, Goto, Return, Begin, Say, SayNothing, Blank, Reading, Steps, Locals
<1>13. ASSUME NEW t \in Tasks, Wake(t) PROVE (ReservationsPast /\ StaleExactlyWhenOvertaken)'
  BY <1>13 DEF Wake, ReservationsPast, StaleExactlyWhenOvertaken, ReadingTasks, BeforeFirstCall, TypeOK, Goto, Return, Begin, Say, SayNothing, Blank, Reading, Steps, Locals
<1>14. ASSUME NEW t \in Tasks, UseSettled(t) PROVE (ReservationsPast /\ StaleExactlyWhenOvertaken)'
  BY <1>14 DEF UseSettled, ReservationsPast, StaleExactlyWhenOvertaken, ReadingTasks, BeforeFirstCall, TypeOK, Goto, Return, Begin, Say, SayNothing, Blank, Reading, Steps, Locals
<1>15. ASSUME NEW t \in Tasks, AllowForSession(t) PROVE (ReservationsPast /\ StaleExactlyWhenOvertaken)'
  <2>1. KeepsReadings
    BY <1>15 DEF AllowForSession, KeepsReadings, Goto, Return, Begin, Reading, TypeOK, Steps
  <2>2. Spoken \/ Silent
    BY <1>15, BumpAllowedType DEF AllowForSession, Spoken, Silent, Say, SayIf, SayNothing, TypeOK
  <2> QED BY <2>1, <2>2, StaleAfterWriting, StaleAfterSilence
<1>16. ASSUME NEW t \in Tasks, SidecarStart(t) PROVE (ReservationsPast /\ StaleExactlyWhenOvertaken)'
  <2>1. KeepsReadings
    BY <1>16 DEF SidecarStart, KeepsReadings, Goto, Return, Begin, Reading, TypeOK, Steps
  <2>2. Spoken \/ Silent
    BY <1>16, WithdrawAllowanceType DEF SidecarStart, Spoken, Silent, Say, SayIf, SayNothing, TypeOK
  <2> QED BY <2>1, <2>2, StaleAfterWriting, StaleAfterSilence
<1>17. ASSUME NEW t \in Tasks, DetectStartupStatus(t) PROVE (ReservationsPast /\ StaleExactlyWhenOvertaken)'
  BY <1>17, StaleAfterReserving DEF DetectStartupStatus, Reading
<1>18. ASSUME NEW t \in Tasks, BeginProbe(t) PROVE (ReservationsPast /\ StaleExactlyWhenOvertaken)'
  BY <1>18 DEF BeginProbe, ReservationsPast, StaleExactlyWhenOvertaken, ReadingTasks, BeforeFirstCall, TypeOK, Goto, Return, Begin, Say, SayNothing, Blank, Reading, Steps, Locals
<1>19. ASSUME NEW t \in Tasks, BeginOperation(t) PROVE (ReservationsPast /\ StaleExactlyWhenOvertaken)'
  <2>1. KeepsReadings
    BY <1>19 DEF BeginOperation, KeepsReadings, Goto, Return, Begin, Reading, TypeOK, Steps
  <2>2. Spoken
    BY <1>19, BumpType DEF BeginOperation, Spoken, Say, TypeOK
  <2> QED BY <2>1, <2>2, StaleAfterWriting
<1>20. ASSUME NEW t \in Tasks, BeginSettled(t) PROVE (ReservationsPast /\ StaleExactlyWhenOvertaken)'
  BY <1>20 DEF BeginSettled, ReservationsPast, StaleExactlyWhenOvertaken, ReadingTasks, BeforeFirstCall, TypeOK, Goto, Return, Begin, Say, SayNothing, Blank, Reading, Steps, Locals
<1>21. ASSUME NEW t \in Tasks, FallBack(t) PROVE (ReservationsPast /\ StaleExactlyWhenOvertaken)'
  <2>1. KeepsReadings
    BY <1>21 DEF FallBack, KeepsReadings, Goto, Return, Begin, Reading, TypeOK, Steps
  <2>2. Spoken
    BY <1>21, AllowAfterRefusalType DEF FallBack, Spoken, Say, TypeOK
  <2> QED BY <2>1, <2>2, StaleAfterWriting
<1>22. ASSUME AcceptSidecarAtStartup PROVE (ReservationsPast /\ StaleExactlyWhenOvertaken)'
  BY <1>22 DEF AcceptSidecarAtStartup, ReservationsPast, StaleExactlyWhenOvertaken, ReadingTasks, BeforeFirstCall, TypeOK, Goto, Return, Begin, Say, SayNothing, Blank, Reading, Steps, Locals
<1>23. ASSUME ServiceLost PROVE (ReservationsPast /\ StaleExactlyWhenOvertaken)'
  <2>1. KeepsReadings
    BY <1>23 DEF ServiceLost, KeepsReadings, Goto, Return, Begin, Reading, TypeOK, Steps
  <2>2. Spoken
    BY <1>23, ObserveType DEF ServiceLost, Spoken, Say, TypeOK, Health, Unavailable
  <2> QED BY <2>1, <2>2, StaleAfterWriting
<1>24. ASSUME RequireInstallForSession PROVE (ReservationsPast /\ StaleExactlyWhenOvertaken)'
  <2>1. KeepsReadings
    BY <1>24 DEF RequireInstallForSession, KeepsReadings, Goto, Return, Begin, Reading, TypeOK, Steps
  <2>2. Spoken \/ Silent
    BY <1>24, RequireInstallType DEF RequireInstallForSession, Spoken, Silent, Say, SayIf, SayNothing, TypeOK
  <2> QED BY <2>1, <2>2, StaleAfterWriting, StaleAfterSilence
<1>25. CASE UNCHANGED vars
  BY <1>25 DEF vars, ReservationsPast, StaleExactlyWhenOvertaken, ReadingTasks, BeforeFirstCall, TypeOK, Goto, Return, Begin, Say, SayNothing, Blank, Reading, Steps, Locals
<1> QED
  BY <1>1, <1>2, <1>3, <1>4, <1>5, <1>6, <1>7, <1>8, <1>9, <1>10, <1>11, <1>12, <1>13,
     <1>14, <1>15, <1>16, <1>17, <1>18, <1>19, <1>20, <1>21, <1>22, <1>23, <1>24, <1>25
  DEF Next, Continue, Call

----------------------------------------------------------------------------
\* What is on record, and on whose behalf.
Intents == /\ IntentsExclusive /\ OvertakenIsSettled /\ NoOrphanedRequest
           /\ RequiredInstallIsForAbsence /\ SidecarNeverShadowsReadyService

\* With no request on record only the sidecar's excuse matters.
LEMMA NoRequest ==
  ASSUME store'.pending = NoAction, store'.sidecar => store'.health # "Ready"
  PROVE  Intents'
BY DEF Intents, IntentsExclusive, OvertakenIsSettled, NoOrphanedRequest, RequiredInstallIsForAbsence, SidecarNeverShadowsReadyService, NoAction

\* A task past its wait or its reading has no request left on record.
LEMMA NothingToRestore ==
  ASSUME TypeOK, CallsFit, SlotHeldByOneOperation, Intents,
         NEW t \in Tasks, pc[t] = "restoring"
  PROVE  store.pending = NoAction
BY DEF Intents, NoOrphanedRequest, SlotHeldByOneOperation, Holds, Operating, Unsettled, CallsFit,
       Reading, PendingAction

\* A step that writes nothing keeps the record's owner: no task takes the slot,
\* and the holder goes on with what it was called for.
KeepsHolders == \A u \in Tasks :
  /\ u \in ReadingTasks' => u \in ReadingTasks
  /\ Holds(u)' => Holds(u) /\ local'[u].call = local[u].call
  /\ Holds(u)' => (pc'[u] = "requesting" <=> pc[u] = "requesting")
  /\ Holds(u) /\ Unsettled(u) /\ local[u].call \in PendingAction =>
       Holds(u)' /\ Unsettled(u)' /\ local'[u].call = local[u].call

LEMMA IntentsKept ==
  ASSUME TypeOK, Intents, store' = store, overtaken' = overtaken, KeepsHolders
  PROVE  Intents'
<1>0. \A u \in ReadingTasks' : u \in Tasks
  BY DEF ReadingTasks
<1>1. OvertakenIsSettled'
  BY <1>0 DEF Intents, OvertakenIsSettled, KeepsHolders
<1>2. store.pending \in PendingAction \cup {NoAction}
  BY DEF TypeOK, VersionedService
<1>3. NoOrphanedRequest'
  BY <1>2 DEF Intents, NoOrphanedRequest, KeepsHolders
<1>4. RequiredInstallIsForAbsence'
  BY DEF Intents, RequiredInstallIsForAbsence, KeepsHolders, PendingAction
<1> QED BY <1>1, <1>3, <1>4 DEF Intents, IntentsExclusive, SidecarNeverShadowsReadyService

\* Every step keeps the record in order.
LEMMA IntentsStep ==
  ASSUME TypeOK, CallsFit, BeforeFirstCall, SlotHeldByOneOperation, StaleExactlyWhenOvertaken, Intents, [Next]_vars
  PROVE  Intents'
<1>1. ASSUME NEW t \in Tasks, InspectEvidence(t) PROVE Intents'
  <2>1. KeepsHolders
    BY <1>1 DEF InspectEvidence, KeepsHolders, Holds, Unsettled, Privileged, ReadingTasks, Reading, Operating, PendingAction, TypeOK, Steps, Locals, Goto, Return, Begin, Blank
  <2> QED BY <1>1, <2>1, IntentsKept DEF InspectEvidence, SayNothing
<1>2. ASSUME NEW t \in Tasks, QueryService(t) PROVE Intents'
  <2>1. KeepsHolders
    BY <1>2 DEF QueryService, KeepsHolders, Holds, Unsettled, Privileged, ReadingTasks, Reading, Operating, PendingAction, TypeOK, Steps, Locals, Goto, Return, Begin, Blank
  <2> QED BY <1>2, <2>1, IntentsKept DEF QueryService, SayNothing
<1>3. ASSUME NEW t \in Tasks, CommitReading(t) PROVE Intents'
  <2>0. local[t].found \in Health /\ local[t].reservation \in Nat
    BY DEF TypeOK, Locals
  <2>1. CASE store.observation = local[t].reservation
    <3>1. store'.pending = NoAction /\ ~store'.sidecar
      BY <1>3, <2>0, <2>1, CommitReservedType DEF CommitReading, TypeOK, ServiceOf, Report
    <3> QED BY <3>1, NoRequest
  <2>2. CASE store.observation # local[t].reservation
    <3>1. store' = store
      BY <1>3, <2>0, <2>2, CommitReservedType DEF CommitReading, TypeOK
    <3>2. t \in overtaken
      BY <1>3, <2>2 DEF CommitReading, StaleExactlyWhenOvertaken, ReadingTasks, Reading
    <3>3. CASE local[t].call = "Startup"
      BY <1>3, <3>1, <3>3 DEF CommitReading, Intents, IntentsExclusive, OvertakenIsSettled, NoOrphanedRequest, RequiredInstallIsForAbsence, SidecarNeverShadowsReadyService, SlotHeldByOneOperation, CallsFit, Holds, Unsettled, Privileged, ReadingTasks, TypeOK, Goto, Return, Begin, Blank, Reading, Operating, PendingAction, NoAction, Steps, Locals
    <3>4. CASE local[t].call # "Startup"
      <4>1. Holds(t)
        BY <1>3, <3>4 DEF CommitReading, CallsFit, Holds, Privileged, Reading
      <4>2. store.pending = NoAction
        BY <1>3, <3>2, <4>1 DEF CommitReading, Intents, OvertakenIsSettled, ReadingTasks, Reading
      <4> QED BY <3>1, <4>2, NoRequest DEF Intents, SidecarNeverShadowsReadyService
    <3> QED BY <3>3, <3>4
  <2> QED BY <2>1, <2>2
<1>4. ASSUME NEW t \in Tasks, HearReply(t) PROVE Intents'
  <2>1. PICK reply \in Replies : Say(Observe(store, ReplyHealth(reply)))
    BY <1>4 DEF HearReply
  <2>2. store'.pending = NoAction /\ ~store'.sidecar
    BY <2>1, ReplyHealthType, ObserveType DEF Say, TypeOK, ServiceOf, Report
  <2> QED BY <2>2, NoRequest
<1>5. ASSUME NEW t \in Tasks, GiveUp(t) PROVE Intents'
  <2>1. CASE Say(Observe(store, "Silent"))
    <3>1. store'.pending = NoAction /\ ~store'.sidecar
      BY <2>1, ObserveType DEF Say, TypeOK, ServiceOf, Report, Health, Unavailable
    <3> QED BY <3>1, NoRequest
  <2>2. CASE local[t].call \in {"Probe", "Refresh"} /\ SayNothing /\ (Return(t) \/ Goto(t, "releasing"))
    <3>1. KeepsHolders
      BY <1>5, <2>2 DEF GiveUp, KeepsHolders, Holds, Unsettled, Privileged, ReadingTasks, Reading, Operating, PendingAction, TypeOK, Steps, Locals, Goto, Return, Begin, Blank
    <3> QED BY <2>2, <3>1, IntentsKept DEF SayNothing
  <2> QED BY <1>5, <2>1, <2>2 DEF GiveUp
<1>6. ASSUME NEW t \in Tasks, RequestPending(t) PROVE Intents'
  <2>1. local[t].call \in PendingAction
    BY <1>6 DEF RequestPending, CallsFit
  <2>2. store'.pending = local[t].call /\ store'.sidecar = FALSE
    BY <1>6, <2>1, RequestActionType DEF RequestPending, Say, TypeOK
  <2>3. /\ pc'[t] = "privileged" /\ local'[t].call = local[t].call
        /\ \A u \in Tasks \ {t} : pc'[u] = pc[u] /\ local'[u] = local[u]
    BY <1>6 DEF RequestPending, TypeOK, Locals
  <2>4. \A u \in Tasks : Holds(u) => u = t
    BY <1>6 DEF RequestPending, SlotHeldByOneOperation, Holds, Operating
  <2>5. \A u \in Tasks : Holds(u)' => u = t
    BY <2>3, <2>4 DEF Holds, Privileged
  <2>6. Holds(t)' /\ Unsettled(t)' /\ t \notin ReadingTasks'
    BY <2>3 DEF Holds, Operating, Unsettled, ReadingTasks, Reading
  <2>7. OvertakenIsSettled'
    BY <2>5, <2>6 DEF OvertakenIsSettled, ReadingTasks
  <2> QED BY <2>2, <2>3, <2>6, <2>7 DEF Intents, IntentsExclusive, NoOrphanedRequest,
            RequiredInstallIsForAbsence, SidecarNeverShadowsReadyService
<1>7. ASSUME NEW t \in Tasks, Perform(t) PROVE Intents'
  <2>1. CASE Say(Observe(store, "NotInstalled")) /\ Goto(t, "releasing")
    <3>1. store'.pending = NoAction /\ ~store'.sidecar
      BY <2>1, ObserveType DEF Say, TypeOK, ServiceOf, Report, Health
    <3> QED BY <3>1, NoRequest
  <2>2. CASE SayNothing /\ Goto(t, "probing")
    BY <1>7, <2>2 DEF Perform, SayNothing, Intents, IntentsExclusive, OvertakenIsSettled, NoOrphanedRequest, RequiredInstallIsForAbsence, SidecarNeverShadowsReadyService, SlotHeldByOneOperation, CallsFit, Holds, Unsettled, Privileged, ReadingTasks, TypeOK, Goto, Return, Begin, Blank, Reading, Operating, PendingAction, NoAction, Steps, Locals
  <2>3. CASE Reserve(t, local[t].call)
    <3>1. /\ store'.pending = store.pending /\ store'.sidecar = store.sidecar
          /\ store'.health = store.health
      BY <2>3, BumpType DEF Reserve, TypeOK
    <3>2. /\ pc'[t] = "inspecting" /\ local'[t].call = local[t].call
          /\ \A u \in Tasks \ {t} : pc'[u] = pc[u] /\ local'[u] = local[u]
      BY <2>3 DEF Reserve, TypeOK, Locals
    <3>3. overtaken' = ReadingTasks /\ t \notin ReadingTasks
      BY <1>7, <2>3 DEF Reserve, Perform, ReadingTasks, Reading
    <3>4. /\ Holds(t) /\ Unsettled(t) /\ Holds(t)' /\ Unsettled(t)'
          /\ \A u \in Tasks : Holds(u) => u = t
          /\ \A u \in Tasks : Holds(u)' => u = t
      BY <1>7, <3>2 DEF Perform, CallsFit, SlotHeldByOneOperation, Holds, Privileged, Unsettled, Operating, Reading
    <3> QED BY <1>7, <3>1, <3>2, <3>3, <3>4 DEF Perform, CallsFit, PendingAction, Intents, IntentsExclusive, OvertakenIsSettled, NoOrphanedRequest, RequiredInstallIsForAbsence, SidecarNeverShadowsReadyService, ReadingTasks
  <2> QED BY <1>7, <2>1, <2>2, <2>3 DEF Perform
<1>8. ASSUME NEW t \in Tasks, Restore(t) PROVE Intents'
  <2>1. store.pending = NoAction
    BY <1>8, NothingToRestore DEF Restore
  <2>2. store' = store \/ store' = RestoreAllowance(store)
    BY <1>8 DEF Restore, SayIf, SayNothing
  <2>3. store'.pending = NoAction /\ (store'.sidecar => store'.health # "Ready")
    <3>1. store.sidecar => store.health # "Ready"
      BY DEF Intents, SidecarNeverShadowsReadyService
    <3>2. CASE store' = store
      BY <2>1, <3>1, <3>2
    <3>3. CASE store' = RestoreAllowance(store) /\ (store.sidecar \/ store.health # "Ready")
      BY <2>1, <3>1, <3>3, RestoreAllowanceType DEF TypeOK
    <3>4. CASE store' = RestoreAllowance(store) /\ ~(store.sidecar \/ store.health # "Ready")
      BY <2>1, <3>1, <3>4, RestoreAllowanceType DEF TypeOK
    <3> QED BY <2>2, <3>2, <3>3, <3>4
  <2> QED BY <2>3, NoRequest
<1>9. ASSUME NEW t \in Tasks, ReleaseSlot(t) PROVE Intents'
  BY <1>9 DEF ReleaseSlot, Intents, IntentsExclusive, OvertakenIsSettled, NoOrphanedRequest, RequiredInstallIsForAbsence, SidecarNeverShadowsReadyService, SlotHeldByOneOperation, CallsFit, Holds, Unsettled, Privileged, ReadingTasks, TypeOK, Goto, Return, Begin, Blank, Reading, Operating, PendingAction, NoAction, Steps, Locals, SayNothing
<1>10. ASSUME NEW t \in Tasks, NotifyWaiters(t) PROVE Intents'
  <2>1. KeepsHolders
    BY <1>10 DEF NotifyWaiters, KeepsHolders, Holds, Unsettled, Privileged, ReadingTasks, Reading, Operating, PendingAction, TypeOK, Steps, Locals, Goto, Return, Begin, Blank
  <2> QED BY <1>10, <2>1, IntentsKept DEF NotifyWaiters, SayNothing
<1>11. ASSUME NEW t \in Tasks, CloneService(t) PROVE Intents'
  <2>1. KeepsHolders
    BY <1>11 DEF CloneService, KeepsHolders, Holds, Unsettled, Privileged, ReadingTasks, Reading, Operating, PendingAction, TypeOK, Steps, Locals, Goto, Return, Begin, Blank
  <2> QED BY <1>11, <2>1, IntentsKept DEF CloneService, SayNothing
<1>12. ASSUME NEW t \in Tasks, ReadSlot(t) PROVE Intents'
  <2>1. KeepsHolders
    BY <1>12 DEF ReadSlot, KeepsHolders, Holds, Unsettled, Privileged, ReadingTasks, Reading, Operating, PendingAction, TypeOK, Steps, Locals, Goto, Return, Begin, Blank
  <2> QED BY <1>12, <2>1, IntentsKept DEF ReadSlot, SayNothing
<1>13. ASSUME NEW t \in Tasks, Wake(t) PROVE Intents'
  <2>1. KeepsHolders
    BY <1>13 DEF Wake, KeepsHolders, Holds, Unsettled, Privileged, ReadingTasks, Reading, Operating, PendingAction, TypeOK, Steps, Locals, Goto, Return, Begin, Blank
  <2> QED BY <1>13, <2>1, IntentsKept DEF Wake, SayNothing
<1>14. ASSUME NEW t \in Tasks, UseSettled(t) PROVE Intents'
  <2>1. KeepsHolders
    BY <1>14 DEF UseSettled, KeepsHolders, Holds, Unsettled, Privileged, ReadingTasks, Reading, Operating, PendingAction, TypeOK, Steps, Locals, Goto, Return, Begin, Blank
  <2> QED BY <1>14, <2>1, IntentsKept DEF UseSettled, SayNothing
<1>15. ASSUME NEW t \in Tasks, AllowForSession(t) PROVE Intents'
  <2>1. CASE SayNothing /\ Return(t)
    BY <1>15, <2>1 DEF AllowForSession, SayNothing, Intents, IntentsExclusive, OvertakenIsSettled, NoOrphanedRequest, RequiredInstallIsForAbsence, SidecarNeverShadowsReadyService, SlotHeldByOneOperation, CallsFit, Holds, Unsettled, Privileged, ReadingTasks, TypeOK, Goto, Return, Begin, Blank, Reading, Operating, PendingAction, NoAction, Steps, Locals
  <2>2. CASE SidecarPermitted(store, opRunning) /\ Say(Bump(Allowed(store)))
    <3>1. \A u \in Tasks : ~Holds(u)
      BY <2>2 DEF SidecarPermitted, SlotHeldByOneOperation
    <3>2. store.health # "Ready"
      BY <2>2, <3>1 DEF SidecarPermitted, Unavailable, Intents, RequiredInstallIsForAbsence
    <3>3. store'.pending = NoAction /\ store'.health = store.health
      BY <2>2, BumpAllowedType DEF Say, TypeOK
    <3> QED BY <3>2, <3>3, NoRequest
  <2> QED BY <1>15, <2>1, <2>2 DEF AllowForSession
<1>16. ASSUME NEW t \in Tasks, SidecarStart(t) PROVE Intents'
  <2>1. /\ store'.pending = store.pending /\ store'.health = store.health
        /\ store'.sidecar => store.sidecar
    BY <1>16, WithdrawAllowanceType DEF SidecarStart, SayNothing, SayIf, TypeOK
  <2>2. CASE store.pending = NoAction
    BY <2>1, <2>2, NoRequest DEF Intents, SidecarNeverShadowsReadyService
  <2>3. CASE store.pending # NoAction
    <3>1. ~store.sidecar
      BY <2>3 DEF Intents, IntentsExclusive
    <3>2. store' = store /\ overtaken' = overtaken
      BY <1>16, <3>1, WithdrawAllowanceType DEF SidecarStart, SayNothing, SayIf, TypeOK
    <3> QED BY <1>16, <3>2 DEF SidecarStart, Intents, IntentsExclusive, OvertakenIsSettled, NoOrphanedRequest, RequiredInstallIsForAbsence, SidecarNeverShadowsReadyService, SlotHeldByOneOperation, CallsFit, Holds, Unsettled, Privileged, ReadingTasks, TypeOK, Goto, Return, Begin, Blank, Reading, Operating, PendingAction, NoAction, Steps, Locals
  <2> QED BY <2>2, <2>3
<1>17. ASSUME NEW t \in Tasks, DetectStartupStatus(t) PROVE Intents'
  <2>1. store.pending = NoAction /\ store.health = "Unknown"
    BY <1>17 DEF DetectStartupStatus, BeforeFirstCall, Quiet
  <2>2. store'.pending = NoAction /\ store'.health = "Unknown"
    BY <1>17, <2>1, BumpType DEF DetectStartupStatus, Reserve, TypeOK
  <2> QED BY <2>2, NoRequest
<1>18. ASSUME NEW t \in Tasks, BeginProbe(t) PROVE Intents'
  <2>1. KeepsHolders
    BY <1>18 DEF BeginProbe, KeepsHolders, Holds, Unsettled, Privileged, ReadingTasks, Reading, Operating, PendingAction, TypeOK, Steps, Locals, Goto, Return, Begin, Blank
  <2> QED BY <1>18, <2>1, IntentsKept DEF BeginProbe, SayNothing
<1>19. ASSUME NEW t \in Tasks, BeginOperation(t) PROVE Intents'
  <2>1. /\ store'.pending = store.pending /\ store'.sidecar = store.sidecar
        /\ store'.health = store.health
    BY <1>19, BumpType DEF BeginOperation, Say, TypeOK
  <2>2. \A u \in Tasks : ~Holds(u)
    BY <1>19 DEF BeginOperation, SlotHeldByOneOperation
  <2>3. /\ \A u \in Tasks \ {t} : pc'[u] = pc[u] /\ local'[u] = local[u]
        /\ pc'[t] = "requesting" \/ (pc'[t] = "probing" /\ local'[t].call = "Refresh")
    BY <1>19 DEF BeginOperation, Begin, TypeOK, Locals
  <2>4. \A u \in Tasks : Holds(u)' => u = t
    BY <2>2, <2>3 DEF Holds, Privileged
  <2> QED BY <2>1, <2>2, <2>3, <2>4 DEF Intents, IntentsExclusive, OvertakenIsSettled, NoOrphanedRequest, RequiredInstallIsForAbsence, SidecarNeverShadowsReadyService, ReadingTasks, Reading, PendingAction
<1>20. ASSUME NEW t \in Tasks, BeginSettled(t) PROVE Intents'
  <2>1. KeepsHolders
    BY <1>20 DEF BeginSettled, KeepsHolders, Holds, Unsettled, Privileged, ReadingTasks, Reading, Operating, PendingAction, TypeOK, Steps, Locals, Goto, Return, Begin, Blank
  <2> QED BY <1>20, <2>1, IntentsKept DEF BeginSettled, SayNothing
<1>21. ASSUME NEW t \in Tasks, FallBack(t) PROVE Intents'
  <2>1. store'.pending = NoAction /\ store'.health = "Lost"
    BY <1>21, AllowAfterRefusalType DEF FallBack, Say, TypeOK
  <2> QED BY <2>1, NoRequest
<1>22. ASSUME AcceptSidecarAtStartup PROVE Intents'
  <2>1. store'.pending = NoAction /\ store'.health = "Unknown"
    BY <1>22, AcceptSidecarType DEF AcceptSidecarAtStartup, BeforeFirstCall, Say, TypeOK
  <2> QED BY <2>1, NoRequest
<1>23. ASSUME ServiceLost PROVE Intents'
  <2>1. store'.pending = NoAction /\ ~store'.sidecar
    BY <1>23, ObserveType DEF ServiceLost, Say, TypeOK, ServiceOf, Report, Health, Unavailable
  <2> QED BY <2>1, NoRequest
<1>24. ASSUME RequireInstallForSession PROVE Intents'
  <2>1. \A u \in Tasks : ~Holds(u) /\ ~Holds(u)'
    BY <1>24 DEF RequireInstallForSession, SlotHeldByOneOperation, Holds, Privileged
  <2>2. CASE Requirable(store) \/ store.pending = "Install"
    <3>1. /\ store'.pending = "Install" /\ store'.health = store.health
          /\ store'.sidecar => store.sidecar /\ store.pending = "Install"
      BY <1>24, <2>2, RequireInstallType DEF RequireInstallForSession, SayIf, TypeOK, Requirable, Quiet
    <3>2. store.health = "NotInstalled"
      BY <2>1, <2>2 DEF Requirable, Intents, RequiredInstallIsForAbsence
    <3>3. IntentsExclusive' /\ SidecarNeverShadowsReadyService'
      BY <3>1, <3>2 DEF Intents, IntentsExclusive, SidecarNeverShadowsReadyService
    <3>4. OvertakenIsSettled' /\ NoOrphanedRequest' /\ RequiredInstallIsForAbsence'
      BY <2>1, <3>1, <3>2 DEF OvertakenIsSettled, NoOrphanedRequest, RequiredInstallIsForAbsence,
                            ReadingTasks, Holds, Privileged
    <3> QED BY <3>3, <3>4 DEF Intents
  <2>3. CASE ~(Requirable(store) \/ store.pending = "Install")
    <3>1. store' = store
      BY <1>24, <2>3, RequireInstallType DEF RequireInstallForSession, SayIf, TypeOK
    <3>2. store.pending = NoAction
      BY <2>1, <2>3 DEF Intents, NoOrphanedRequest
    <3> QED BY <3>1, <3>2, NoRequest DEF Intents, SidecarNeverShadowsReadyService
  <2> QED BY <2>2, <2>3
<1>25. CASE UNCHANGED vars
  BY <1>25 DEF vars, Intents, IntentsExclusive, OvertakenIsSettled, NoOrphanedRequest, RequiredInstallIsForAbsence, SidecarNeverShadowsReadyService, SlotHeldByOneOperation, CallsFit, Holds, Unsettled, Privileged, ReadingTasks, TypeOK, Goto, Return, Begin, Blank, Reading, Operating, PendingAction, NoAction, Steps, Locals, SayNothing
<1> QED
  BY <1>1, <1>2, <1>3, <1>4, <1>5, <1>6, <1>7, <1>8, <1>9, <1>10, <1>11, <1>12, <1>13,
     <1>14, <1>15, <1>16, <1>17, <1>18, <1>19, <1>20, <1>21, <1>22, <1>23, <1>24, <1>25
  DEF Next, Continue, Call

----------------------------------------------------------------------------
\* The invariant holds initially and is inductive.
LEMMA InvInit == Init => IInv
<1> SUFFICES ASSUME Init PROVE IInv
  OBVIOUS
<1>1. TypeOK
  <2>1. store \in VersionedService /\ opRunning \in BOOLEAN /\ waiters \subseteq Tasks
    BY BlankType DEF Init
  <2>2. pc \in [Tasks -> Steps]
    BY DEF Init, Steps
  <2>3. local \in [Tasks -> Locals]
    BY BlankType DEF Init
  <2>4. calls \in 0 .. MaxCalls /\ overtaken \subseteq Tasks
    BY RunStateAssumption DEF Init
  <2> QED BY <2>1, <2>2, <2>3, <2>4 DEF TypeOK
<1>2. /\ store.health = "Unknown" /\ store.pending = NoAction /\ ~store.sidecar
      /\ \A t \in Tasks : pc[t] = "idle"
      /\ ReadingTasks = {} /\ \A t \in Tasks : ~Holds(t)
  <2>1. store.health = "Unknown" /\ store.pending = NoAction /\ ~store.sidecar
    BY DEF Init, Fresh
  <2>2. \A t \in Tasks : pc[t] = "idle"
    BY DEF Init
  <2>3. ReadingTasks = {} /\ \A t \in Tasks : ~Holds(t)
    BY <2>2 DEF ReadingTasks, Reading, Holds, Operating
  <2> QED BY <2>1, <2>2, <2>3
<1>3. CallsFit /\ BeforeFirstCall /\ ReservationsPast /\ StaleExactlyWhenOvertaken
  BY <1>2 DEF CallsFit, BeforeFirstCall, ReservationsPast, StaleExactlyWhenOvertaken, Quiet, Reading
<1>4. SlotHeldByOneOperation
  BY <1>2 DEF SlotHeldByOneOperation, Init
<1>5. /\ IntentsExclusive /\ OvertakenIsSettled /\ NoOrphanedRequest
      /\ RequiredInstallIsForAbsence /\ SidecarNeverShadowsReadyService
  BY <1>2 DEF IntentsExclusive, OvertakenIsSettled, NoOrphanedRequest,
              RequiredInstallIsForAbsence, SidecarNeverShadowsReadyService, NoAction
<1> QED BY <1>1, <1>3, <1>4, <1>5 DEF IInv

LEMMA InvNext == IInv /\ [Next]_vars => IInv'
<1> SUFFICES ASSUME IInv, [Next]_vars PROVE IInv'
  OBVIOUS
<1>1. TypeOK' /\ CallsFit'
  BY TypeStep, CallsFitStep DEF IInv
<1>2. BeforeFirstCall' /\ SlotHeldByOneOperation'
  BY BeforeFirstCallStep, SlotStep DEF IInv
<1>3. (ReservationsPast /\ StaleExactlyWhenOvertaken)'
  BY StalenessStep DEF IInv
<1>4. Intents'
  BY IntentsStep DEF IInv, Intents
<1> QED BY <1>1, <1>2, <1>3, <1>4 DEF IInv, Intents

\* The inductive invariant holds in every behaviour.
THEOREM InvariantHolds == Spec => []IInv
BY InvInit, InvNext, PTL DEF Spec

\* Every variable of the store stays in its range.
THEOREM TypeCorrect == Spec => []TypeOK
<1>1. IInv => TypeOK
  BY DEF IInv
<1> QED BY <1>1, InvariantHolds, PTL

\* Between begin_operation and the drop of its guard a task is alone, and the
\* slot is taken exactly then.
THEOREM SlotExclusive == Spec => []SlotHeldByOneOperation
<1>1. IInv => SlotHeldByOneOperation
  BY DEF IInv
<1> QED BY <1>1, InvariantHolds, PTL

\* A reading is refused exactly when the store was written since it began.
THEOREM StalenessExact == Spec => []StaleExactlyWhenOvertaken
<1>1. IInv => StaleExactlyWhenOvertaken
  BY DEF IInv
<1> QED BY <1>1, InvariantHolds, PTL

\* No outcome of a privileged operation leaves its request on record.
THEOREM RequestsSettled == Spec => []NoOrphanedRequest
<1>1. IInv => NoOrphanedRequest
  BY DEF IInv
<1> QED BY <1>1, InvariantHolds, PTL

\* A pending action and an allowed sidecar exclude one another.
THEOREM IntentsExclude == Spec => []IntentsExclusive
<1>1. IInv => IntentsExclusive
  BY DEF IInv
<1> QED BY <1>1, InvariantHolds, PTL

\* No session is on the sidecar while the service is known to be ready.
THEOREM SidecarExcused == Spec => []SidecarNeverShadowsReadyService
<1>1. IInv => SidecarNeverShadowsReadyService
  BY DEF IInv
<1> QED BY <1>1, InvariantHolds, PTL

----------------------------------------------------------------------------
\* What a step is to the register: a write of whatever the store now says ...
LEMMA IsWrite ==
  ASSUME store' \in VersionedService, overtaken' = ReadingTasks, ReadingTasks' = ReadingTasks
  PROVE  Register!Next
<1>1. ServiceOf(store') \in Service
  BY DEF ServiceOf, Service, VersionedService
<1>2. (ReadingTasks \ overtaken)' = {}
  OBVIOUS
<1>3. Register!Write(ServiceOf(store'))
  BY <1>2 DEF Register!Write
<1> QED BY <1>1, <1>3 DEF Register!Next

\* ... nothing at all ...
LEMMA IsStutter ==
  ASSUME store' = store, overtaken' = overtaken, ReadingTasks' = ReadingTasks
  PROVE  UNCHANGED Register!vars
BY DEF Register!vars, ServiceOf

\* ... or the start of a reading.
LEMMA IsStart ==
  ASSUME TypeOK, NEW t \in Tasks, NEW c, pc[t] \notin Reading, Reserve(t, c)
  PROVE  Register!Next
<1>1. ServiceOf(store') = ServiceOf(store)
  BY BumpType DEF Reserve, TypeOK
<1>2. ReadingTasks' = ReadingTasks \cup {t} /\ t \notin ReadingTasks
  BY DEF Reserve, ReadingTasks, TypeOK, Reading
<1>3. (ReadingTasks \ overtaken)' = {t}
  BY <1>2 DEF Reserve
<1>4. Register!Start(t)
  BY <1>1, <1>2, <1>3 DEF Register!Start
<1> QED BY <1>4 DEF Register!Next

\* Every step of the store is a step of the register or a stutter.
LEMMA RegisterStep ==
  ASSUME TypeOK, TypeOK', CallsFit, StaleExactlyWhenOvertaken, [Next]_vars
  PROVE  [Register!Next]_(Register!vars)
<1>1. ASSUME NEW t \in Tasks, InspectEvidence(t) PROVE [Register!Next]_(Register!vars)
  <2>1. ReadingTasks' = ReadingTasks
    BY <1>1 DEF InspectEvidence, ReadingTasks, Reading, Goto, Return, Begin, TypeOK, Steps
  <2> QED BY <1>1, <2>1, IsStutter DEF InspectEvidence, SayNothing
<1>2. ASSUME NEW t \in Tasks, QueryService(t) PROVE [Register!Next]_(Register!vars)
  <2>1. ReadingTasks' = ReadingTasks
    BY <1>2 DEF QueryService, ReadingTasks, Reading, Goto, Return, Begin, TypeOK, Steps
  <2> QED BY <1>2, <2>1, IsStutter DEF QueryService, SayNothing
<1>3. ASSUME NEW t \in Tasks, CommitReading(t) PROVE [Register!Next]_(Register!vars)
  <2>0. local[t].found \in Health /\ local[t].reservation \in Nat
    BY DEF TypeOK, Locals
  <2>1. ReadingTasks' = ReadingTasks \ {t} /\ t \in ReadingTasks
    BY <1>3 DEF CommitReading, ReadingTasks, Reading, Goto, Return, Begin, TypeOK, Steps
  <2>2. (ReadingTasks \ overtaken)' = (ReadingTasks \ overtaken) \ {t}
    BY <1>3, <2>1 DEF CommitReading
  <2>3. CASE t \in overtaken
    <3>1. store' = store
      BY <1>3, <2>0, <2>1, <2>3, CommitReservedType DEF CommitReading, StaleExactlyWhenOvertaken, TypeOK
    <3>2. (ReadingTasks \ overtaken)' = ReadingTasks \ overtaken
      BY <2>2, <2>3
    <3>3. Register!Drop(t)
      BY <2>1, <2>3, <3>1, <3>2 DEF Register!Drop, ServiceOf
    <3> QED BY <3>3 DEF Register!Next
  <2>4. CASE t \notin overtaken
    <3>1. ServiceOf(store') = Report(local[t].found)
      BY <1>3, <2>0, <2>1, <2>4, CommitReservedType DEF CommitReading, StaleExactlyWhenOvertaken, TypeOK
    <3>2. Register!Land(t, local[t].found)
      BY <2>1, <2>2, <2>4, <3>1 DEF Register!Land
    <3> QED BY <2>0, <3>2 DEF Register!Next
  <2> QED BY <2>3, <2>4
<1>4. ASSUME NEW t \in Tasks, HearReply(t) PROVE [Register!Next]_(Register!vars)
  <2>1. ReadingTasks' = ReadingTasks
    BY <1>4 DEF HearReply, ReadingTasks, Reading, Goto, Return, Begin, TypeOK, Steps
  <2> QED BY <1>4, <2>1, IsWrite DEF HearReply, Say, TypeOK
<1>5. ASSUME NEW t \in Tasks, GiveUp(t) PROVE [Register!Next]_(Register!vars)
  <2>1. ReadingTasks' = ReadingTasks
    BY <1>5 DEF GiveUp, ReadingTasks, Reading, Goto, Return, Begin, TypeOK, Steps
  <2>2. \/ overtaken' = ReadingTasks
        \/ store' = store /\ overtaken' = overtaken
    BY <1>5, ObserveType DEF GiveUp, Say, SayIf, SayNothing, TypeOK
  <2> QED BY <2>1, <2>2, IsWrite, IsStutter DEF TypeOK
<1>6. ASSUME NEW t \in Tasks, RequestPending(t) PROVE [Register!Next]_(Register!vars)
  <2>1. ReadingTasks' = ReadingTasks
    BY <1>6 DEF RequestPending, ReadingTasks, Reading, Goto, Return, Begin, TypeOK, Steps
  <2> QED BY <1>6, <2>1, IsWrite DEF RequestPending, Say, TypeOK
<1>7. ASSUME NEW t \in Tasks, Perform(t) PROVE [Register!Next]_(Register!vars)
  <2>1. CASE Say(Observe(store, "NotInstalled")) /\ Goto(t, "releasing")
    <3>1. ReadingTasks' = ReadingTasks
      BY <1>7, <2>1 DEF Perform, ReadingTasks, Reading, Goto, Return, Begin, TypeOK, Steps
    <3> QED BY <2>1, <3>1, IsWrite DEF Say, TypeOK
  <2>2. CASE SayNothing /\ Goto(t, "probing")
    <3>1. ReadingTasks' = ReadingTasks
      BY <1>7, <2>2 DEF Perform, ReadingTasks, Reading, Goto, Return, Begin, TypeOK, Steps
    <3> QED BY <2>2, <3>1, IsStutter DEF SayNothing
  <2>3. CASE Reserve(t, local[t].call)
    BY <1>7, <2>3, IsStart DEF Perform, Reading
  <2> QED BY <1>7, <2>1, <2>2, <2>3 DEF Perform
<1>8. ASSUME NEW t \in Tasks, Restore(t) PROVE [Register!Next]_(Register!vars)
  <2>1. ReadingTasks' = ReadingTasks
    BY <1>8 DEF Restore, ReadingTasks, Reading, Goto, Return, Begin, TypeOK, Steps
  <2>2. \/ overtaken' = ReadingTasks
        \/ store' = store /\ overtaken' = overtaken
    BY <1>8, RestoreAllowanceType DEF Restore, Say, SayIf, SayNothing, TypeOK
  <2> QED BY <2>1, <2>2, IsWrite, IsStutter DEF TypeOK
<1>9. ASSUME NEW t \in Tasks, ReleaseSlot(t) PROVE [Register!Next]_(Register!vars)
  <2>1. ReadingTasks' = ReadingTasks
    BY <1>9 DEF ReleaseSlot, ReadingTasks, Reading, Goto, Return, Begin, TypeOK, Steps
  <2> QED BY <1>9, <2>1, IsStutter DEF ReleaseSlot, SayNothing
<1>10. ASSUME NEW t \in Tasks, NotifyWaiters(t) PROVE [Register!Next]_(Register!vars)
  <2>1. ReadingTasks' = ReadingTasks
    BY <1>10 DEF NotifyWaiters, ReadingTasks, Reading, Goto, Return, Begin, TypeOK, Steps
  <2> QED BY <1>10, <2>1, IsStutter DEF NotifyWaiters, SayNothing
<1>11. ASSUME NEW t \in Tasks, CloneService(t) PROVE [Register!Next]_(Register!vars)
  <2>1. ReadingTasks' = ReadingTasks
    BY <1>11 DEF CloneService, ReadingTasks, Reading, Goto, Return, Begin, TypeOK, Steps
  <2> QED BY <1>11, <2>1, IsStutter DEF CloneService, SayNothing
<1>12. ASSUME NEW t \in Tasks, ReadSlot(t) PROVE [Register!Next]_(Register!vars)
  <2>1. ReadingTasks' = ReadingTasks
    BY <1>12 DEF ReadSlot, ReadingTasks, Reading, Goto, Return, Begin, TypeOK, Steps
  <2> QED BY <1>12, <2>1, IsStutter DEF ReadSlot, SayNothing
<1>13. ASSUME NEW t \in Tasks, Wake(t) PROVE [Register!Next]_(Register!vars)
  <2>1. ReadingTasks' = ReadingTasks
    BY <1>13 DEF Wake, ReadingTasks, Reading, Goto, Return, Begin, TypeOK, Steps
  <2> QED BY <1>13, <2>1, IsStutter DEF Wake, SayNothing
<1>14. ASSUME NEW t \in Tasks, UseSettled(t) PROVE [Register!Next]_(Register!vars)
  <2>1. ReadingTasks' = ReadingTasks
    BY <1>14 DEF UseSettled, ReadingTasks, Reading, Goto, Return, Begin, TypeOK, Steps
  <2> QED BY <1>14, <2>1, IsStutter DEF UseSettled, SayNothing
<1>15. ASSUME NEW t \in Tasks, AllowForSession(t) PROVE [Register!Next]_(Register!vars)
  <2>1. ReadingTasks' = ReadingTasks
    BY <1>15 DEF AllowForSession, ReadingTasks, Reading, Goto, Return, Begin, TypeOK, Steps
  <2>2. \/ overtaken' = ReadingTasks
        \/ store' = store /\ overtaken' = overtaken
    BY <1>15, BumpAllowedType DEF AllowForSession, Say, SayIf, SayNothing, TypeOK
  <2> QED BY <2>1, <2>2, IsWrite, IsStutter DEF TypeOK
<1>16. ASSUME NEW t \in Tasks, SidecarStart(t) PROVE [Register!Next]_(Register!vars)
  <2>1. ReadingTasks' = ReadingTasks
    BY <1>16 DEF SidecarStart, ReadingTasks, Reading, Goto, Return, Begin, TypeOK, Steps
  <2>2. \/ overtaken' = ReadingTasks
        \/ store' = store /\ overtaken' = overtaken
    BY <1>16, WithdrawAllowanceType DEF SidecarStart, Say, SayIf, SayNothing, TypeOK
  <2> QED BY <2>1, <2>2, IsWrite, IsStutter DEF TypeOK
<1>17. ASSUME NEW t \in Tasks, DetectStartupStatus(t) PROVE [Register!Next]_(Register!vars)
  BY <1>17, IsStart DEF DetectStartupStatus, Reading
<1>18. ASSUME NEW t \in Tasks, BeginProbe(t) PROVE [Register!Next]_(Register!vars)
  <2>1. ReadingTasks' = ReadingTasks
    BY <1>18 DEF BeginProbe, ReadingTasks, Reading, Goto, Return, Begin, TypeOK, Steps
  <2> QED BY <1>18, <2>1, IsStutter DEF BeginProbe, SayNothing
<1>19. ASSUME NEW t \in Tasks, BeginOperation(t) PROVE [Register!Next]_(Register!vars)
  <2>1. ReadingTasks' = ReadingTasks
    BY <1>19 DEF BeginOperation, ReadingTasks, Reading, Goto, Return, Begin, TypeOK, Steps
  <2> QED BY <1>19, <2>1, IsWrite DEF BeginOperation, Say, TypeOK
<1>20. ASSUME NEW t \in Tasks, BeginSettled(t) PROVE [Register!Next]_(Register!vars)
  <2>1. ReadingTasks' = ReadingTasks
    BY <1>20 DEF BeginSettled, ReadingTasks, Reading, Goto, Return, Begin, TypeOK, Steps
  <2> QED BY <1>20, <2>1, IsStutter DEF BeginSettled, SayNothing
<1>21. ASSUME NEW t \in Tasks, FallBack(t) PROVE [Register!Next]_(Register!vars)
  <2>1. ReadingTasks' = ReadingTasks
    BY <1>21 DEF FallBack, ReadingTasks, Reading, Goto, Return, Begin, TypeOK, Steps
  <2> QED BY <1>21, <2>1, IsWrite DEF FallBack, Say, TypeOK
<1>22. ASSUME AcceptSidecarAtStartup PROVE [Register!Next]_(Register!vars)
  <2>1. ReadingTasks' = ReadingTasks
    BY <1>22 DEF AcceptSidecarAtStartup, ReadingTasks, Reading, Goto, Return, Begin, TypeOK, Steps
  <2> QED BY <1>22, <2>1, IsWrite DEF AcceptSidecarAtStartup, Say, TypeOK
<1>23. ASSUME ServiceLost PROVE [Register!Next]_(Register!vars)
  <2>1. ReadingTasks' = ReadingTasks
    BY <1>23 DEF ServiceLost, ReadingTasks, Reading, Goto, Return, Begin, TypeOK, Steps
  <2> QED BY <1>23, <2>1, IsWrite DEF ServiceLost, Say, TypeOK
<1>24. ASSUME RequireInstallForSession PROVE [Register!Next]_(Register!vars)
  <2>1. ReadingTasks' = ReadingTasks
    BY <1>24 DEF RequireInstallForSession, ReadingTasks, Reading, Goto, Return, Begin, TypeOK, Steps
  <2>2. \/ overtaken' = ReadingTasks
        \/ store' = store /\ overtaken' = overtaken
    BY <1>24, RequireInstallType DEF RequireInstallForSession, Say, SayIf, SayNothing, TypeOK
  <2> QED BY <2>1, <2>2, IsWrite, IsStutter DEF TypeOK
<1>25. CASE UNCHANGED vars
  BY <1>25, IsStutter DEF vars, ReadingTasks
<1> QED
  BY <1>1, <1>2, <1>3, <1>4, <1>5, <1>6, <1>7, <1>8, <1>9, <1>10, <1>11, <1>12, <1>13,
     <1>14, <1>15, <1>16, <1>17, <1>18, <1>19, <1>20, <1>21, <1>22, <1>23, <1>24, <1>25
  DEF Next, Continue, Call

\* The store, with its one revision counter, implements the register in which
\* every write makes the readings under way stale.
THEOREM StoreImplementsRegister == Spec => ImplementsRegister
<1>1. Init => Register!Init
  <2>1. ServiceOf(Fresh) \in Service
    BY DEF Fresh, ServiceOf, Service, Health, NoAction
  <2> QED BY <2>1 DEF Init, Register!Init, ReadingTasks, Reading
<1>2. IInv /\ IInv' /\ [Next]_vars => [Register!Next]_(Register!vars)
  BY RegisterStep DEF IInv
<1> QED BY <1>1, <1>2, InvariantHolds, PTL DEF Spec, ImplementsRegister, Register!Spec
==============================================================================
