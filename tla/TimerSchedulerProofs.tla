------------------------- MODULE TimerSchedulerProofs -------------------------
(***************************************************************************)
(* What TimerScheduler promises for every set of profiles, intervals and   *)
(* commands: one update per profile, a queue entry per armed task, and a   *)
(* timer that ends with the schedules it was told of.                      *)
(***************************************************************************)
EXTENDS TimerScheduler, TLAPS

----------------------------------------------------------------------------
\* The operations on one task keep its key and its queue entries together.
SlotOk(s) ==
  /\ s.entries = IF s.armed THEN 1 ELSE 0
  /\ s.status = "absent"  => ~s.armed /\ ~s.running
  /\ s.status = "live"    => (s.armed <=> ~s.running)
  /\ s.status = "retired" => s.running /\ ~s.armed

LEMMA SlotsOk == KeysMatchQueue /\ ArmedOrRunning <=> \A u \in Uids : SlotOk(slot[u])
BY DEF SlotOk, KeysMatchQueue, ArmedOrRunning

LEMMA EntryType ==
  ASSUME NEW s \in Slots, NEW n \in Nat
  PROVE  /\ [s EXCEPT !.armed = FALSE, !.entries = n] \in Slots
         /\ [s EXCEPT !.armed = TRUE, !.entries = n] \in Slots
BY DEF Slots

LEMMA NoTaskSlot == [NoTask EXCEPT !.entries = 0] = NoTask /\ NoTask \in Slots
BY DEF NoTask, Slots, Periods

\* A key that is taken takes its entry out of the queue.
LEMMA TakenSlot ==
  ASSUME NEW s \in Slots, SlotOk(s), s.armed
  PROVE  /\ Taken(s) \in Slots
         /\ Taken(s).entries = 0
         /\ ~Taken(s).armed
         /\ Taken(s).running <=> s.running
         /\ Taken(s).status = s.status
         /\ Taken(s).interval = s.interval
<1>1. s.entries - 1 = 0
  BY DEF Slots, SlotOk
<1>2. Taken(s) \in Slots
  BY <1>1, EntryType DEF Taken
<1>3. QED BY <1>1, <1>2 DEF Taken, Slots

LEMMA RemoveSlot ==
  ASSUME NEW s \in Slots, SlotOk(s)
  PROVE  /\ Remove(s) \in Slots
         /\ Remove(s).entries = 0
         /\ ~Remove(s).armed
         /\ Remove(s).running <=> s.running
         /\ Remove(s).status = s.status
         /\ Remove(s).interval = s.interval
<1>1. CASE s.armed
  BY <1>1, TakenSlot DEF Remove
<1>2. CASE ~s.armed
  BY <1>2 DEF Remove, SlotOk, Slots
<1> QED BY <1>1, <1>2

\* A task is only scheduled when it holds no key.
LEMMA ScheduleSlot ==
  ASSUME NEW s \in Slots, s.entries = 0
  PROVE  /\ Schedule(s) \in Slots
         /\ Schedule(s).entries = 1
         /\ Schedule(s).armed
         /\ Schedule(s).running <=> s.running
         /\ Schedule(s).status = s.status
         /\ Schedule(s).interval = s.interval
<1>1. s.entries + 1 = 1
  BY DEF Slots
<1>2. Schedule(s) \in Slots
  BY <1>1, EntryType DEF Schedule
<1>3. QED BY <1>1, <1>2 DEF Schedule, Slots

\* A schedule leaves a task's update alone and is what the task then follows.
LEMMA ApplyToSlot ==
  ASSUME NEW s \in Slots, NEW period \in Periods, SlotOk(s)
  PROVE  /\ ApplyTo(s, period) \in Slots
         /\ SlotOk(ApplyTo(s, period))
         /\ ApplyTo(s, period).running <=> s.running
         /\ SlotFollows(ApplyTo(s, period), period)
<1> DEFINE enabled == [s EXCEPT !.status = "live", !.interval = period]
<1>1. CASE s.status = "absent" /\ period = 0
  BY <1>1 DEF ApplyTo, SlotFollows
<1>2. /\ enabled \in Slots
      /\ enabled.status = "live" /\ enabled.interval = period
      /\ enabled.entries = s.entries
      /\ enabled.armed <=> s.armed
      /\ enabled.running <=> s.running
  BY DEF Slots
<1>3. [[s EXCEPT !.status = "live"] EXCEPT !.interval = period] = enabled
  BY DEF Slots
<1> HIDE DEF enabled
<1>4. CASE period # 0 /\ ~s.armed /\ ~s.running
  <2>1. s.entries = 0 /\ s.status = "absent"
    BY <1>4 DEF SlotOk, Slots
  <2>2. ApplyTo(s, period) = Schedule(enabled)
    BY <1>4, <2>1 DEF ApplyTo, enabled
  <2> QED BY <1>2, <1>4, <2>1, <2>2, ScheduleSlot DEF SlotOk, SlotFollows
<1>5. CASE period # 0 /\ (s.armed \/ s.running)
  <2>1. s.status # "absent"
    BY <1>5 DEF SlotOk
  <2>2. ApplyTo(s, period) = enabled
    BY <1>3, <1>5, <2>1 DEF ApplyTo, Retimed, Slots
  <2> QED BY <1>2, <1>5, <2>1, <2>2 DEF SlotOk, SlotFollows, Slots
<1>6. CASE s.status # "absent" /\ period = 0 /\ s.running
  <2>1. ApplyTo(s, period) = [Remove(s) EXCEPT !.status = "retired"]
    BY <1>6 DEF ApplyTo, Retire
  <2> QED BY <1>6, <2>1, RemoveSlot DEF SlotOk, SlotFollows, Slots
<1>7. CASE s.status # "absent" /\ period = 0 /\ ~s.running
  <2>1. ApplyTo(s, period) = [NoTask EXCEPT !.entries = Remove(s).entries]
    BY <1>7 DEF ApplyTo, Retire, Dropped
  <2>2. Remove(s).entries = 0
    BY RemoveSlot
  <2>3. ApplyTo(s, period) = NoTask
    BY <2>1, <2>2, NoTaskSlot
  <2>4. /\ NoTask.status = "absent" /\ NoTask.entries = 0
        /\ ~NoTask.armed /\ ~NoTask.running
    BY DEF NoTask
  <2> HIDE DEF NoTask
  <2> QED BY <1>7, <2>3, <2>4, NoTaskSlot DEF SlotOk, SlotFollows
<1> QED BY <1>1, <1>4, <1>5, <1>6, <1>7 DEF Slots

\* Only an armed task that does not run has an entry that expires.
LEMMA ExpiredSlot ==
  ASSUME NEW s \in Slots, SlotOk(s), s.entries > 0
  PROVE  /\ Expired(s) \in Slots
         /\ SlotOk(Expired(s))
         /\ Runnable(s) /\ Expired(s).running
         /\ Expired(s).status = s.status
         /\ Expired(s).interval = s.interval
<1>1. s.armed /\ s.status = "live" /\ ~s.running
  BY DEF SlotOk, Slots
<1>2. Expired(s) = [Taken(s) EXCEPT !.running = TRUE]
  BY <1>1 DEF Expired
<1>3. Expired(s) \in Slots
  BY <1>1, <1>2, TakenSlot DEF Slots
<1>4. Runnable(s)
  BY <1>1 DEF Runnable
<1> QED BY <1>1, <1>2, <1>3, <1>4, TakenSlot DEF SlotOk, Slots

LEMMA RanNowSlot ==
  ASSUME NEW s \in Slots, SlotOk(s)
  PROVE  /\ RanNow(s) \in Slots
         /\ SlotOk(RanNow(s))
         /\ ~Runnable(s) => RanNow(s) = s
         /\ Runnable(s) => RanNow(s).running
         /\ RanNow(s).status = s.status
         /\ RanNow(s).interval = s.interval
<1>1. CASE ~Runnable(s)
  BY <1>1 DEF RanNow
<1>2. CASE Runnable(s)
  <2>1. s.status = "live"
    BY <1>2 DEF Runnable, SlotOk, Slots
  <2>2. RanNow(s) = [Remove(s) EXCEPT !.running = TRUE]
    BY <1>2 DEF RanNow
  <2>3. RanNow(s) \in Slots
    BY <2>2, RemoveSlot DEF Slots
  <2> QED BY <1>2, <2>1, <2>2, <2>3, RemoveSlot DEF SlotOk, Slots
<1> QED BY <1>1, <1>2

\* A task that finishes is armed again, unless it was retiring.
LEMMA FinishedSlot ==
  ASSUME NEW s \in Slots, SlotOk(s), s.running
  PROVE  /\ Finished(s) \in Slots
         /\ SlotOk(Finished(s))
         /\ ~Finished(s).running
         /\ s.status = "live" => Finished(s).status = "live" /\ Finished(s).interval = s.interval
         /\ s.status # "live" => Finished(s).status # "live"
<1>1. s.entries = 0 /\ s.status # "absent"
  BY DEF SlotOk, Slots
<1>2. CASE s.status = "retired"
  <2>1. Finished(s) = [NoTask EXCEPT !.entries = 0]
    BY <1>1, <1>2 DEF Finished, Dropped
  <2>2. Finished(s) = NoTask
    BY <2>1, NoTaskSlot
  <2> QED BY <1>2, <2>2, NoTaskSlot DEF NoTask, SlotOk
<1>3. CASE s.status = "live"
  <2> DEFINE idle == [s EXCEPT !.running = FALSE]
  <2>1. /\ idle \in Slots /\ idle.entries = 0 /\ ~idle.running
        /\ idle.status = "live" /\ idle.interval = s.interval
    BY <1>1, <1>3 DEF Slots
  <2>2. Finished(s) = Schedule(idle)
    BY <1>3 DEF Finished
  <2> HIDE DEF idle
  <2> QED BY <1>3, <2>1, <2>2, ScheduleSlot DEF SlotOk
<1> QED BY <1>1, <1>2, <1>3 DEF Slots

----------------------------------------------------------------------------
\* Every variable keeps its range.
LEMMA ItemTypes ==
  /\ Deleted \in Items
  /\ \A item \in Items : Period(item) \in Periods
  /\ \A item, seen \in Items, header \in Periods : Merge(item, seen, header) \in Items
<1>1. Deleted \in Items
  BY DEF Deleted, Items, Periods
<1>2. \A item \in Items : Period(item) \in Periods
  BY DEF Period, Items, Periods
<1>3. ASSUME NEW item \in Items, NEW seen \in Items, NEW header \in Periods
      PROVE  Merge(item, seen, header) \in Items
  <2> DEFINE i == IF seen.interval # 0 THEN seen.interval
                  ELSE IF header # 0 THEN header ELSE item.interval
  <2>1. i \in Periods /\ seen.allow \in BOOLEAN
    BY DEF Items
  <2>2. Merge(item, seen, header) = [item EXCEPT !.allow = seen.allow, !.interval = i]
    BY DEF Merge
  <2> HIDE DEF i
  <2> QED BY <2>1, <2>2 DEF Items
<1> QED BY <1>1, <1>2, <1>3

LEMMA InitType == Init => TypeOK
<1> SUFFICES ASSUME Init PROVE TypeOK
  OBVIOUS
<1> USE DEF Init
<1>1. profiles \in [Uids -> Items]
  OBVIOUS
<1>2. cache \in [Uids -> Periods]
  BY DEF Periods
<1>3. IdleCall \in CallStates
  BY ItemTypes DEF IdleCall, CallStates, At, Periods
<1>4. call \in [Callers -> CallStates]
  BY <1>3
<1>5. slot \in [Uids -> Slots]
  BY NoTaskSlot
<1>6. job \in [Uids -> Jobs]
  BY ItemTypes DEF Jobs
<1>7. chan \in Seq(Commands) /\ inflight \in [Uids -> Nat]
  OBVIOUS
<1> QED BY <1>1, <1>2, <1>4, <1>5, <1>6, <1>7 DEF TypeOK

\* A command, whatever it is, begins as a call with an item of its own.
LEMMA CommandShape ==
  ASSUME TypeOK, NEW c \in Callers, CommandStep(c)
  PROVE  /\ c \in Calls /\ call[c].at = "idle"
         /\ \E op \in {"Patch", "Create", "Delete", "Update"}, u \in Uids, item \in Items,
               refresh \in BOOLEAN : BeginCall(c, op, u, item, refresh)
<1> USE DEF CommandStep, TypeOK
<1>1. CASE BeginPatch(c)
  <2>1. PICK u \in Uids, item \in Items : BeginCall(c, "Patch", u, item, item # profiles[u])
    BY <1>1 DEF BeginPatch
  <2> QED BY <2>1 DEF BeginCall
<1>2. CASE BeginCreate(c)
  <2>1. PICK u \in Uids, item \in Items : BeginCall(c, "Create", u, item, TRUE)
    BY <1>2 DEF BeginCreate
  <2> QED BY <2>1 DEF BeginCall
<1>3. CASE BeginDelete(c)
  <2>1. PICK u \in Uids : BeginCall(c, "Delete", u, Deleted, TRUE)
    BY <1>3 DEF BeginDelete
  <2> QED BY <2>1, ItemTypes DEF BeginCall
<1>4. CASE BeginUpdate(c)
  <2>1. PICK u \in Uids : BeginCall(c, "Update", u, profiles[u], FALSE)
    BY <1>4 DEF BeginUpdate
  <2> QED BY <2>1 DEF BeginCall
<1> QED BY <1>1, <1>2, <1>3, <1>4

\* A commit, whatever the command, replaces the item of the call's profile.
LEMMA CommitShape ==
  ASSUME TypeOK, CallsFit, NEW c \in Callers, Commit(c)
  PROVE  /\ call[c].at = "committing" /\ call[c].uid \in Uids
         /\ UNCHANGED <<callVars, taskVars, chan>>
         /\ \E item \in Items, saved \in BOOLEAN : Committed(c, item, saved)
<1> USE DEF Commit, TypeOK
<1>1. call[c].at = "committing" /\ call[c].uid \in Uids /\ call[c].item \in Items
  BY DEF CallsFit, CallStates
<1>2. profiles[call[c].uid] \in Items
  BY <1>1
<1>3. \A header \in Periods : Merge(profiles[call[c].uid], call[c].item, header) \in Items
  BY <1>1, <1>2, ItemTypes
<1> QED BY <1>1, <1>3

LEMMA CallGoesType ==
  ASSUME TypeOK, NEW c \in Callers, NEW at \in At, CallGoes(c, at)
  PROVE  /\ call' \in [Callers -> CallStates]
         /\ call'[c].at = at
         /\ call'[c].snap = call[c].snap
         /\ call'[c].uid = call[c].uid
         /\ \A d \in Callers \ {c} : call'[d] = call[d]
<1>1. call[c] \in CallStates
  BY DEF TypeOK
<1>2. [call[c] EXCEPT !.at = at] \in CallStates
  BY <1>1 DEF CallStates
<1> QED BY <1>1, <1>2 DEF CallGoes, CallStates, TypeOK

LEMMA TakeScheduleType ==
  ASSUME TypeOK, NEW c \in Callers, TakeSchedule(c)
  PROVE  /\ call' \in [Callers -> CallStates]
         /\ call'[c].at = "locked"
         /\ call'[c].snap = GenMap(profiles)
         /\ call'[c].uid = call[c].uid
         /\ \A d \in Callers \ {c} : call'[d] = call[d]
<1>1. GenMap(profiles) \in [Uids -> Periods]
  BY ItemTypes DEF GenMap, TypeOK
<1>2. call[c] \in CallStates
  BY DEF TypeOK
<1> DEFINE state == [call[c] EXCEPT !.at = "locked", !.snap = GenMap(profiles)]
<1>3. /\ state \in CallStates /\ state.at = "locked"
      /\ state.snap = GenMap(profiles) /\ state.uid = call[c].uid
  <2> DEFINE map == GenMap(profiles)
  <2>1. map \in [Uids -> Periods]
    BY <1>1
  <2> HIDE DEF map
  <2>2. /\ [call[c] EXCEPT !.at = "locked", !.snap = map] \in CallStates
        /\ [call[c] EXCEPT !.at = "locked", !.snap = map].snap = map
    BY <1>2, <2>1 DEF CallStates, At
  <2>3. /\ [call[c] EXCEPT !.at = "locked", !.snap = map].at = "locked"
        /\ [call[c] EXCEPT !.at = "locked", !.snap = map].uid = call[c].uid
    BY <1>2 DEF CallStates
  <2> QED BY <2>2, <2>3 DEF map
<1>4. call' = [call EXCEPT ![c] = state]
  BY DEF TakeSchedule
<1> HIDE DEF state
<1> QED BY <1>3, <1>4 DEF TypeOK

LEMMA BeginCallType ==
  ASSUME TypeOK, NEW c \in Callers, NEW op \in {"Patch", "Create", "Delete", "Update"},
         NEW u \in Uids, NEW item \in Items, NEW refresh \in BOOLEAN,
         BeginCall(c, op, u, item, refresh)
  PROVE  /\ call' \in [Callers -> CallStates]
         /\ call'[c].at = "committing"
         /\ call'[c].uid = u
         /\ \A d \in Callers \ {c} : call'[d] = call[d]
<1> DEFINE state == [at |-> "committing", op |-> op, uid |-> u, item |-> item,
                     refresh |-> refresh, snap |-> IdleCall.snap]
<1>2. IdleCall.snap \in [Uids -> Periods]
  BY DEF Periods, IdleCall
<1>3. state \in CallStates /\ state.at = "committing" /\ state.uid = u
  BY <1>2 DEF CallStates, At
<1>4. call' = [call EXCEPT ![c] = state]
  BY DEF BeginCall
<1> HIDE DEF state
<1> QED BY <1>3, <1>4 DEF TypeOK

LEMMA CommandTypes ==
  /\ \A map \in [Uids -> Periods] : Apply(map) \in Commands
  /\ \A u \in Uids : RunNow(u) \in Commands /\ TaskFinished(u) \in Commands
  /\ \A command \in Commands :
       IF command.kind = "Apply" THEN command.map \in [Uids -> Periods]
                                 ELSE command.uid \in Uids
BY DEF Commands, Apply, RunNow, TaskFinished

LEMMA EndRefreshType ==
  ASSUME TypeOK, NEW c \in Callers, EndRefresh(c)
  PROVE  /\ lock' = NoCaller
         /\ overdue' \subseteq Uids
         /\ call' \in [Callers -> CallStates]
         /\ call'[c].at \in {"overdue", "done"}
         /\ call'[c].snap = call[c].snap
         /\ call'[c].uid = call[c].uid
         /\ \A d \in Callers \ {c} : call'[d] = call[d]
<1>1. CASE c = Boot
  BY <1>1, CallGoesType DEF EndRefresh, At
<1>2. CASE c # Boot
  BY <1>2, CallGoesType DEF EndRefresh, At, TypeOK
<1> QED BY <1>1, <1>2

LEMMA CommitItemType ==
  ASSUME TypeOK, NEW u \in Uids, NEW item \in Items, NEW refresh \in BOOLEAN,
         CommitItem(u, item, refresh)
  PROVE  profiles' \in [Uids -> Items] /\ unannounced' \subseteq Uids
BY DEF CommitItem, TypeOK

LEMMA JobTypes ==
  ASSUME TypeOK, NEW u \in Uids
  PROVE  /\ \A stage \in {"none", "spawned", "downloading", "reporting"} :
              JobGoes(u, stage) => job' \in [Uids -> Jobs]
         /\ Spawn(u) => job' \in [Uids -> Jobs] /\ inflight' \in [Uids -> Nat]
<1>1. ASSUME NEW stage \in {"none", "spawned", "downloading", "reporting"}
      PROVE  [job EXCEPT ![u].stage = stage] \in [Uids -> Jobs]
  BY DEF TypeOK, Jobs
<1>2. [inflight EXCEPT ![u] = @ + 1] \in [Uids -> Nat]
  BY DEF TypeOK
<1> QED BY <1>1, <1>2 DEF JobGoes, Spawn

\* The steps of the scheduler and of the updates, on types and on SlotOk.
LEMMA SchedulerTypes ==
  ASSUME TypeOK, KeysMatchQueue, ArmedOrRunning, JobsFit, OneUpdatePerProfile
  PROVE  /\ \A u \in Uids : Expire(u) =>
              /\ slot' \in [Uids -> Slots] /\ \A v \in Uids : SlotOk(slot'[v])
              /\ Spawn(u) /\ Runnable(slot[u]) /\ slot' = [slot EXCEPT ![u] = Expired(slot[u])]
         /\ ReceiveApply =>
              /\ Head(chan).map \in [Uids -> Periods]
              /\ slot' \in [Uids -> Slots] /\ \A v \in Uids : SlotOk(slot'[v])
         /\ ReceiveRunNow =>
              /\ Head(chan).uid \in Uids
              /\ slot' \in [Uids -> Slots] /\ \A v \in Uids : SlotOk(slot'[v])
         /\ ReceiveFinished =>
              /\ Head(chan) = TaskFinished(Head(chan).uid) /\ Head(chan).uid \in Uids
              /\ slot[Head(chan).uid].running
              /\ slot' \in [Uids -> Slots] /\ \A v \in Uids : SlotOk(slot'[v])
<1>1. \A u \in Uids : slot[u] \in Slots /\ SlotOk(slot[u])
  BY SlotsOk DEF TypeOK
<1>2. ASSUME NEW u \in Uids, Expire(u)
      PROVE  /\ slot' \in [Uids -> Slots] /\ \A v \in Uids : SlotOk(slot'[v])
             /\ Spawn(u) /\ Runnable(slot[u]) /\ slot' = [slot EXCEPT ![u] = Expired(slot[u])]
  <2>1. /\ slot[u].entries > 0
        /\ slot' = [slot EXCEPT ![u] = Expired(slot[u])]
        /\ Runnable(slot[u]) => Spawn(u)
    BY <1>2 DEF Expire
  <2>2. Runnable(slot[u]) /\ Expired(slot[u]) \in Slots /\ SlotOk(Expired(slot[u]))
    BY <1>1, <2>1, ExpiredSlot
  <2> QED BY <1>1, <2>1, <2>2 DEF TypeOK
<1>3. chan # << >> => Head(chan) \in Commands
  BY DEF TypeOK
<1>4. ASSUME ReceiveApply
      PROVE  /\ Head(chan).map \in [Uids -> Periods]
             /\ slot' \in [Uids -> Slots] /\ \A v \in Uids : SlotOk(slot'[v])
  <2>1. Head(chan).map \in [Uids -> Periods]
    BY <1>3, <1>4, CommandTypes DEF ReceiveApply, Received
  <2>2. \A v \in Uids : /\ ApplyTo(slot[v], Head(chan).map[v]) \in Slots
                        /\ SlotOk(ApplyTo(slot[v], Head(chan).map[v]))
    BY <1>1, <2>1, ApplyToSlot
  <2> QED BY <1>4, <2>1, <2>2 DEF ReceiveApply
<1>5. ASSUME ReceiveRunNow
      PROVE  /\ Head(chan).uid \in Uids
             /\ slot' \in [Uids -> Slots] /\ \A v \in Uids : SlotOk(slot'[v])
  <2> DEFINE u == Head(chan).uid
  <2>1. u \in Uids
    BY <1>3, <1>5, CommandTypes DEF ReceiveRunNow, Received
  <2>2. slot' = [slot EXCEPT ![u] = RanNow(slot[u])]
    BY <1>5 DEF ReceiveRunNow
  <2>3. RanNow(slot[u]) \in Slots /\ SlotOk(RanNow(slot[u]))
    BY <1>1, <2>1, RanNowSlot
  <2> QED BY <1>1, <2>1, <2>2, <2>3 DEF TypeOK
<1>6. ASSUME ReceiveFinished
      PROVE  /\ Head(chan) = TaskFinished(Head(chan).uid) /\ Head(chan).uid \in Uids
             /\ slot[Head(chan).uid].running
             /\ slot' \in [Uids -> Slots] /\ \A v \in Uids : SlotOk(slot'[v])
  <2> DEFINE u == Head(chan).uid
  <2>1. u \in Uids /\ chan # << >> /\ Head(chan).kind = "TaskFinished" /\ Head(chan) \in Commands
    BY <1>3, <1>6, CommandTypes DEF ReceiveFinished, Received
  <2>2. Head(chan) = TaskFinished(u)
    BY <2>1 DEF Commands, TaskFinished
  <2>3. 1 \in ReportsOf(u)
    BY <2>1, <2>2 DEF ReportsOf, TypeOK
  <2>4. slot[u].running
    BY <2>1, <2>3 DEF OneUpdatePerProfile
  <2>5. slot' = [slot EXCEPT ![u] = Finished(slot[u])]
    BY <1>6 DEF ReceiveFinished
  <2>6. Finished(slot[u]) \in Slots /\ SlotOk(Finished(slot[u]))
    BY <1>1, <2>1, <2>4, FinishedSlot
  <2> QED BY <1>1, <2>1, <2>2, <2>4, <2>5, <2>6 DEF TypeOK
<1> QED BY <1>2, <1>4, <1>5, <1>6

LEMMA TypeStep == IInv /\ [Next]_vars => TypeOK'
<1> SUFFICES ASSUME IInv, [Next]_vars PROVE TypeOK'
  OBVIOUS
<1> USE DEF IInv
<1>1. CASE UNCHANGED vars
  BY <1>1 DEF vars, TypeOK
<1>2. CASE StartTimer
  BY <1>2, CallGoesType DEF StartTimer, callVars, TypeOK, At, Callers
<1>3. CASE SendRunNow
  <2>1. chan' \in Seq(Commands)
    <3>1. CASE overdue = {}
      BY <1>3, <3>1 DEF SendRunNow, TypeOK
    <3>2. CASE overdue # {}
      <4>1. PICK u \in overdue : chan' = Append(chan, RunNow(u))
        BY <1>3, <3>2 DEF SendRunNow
      <4>2. RunNow(u) \in Commands
        BY CommandTypes DEF TypeOK
      <4> QED BY <4>1, <4>2 DEF TypeOK
    <3> QED BY <3>1, <3>2
  <2>2. call' \in [Callers -> CallStates]
    BY <1>3, CallGoesType DEF SendRunNow, TypeOK, At, Callers
  <2> QED BY <1>3, <2>1, <2>2 DEF SendRunNow, taskVars, TypeOK
<1>4. ASSUME NEW c \in Callers, CommandStep(c) PROVE TypeOK'
  <2>1. PICK op \in {"Patch", "Create", "Delete", "Update"}, u \in Uids, item \in Items,
             refresh \in BOOLEAN : BeginCall(c, op, u, item, refresh)
    BY <1>4, CommandShape
  <2> QED BY <2>1, BeginCallType DEF BeginCall, callVars, taskVars, TypeOK
<1>5. ASSUME NEW c \in Callers, Commit(c) PROVE TypeOK'
  <2>1. PICK item \in Items, saved \in BOOLEAN : Committed(c, item, saved)
    BY <1>5, CommitShape
  <2>2. call[c].uid \in Uids /\ call[c].refresh \in BOOLEAN
    BY <1>5, CommitShape DEF TypeOK, CallStates
  <2>3. profiles' \in [Uids -> Items] /\ unannounced' \subseteq Uids
    BY <2>1, <2>2, CommitItemType DEF Committed
  <2>4. call' \in [Callers -> CallStates]
    BY <2>1, CallGoesType DEF Committed, At
  <2> QED BY <1>5, <2>3, <2>4, CommitShape DEF callVars, taskVars, TypeOK
<1>6. ASSUME NEW c \in Callers, CommitFails(c) PROVE TypeOK'
  BY <1>6, CallGoesType DEF CommitFails, callVars, taskVars, TypeOK, At
<1>7. ASSUME NEW c \in Callers, TakeSchedule(c) PROVE TypeOK'
  BY <1>7, TakeScheduleType DEF TakeSchedule, taskVars, TypeOK
<1>8. ASSUME NEW c \in Callers, ReplaceCache(c) PROVE TypeOK'
  <2>1. call[c].snap \in [Uids -> Periods]
    BY DEF TypeOK, CallStates
  <2>2. lock' \in Callers \cup {NoCaller} /\ overdue' \subseteq Uids /\ call' \in [Callers -> CallStates]
    BY <1>8, EndRefreshType, CallGoesType DEF ReplaceCache, At, TypeOK
  <2> QED BY <1>8, <2>1, <2>2 DEF ReplaceCache, taskVars, TypeOK
<1>9. ASSUME NEW c \in Callers, SendApply(c) PROVE TypeOK'
  <2>1. call[c].snap \in [Uids -> Periods]
    BY DEF TypeOK, CallStates
  <2>2. Apply(call[c].snap) \in Commands /\ chan' = Append(chan, Apply(call[c].snap))
    BY <1>9, <2>1, CommandTypes DEF SendApply
  <2>3. chan' \in Seq(Commands)
    BY <2>2 DEF TypeOK
  <2> QED BY <1>9, <2>3, EndRefreshType DEF SendApply, taskVars, TypeOK
<1>10. ASSUME NEW u \in Uids, Expire(u) PROVE TypeOK'
  BY <1>10, SchedulerTypes, JobTypes DEF Expire, callVars, TypeOK
<1>11. ASSUME Receive PROVE TypeOK'
  <2>1. slot' \in [Uids -> Slots]
    BY <1>11, SchedulerTypes DEF Receive
  <2>3. chan' \in Seq(Commands)
    <3>1. chan # << >> /\ chan' = Tail(chan)
      BY <1>11 DEF Receive, ReceiveApply, ReceiveRunNow, ReceiveFinished, Received
    <3> QED BY <3>1 DEF TypeOK
  <2>2. job' \in [Uids -> Jobs] /\ inflight' \in [Uids -> Nat]
    BY <1>11, SchedulerTypes, JobTypes
       DEF Receive, ReceiveApply, ReceiveRunNow, ReceiveFinished, TypeOK
  <2> QED BY <1>11, <2>1, <2>2, <2>3
       DEF Receive, ReceiveApply, ReceiveRunNow, ReceiveFinished, Received, callVars, TypeOK
<1>12. ASSUME NEW u \in Uids, JobStep(u) PROVE TypeOK'
  <2>1. CASE StartDownload(u)
    <3>1. [stage |-> "downloading", seen |-> profiles[u]] \in Jobs
      BY DEF TypeOK, Jobs
    <3>2. job' \in [Uids -> Jobs]
      BY <2>1, <3>1, JobTypes DEF StartDownload, TypeOK
    <3> QED BY <2>1, <3>2 DEF StartDownload, callVars, TypeOK
  <2>2. CASE LandDownload(u)
    <3>1. job[u].seen \in Items
      BY DEF TypeOK, Jobs
    <3>2. profiles' \in [Uids -> Items] /\ unannounced' \subseteq Uids
      BY <2>2, <3>1, ItemTypes, CommitItemType DEF LandDownload, TypeOK
    <3> QED BY <2>2, <3>2, JobTypes DEF LandDownload, callVars, TypeOK
  <2>3. CASE DownloadFails(u)
    BY <2>3, JobTypes DEF DownloadFails, callVars, TypeOK
  <2>4. CASE Report(u)
    <3>1. inflight[u] - 1 \in Nat
      BY <2>4 DEF Report, JobsFit, TypeOK
    <3>2. inflight' \in [Uids -> Nat]
      BY <2>4, <3>1 DEF Report, TypeOK
    <3>3. chan' \in Seq(Commands)
      BY <2>4, CommandTypes DEF Report, TypeOK
    <3> QED BY <2>4, <3>2, <3>3, JobTypes DEF Report, callVars, TypeOK
  <2> QED BY <1>12, <2>1, <2>2, <2>3, <2>4 DEF JobStep
<1> QED BY <1>1, <1>2, <1>3, <1>4, <1>5, <1>6, <1>7, <1>8, <1>9, <1>10, <1>11, <1>12 DEF Next, CallStep

----------------------------------------------------------------------------
\* Keys and tasks.
LEMMA SlotsStep == IInv /\ [Next]_vars => KeysMatchQueue' /\ ArmedOrRunning'
<1> SUFFICES ASSUME IInv, [Next]_vars PROVE \A v \in Uids : SlotOk(slot'[v])
  BY DEF SlotOk, KeysMatchQueue, ArmedOrRunning
<1> USE DEF IInv
<1>1. CASE slot' = slot
  BY <1>1, SlotsOk
<1>2. CASE Receive \/ \E u \in Uids : Expire(u)
  BY <1>2, SchedulerTypes DEF Receive
<1>3. CASE StartTimer \/ SendRunNow
  BY <1>1, <1>3 DEF StartTimer, SendRunNow, taskVars
<1>4. ASSUME NEW c \in Callers, CommandStep(c) \/ CallStep(c) PROVE slot' = slot
  <2>1. CASE CommandStep(c)
    <3>1. PICK op \in {"Patch", "Create", "Delete", "Update"}, u \in Uids, item \in Items,
               refresh \in BOOLEAN : BeginCall(c, op, u, item, refresh)
      BY <2>1, CommandShape
    <3> QED BY <3>1 DEF BeginCall, taskVars
  <2>2. CASE CallStep(c)
    BY <2>2 DEF CallStep, Commit, CommitFails, TakeSchedule, ReplaceCache, SendApply, taskVars
  <2> QED BY <1>4, <2>1, <2>2
<1>5. ASSUME NEW u \in Uids, JobStep(u) PROVE slot' = slot
  BY <1>5 DEF JobStep, StartDownload, LandDownload, DownloadFails, Report
<1> QED BY <1>1, <1>2, <1>3, <1>4, <1>5 DEF Next, vars

\* What appending to the channel and receiving from it does to the reports.
LEMMA AppendReports ==
  ASSUME TypeOK, NEW command \in Commands, chan' = Append(chan, command), NEW v \in Uids
  PROVE  IF command = TaskFinished(v)
           THEN ReportsOf(v)' = ReportsOf(v) \cup {Len(chan) + 1}
           ELSE ReportsOf(v)' = ReportsOf(v)
<1>1. /\ chan \in Seq(Commands) /\ Len(chan) \in Nat /\ Len(chan') = Len(chan) + 1
      /\ chan'[Len(chan) + 1] = command
      /\ \A i \in 1 .. Len(chan) : chan'[i] = chan[i]
  BY DEF TypeOK
<1>2. 1 .. Len(chan') = (1 .. Len(chan)) \cup {Len(chan) + 1}
  BY <1>1
<1> QED BY <1>1, <1>2 DEF ReportsOf

LEMMA TailReports ==
  ASSUME TypeOK, OneUpdatePerProfile, chan # << >>, chan' = Tail(chan), NEW v \in Uids
  PROVE  /\ Head(chan) # TaskFinished(v) => (ReportsOf(v)' = {} <=> ReportsOf(v) = {})
         /\ Head(chan) = TaskFinished(v) => ReportsOf(v)' = {}
         /\ \A i, j \in ReportsOf(v)' : i = j
<1>1. /\ Len(chan) \in Nat /\ Len(chan) > 0 /\ Len(chan') = Len(chan) - 1
      /\ Head(chan) = chan[1]
      /\ \A i \in 1 .. Len(chan) - 1 : chan'[i] = chan[i + 1]
  BY DEF TypeOK
<1>2. \A i \in ReportsOf(v)' : i \in Nat /\ i > 0 /\ i + 1 \in ReportsOf(v)
  BY <1>1 DEF ReportsOf
<1>3. \A i \in ReportsOf(v) : i \in Nat /\ (i = 1 \/ i - 1 \in ReportsOf(v)')
  BY <1>1 DEF ReportsOf
<1>4. 1 \in ReportsOf(v) <=> Head(chan) = TaskFinished(v)
  BY <1>1 DEF ReportsOf
<1>5. \A i, j \in ReportsOf(v) : i = j
  BY DEF OneUpdatePerProfile
<1>6. \A i, j \in ReportsOf(v)' : i = j
  BY <1>2, <1>5
<1>7. Head(chan) = TaskFinished(v) => ReportsOf(v)' = {}
  BY <1>2, <1>4, <1>5
<1>8. Head(chan) # TaskFinished(v) => (ReportsOf(v)' = {} <=> ReportsOf(v) = {})
  BY <1>2, <1>3, <1>4
<1> QED BY <1>6, <1>7, <1>8

LEMMA CommandsDiffer ==
  /\ \A map \in [Uids -> Periods], v \in Uids : Apply(map) # TaskFinished(v)
  /\ \A u \in Uids, v \in Uids : RunNow(u) # TaskFinished(v)
  /\ \A u \in Uids, v \in Uids : TaskFinished(u) = TaskFinished(v) => u = v
  /\ \A command \in Commands, v \in Uids : command.kind # "TaskFinished" => command # TaskFinished(v)
BY DEF Apply, RunNow, TaskFinished

\* A spawned update, its report and its reception.
OneUpdate(v) ==
  /\ slot[v].running <=> inflight[v] > 0 \/ ReportsOf(v) # {}
  /\ inflight[v] > 0 => inflight[v] = 1 /\ ReportsOf(v) = {}
  /\ \A i, j \in ReportsOf(v) : i = j

LEMMA OneUpdateStep == IInv /\ [Next]_vars => OneUpdatePerProfile'
<1> SUFFICES ASSUME IInv, [Next]_vars, NEW v \in Uids PROVE OneUpdate(v)'
  BY DEF OneUpdate, OneUpdatePerProfile
<1> USE DEF IInv
<1>0. OneUpdate(v)
  BY DEF OneUpdate, OneUpdatePerProfile
<1>1. CASE UNCHANGED <<slot, inflight, chan>>
  BY <1>0, <1>1 DEF OneUpdate, ReportsOf
<1>2. CASE SendRunNow
  <2>1. CASE overdue = {}
    BY <1>1, <1>2, <2>1 DEF SendRunNow, taskVars
  <2>2. CASE overdue # {}
    <3>1. PICK u \in overdue : chan' = Append(chan, RunNow(u))
      BY <1>2, <2>2 DEF SendRunNow
    <3>2. u \in Uids /\ RunNow(u) \in Commands /\ RunNow(u) # TaskFinished(v)
      BY CommandTypes, CommandsDiffer DEF TypeOK
    <3>3. ReportsOf(v)' = ReportsOf(v)
      BY <3>1, <3>2, AppendReports
    <3> QED BY <1>0, <1>2, <3>3 DEF SendRunNow, taskVars, OneUpdate
  <2> QED BY <2>1, <2>2
<1>3. ASSUME NEW c \in Callers, SendApply(c) PROVE OneUpdate(v)'
  <2>1. call[c].snap \in [Uids -> Periods]
    BY DEF TypeOK, CallStates
  <2>2. Apply(call[c].snap) \in Commands /\ Apply(call[c].snap) # TaskFinished(v)
    BY <2>1, CommandTypes, CommandsDiffer
  <2>3. chan' = Append(chan, Apply(call[c].snap))
    BY <1>3 DEF SendApply
  <2>4. ReportsOf(v)' = ReportsOf(v)
    BY <2>2, <2>3, AppendReports
  <2> QED BY <1>0, <1>3, <2>4 DEF SendApply, taskVars, OneUpdate
<1>4. ASSUME NEW u \in Uids, Expire(u) PROVE OneUpdate(v)'
  <2>1. ReportsOf(v)' = ReportsOf(v)
    BY <1>4 DEF Expire, ReportsOf
  <2>2. Spawn(u) /\ Runnable(slot[u]) /\ slot' = [slot EXCEPT ![u] = Expired(slot[u])]
    BY <1>4, SchedulerTypes
  <2>3. Expired(slot[u]).running
    BY <1>4, SlotsOk, ExpiredSlot DEF Expire, TypeOK
  <2> QED BY <1>0, <2>1, <2>2, <2>3 DEF Spawn, Runnable, OneUpdate, TypeOK
<1>5. CASE ReceiveApply
  <2>1. /\ chan # << >> /\ chan' = Tail(chan) /\ Head(chan) \in Commands
        /\ Head(chan).kind = "Apply" /\ UNCHANGED inflight
    BY <1>5 DEF ReceiveApply, Received, TypeOK
  <2>2. slot'[v].running <=> slot[v].running
    BY <1>5, SlotsOk, SchedulerTypes, ApplyToSlot DEF ReceiveApply, TypeOK
  <2>3. /\ ReportsOf(v)' = {} <=> ReportsOf(v) = {}
        /\ \A i, j \in ReportsOf(v)' : i = j
    BY <2>1, TailReports, CommandsDiffer
  <2> QED BY <1>0, <2>1, <2>2, <2>3 DEF OneUpdate
<1>6. CASE ReceiveRunNow
  <2> DEFINE u == Head(chan).uid
  <2>1. /\ chan # << >> /\ chan' = Tail(chan) /\ Head(chan) \in Commands
        /\ Head(chan).kind = "RunNow" /\ u \in Uids
    BY <1>6, SchedulerTypes DEF ReceiveRunNow, Received, TypeOK
  <2>2. /\ ReportsOf(v)' = {} <=> ReportsOf(v) = {}
        /\ \A i, j \in ReportsOf(v)' : i = j
    BY <2>1, TailReports, CommandsDiffer
  <2>3. slot' = [slot EXCEPT ![u] = RanNow(slot[u])]
    BY <1>6 DEF ReceiveRunNow
  <2>4. CASE Runnable(slot[u])
    <3>1. Spawn(u) /\ RanNow(slot[u]).running /\ ~slot[u].running
      BY <1>6, <2>1, <2>4, SlotsOk, RanNowSlot DEF ReceiveRunNow, TypeOK, Runnable
    <3> QED BY <1>0, <2>1, <2>2, <2>3, <3>1 DEF Spawn, OneUpdate, TypeOK
  <2>5. CASE ~Runnable(slot[u])
    <3>1. UNCHANGED inflight /\ RanNow(slot[u]) = slot[u]
      BY <1>6, <2>1, <2>5, SlotsOk, RanNowSlot DEF ReceiveRunNow, TypeOK
    <3> QED BY <1>0, <2>1, <2>2, <2>3, <3>1 DEF OneUpdate, TypeOK
  <2> QED BY <2>4, <2>5
<1>7. CASE ReceiveFinished
  <2> DEFINE u == Head(chan).uid
  <2>1. /\ chan # << >> /\ chan' = Tail(chan) /\ u \in Uids /\ UNCHANGED inflight
        /\ Head(chan) = TaskFinished(u) /\ slot[u].running
    BY <1>7, SchedulerTypes DEF ReceiveFinished, Received
  <2>2. slot' = [slot EXCEPT ![u] = Finished(slot[u])] /\ ~Finished(slot[u]).running
    BY <1>7, <2>1, SlotsOk, FinishedSlot DEF ReceiveFinished, TypeOK
  <2> HIDE DEF u
  <2>3. CASE v = u
    <3>1. ReportsOf(v)' = {}
      BY <2>1, <2>3, TailReports
    <3>2. ReportsOf(v) # {}
      BY <2>1, <2>3 DEF ReportsOf, TypeOK
    <3>3. ~slot'[v].running
      BY <2>1, <2>2, <2>3 DEF TypeOK
    <3>4. ~(inflight'[v] > 0)
      BY <1>0, <2>1, <3>2 DEF OneUpdate
    <3> QED BY <3>1, <3>3, <3>4 DEF OneUpdate
  <2>4. CASE v # u
    <3>1. /\ ReportsOf(v)' = {} <=> ReportsOf(v) = {}
          /\ \A i, j \in ReportsOf(v)' : i = j
      BY <2>1, <2>4, TailReports, CommandsDiffer
    <3> QED BY <1>0, <2>1, <2>2, <2>4, <3>1 DEF OneUpdate, TypeOK
  <2> QED BY <2>3, <2>4
<1>8. ASSUME NEW u \in Uids, Report(u) PROVE OneUpdate(v)'
  <2>1. /\ chan' = Append(chan, TaskFinished(u)) /\ TaskFinished(u) \in Commands
        /\ UNCHANGED slot /\ inflight' = [inflight EXCEPT ![u] = inflight[u] - 1]
        /\ inflight[u] > 0 /\ inflight \in [Uids -> Nat]
    BY <1>8, CommandTypes DEF Report, JobsFit, TypeOK
  <2>2. CASE v = u
    <3>1. inflight[u] = 1 /\ ReportsOf(u) = {} /\ slot[u].running
      BY <1>0, <2>1, <2>2 DEF OneUpdate
    <3>2. ReportsOf(v)' = {Len(chan) + 1}
      BY <2>1, <2>2, <3>1, AppendReports
    <3>3. inflight'[v] = 0
      <4>1. inflight' = [inflight EXCEPT ![u] = inflight[u] - 1] /\ inflight \in [Uids -> Nat]
        BY <2>1
      <4>2. inflight[u] - 1 = 0
        BY <3>1
      <4> QED BY <2>2, <4>1, <4>2
    <3>4. slot'[v].running /\ Len(chan) + 1 \in ReportsOf(v)'
      BY <2>1, <2>2, <3>1, <3>2
    <3>5. \A i, j \in ReportsOf(v)' : i = j
      BY <3>2
    <3> QED BY <3>3, <3>4, <3>5 DEF OneUpdate
  <2>3. CASE v # u
    <3>1. ReportsOf(v)' = ReportsOf(v)
      BY <2>1, <2>3, AppendReports, CommandsDiffer
    <3> QED BY <1>0, <2>1, <2>3, <3>1 DEF OneUpdate
  <2> QED BY <2>2, <2>3
<1>9. CASE StartTimer
  BY <1>1, <1>9 DEF StartTimer
<1>10. ASSUME NEW c \in Callers, CommandStep(c) PROVE UNCHANGED <<slot, inflight, chan>>
  <2>1. PICK op \in {"Patch", "Create", "Delete", "Update"}, u \in Uids, item \in Items,
             refresh \in BOOLEAN : BeginCall(c, op, u, item, refresh)
    BY <1>10, CommandShape
  <2> QED BY <2>1 DEF BeginCall, taskVars
<1>11. ASSUME NEW c \in Callers, CallStep(c), ~SendApply(c) PROVE UNCHANGED <<slot, inflight, chan>>
  BY <1>11 DEF CallStep, Commit, CommitFails, TakeSchedule, ReplaceCache, taskVars
<1>12. ASSUME NEW u \in Uids, JobStep(u), ~Report(u) PROVE UNCHANGED <<slot, inflight, chan>>
  BY <1>12 DEF JobStep, StartDownload, LandDownload, DownloadFails
<1>13. CASE UNCHANGED vars
  BY <1>1, <1>13 DEF vars
<1> QED BY <1>1, <1>2, <1>3, <1>4, <1>5, <1>6, <1>7, <1>8, <1>9, <1>10, <1>11, <1>12, <1>13
        DEF Next, Receive

LEMMA JobsStep == IInv /\ [Next]_vars => JobsFit'
<1> SUFFICES ASSUME IInv, [Next]_vars, NEW v \in Uids
             PROVE  (job[v].stage # "none" <=> inflight[v] > 0)'
  BY DEF JobsFit
<1> USE DEF IInv
<1>0. /\ job[v].stage # "none" <=> inflight[v] > 0
      /\ job \in [Uids -> Jobs] /\ inflight \in [Uids -> Nat]
  BY DEF JobsFit, TypeOK
<1>1. CASE UNCHANGED <<job, inflight>>
  BY <1>0, <1>1
<1>2. ASSUME NEW u \in Uids, Spawn(u) PROVE (job[v].stage # "none" <=> inflight[v] > 0)'
  BY <1>0, <1>2 DEF Spawn, Jobs
<1>3. ASSUME NEW u \in Uids, Expire(u) PROVE Spawn(u)
  BY <1>3, SchedulerTypes
<1>4. CASE Receive
  BY <1>1, <1>2, <1>4, SchedulerTypes DEF Receive, ReceiveApply, ReceiveRunNow, ReceiveFinished
<1>5. ASSUME NEW u \in Uids, JobStep(u) PROVE (job[v].stage # "none" <=> inflight[v] > 0)'
  <2>1. CASE StartDownload(u) \/ LandDownload(u) \/ DownloadFails(u)
    <3>1. /\ job[u].stage # "none" /\ UNCHANGED inflight
          /\ \/ \E stage \in {"downloading", "reporting"} : job' = [job EXCEPT ![u].stage = stage]
             \/ job' = [job EXCEPT ![u] = [stage |-> "downloading", seen |-> profiles[u]]]
      BY <2>1 DEF StartDownload, LandDownload, DownloadFails, JobGoes
    <3>2. job'[u].stage # "none" /\ (v # u => job'[v] = job[v])
      BY <1>0, <3>1 DEF Jobs
    <3> QED BY <1>0, <3>1, <3>2
  <2>2. CASE Report(u)
    <3>1. inflight[u] = 1
      BY <2>2 DEF Report, JobsFit, OneUpdatePerProfile
    <3> QED BY <1>0, <2>2, <3>1 DEF Report, JobGoes, Jobs
  <2> QED BY <1>5, <2>1, <2>2 DEF JobStep
<1>6. CASE StartTimer \/ SendRunNow
  BY <1>1, <1>6 DEF StartTimer, SendRunNow, taskVars
<1>7. ASSUME NEW c \in Callers, CommandStep(c) PROVE UNCHANGED <<job, inflight>>
  <2>1. PICK op \in {"Patch", "Create", "Delete", "Update"}, u \in Uids, item \in Items,
             refresh \in BOOLEAN : BeginCall(c, op, u, item, refresh)
    BY <1>7, CommandShape
  <2> QED BY <2>1 DEF BeginCall, taskVars
<1>8. ASSUME NEW c \in Callers, CallStep(c) PROVE UNCHANGED <<job, inflight>>
  BY <1>8 DEF CallStep, Commit, CommitFails, TakeSchedule, ReplaceCache, SendApply, taskVars
<1>9. CASE UNCHANGED vars
  BY <1>1, <1>9 DEF vars
<1> QED BY <1>1, <1>2, <1>3, <1>4, <1>5, <1>6, <1>7, <1>8, <1>9 DEF Next

----------------------------------------------------------------------------
\* The refresh lock.  Where a caller is decides what it holds.
CallFits(d) ==
  /\ call[d].at \in {"locked", "sending"} <=> lock = d
  /\ call[d].at = "sending" => call[d].snap = cache
  /\ call[d].at = "committing" => call[d].uid \in Uids

LEMMA CallsStep == IInv /\ [Next]_vars => CallsFit'
<1> SUFFICES ASSUME IInv, [Next]_vars, NEW d \in Callers PROVE CallFits(d)'
  BY DEF CallFits, CallsFit
<1> USE TimerAssumption DEF IInv
<1>0. \A c \in Callers : CallFits(c)
  BY DEF CallFits, CallsFit
<1>1. CASE UNCHANGED <<call, lock, cache>>
  BY <1>0, <1>1 DEF CallFits
<1>2. CASE StartTimer
  <2>1. Boot \in Callers /\ "refreshing" \in At
    BY DEF Callers, At
  <2> QED BY <1>0, <1>2, <2>1, CallGoesType DEF StartTimer, callVars, CallFits
<1>3. CASE SendRunNow
  <2>1. Boot \in Callers /\ "done" \in At
    BY DEF Callers, At
  <2> QED BY <1>0, <1>3, <2>1, CallGoesType DEF SendRunNow, CallFits
<1>4. ASSUME NEW c \in Callers, CommandStep(c) PROVE CallFits(d)'
  <2>1. PICK op \in {"Patch", "Create", "Delete", "Update"}, u \in Uids, item \in Items,
             refresh \in BOOLEAN : BeginCall(c, op, u, item, refresh)
    BY <1>4, CommandShape
  <2>2. call[c].at = "idle"
    BY <2>1 DEF BeginCall
  <2> QED BY <1>0, <2>1, <2>2, BeginCallType DEF BeginCall, callVars, CallFits
<1>5. ASSUME NEW c \in Callers, Commit(c) PROVE CallFits(d)'
  <2>1. PICK item \in Items, saved \in BOOLEAN : Committed(c, item, saved)
    BY <1>5, CommitShape
  <2>2. call[c].at = "committing" /\ UNCHANGED <<lock, cache>>
    BY <1>5, CommitShape DEF callVars
  <2>3. PICK at \in {"refreshing", "done"} : CallGoes(c, at)
    BY <2>1 DEF Committed
  <2>4. at \in At
    BY DEF At
  <2> QED BY <1>0, <2>2, <2>3, <2>4, CallGoesType DEF CallFits
<1>6. ASSUME NEW c \in Callers, CommitFails(c) PROVE CallFits(d)'
  <2>1. "failed" \in At
    BY DEF At
  <2> QED BY <1>0, <1>6, <2>1, CallGoesType DEF CommitFails, callVars, CallFits
<1>7. ASSUME NEW c \in Callers, TakeSchedule(c) PROVE CallFits(d)'
  <2>1. /\ call[c].at = "refreshing" /\ lock = NoCaller /\ lock' = c /\ UNCHANGED cache
        /\ call'[c].at = "locked" /\ \A b \in Callers \ {c} : call'[b] = call[b]
    BY <1>7, TakeScheduleType DEF TakeSchedule
  <2> QED BY <1>0, <2>1 DEF CallFits, Callers
<1>8. ASSUME NEW c \in Callers, EndRefresh(c), lock = c, \A b \in Callers : call[b].at = "sending" => b = c
      PROVE  CallFits(d)'
  <2>1. /\ lock' = NoCaller /\ call'[c].at \in {"overdue", "done"}
        /\ \A b \in Callers \ {c} : call'[b] = call[b]
    BY <1>8, EndRefreshType
  <2> QED BY <1>0, <1>8, <2>1 DEF CallFits, Callers
<1>9. ASSUME NEW c \in Callers, ReplaceCache(c) PROVE CallFits(d)'
  <2>1. lock = c /\ \A b \in Callers : call[b].at = "sending" => b = c
    BY <1>0, <1>9 DEF ReplaceCache, CallFits
  <2>2. CASE cache = call[c].snap
    BY <1>8, <1>9, <2>1, <2>2 DEF ReplaceCache
  <2>3. CASE cache # call[c].snap
    <3>1. "sending" \in At
      BY DEF At
    <3>2. /\ cache' = call[c].snap /\ lock' = lock /\ CallGoes(c, "sending")
      BY <1>9, <2>3 DEF ReplaceCache
    <3> QED BY <1>0, <2>1, <3>1, <3>2, CallGoesType DEF CallFits
  <2> QED BY <2>2, <2>3
<1>10. ASSUME NEW c \in Callers, SendApply(c) PROVE CallFits(d)'
  <2>1. lock = c /\ \A b \in Callers : call[b].at = "sending" => b = c
    BY <1>0, <1>10 DEF SendApply, CallFits
  <2> QED BY <1>8, <1>10, <2>1 DEF SendApply
<1>11. CASE Receive
  BY <1>1, <1>11 DEF Receive, ReceiveApply, ReceiveRunNow, ReceiveFinished, Received, callVars
<1>12. ASSUME NEW u \in Uids, Expire(u) \/ JobStep(u) PROVE UNCHANGED <<call, lock, cache>>
  BY <1>12 DEF Expire, JobStep, StartDownload, LandDownload, DownloadFails, Report, callVars
<1>13. CASE UNCHANGED vars
  BY <1>1, <1>13 DEF vars
<1> QED BY <1>1, <1>2, <1>3, <1>4, <1>5, <1>6, <1>7, <1>9, <1>10, <1>11, <1>12, <1>13 DEF Next, CallStep

----------------------------------------------------------------------------
\* The latest schedules: a caller will read them, holds them or has stored them.
LEMMA CommitItemAgrees ==
  ASSUME TypeOK, NEW u \in Uids, NEW item \in Items, CommitItem(u, item, FALSE),
         NEW map, Agrees(map)
  PROVE  \A v \in Uids \ unannounced' : map[v] = Period(profiles'[v])
BY DEF CommitItem, Agrees, TypeOK

LEMMA LatestStep == IInv /\ [Next]_vars => LatestIsOnItsWay'
<1> SUFFICES ASSUME IInv, [Next]_vars PROVE LatestIsOnItsWay'
  OBVIOUS
<1> USE TimerAssumption DEF IInv
<1>1. CASE UNCHANGED <<call, cache, profiles, unannounced>>
  BY <1>1 DEF LatestIsOnItsWay, Agrees
<1>2. ASSUME NEW c \in Callers, call'[c].at = "refreshing" PROVE LatestIsOnItsWay'
  BY <1>2 DEF LatestIsOnItsWay
<1>3. ASSUME NEW c \in Callers, call[c].at \notin {"refreshing", "locked"},
             call'[c].at # "locked",
             \A d \in Callers \ {c} : call'[d] = call[d],
             UNCHANGED <<cache, profiles, unannounced>>
      PROVE  LatestIsOnItsWay'
  BY <1>3 DEF LatestIsOnItsWay, Agrees
<1>4. CASE StartTimer
  <2>1. Boot \in Callers /\ "refreshing" \in At
    BY DEF Callers, At
  <2> QED BY <1>2, <1>4, <2>1, CallGoesType DEF StartTimer
<1>5. CASE SendRunNow
  <2>1. Boot \in Callers /\ "done" \in At
    BY DEF Callers, At
  <2>2. CASE overdue = {}
    BY <1>3, <1>5, <2>1, <2>2, CallGoesType DEF SendRunNow
  <2>3. CASE overdue # {}
    BY <1>1, <1>5, <2>3 DEF SendRunNow
  <2> QED BY <2>2, <2>3
<1>6. ASSUME NEW c \in Callers, CommandStep(c) PROVE LatestIsOnItsWay'
  <2>1. PICK op \in {"Patch", "Create", "Delete", "Update"}, u \in Uids, item \in Items,
             refresh \in BOOLEAN : BeginCall(c, op, u, item, refresh)
    BY <1>6, CommandShape
  <2> QED BY <1>3, <2>1, BeginCallType DEF BeginCall, callVars
<1>7. ASSUME NEW c \in Callers, Commit(c) PROVE LatestIsOnItsWay'
  <2>1. PICK item \in Items, saved \in BOOLEAN : Committed(c, item, saved)
    BY <1>7, CommitShape
  <2> DEFINE refresh == call[c].refresh /\ saved
  <2>2. /\ call[c].at = "committing" /\ call[c].uid \in Uids /\ UNCHANGED cache
        /\ CommitItem(call[c].uid, item, refresh)
        /\ CallGoes(c, IF refresh THEN "refreshing" ELSE "done")
    BY <1>7, <2>1, CommitShape DEF callVars, Committed
  <2>3. CASE refresh
    <3>1. "refreshing" \in At
      BY DEF At
    <3> QED BY <1>2, <2>2, <2>3, <3>1, CallGoesType
  <2>4. CASE ~refresh
    <3>1. "done" \in At
      BY DEF At
    <3>2. /\ call'[c].at = "done" /\ \A d \in Callers \ {c} : call'[d] = call[d]
      BY <2>2, <2>4, <3>1, CallGoesType
    <3>3. CommitItem(call[c].uid, item, FALSE)
      BY <2>2, <2>4 DEF CommitItem
    <3>4. ASSUME NEW map, Agrees(map)
          PROVE  \A v \in Uids \ unannounced' : map[v] = Period(profiles'[v])
      BY <2>2, <3>3, <3>4, CommitItemAgrees
    <3> QED BY <2>2, <3>2, <3>4 DEF LatestIsOnItsWay, Agrees
  <2> QED BY <2>3, <2>4
<1>8. ASSUME NEW c \in Callers, CommitFails(c) PROVE LatestIsOnItsWay'
  <2>1. "failed" \in At
    BY DEF At
  <2> QED BY <1>3, <1>8, <2>1, CallGoesType DEF CommitFails, callVars
<1>9. ASSUME NEW c \in Callers, TakeSchedule(c) PROVE LatestIsOnItsWay'
  <2>1. /\ call'[c].at = "locked" /\ call'[c].snap = GenMap(profiles)
        /\ unannounced' = {} /\ UNCHANGED profiles
    BY <1>9, TakeScheduleType DEF TakeSchedule
  <2>2. \A v \in Uids : call'[c].snap[v] = Period(profiles'[v])
    BY <2>1 DEF GenMap
  <2> QED BY <2>1, <2>2 DEF LatestIsOnItsWay, Agrees
<1>10. ASSUME NEW c \in Callers, ReplaceCache(c) PROVE LatestIsOnItsWay'
  <2>1. /\ call[c].at = "locked" /\ cache' = call[c].snap /\ UNCHANGED <<profiles, unannounced>>
        /\ \A d \in Callers : call[d].at = "locked" => d = c
    BY <1>10 DEF ReplaceCache, CallsFit
  <2>2. call'[c].at \notin {"refreshing", "locked"} /\ \A d \in Callers \ {c} : call'[d] = call[d]
    <3>1. "sending" \in At
      BY DEF At
    <3> QED BY <1>10, <3>1, EndRefreshType, CallGoesType DEF ReplaceCache
  <2> QED BY <2>1, <2>2 DEF LatestIsOnItsWay, Agrees
<1>11. ASSUME NEW c \in Callers, SendApply(c) PROVE LatestIsOnItsWay'
  <2>1. /\ call[c].at = "sending" /\ call'[c].at \in {"overdue", "done"}
        /\ \A d \in Callers \ {c} : call'[d] = call[d]
        /\ UNCHANGED <<cache, profiles, unannounced>>
    BY <1>11, EndRefreshType DEF SendApply
  <2> QED BY <1>3, <2>1
<1>12. ASSUME NEW u \in Uids, LandDownload(u) PROVE LatestIsOnItsWay'
  <2>1. profiles[u] \in Items /\ job[u].seen \in Items
    BY DEF TypeOK, Jobs
  <2>2. PICK header \in Periods : CommitItem(u, Merge(profiles[u], job[u].seen, header), FALSE)
    BY <1>12 DEF LandDownload
  <2>3. UNCHANGED <<call, cache>>
    BY <1>12 DEF LandDownload, callVars
  <2>4. ASSUME NEW map, Agrees(map)
        PROVE  \A v \in Uids \ unannounced' : map[v] = Period(profiles'[v])
    BY <2>1, <2>2, <2>4, ItemTypes, CommitItemAgrees
  <2> QED BY <2>3, <2>4 DEF LatestIsOnItsWay, Agrees
<1>13. CASE Receive
  BY <1>1, <1>13 DEF Receive, ReceiveApply, ReceiveRunNow, ReceiveFinished, Received, callVars
<1>14. ASSUME NEW u \in Uids, Expire(u) \/ JobStep(u), ~LandDownload(u)
       PROVE  UNCHANGED <<call, cache, profiles, unannounced>>
  BY <1>14 DEF Expire, JobStep, StartDownload, DownloadFails, Report, callVars
<1>15. CASE UNCHANGED vars
  BY <1>1, <1>15 DEF vars
<1> QED BY <1>1, <1>4, <1>5, <1>6, <1>7, <1>8, <1>9, <1>10, <1>11, <1>12, <1>13, <1>14, <1>15
        DEF Next, CallStep

----------------------------------------------------------------------------
\* What the cache holds: it will be sent, is the last schedule in the channel,
\* or is what the tasks follow.
LEMMA AppendApplies ==
  ASSUME TypeOK, NEW command \in Commands, chan' = Append(chan, command)
  PROVE  /\ Applies \subseteq Applies'
         /\ \A i \in Applies : chan'[i] = chan[i]
         /\ command.kind # "Apply" => Applies' = Applies
         /\ command.kind = "Apply" =>
              /\ Len(chan) + 1 \in Applies' /\ chan'[Len(chan) + 1] = command
              /\ \A j \in Applies' : j <= Len(chan) + 1
<1>1. /\ chan \in Seq(Commands) /\ Len(chan) \in Nat /\ Len(chan') = Len(chan) + 1
      /\ chan'[Len(chan) + 1] = command
      /\ \A i \in 1 .. Len(chan) : chan'[i] = chan[i]
  BY DEF TypeOK
<1>2. 1 .. Len(chan') = (1 .. Len(chan)) \cup {Len(chan) + 1}
  BY <1>1
<1> QED BY <1>1, <1>2 DEF Applies

LEMMA TailApplies ==
  ASSUME TypeOK, chan # << >>, chan' = Tail(chan)
  PROVE  /\ \A i \in Applies' : i \in Nat /\ i + 1 \in Applies
         /\ \A i \in Applies : i \in Nat /\ (i = 1 \/ (i - 1 \in Applies' /\ chan'[i - 1] = chan[i]))
         /\ (1 \in Applies) <=> (Head(chan).kind = "Apply")
<1>1. /\ Len(chan) \in Nat /\ Len(chan) > 0 /\ Len(chan') = Len(chan) - 1
      /\ Head(chan) = chan[1]
      /\ \A i \in 1 .. Len(chan) - 1 : chan'[i] = chan[i + 1]
  BY DEF TypeOK
<1>2. \A i \in Applies' : i \in Nat /\ i + 1 \in Applies
  BY <1>1 DEF Applies
<1>3. ASSUME NEW i \in Applies
      PROVE  i \in Nat /\ (i = 1 \/ (i - 1 \in Applies' /\ chan'[i - 1] = chan[i]))
  <2>1. i \in 1 .. Len(chan) /\ chan[i].kind = "Apply"
    BY DEF Applies
  <2>2. CASE i # 1
    <3>1. i - 1 \in 1 .. Len(chan) - 1 /\ (i - 1) + 1 = i
      BY <1>1, <2>1, <2>2
    <3>2. chan'[i - 1] = chan[(i - 1) + 1]
      BY <1>1, <3>1
    <3>3. chan'[i - 1] = chan[i] /\ i - 1 \in 1 .. Len(chan')
      BY <1>1, <3>1, <3>2
    <3>4. i - 1 \in Applies'
      BY <2>1, <3>3 DEF Applies
    <3> QED BY <2>1, <3>3, <3>4
  <2>3. i \in Nat
    BY <1>1, <2>1
  <2> QED BY <2>2, <2>3
<1>4. (1 \in Applies) <=> (Head(chan).kind = "Apply")
  <2>1. 1 \in 1 .. Len(chan)
    BY <1>1
  <2> QED BY <1>1, <2>1 DEF Applies
<1> QED BY <1>2, <1>3, <1>4

LEMMA CacheStep == IInv /\ [Next]_vars => CacheIsOnItsWay'
<1> SUFFICES ASSUME IInv, [Next]_vars PROVE CacheIsOnItsWay'
  OBVIOUS
<1> USE TimerAssumption DEF IInv
<1>1. ASSUME UNCHANGED <<cache, chan, slot>>,
             \A d \in Callers : call[d].at = "sending" => call'[d].at = "sending"
      PROVE  CacheIsOnItsWay'
  BY <1>1 DEF CacheIsOnItsWay, Applies
<1>2. ASSUME NEW c \in Callers, call[c].at # "sending",
             \A d \in Callers \ {c} : call'[d] = call[d],
             UNCHANGED <<cache, chan, slot>>
      PROVE  CacheIsOnItsWay'
  BY <1>1, <1>2
<1>3. ASSUME NEW command \in Commands, command.kind # "Apply", chan' = Append(chan, command),
             UNCHANGED <<cache, slot, call>>
      PROVE  CacheIsOnItsWay'
  BY <1>3, AppendApplies DEF CacheIsOnItsWay
<1>4. CASE StartTimer
  <2>1. Boot \in Callers /\ "refreshing" \in At
    BY DEF Callers, At
  <2> QED BY <1>2, <1>4, <2>1, CallGoesType DEF StartTimer, callVars
<1>5. CASE SendRunNow
  <2>1. Boot \in Callers /\ "done" \in At
    BY DEF Callers, At
  <2>2. CASE overdue = {}
    BY <1>2, <1>5, <2>1, <2>2, CallGoesType DEF SendRunNow, taskVars
  <2>3. CASE overdue # {}
    <3>1. PICK u \in overdue : chan' = Append(chan, RunNow(u)) /\ UNCHANGED call
      BY <1>5, <2>3 DEF SendRunNow
    <3>2. RunNow(u) \in Commands /\ RunNow(u).kind # "Apply"
      BY CommandTypes DEF TypeOK, RunNow
    <3> QED BY <1>3, <1>5, <3>1, <3>2 DEF SendRunNow, taskVars
  <2> QED BY <2>2, <2>3
<1>6. ASSUME NEW c \in Callers, CommandStep(c) PROVE CacheIsOnItsWay'
  <2>1. PICK op \in {"Patch", "Create", "Delete", "Update"}, u \in Uids, item \in Items,
             refresh \in BOOLEAN : BeginCall(c, op, u, item, refresh)
    BY <1>6, CommandShape
  <2> QED BY <1>2, <2>1, BeginCallType DEF BeginCall, callVars, taskVars
<1>7. ASSUME NEW c \in Callers, Commit(c) PROVE CacheIsOnItsWay'
  <2>1. PICK item \in Items, saved \in BOOLEAN : Committed(c, item, saved)
    BY <1>7, CommitShape
  <2>2. PICK at \in {"refreshing", "done"} : CallGoes(c, at)
    BY <2>1 DEF Committed
  <2>3. at \in At
    BY DEF At
  <2> QED BY <1>2, <1>7, <2>2, <2>3, CommitShape, CallGoesType DEF callVars, taskVars
<1>8. ASSUME NEW c \in Callers, CommitFails(c) PROVE CacheIsOnItsWay'
  <2>1. "failed" \in At
    BY DEF At
  <2> QED BY <1>2, <1>8, <2>1, CallGoesType DEF CommitFails, callVars, taskVars
<1>9. ASSUME NEW c \in Callers, TakeSchedule(c) PROVE CacheIsOnItsWay'
  BY <1>2, <1>9, TakeScheduleType DEF TakeSchedule, taskVars
<1>10. ASSUME NEW c \in Callers, ReplaceCache(c) PROVE CacheIsOnItsWay'
  <2>1. CASE cache = call[c].snap
    BY <1>2, <1>10, <2>1, EndRefreshType DEF ReplaceCache, taskVars
  <2>2. CASE cache # call[c].snap
    <3>1. "sending" \in At
      BY DEF At
    <3>2. call'[c].at = "sending"
      BY <1>10, <2>2, <3>1, CallGoesType DEF ReplaceCache
    <3> QED BY <3>2 DEF CacheIsOnItsWay
  <2> QED BY <2>1, <2>2
<1>11. ASSUME NEW c \in Callers, SendApply(c) PROVE CacheIsOnItsWay'
  <2>1. /\ call[c].snap = cache /\ UNCHANGED cache
        /\ chan' = Append(chan, Apply(cache)) /\ Apply(cache) \in Commands
    BY <1>11, CommandTypes DEF SendApply, CallsFit, TypeOK
  <2>2. Apply(cache).kind = "Apply" /\ Apply(cache).map = cache
    BY DEF Apply
  <2>3. /\ Len(chan) + 1 \in Applies' /\ chan'[Len(chan) + 1] = Apply(cache)
        /\ \A j \in Applies' : j <= Len(chan) + 1
    BY <2>1, <2>2, AppendApplies
  <2> QED BY <2>1, <2>2, <2>3 DEF CacheIsOnItsWay
<1>12. ASSUME UNCHANGED <<call, cache, chan>>, \A v \in Uids :
                slot'[v].status = slot[v].status /\ slot'[v].interval = slot[v].interval
       PROVE  CacheIsOnItsWay'
  BY <1>12 DEF CacheIsOnItsWay, Applies, SlotFollows
<1>13. ASSUME NEW u \in Uids, Expire(u) PROVE CacheIsOnItsWay'
  <2>1. slot' = [slot EXCEPT ![u] = Expired(slot[u])] /\ UNCHANGED <<call, cache, chan>>
    BY <1>13 DEF Expire, callVars
  <2>2. Expired(slot[u]).status = slot[u].status /\ Expired(slot[u]).interval = slot[u].interval
    BY <1>13, SlotsOk, ExpiredSlot DEF Expire, TypeOK
  <2> QED BY <1>12, <2>1, <2>2 DEF TypeOK
<1>14. ASSUME chan # << >>, chan' = Tail(chan), Head(chan).kind # "Apply", UNCHANGED <<call, cache>>,
              \A v \in Uids, period \in Periods :
                SlotFollows(slot[v], period) => SlotFollows(slot'[v], period)
       PROVE  CacheIsOnItsWay'
  <2>1. CASE \E i \in Applies : chan[i].map = cache /\ \A j \in Applies : j <= i
    <3>1. PICK i \in Applies : chan[i].map = cache /\ \A j \in Applies : j <= i
      BY <2>1
    <3>2. i \in Nat /\ i - 1 \in Applies' /\ chan'[i - 1] = chan[i]
      BY <1>14, TailApplies
    <3>3. \A j \in Applies' : j <= i - 1
      BY <1>14, <3>1, <3>2, TailApplies
    <3> QED BY <1>14, <3>1, <3>2, <3>3 DEF CacheIsOnItsWay
  <2>2. CASE Applies = {} /\ \A v \in Uids : SlotFollows(slot[v], cache[v])
    <3>1. Applies' = {}
      BY <1>14, <2>2, TailApplies
    <3> QED BY <1>14, <2>2, <3>1 DEF CacheIsOnItsWay, TypeOK
  <2> QED BY <1>14, <2>1, <2>2 DEF CacheIsOnItsWay
<1>15. CASE ReceiveApply
  <2>1. /\ chan # << >> /\ chan' = Tail(chan) /\ UNCHANGED <<call, cache>> /\ 1 \in Applies
        /\ Head(chan) = chan[1]
    BY <1>15, TailApplies DEF ReceiveApply, Received, callVars, TypeOK
  <2>2. \A v \in Uids : SlotFollows(slot'[v], chan[1].map[v])
    BY <1>15, <2>1, SlotsOk, SchedulerTypes, ApplyToSlot DEF ReceiveApply, TypeOK
  <2>3. ASSUME NEW i \in Applies, chan[i].map = cache, \A j \in Applies : j <= i
        PROVE  CacheIsOnItsWay'
    <3>1. CASE i = 1
      <4>1. ASSUME NEW k \in Applies' PROVE FALSE
        <5>1. k \in Nat /\ k + 1 \in Applies
          BY <2>1, TailApplies
        <5>2. k + 1 <= 1 /\ k # 0
          BY <2>3, <3>1, <5>1 DEF Applies
        <5> QED BY <5>1, <5>2
      <4>2. Applies' = {}
        BY <4>1
      <4> QED BY <2>1, <2>2, <2>3, <3>1, <4>2 DEF CacheIsOnItsWay
    <3>2. CASE i # 1
      <4>1. i \in Nat /\ i - 1 \in Applies' /\ chan'[i - 1] = chan[i]
        BY <2>1, <3>2, TailApplies
      <4>2. \A j \in Applies' : j <= i - 1
        BY <2>1, <2>3, <4>1, TailApplies
      <4> QED BY <2>1, <2>3, <4>1, <4>2 DEF CacheIsOnItsWay
    <3> QED BY <3>1, <3>2
  <2> QED BY <2>1, <2>3 DEF CacheIsOnItsWay
<1>16. CASE ReceiveRunNow
  <2> DEFINE u == Head(chan).uid
  <2>1. /\ chan # << >> /\ chan' = Tail(chan) /\ Head(chan).kind # "Apply" /\ u \in Uids
        /\ UNCHANGED <<call, cache>> /\ slot' = [slot EXCEPT ![u] = RanNow(slot[u])]
    BY <1>16, SchedulerTypes DEF ReceiveRunNow, Received, callVars
  <2> HIDE DEF u
  <2>2. RanNow(slot[u]).status = slot[u].status /\ RanNow(slot[u]).interval = slot[u].interval
    BY <2>1, SlotsOk, RanNowSlot DEF TypeOK
  <2>3. \A v \in Uids : slot'[v].status = slot[v].status /\ slot'[v].interval = slot[v].interval
    BY <2>1, <2>2 DEF TypeOK
  <2> QED BY <1>14, <2>1, <2>3 DEF SlotFollows
<1>17. CASE ReceiveFinished
  <2> DEFINE u == Head(chan).uid
  <2>1. /\ chan # << >> /\ chan' = Tail(chan) /\ Head(chan).kind # "Apply" /\ u \in Uids
        /\ UNCHANGED <<call, cache>> /\ slot' = [slot EXCEPT ![u] = Finished(slot[u])]
        /\ slot[u].running
    BY <1>17, SchedulerTypes DEF ReceiveFinished, Received, callVars
  <2> HIDE DEF u
  <2>2. /\ slot[u].status = "live" => /\ Finished(slot[u]).status = "live"
                                     /\ Finished(slot[u]).interval = slot[u].interval
        /\ slot[u].status # "live" => Finished(slot[u]).status # "live"
    BY <2>1, SlotsOk, FinishedSlot DEF TypeOK
  <2>3. \A v \in Uids, period \in Periods :
          SlotFollows(slot[v], period) => SlotFollows(slot'[v], period)
    BY <2>1, <2>2 DEF SlotFollows, TypeOK
  <2> QED BY <1>14, <2>1, <2>3
<1>18. ASSUME NEW u \in Uids, Report(u) PROVE CacheIsOnItsWay'
  <2>1. TaskFinished(u) \in Commands /\ TaskFinished(u).kind # "Apply"
    BY CommandTypes DEF TaskFinished
  <2> QED BY <1>3, <1>18, <2>1 DEF Report, callVars
<1>19. ASSUME NEW u \in Uids, JobStep(u), ~Report(u) PROVE CacheIsOnItsWay'
  BY <1>1, <1>19 DEF JobStep, StartDownload, LandDownload, DownloadFails, callVars
<1>20. CASE UNCHANGED vars
  BY <1>1, <1>20 DEF vars
<1> QED BY <1>4, <1>5, <1>6, <1>7, <1>8, <1>9, <1>10, <1>11, <1>13, <1>15, <1>16, <1>17, <1>18, <1>19, <1>20
        DEF Next, CallStep, Receive

----------------------------------------------------------------------------
\* The invariant holds at the start.
LEMMA InitInv == Init => IInv
<1> SUFFICES ASSUME Init PROVE IInv
  OBVIOUS
<1>1. TypeOK
  BY InitType
<1>2. CallsFit
  <2>1. lock = NoCaller /\ \A c \in Callers : call[c].at = "idle" /\ c # NoCaller
    BY TimerAssumption DEF Init, IdleCall, Callers
  <2> QED BY <2>1 DEF CallsFit
<1>3. JobsFit
  <2> SUFFICES ASSUME NEW u \in Uids PROVE (job[u].stage # "none") <=> (inflight[u] > 0)
    BY DEF JobsFit
  <2>1. job[u].stage = "none" /\ inflight[u] = 0
    BY DEF Init
  <2> QED BY <2>1
<1>4. /\ \A u \in Uids : /\ slot[u].status = "absent" /\ ~slot[u].armed /\ ~slot[u].running
                          /\ slot[u].entries = 0 /\ inflight[u] = 0
      /\ \A u \in Uids : ReportsOf(u) = {}
  BY DEF Init, NoTask, ReportsOf
<1>5. KeysMatchQueue /\ ArmedOrRunning /\ OneUpdatePerProfile
  BY <1>4 DEF KeysMatchQueue, ArmedOrRunning, OneUpdatePerProfile
<1>6. LatestIsOnItsWay
  BY DEF Init, LatestIsOnItsWay, Agrees, IdleCall
<1>7. CacheIsOnItsWay
  BY DEF Init, CacheIsOnItsWay, Applies, SlotFollows, NoTask
<1> QED BY <1>1, <1>2, <1>3, <1>5, <1>6, <1>7 DEF IInv

LEMMA Invariance == Spec => []IInv
<1>1. IInv /\ [Next]_vars => IInv'
  BY TypeStep, CallsStep, JobsStep, SlotsStep, OneUpdateStep, LatestStep, CacheStep DEF IInv
<1> QED BY InitInv, <1>1, PTL DEF Spec

\* Every variable stays in its range, and no entry is ever removed from the
\* delay queue that is not in it.
THEOREM TypeCorrect == Spec => []TypeOK
<1>1. IInv => TypeOK
  BY DEF IInv
<1> QED BY <1>1, Invariance, PTL

\* At most one scheduled update of a profile is under way, and its task knows.
THEOREM OneUpdateAtATime == Spec => []OneUpdatePerProfile
<1>1. IInv => OneUpdatePerProfile
  BY DEF IInv
<1> QED BY <1>1, Invariance, PTL

\* Queue entries and keys correspond, and a task is armed or runs.
THEOREM TasksAreArmedOrRun == Spec => [](KeysMatchQueue /\ ArmedOrRunning)
<1>1. IInv => KeysMatchQueue /\ ArmedOrRunning
  BY DEF IInv
<1> QED BY <1>1, Invariance, PTL

\* When the last refresh is over and received, the tasks are those the profiles
\* ask for, but for the changes nobody announced.
THEOREM TimerAgrees == Spec => []TimerFollowsProfiles
<1>1. IInv => TimerFollowsProfiles
  <2> SUFFICES ASSUME IInv, Refreshing = {}, Applies = {}, NEW u \in Uids \ unannounced
               PROVE  SlotFollows(slot[u], Period(profiles[u]))
    BY DEF TimerFollowsProfiles
  <2>1. cache[u] = Period(profiles[u])
    BY DEF IInv, LatestIsOnItsWay, Agrees, Refreshing
  <2>2. SlotFollows(slot[u], cache[u])
    BY DEF IInv, CacheIsOnItsWay, Refreshing
  <2> QED BY <2>1, <2>2
<1> QED BY <1>1, Invariance, PTL
==============================================================================
