---------------------------- MODULE TimerScheduler ----------------------------
(***************************************************************************)
(* The profile timer (core/timer.rs): callers that change a profile send   *)
(* the scheduler, over an unbounded channel, the update intervals they     *)
(* find; the scheduler keeps a task per profile with an entry in a delay   *)
(* queue, and spawns updates that report back over the same channel.       *)
(* Delays are abstracted: an entry of the queue expires at any moment.     *)
(* Profiles are changed by the commands of cmd/profile.rs and by updates.  *)
(***************************************************************************)
EXTENDS Naturals, Sequences

CONSTANTS Uids,        \* profiles
          Intervals,   \* update intervals, in minutes
          Calls,       \* bound: the commands made in a behaviour
          Boot,        \* the initialisation of the timer
          NoCaller     \* nobody holds the refresh lock

ASSUME TimerAssumption ==
  /\ Intervals \subseteq Nat \ {0}
  /\ Boot \notin Calls /\ NoCaller \notin Calls \cup {Boot}

Callers == Calls \cup {Boot}
Periods == Intervals \cup {0}        \* 0: no update is due, ever

\* A profile item: whether it exists, and its options on automatic updates.
Items == [state : {"missing", "present", "deleted"}, interval : Periods, allow : BOOLEAN]
Deleted == [state |-> "deleted", interval |-> 0, allow |-> FALSE]

Period(item) == IF item.state = "present" /\ item.allow THEN item.interval ELSE 0
GenMap(items) == [u \in Uids |-> Period(items[u])]

Apply(map)      == [kind |-> "Apply", map |-> map]
RunNow(u)       == [kind |-> "RunNow", uid |-> u]
TaskFinished(u) == [kind |-> "TaskFinished", uid |-> u]
Commands == [kind : {"Apply"}, map : [Uids -> Periods]]
              \cup [kind : {"RunNow", "TaskFinished"}, uid : Uids]

\* A task and the entries its profile has in the delay queue; armed: key is Some.
Slots == [status : {"absent", "live", "retired"}, armed : BOOLEAN, running : BOOLEAN,
          interval : Periods, entries : Nat]
NoTask == [status |-> "absent", armed |-> FALSE, running |-> FALSE,
           interval |-> 0, entries |-> 0]

\* A call: how far it is, its command, the item it read or wants, whether it
\* will refresh the timer, and the schedule the refresh found.
At == {"idle", "committing", "refreshing", "locked", "sending", "overdue", "done", "failed"}
CallStates == [at : At, op : {"none", "Patch", "Create", "Delete", "Update"},
               uid : Uids \cup {NoCaller}, item : Items, refresh : BOOLEAN,
               snap : [Uids -> Periods]]

\* The update in flight of a profile: the item it started from.
Jobs == [stage : {"none", "spawned", "downloading", "reporting"}, seen : Items]

VARIABLES profiles,    \* committed profile items
          cache,       \* timer_map
          lock,        \* refresh_lock
          call,
          chan,        \* the command channel
          started,     \* the scheduler's task runs
          overdue,     \* profiles whose RunNow init() has still to send
          slot,
          job,
          inflight,    \* how many updates of a profile were spawned and not yet reported
          unannounced  \* history: schedules changed, since the last refresh looked, by
                       \* commits after which nobody refreshes

vars == <<profiles, cache, lock, call, chan, started, overdue, slot, job, inflight, unannounced>>
callVars == <<cache, lock, overdue>>
taskVars == <<slot, job, inflight, started>>

IdleCall == [at |-> "idle", op |-> "none", uid |-> NoCaller, item |-> Deleted,
             refresh |-> FALSE, snap |-> [u \in Uids |-> 0]]

Init ==
  /\ profiles \in [Uids -> {i \in Items : i.state = "present" \/ i = [Deleted EXCEPT !.state = "missing"]}]
  /\ cache = [u \in Uids |-> 0] /\ lock = NoCaller
  /\ call = [c \in Callers |-> IdleCall]
  /\ chan = << >> /\ started = FALSE /\ overdue = {}
  /\ slot = [u \in Uids |-> NoTask]
  /\ job = [u \in Uids |-> [stage |-> "none", seen |-> Deleted]]
  /\ inflight = [u \in Uids |-> 0]
  /\ unannounced = Uids

----------------------------------------------------------------------------
\* The scheduler's operations on one task and its queue entries.

Taken(s)    == [s EXCEPT !.armed = FALSE, !.entries = @ - 1]
Remove(s)   == IF s.armed THEN Taken(s) ELSE s
Schedule(s) == [s EXCEPT !.armed = TRUE, !.entries = @ + 1]
Dropped(s)  == [NoTask EXCEPT !.entries = s.entries]

\* fault: the task of a profile is removed although its update runs.
Retire_DropsRunning(s) == Dropped(Remove(s))

\* Without a schedule a task goes, or once its update reports back.
Retire(s) == IF s.running THEN [Remove(s) EXCEPT !.status = "retired"] ELSE Dropped(Remove(s))

\* update_task_interval: an armed task has its entry reset in place.
Retimed(s, period) ==
  IF s.interval = period \/ s.armed \/ s.running
    THEN [s EXCEPT !.interval = period]
    ELSE Schedule([s EXCEPT !.interval = period])

\* fault: a task enabled again while it retires stays retired.
ApplyTo_StaysRetired(s, period) ==
  IF s.status = "absent"
    THEN IF period = 0 THEN s ELSE Schedule([s EXCEPT !.status = "live", !.interval = period])
    ELSE IF period = 0 THEN Retire(s) ELSE Retimed(s, period)

\* apply_timer_map, for one profile.
ApplyTo(s, period) ==
  IF s.status = "absent"
    THEN IF period = 0 THEN s ELSE Schedule([s EXCEPT !.status = "live", !.interval = period])
    ELSE IF period = 0 THEN Retire(s) ELSE Retimed([s EXCEPT !.status = "live"], period)

\* fault: the key of the expired entry is kept.
Expired_KeepsKey(s) ==
  IF s.status = "absent" THEN [s EXCEPT !.entries = @ - 1]
  ELSE [s EXCEPT !.entries = @ - 1, !.running = TRUE]

Expired(s) ==
  IF s.status = "absent" THEN [s EXCEPT !.entries = @ - 1]
  ELSE [Taken(s) EXCEPT !.running = TRUE]

Runnable(s) == s.status # "absent" /\ ~s.running

\* fault: an overdue task is run and its queue entry left behind.
RanNow_LeavesEntry(s) == IF Runnable(s) THEN [s EXCEPT !.running = TRUE] ELSE s

RanNow(s) == IF Runnable(s) THEN [Remove(s) EXCEPT !.running = TRUE] ELSE s

\* fault: a task that finished is not armed again.
Finished_NotRearmed(s) ==
  IF s.status = "absent" THEN s
  ELSE IF s.status = "retired" THEN Dropped(s)
  ELSE [s EXCEPT !.running = FALSE]

Finished(s) ==
  IF s.status = "absent" THEN s
  ELSE IF s.status = "retired" THEN Dropped(s)
  ELSE Schedule([s EXCEPT !.running = FALSE])

----------------------------------------------------------------------------
\* Commands (cmd/profile.rs).  A commit of the profiles is atomic: it goes
\* through with_data_modify, which refuses it when anything else was committed.

CallGoes(c, where) == call' = [call EXCEPT ![c].at = where]

BeginCall(c, op, u, item, refresh) ==
  /\ c \in Calls /\ call[c].at = "idle"
  /\ call' = [call EXCEPT ![c] = [at |-> "committing", op |-> op, uid |-> u, item |-> item,
                                  refresh |-> refresh, snap |-> IdleCall.snap]]
  /\ UNCHANGED <<callVars, taskVars, profiles, chan, unannounced>>

\* patch_profile decides from what it reads now whether to refresh afterwards.
BeginPatch(c) ==
  \E u \in Uids, item \in Items :
    /\ profiles[u].state = "present" /\ item.state = "present"
    /\ BeginCall(c, "Patch", u, item, item # profiles[u])

BeginCreate(c) ==
  \E u \in Uids, item \in Items :
    /\ profiles[u].state = "missing" /\ item.state = "present"
    /\ BeginCall(c, "Create", u, item, TRUE)

BeginDelete(c) ==
  \E u \in Uids : profiles[u].state = "present" /\ BeginCall(c, "Delete", u, Deleted, TRUE)

\* The user's update of a profile starts from the item it finds.
BeginUpdate(c) ==
  \E u \in Uids : profiles[u].state = "present" /\ BeginCall(c, "Update", u, profiles[u], FALSE)

\* from_url answers with the options it was given, or the server's interval, and
\* update_item writes them over the item it finds.
Merge(item, seen, header) ==
  [item EXCEPT !.allow = seen.allow,
               !.interval = IF seen.interval # 0 THEN seen.interval
                            ELSE IF header # 0 THEN header ELSE @]

\* What is committed for u, by somebody who will refresh the timer or not.
CommitItem(u, item, refresh) ==
  /\ profiles' = [profiles EXCEPT ![u] = item]
  /\ unannounced' = IF refresh \/ Period(item) = Period(profiles[u])
                      THEN unannounced ELSE unannounced \cup {u}

\* A created profile whose file cannot be saved is committed all the same.
Committed(c, item, saved) ==
  LET refresh == call[c].refresh /\ saved
  IN /\ CommitItem(call[c].uid, item, refresh)
     /\ CallGoes(c, IF refresh THEN "refreshing" ELSE "done")

Commit(c) ==
  /\ call[c].at = "committing"
  /\ LET now == profiles[call[c].uid]
     IN \/ call[c].op \in {"Patch", "Delete"} /\ now.state = "present"
             /\ Committed(c, call[c].item, TRUE)
        \/ call[c].op = "Create" /\ now.state = "missing"
             /\ \E saved \in BOOLEAN : Committed(c, call[c].item, saved)
        \/ call[c].op = "Update" /\ now.state = "present"
             /\ \E header \in Periods : Committed(c, Merge(now, call[c].item, header), TRUE)
  /\ UNCHANGED <<callVars, taskVars, chan>>

CommitFails(c) ==
  /\ call[c].at = "committing"
  /\ CallGoes(c, "failed")
  /\ UNCHANGED <<callVars, taskVars, profiles, chan, unannounced>>

----------------------------------------------------------------------------
\* Timer::init and Timer::refresh.

StartTimer ==
  /\ call[Boot].at = "idle"
  /\ started' = TRUE
  /\ CallGoes(Boot, "refreshing")
  /\ UNCHANGED <<callVars, slot, job, inflight, profiles, chan, unannounced>>

\* fault: refresh does without its lock.
TakeSchedule_Unlocked(c) ==
  /\ call[c].at = "refreshing"
  /\ call' = [call EXCEPT ![c].at = "locked", ![c].snap = GenMap(profiles)]
  /\ unannounced' = {}
  /\ UNCHANGED <<cache, lock, overdue, taskVars, profiles, chan>>

\* refresh_lock, and the schedules of the profiles as they are committed.
TakeSchedule(c) ==
  /\ call[c].at = "refreshing"
  /\ lock = NoCaller /\ lock' = c
  /\ call' = [call EXCEPT ![c].at = "locked", ![c].snap = GenMap(profiles)]
  /\ unannounced' = {}
  /\ UNCHANGED <<cache, overdue, taskVars, profiles, chan>>

EndRefresh(c) ==
  /\ lock' = NoCaller
  /\ CallGoes(c, IF c = Boot THEN "overdue" ELSE "done")
  /\ overdue' \in IF c = Boot THEN SUBSET {u \in Uids : Period(profiles[u]) # 0} ELSE {overdue}

ReplaceCache(c) ==
  /\ call[c].at = "locked"
  /\ cache' = call[c].snap
  /\ IF cache = call[c].snap
       THEN EndRefresh(c)
       ELSE CallGoes(c, "sending") /\ UNCHANGED <<lock, overdue>>
  /\ UNCHANGED <<taskVars, profiles, chan, unannounced>>

SendApply(c) ==
  /\ call[c].at = "sending"
  /\ chan' = Append(chan, Apply(call[c].snap))
  /\ EndRefresh(c)
  /\ UNCHANGED <<cache, taskVars, profiles, unannounced>>

SendRunNow ==
  /\ call[Boot].at = "overdue"
  /\ IF overdue = {}
       THEN CallGoes(Boot, "done") /\ UNCHANGED <<overdue, chan>>
       ELSE \E u \in overdue : /\ overdue' = overdue \ {u}
                               /\ chan' = Append(chan, RunNow(u))
                               /\ UNCHANGED call
  /\ UNCHANGED <<cache, lock, taskVars, profiles, unannounced>>

----------------------------------------------------------------------------
\* The scheduler: an entry of the queue expires, or a command is received.

Spawn(u) ==
  /\ inflight' = [inflight EXCEPT ![u] = @ + 1]
  /\ job' = [job EXCEPT ![u].stage = "spawned"]

Expire(u) ==
  /\ started
  /\ slot[u].entries > 0
  /\ slot' = [slot EXCEPT ![u] = Expired(slot[u])]
  /\ IF Runnable(slot[u]) THEN Spawn(u) ELSE UNCHANGED <<inflight, job>>
  /\ UNCHANGED <<callVars, call, started, profiles, chan, unannounced>>

Received(kind) ==
  /\ started
  /\ chan # << >> /\ chan' = Tail(chan)
  /\ Head(chan).kind = kind
  /\ UNCHANGED <<callVars, call, started, profiles, unannounced>>

ReceiveApply ==
  /\ Received("Apply")
  /\ slot' = [u \in Uids |-> ApplyTo(slot[u], Head(chan).map[u])]
  /\ UNCHANGED <<inflight, job>>

ReceiveRunNow ==
  /\ Received("RunNow")
  /\ LET u == Head(chan).uid
     IN /\ slot' = [slot EXCEPT ![u] = RanNow(slot[u])]
        /\ IF Runnable(slot[u]) THEN Spawn(u) ELSE UNCHANGED <<inflight, job>>

ReceiveFinished ==
  /\ Received("TaskFinished")
  /\ LET u == Head(chan).uid IN slot' = [slot EXCEPT ![u] = Finished(slot[u])]
  /\ UNCHANGED <<inflight, job>>

Receive == ReceiveApply \/ ReceiveRunNow \/ ReceiveFinished

----------------------------------------------------------------------------
\* An update spawned by the scheduler (spawn_update_task, feat::update_profile).

JobGoes(u, stage) == job' = [job EXCEPT ![u].stage = stage]

\* Automatic updates may have been forbidden, or the profile deleted, since.
StartDownload(u) ==
  /\ job[u].stage = "spawned"
  /\ IF profiles[u].state = "present" /\ profiles[u].allow
       THEN job' = [job EXCEPT ![u] = [stage |-> "downloading", seen |-> profiles[u]]]
       ELSE JobGoes(u, "reporting")
  /\ UNCHANGED <<callVars, call, slot, inflight, started, profiles, chan, unannounced>>

LandDownload(u) ==
  /\ job[u].stage = "downloading"
  /\ profiles[u].state = "present"
  /\ \E header \in Periods : CommitItem(u, Merge(profiles[u], job[u].seen, header), FALSE)
  /\ JobGoes(u, "reporting")
  /\ UNCHANGED <<callVars, call, slot, inflight, started, chan>>

\* fault: a failed update returns before its report.
DownloadFails_Silent(u) ==
  /\ job[u].stage = "downloading"
  /\ JobGoes(u, "none")
  /\ UNCHANGED <<callVars, call, slot, inflight, started, profiles, chan, unannounced>>

DownloadFails(u) ==
  /\ job[u].stage = "downloading"
  /\ JobGoes(u, "reporting")
  /\ UNCHANGED <<callVars, call, slot, inflight, started, profiles, chan, unannounced>>

Report(u) ==
  /\ job[u].stage = "reporting"
  /\ chan' = Append(chan, TaskFinished(u))
  /\ inflight' = [inflight EXCEPT ![u] = @ - 1]
  /\ JobGoes(u, "none")
  /\ UNCHANGED <<callVars, call, slot, started, profiles, unannounced>>

----------------------------------------------------------------------------
CommandStep(c) == BeginPatch(c) \/ BeginCreate(c) \/ BeginDelete(c) \/ BeginUpdate(c)
CallStep(c) ==
  \/ Commit(c) \/ CommitFails(c)
  \/ TakeSchedule(c) \/ ReplaceCache(c) \/ SendApply(c)
JobStep(u) == StartDownload(u) \/ LandDownload(u) \/ DownloadFails(u) \/ Report(u)

Next ==
  \/ StartTimer \/ SendRunNow \/ Receive
  \/ \E c \in Callers : CommandStep(c) \/ CallStep(c)
  \/ \E u \in Uids : Expire(u) \/ JobStep(u)

Spec == Init /\ [][Next]_vars

\* The runtime polls the callers and the scheduler, whose select! picks a ready
\* branch at random; a delay passes; a download has a timeout.
FairSpec ==
  /\ Spec
  /\ WF_vars(StartTimer) /\ WF_vars(SendRunNow) /\ WF_vars(Receive)
  /\ \A c \in Callers : WF_vars(CallStep(c))
  /\ \A u \in Uids : WF_vars(Expire(u)) /\ WF_vars(JobStep(u))

----------------------------------------------------------------------------
\* Every variable stays in its range: in particular no entry is removed from
\* the queue that is not in it.
TypeOK ==
  /\ profiles \in [Uids -> Items]
  /\ cache \in [Uids -> Periods]
  /\ lock \in Callers \cup {NoCaller}
  /\ call \in [Callers -> CallStates]
  /\ chan \in Seq(Commands)
  /\ started \in BOOLEAN
  /\ overdue \subseteq Uids
  /\ slot \in [Uids -> Slots]
  /\ job \in [Uids -> Jobs]
  /\ inflight \in [Uids -> Nat]
  /\ unannounced \subseteq Uids

ReportsOf(u) == {i \in 1 .. Len(chan) : chan[i] = TaskFinished(u)}

\* At most one scheduled update of a profile is under way, and the task knows of
\* it until its report is received, however often the profile is disabled and
\* enabled meanwhile.
OneUpdatePerProfile ==
  \A u \in Uids :
    /\ slot[u].running <=> inflight[u] > 0 \/ ReportsOf(u) # {}
    /\ inflight[u] > 0 => inflight[u] = 1 /\ ReportsOf(u) = {}
    /\ \A i, j \in ReportsOf(u) : i = j

\* The delay queue holds exactly one entry for a task that holds a key, and none
\* for any other profile: no orphan fires, no removal or reset panics.
KeysMatchQueue ==
  \A u \in Uids : slot[u].entries = IF slot[u].armed THEN 1 ELSE 0

\* A task waits in the queue or runs, never both and never neither; it only
\* outlives its schedule while its update runs.
ArmedOrRunning ==
  \A u \in Uids :
    /\ slot[u].status = "absent"  => ~slot[u].armed /\ ~slot[u].running
    /\ slot[u].status = "live"    => (slot[u].armed <=> ~slot[u].running)
    /\ slot[u].status = "retired" => slot[u].running /\ ~slot[u].armed

\* Once nobody refreshes and every schedule sent was received, the live tasks
\* are those of the profiles that ask for updates, at their intervals, except
\* for the changes nobody announces.
Applies == {i \in 1 .. Len(chan) : chan[i].kind = "Apply"}
SlotFollows(s, period) ==
  IF period = 0 THEN s.status # "live" ELSE s.status = "live" /\ s.interval = period
Refreshing == {c \in Callers : call[c].at \in {"refreshing", "locked", "sending"}}
TimerFollowsProfiles ==
  Refreshing = {} /\ Applies = {} =>
    \A u \in Uids \ unannounced : SlotFollows(slot[u], Period(profiles[u]))

\* What makes the invariants above inductive: who holds the refresh lock, where
\* the latest schedules are on their way from the profiles to the tasks, and
\* that an update is under way as long as its job has a stage.
CallsFit ==
  \A c \in Callers :
    /\ call[c].at \in {"locked", "sending"} <=> lock = c
    /\ call[c].at = "sending" => call[c].snap = cache
    /\ call[c].at = "committing" => call[c].uid \in Uids
JobsFit == \A u \in Uids : job[u].stage # "none" <=> inflight[u] > 0

Agrees(map) == \A u \in Uids \ unannounced : map[u] = Period(profiles[u])
LatestIsOnItsWay ==
  \/ \E c \in Callers : call[c].at = "refreshing"
  \/ \E c \in Callers : call[c].at = "locked" /\ Agrees(call[c].snap)
  \/ (\A c \in Callers : call[c].at # "locked") /\ Agrees(cache)

CacheIsOnItsWay ==
  \/ \E c \in Callers : call[c].at = "sending"
  \/ \E i \in Applies : chan[i].map = cache /\ \A j \in Applies : j <= i
  \/ Applies = {} /\ \A u \in Uids : SlotFollows(slot[u], cache[u])

IInv == /\ TypeOK /\ CallsFit /\ JobsFit
        /\ KeysMatchQueue /\ ArmedOrRunning /\ OneUpdatePerProfile
        /\ LatestIsOnItsWay /\ CacheIsOnItsWay

\* timer.rs:730, of a profile disabled during its update: "and must never be
\* scheduled again".  The one command on it has disabled it.
DisabledForGood(u) ==
  \E c \in Calls :
    /\ call[c].at = "done" /\ call[c].op = "Patch" /\ call[c].uid = u
    /\ call[c].refresh /\ ~call[c].item.allow
    /\ \A d \in Calls \ {c} : call[d].uid # u
DisabledIsNeverScheduledAgain ==
  Refreshing = {} /\ Applies = {} =>
    \A u \in Uids : DisabledForGood(u) => slot[u].status # "live"

\* A profile with a task is updated again and again, as long as it has one.
EveryTaskRuns == \A u \in Uids : slot[u].status = "live" ~> slot[u].running \/ slot[u].status # "live"

\* Every update that was started is reported, whatever became of it.
EveryRunEnds == \A u \in Uids : slot[u].running ~> ~slot[u].running
==============================================================================
