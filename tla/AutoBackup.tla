------------------------------ MODULE AutoBackup ------------------------------
(***************************************************************************)
(* Automatic backups (module/auto_backup.rs): one runner follows the schedule,*)
(* an edit of the global documents asks for one too, and the user makes his   *)
(* own (feat/backup.rs).                                                     *)
(***************************************************************************)
EXTENDS FiniteSetsExt, Sequences

CONSTANTS Edits, Users,     \* tasks: backups after an edit, and by the user
          Spacing, Interval, Keep,  \* 60 seconds, hours, 20 backups
          MaxNow, MaxSettings, MaxZips  \* bounds: the clock, changes of the settings, backups begun

VARIABLES now,
          settings,   \* [schedule, change]: whether each kind is on
          current, changed,  \* what the runner goes by, and whether it has news
          runner,     \* runner_started
          due,        \* when the runner's interval ends
          at, stamp,  \* of each task: its step, and the second that names its file
          lock,       \* exec_lock: who holds it, or Free
          last,       \* last_backup, 0 at first
          temp,       \* names of files under way in the temporary directory
          dir,        \* backups kept: [stamp, kind, age]
          mine,       \* ghost: the backups the user has made
          done,       \* ghost: when each automatic backup was made, in order
          crowded,    \* ghost: a backup could not be removed, or was made but not moved
          sets, zips
vars == <<now, settings, current, changed, runner, due, at, stamp, lock, last, temp, dir, mine, done, crowded, sets, zips>>

Tasks == {"runner"} \cup Edits \cup Users
Free == "free"
Kind(t) == IF t \in Users THEN "user" ELSE t
Automatic(f) == f.kind # "user"
Goes(t, to) == at' = [at EXCEPT ![t] = to]
Schedule == UNCHANGED <<settings, current, changed, runner, due, sets>>
Files == UNCHANGED <<temp, dir, mine, done, crowded, zips>>

Init ==
  /\ now = 1 /\ settings = [schedule |-> FALSE, change |-> TRUE]
  /\ current = settings /\ changed = FALSE /\ runner = FALSE /\ due = 0
  /\ at = [t \in Tasks |-> "idle"] /\ stamp = [t \in Tasks |-> 0] /\ lock = Free /\ last = 0
  /\ temp = {} /\ dir = {} /\ mine = {} /\ done = << >> /\ crowded = FALSE /\ sets = 0 /\ zips = 0

Tick == /\ now < MaxNow /\ now' = now + 1
        /\ UNCHANGED <<at, stamp, lock, last>> /\ Schedule /\ Files

----------------------------------------------------------------------------
(* The schedule                                                              *)

\* init and refresh_settings; every patch of the settings comes here.
Refresh ==
  /\ sets < MaxSettings /\ sets' = sets + 1
  /\ settings' \in [schedule : BOOLEAN, change : BOOLEAN]
  /\ changed' = runner /\ runner' = (runner \/ settings'.schedule)
  /\ IF runner' /\ ~runner THEN current' = settings' /\ due' = now + Interval
     ELSE UNCHANGED <<current, due>>
  /\ UNCHANGED <<now, at, stamp, lock, last>> /\ Files

\* run_scheduler: news starts the interval again; its end asks for a backup.
News ==
  /\ runner /\ changed /\ at["runner"] = "idle"
  /\ changed' = FALSE /\ current' = settings /\ due' = now + Interval
  /\ UNCHANGED <<now, settings, runner, sets, at, stamp, lock, last>> /\ Files
Due == runner /\ current.schedule /\ due <= now

----------------------------------------------------------------------------
(* execute_trigger                                                           *)

ShouldRun == last = 0 \/ now - last >= Spacing
Allowed(t) == IF t = "runner" THEN settings.schedule ELSE settings.change
Begin(t) ==
  /\ at[t] = "idle" /\ t \notin Users /\ (t = "runner" => Due)
  /\ IF Allowed(t) /\ ShouldRun THEN Goes(t, "lock") /\ UNCHANGED due
     ELSE UNCHANGED at /\ due' = IF t = "runner" THEN now + Interval ELSE due
  /\ UNCHANGED <<now, settings, current, changed, runner, sets, stamp, lock, last>> /\ Files

\* fault: whoever has waited for the lock does not look again.
StillDue_Assumed == TRUE
StillDue == ShouldRun
Ends(t) == Goes(t, "idle") /\ lock' = Free /\ due' = IF t = "runner" THEN now + Interval ELSE due
Locked(t) ==
  /\ at[t] = "lock" /\ lock = Free
  /\ IF StillDue THEN Goes(t, "zip") /\ lock' = t /\ UNCHANGED due ELSE Ends(t)
  /\ UNCHANGED <<now, settings, current, changed, runner, sets, stamp, last>> /\ Files

\* create_backup: the file is named by the second in which it is begun.
Zip(t) ==
  /\ at[t] = IF t \in Users THEN "idle" ELSE "zip"
  /\ zips < MaxZips /\ zips' = zips + 1
  /\ Goes(t, "move") /\ stamp' = [stamp EXCEPT ![t] = now] /\ temp' = temp \cup {now}
  /\ UNCHANGED <<now, lock, last, dir, mine, done, crowded>> /\ Schedule

\* create_local_backup_with_namer: a failure, also that of another backup that took the
\* same name, leaves no backup and no trace of the time.
Fails(t) ==
  /\ at[t] \in {"zip", "move"}
  /\ IF t \in Users THEN Goes(t, "idle") /\ UNCHANGED <<lock, due>> ELSE Ends(t)
  /\ temp' = temp \ {stamp[t]} /\ stamp' = [stamp EXCEPT ![t] = 0]
  /\ UNCHANGED <<now, settings, current, changed, runner, sets, last, dir, mine, done, crowded, zips>>
Move(t) ==
  /\ at[t] = "move" /\ stamp[t] \in temp /\ temp' = temp \ {stamp[t]} /\ stamp' = [stamp EXCEPT ![t] = 0]
  /\ dir' = {f \in dir : f.stamp # stamp[t] \/ f.kind # Kind(t)}
              \cup {[stamp |-> stamp[t], kind |-> Kind(t), age |-> now]}
  /\ IF t \in Users THEN Goes(t, "idle") /\ mine' = mine \cup {stamp[t]} /\ UNCHANGED <<last, done>>
     ELSE Goes(t, "tidy") /\ last' = now /\ done' = Append(done, now) /\ UNCHANGED mine
  /\ UNCHANGED <<now, lock, crowded, zips>> /\ Schedule

\* fault: every backup counts, the user's too.
Marked_All(fs) == fs
\* cleanup_auto_backups: of those that carry the mark the oldest go.
Marked(fs) == {f \in fs : Automatic(f)}
\* fault: the newest go.
Surplus_Newest(fs) ==
  {gone \in SUBSET Marked(fs) :
     /\ Cardinality(gone) = Max({0, Cardinality(Marked(fs)) - Keep})
     /\ \A f \in gone : \A g \in Marked(fs) \ gone : f.age >= g.age}
Surplus(fs) ==
  {gone \in SUBSET Marked(fs) :
     /\ Cardinality(gone) = Max({0, Cardinality(Marked(fs)) - Keep})
     /\ \A f \in gone : \A g \in Marked(fs) \ gone : f.age <= g.age}
CleanUp(t) ==
  /\ at[t] = "tidy" /\ Ends(t)
  /\ \E gone \in Surplus(dir) : \E kept \in {{}, gone} :
       dir' = (dir \ gone) \cup kept /\ crowded' = (kept # {})
  /\ UNCHANGED <<now, settings, current, changed, runner, sets, stamp, last, temp, mine, done, zips>>

Next == \/ Tick \/ Refresh \/ News
        \/ \E t \in Tasks : Begin(t) \/ Locked(t) \/ Zip(t) \/ Fails(t) \/ Move(t) \/ CleanUp(t)
Spec == Init /\ [][Next]_vars

----------------------------------------------------------------------------
(* What must hold                                                            *)

\* No two automatic backups are made closer together than the spacing, whoever asks.
Spaced == \A i \in 1..Len(done) - 1 : done[i + 1] - done[i] >= Spacing
\* When nobody is at work the last automatic backups are there, no more than are to be kept.
LastKept ==
  (\A t \in Tasks \ Users : at[t] \in {"idle", "lock"}) /\ ~crowded =>
     {f.age : f \in {f \in dir : Automatic(f)}}
       = {done[i] : i \in Max({1, Len(done) - Keep + 1})..Len(done)}
\* What the user has made stays until he removes it.
UserKept == \A m \in mine : \E f \in dir : f.stamp = m /\ f.kind = "user"
BackupsKept == Spaced /\ LastKept /\ UserKept
=============================================================================
