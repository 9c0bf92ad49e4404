------------------------------ MODULE AutoLaunch ------------------------------
(***************************************************************************)
(* The start of the application at logon on Windows: a task of the user or    *)
(* one of the administrator, changed by an application that runs as either    *)
(* (utils/schtasks.rs, core/autostart.rs).                                    *)
(***************************************************************************)
EXTENDS Naturals

CONSTANTS MaxCalls  \* bound: changes asked for

VARIABLES tasks,    \* the tasks the system has
          call,     \* ghost: the last change: what was asked, by whom, and how it ended
          calls
vars == <<tasks, call, calls>>

Modes == {"User", "Admin"}
NoCall == [enable |-> FALSE, by |-> "User", ok |-> FALSE, was |-> {}]
Other(mode) == CHOOSE m \in Modes : m # mode
\* Any task may be there already, from this application or an older one.
Init == tasks \in SUBSET Modes /\ call = NoCall /\ calls = 0

\* What a user may not touch is the administrator's task.
Allowed(by, mode) == by = "Admin" \/ mode = "User"

\* create_task and remove_task: what may be left, and whether it is a success.  A removal
\* that fails for want of the task is none.
Created(by, ts, mode) ==
  {[ok |-> FALSE, tasks |-> ts]} \cup IF Allowed(by, mode) THEN {[ok |-> TRUE, tasks |-> ts \cup {mode}]} ELSE {}
Removed(by, ts, mode) ==
  IF mode \notin ts THEN {[ok |-> TRUE, tasks |-> ts]}
  ELSE {[ok |-> FALSE, tasks |-> ts]} \cup IF Allowed(by, mode) THEN {[ok |-> TRUE, tasks |-> ts \ {mode}]} ELSE {}

Failed(outcome) == [ok |-> FALSE, tasks |-> outcome.tasks]

\* set_auto_launch(true, is_admin): an administrator replaces the user's task, and takes his
\* own back when that fails; a user may not add to the administrator's.
\* fault: the task just created is left when the other cannot be removed.
Enabled_Kept(by, ts) ==
  UNION {IF c.ok THEN Removed(by, c.tasks, Other(by)) ELSE {c} : c \in Created(by, ts, by)}
Enabled(by, ts) ==
  IF by = "User" THEN (IF "Admin" \in ts THEN {[ok |-> FALSE, tasks |-> ts]} ELSE Created(by, ts, by))
  ELSE UNION {IF ~c.ok THEN {c}
              ELSE UNION {IF r.ok THEN {r} ELSE {Failed(b) : b \in Removed(by, r.tasks, by)}
                            : r \in Removed(by, c.tasks, "User")}
                : c \in Created(by, ts, by)}

\* set_auto_launch(false, is_admin): the administrator tries both, the user his own.
\* fault: the user's part is called a success whatever is left.
Disabled_Own(by, ts) == Removed(by, ts, by)
Disabled(by, ts) ==
  UNION {IF by = "User"
         THEN {IF r.ok /\ "Admin" \in r.tasks THEN Failed(r) ELSE r}
         ELSE {[ok |-> r.ok /\ a.ok, tasks |-> a.tasks] : a \in Removed(by, r.tasks, "Admin")}
           : r \in Removed(by, ts, "User")}

\* update_launch, with the setting of the draft.
Change(enable, by) ==
  /\ calls < MaxCalls /\ calls' = calls + 1
  /\ \E o \in IF enable THEN Enabled(by, tasks) ELSE Disabled(by, tasks) :
       tasks' = o.tasks /\ call' = [enable |-> enable, by |-> by, ok |-> o.ok, was |-> tasks]

Next == \E enable \in BOOLEAN, by \in Modes : Change(enable, by)
Spec == Init /\ [][Next]_vars

----------------------------------------------------------------------------

\* A change that succeeds leaves what it was asked for: no task at all, or one of the
\* application's own kind and not the other.  One that fails leaves no task of its own
\* beside the other, unless the removal that undoes it fails too; so the application is not
\* started twice at logon.
StartsOnce ==
  call # NoCall =>
    /\ call.ok => tasks = IF call.enable THEN {call.by} ELSE {}
    /\ ~call.ok => tasks \subseteq call.was \/ (call.by = "Admin" /\ tasks = Modes)
=============================================================================
