--------------------------- MODULE ProfileSwitch ---------------------------
(***************************************************************************)
(* Which profile is current and what the core runs: the commands that      *)
(* switch, delete, import and update profiles (cmd/profile.rs,             *)
(* feat/profile.rs, utils/resolve/scheme.rs), each over the profiles layer, *)
(* its file, and the update of the core's configuration                     *)
(* (core/manager/config.rs).  A configuration is abstracted to the profile  *)
(* it was generated from.                                                   *)
(***************************************************************************)
EXTENDS Naturals, SequencesExt

CONSTANTS Callers,
          Uids,      \* the profiles at first, in order
          Imported,  \* the one that may be imported
          Kinds,     \* the commands that are given
          MaxOps     \* bound: commands in a behaviour

Nobody == "nobody"
NoUid == "none"
NoDraft == [cur |-> "no draft", items |-> << >>]

VARIABLES data, draft,  \* the profiles layer
          disk,         \* profiles.yaml
          permit,       \* who is inside with_data_modify, and whether its clone is the data
          switching,    \* CURRENT_SWITCHING_PROFILE
          plock,        \* PROFILE_WRITE_LOCK
          flag,         \* the config_update flag
          runtime,      \* the profile the committed runtime configuration is from
          core,         \* the profile the core runs, or "down"
          savers,       \* spawned tasks that save the profiles
          op,           \* what each caller is doing
          left,         \* commands that may still come
          excused       \* something happened that the property leaves out
vars == <<data, draft, disk, permit, switching, plock, flag, runtime, core, savers, op, left, excused>>

layer == <<data, draft, disk>>
locks == <<permit, switching, plock, flag>>

Members(s) == {s[i] : i \in DOMAIN s}
Latest == IF draft = NoDraft THEN data ELSE draft

\* IProfiles::patch_config: a current that is not an item is ignored.
Patched(p, cur) == IF cur \in Members(p.items) THEN [p EXCEPT !.cur = cur] ELSE p

\* append_item: the first profile becomes the current one.
Appended(p, uid) ==
  [cur |-> IF p.cur = NoUid THEN uid ELSE p.cur, items |-> Append(p.items, uid)]

\* take_item_file_by_uid: the item of a uid that is there.
TakenFrom(items, uid) == RemoveAt(items, CHOOSE i \in DOMAIN items : items[i] = uid)

\* plan_delete_item
Loses(p, uid) == p.cur \in {NoUid, uid}
Without(p, uid) ==
  LET rest == TakenFrom(p.items, uid) IN
  [items |-> rest,
   cur   |-> IF ~Loses(p, uid) THEN p.cur ELSE IF rest = << >> THEN NoUid ELSE Head(rest)]

Idle == [kind |-> "none", arg |-> NoUid, at |-> "idle", prev |-> NoUid, to |-> NoUid,
         clone |-> NoDraft, first |-> FALSE]

Init ==
  /\ data = [cur |-> Uids[1], items |-> Uids] /\ draft = NoDraft /\ disk = data
  /\ permit = [by |-> Nobody, fresh |-> TRUE]
  /\ switching = FALSE /\ plock = Nobody /\ flag = Nobody
  /\ runtime = Uids[1] /\ core = Uids[1] /\ savers = 0
  /\ op = [c \in Callers |-> Idle] /\ left = MaxOps /\ excused = FALSE

----------------------------------------------------------------------------
(* Shared steps.                                                            *)

At(c, place) == op[c].at = place
Goto(c, place) == op' = [op EXCEPT ![c].at = place]
Over(c) == op' = [op EXCEPT ![c] = Idle]

\* with_data_modify: the permit and a clone; then the closure, and the data is
\* replaced unless somebody else has replaced it.
TakePermit(c) == permit.by = Nobody /\ permit' = [by |-> c, fresh |-> TRUE]
GivePermit == permit' = [by |-> Nobody, fresh |-> TRUE]
ReplaceWith(new) == IF permit.fresh THEN data' = new ELSE UNCHANGED data
Enter(c, from, to) ==
  /\ At(c, from) /\ TakePermit(c)
  /\ op' = [op EXCEPT ![c].at = to, ![c].clone = data]
  /\ UNCHANGED <<layer, switching, plock, flag, runtime, core, savers, left, excused>>

\* Between a switch's staging and its commit, or while its failure is undone,
\* everybody else sees a current profile that is not settled.
Unsettled(c) == At(c, "update") \/ At(c, "generate") \/ At(c, "apply") \/ At(c, "discard")
                \/ At(c, "enterCommit") \/ At(c, "commit") \/ At(c, "undo") \/ At(c, "putBack")
                \/ At(c, "putBackApply")
CrossesSwitch(c) == \E d \in Callers \ {c} : op[d].kind = "switch" /\ Unsettled(d)

----------------------------------------------------------------------------
(* update_config_with_force.                                                *)

\* Who is refused may have changed what the core should run.
Refusal(c) ==
  CASE op[c].kind = "switch" -> Goto(c, "undo") /\ UNCHANGED <<excused, permit>>
    [] op[c].kind = "delete" -> Goto(c, "refused") /\ UNCHANGED <<excused, permit>>
    [] op[c].kind = "import" -> Over(c) /\ excused' = TRUE /\ UNCHANGED permit
    [] OTHER -> Over(c) /\ UNCHANGED <<excused, permit>>

BeginUpdate(c) ==
  /\ At(c, "update")
  /\ \/ flag # Nobody /\ Refusal(c) /\ UNCHANGED flag      \* Busy
     \/ flag = Nobody /\ flag' = c /\ Goto(c, "generate") /\ UNCHANGED <<excused, permit>>
  /\ UNCHANGED <<layer, switching, plock, runtime, core, savers, left>>

\* An automatic update within CONFIG_UPDATE_DEBOUNCE of the last is skipped.
Debounce(c) ==
  /\ At(c, "update") /\ op[c].kind = "update" /\ flag = Nobody /\ Over(c)
  /\ UNCHANGED <<layer, locks, runtime, core, savers, left, excused>>

\* What is generated from: the candidate of a delete, else whatever is latest.
Source(c) == IF op[c].kind = "delete" THEN Without(op[c].clone, op[c].arg).cur ELSE Latest.cur

UpdateFails(c) ==
  CASE op[c].kind = "switch" -> Goto(c, "undo") /\ flag' = Nobody /\ UNCHANGED excused
    [] op[c].kind = "delete" -> Goto(c, "rollback") /\ UNCHANGED <<flag, excused>>
    [] op[c].kind = "import" -> Over(c) /\ flag' = Nobody /\ excused' = TRUE
    [] OTHER -> Over(c) /\ flag' = Nobody /\ UNCHANGED excused
UpdateInvalid(c) ==
  IF op[c].kind = "delete" THEN Goto(c, "refused") /\ flag' = Nobody /\ UNCHANGED excused
                           ELSE UpdateFails(c)

\* perform_config_update up to the validator.  Another transaction may have the
\* runtime layer: that is an error.
Generate(c) ==
  /\ At(c, "generate")
  /\ \/ /\ op' = [op EXCEPT ![c].at = "apply", ![c].to = Source(c)] /\ UNCHANGED flag
        /\ excused' = (excused \/ (op[c].kind # "delete" /\ CrossesSwitch(c)))
     \/ UpdateInvalid(c)
     \/ UpdateFails(c)
  /\ UNCHANGED <<layer, permit, switching, plock, runtime, core, savers, left>>

Applied(c) ==
  CASE op[c].kind = "switch" -> Goto(c, "discard") /\ flag' = Nobody
    [] op[c].kind = "delete" -> Goto(c, "deleteSave") /\ UNCHANGED flag
    [] OTHER -> Over(c) /\ flag' = Nobody

\* apply_config: reloaded or replaced; refused with the core left as it was; or
\* the core could not be started again.
Apply(c) ==
  /\ At(c, "apply")
  /\ \/ core' = op[c].to /\ runtime' = op[c].to /\ Applied(c) /\ UNCHANGED excused
     \/ UpdateFails(c) /\ UNCHANGED <<core, runtime>>
     \/ UpdateFails(c) /\ core' = "down" /\ UNCHANGED runtime
  /\ UNCHANGED <<layer, permit, switching, plock, savers, left>>

\* The user starts the core again: it runs the committed runtime configuration.
StartCore ==
  /\ core = "down" /\ flag = Nobody /\ core' = runtime
  /\ UNCHANGED <<layer, locks, runtime, savers, op, left, excused>>

----------------------------------------------------------------------------
(* Commands.                                                                *)

Begin(c) ==
  /\ At(c, "idle") /\ left > 0 /\ left' = left - 1
  /\ \E k \in Kinds, u \in Members(Uids) :
       LET start == [Idle EXCEPT !.kind = k, !.arg = u] IN
       CASE k = "switch"  -> /\ ~switching /\ switching' = TRUE       \* else Busy
                             /\ op' = [op EXCEPT ![c] = [start EXCEPT !.at = "lock"]]
         [] k = "delete"  -> op' = [op EXCEPT ![c] = [start EXCEPT !.at = "lock"]] /\ UNCHANGED switching
         [] k = "import"  -> /\ Imported \notin Members(data.items) /\ UNCHANGED switching
                             /\ op' = [op EXCEPT ![c] = [start EXCEPT !.at = "enterAppend", !.arg = Imported,
                                                                      !.first = Latest.cur = NoUid]]
         [] k = "update"  -> op' = [op EXCEPT ![c] = [start EXCEPT !.at = "enterItem"]] /\ UNCHANGED switching
         [] k = "patch"   -> op' = [op EXCEPT ![c] = [start EXCEPT !.at = "enterPatch"]] /\ UNCHANGED switching
         [] k = "enhance" -> op' = [op EXCEPT ![c] = [start EXCEPT !.at = "update"]] /\ UNCHANGED switching
  /\ UNCHANGED <<layer, permit, plock, flag, runtime, core, savers, excused>>

LockProfiles(c) ==
  /\ At(c, "lock") /\ plock = Nobody /\ plock' = c
  /\ Goto(c, IF op[c].kind = "switch" THEN "stage" ELSE "enterDelete")
  /\ UNCHANGED <<layer, permit, switching, flag, runtime, core, savers, left, excused>>

\* patch_profiles_config
Stage(c) ==
  /\ At(c, "stage")
  /\ draft' = Patched(Latest, op[c].arg)
  /\ op' = [op EXCEPT ![c].at = "update", ![c].prev = data.cur]
  /\ UNCHANGED <<data, disk, locks, runtime, core, savers, left, excused>>

\* commit_current_profile: the draft goes, and the data is set to the target.
Discard(c) ==
  /\ At(c, "discard") /\ draft' = NoDraft /\ Goto(c, "enterCommit")
  /\ UNCHANGED <<data, disk, locks, runtime, core, savers, left, excused>>
Commit(c) ==
  /\ At(c, "commit") /\ GivePermit
  /\ ReplaceWith(Patched(op[c].clone, op[c].arg))
  /\ Goto(c, IF permit.fresh THEN "enterSave" ELSE "end")
  /\ UNCHANGED <<draft, disk, switching, plock, flag, runtime, core, savers, left, excused>>
Save(c) ==
  /\ At(c, "save") /\ GivePermit /\ ReplaceWith(op[c].clone)
  /\ disk' = op[c].clone /\ Goto(c, "end")
  /\ UNCHANGED <<draft, switching, plock, flag, runtime, core, savers, left, excused>>

\* fault: the draft of the failed switch stays.
Undone_KeepsDraft == draft
Undone == NoDraft
Undo(c) ==
  /\ At(c, "undo") /\ draft' = Undone
  /\ Goto(c, IF op[c].prev = NoUid THEN "end" ELSE "putBack")
  /\ UNCHANGED <<data, disk, locks, runtime, core, savers, left, excused>>

\* restore_previous_profile: edit_draft and apply, without the permit; the file is
\* saved by a task of its own.
\* fault: nothing saves the file once the previous profile is back.
Saver_None == savers
Saver == savers + 1
PutBack(c) ==
  /\ At(c, "putBack") /\ draft' = Patched(Latest, op[c].prev) /\ Goto(c, "putBackApply")
  /\ UNCHANGED <<data, disk, locks, runtime, core, savers, left, excused>>
PutBackApply(c) ==
  /\ At(c, "putBackApply")
  /\ data' = Latest /\ draft' = NoDraft
  /\ permit' = IF draft # NoDraft THEN [permit EXCEPT !.fresh = FALSE] ELSE permit
  /\ savers' = Saver /\ Goto(c, "end")
  /\ UNCHANGED <<disk, switching, plock, flag, runtime, core, left, excused>>

SaverTask ==
  /\ savers > 0 /\ savers' = savers - 1 /\ permit.by = Nobody /\ disk' = data
  /\ UNCHANGED <<data, draft, locks, runtime, core, op, left, excused>>

End(c) ==
  /\ At(c, "end") /\ Over(c)
  /\ plock' = IF plock = c THEN Nobody ELSE plock
  /\ flag' = IF flag = c THEN Nobody ELSE flag
  /\ switching' = IF op[c].kind = "switch" THEN FALSE ELSE switching
  /\ UNCHANGED <<layer, permit, runtime, core, savers, left, excused>>

\* delete_profile
PlanDelete(c) ==
  /\ At(c, "planDelete")
  /\ \/ op[c].arg \notin Members(op[c].clone.items) /\ GivePermit /\ Goto(c, "end")
     \/ /\ op[c].arg \in Members(op[c].clone.items) /\ UNCHANGED permit
        /\ Goto(c, IF Loses(op[c].clone, op[c].arg) THEN "update" ELSE "deleteSave")
  /\ UNCHANGED <<layer, switching, plock, flag, runtime, core, savers, left, excused>>

\* Refused: the closure hands back the profiles as they were.
Refused(c) ==
  /\ At(c, "refused") /\ GivePermit /\ ReplaceWith(op[c].clone) /\ Goto(c, "end")
  /\ UNCHANGED <<draft, disk, switching, plock, flag, runtime, core, savers, left, excused>>

DeleteSave(c) ==
  /\ At(c, "deleteSave")
  /\ \/ /\ disk' = Without(op[c].clone, op[c].arg) /\ ReplaceWith(Without(op[c].clone, op[c].arg))
        /\ GivePermit /\ Goto(c, "end")
     \/ /\ UNCHANGED <<data, disk>>
        /\ IF flag = c THEN Goto(c, "rollback") /\ UNCHANGED permit
                       ELSE Goto(c, "end") /\ GivePermit
  /\ UNCHANGED <<draft, switching, plock, flag, runtime, core, savers, left, excused>>

\* restore_profile_config: one more update, from the profiles as they were; if it
\* fails too, the core is left with the other.
\* fault: the core keeps what it was given.
RolledBack_Not(c) == core
RolledBack(c) == op[c].clone.cur
Rollback(c) ==
  /\ At(c, "rollback") /\ GivePermit /\ Goto(c, "end")
  /\ \/ /\ core' = RolledBack(c) /\ runtime' = op[c].clone.cur /\ UNCHANGED excused
     \/ excused' = TRUE /\ UNCHANGED <<core, runtime>>
  /\ UNCHANGED <<layer, switching, plock, flag, savers, left>>

\* profiles_append_item_safe; a link that cannot be imported discards the draft,
\* whosever it is.
AppendItem(c) ==
  /\ At(c, "append") /\ GivePermit
  /\ \/ /\ permit.fresh /\ data' = Appended(op[c].clone, op[c].arg)
        /\ Goto(c, "enterSaveItem") /\ UNCHANGED <<draft, excused>>
     \/ /\ draft' = NoDraft /\ Over(c) /\ UNCHANGED data
        /\ excused' = (excused \/ draft # NoDraft)
  /\ UNCHANGED <<disk, switching, plock, flag, runtime, core, savers, left>>
IsFirst(c) == op[c].first /\ Latest.cur = op[c].arg
SaveItem(c) ==
  /\ At(c, "saveItem") /\ GivePermit /\ ReplaceWith(op[c].clone) /\ disk' = op[c].clone
  /\ IF IsFirst(c) THEN Goto(c, "update") ELSE Over(c)
  /\ excused' = (excused \/ (~IsFirst(c) /\ data.cur = op[c].arg))
  /\ UNCHANGED <<draft, switching, plock, flag, runtime, core, savers, left>>

\* profiles_update_item_safe saves inside its closure; then the core, if the
\* profile is the current one.
UpdateItem(c) ==
  /\ At(c, "item") /\ GivePermit
  /\ \/ op[c].arg \notin Members(op[c].clone.items) /\ Over(c) /\ UNCHANGED <<data, disk>>
     \/ /\ op[c].arg \in Members(op[c].clone.items)
        /\ disk' = op[c].clone /\ ReplaceWith(op[c].clone)
        /\ IF permit.fresh /\ Latest.cur = op[c].arg THEN Goto(c, "update") ELSE Over(c)
  /\ UNCHANGED <<draft, switching, plock, flag, runtime, core, savers, left, excused>>

\* patch_profile and reorder_profile: saved inside the closure too.
PatchItem(c) ==
  /\ At(c, "patch") /\ GivePermit /\ Over(c)
  /\ \/ op[c].arg \notin Members(op[c].clone.items) /\ UNCHANGED <<data, disk>>
     \/ /\ op[c].arg \in Members(op[c].clone.items)
        /\ disk' = op[c].clone /\ ReplaceWith(op[c].clone)
  /\ UNCHANGED <<draft, switching, plock, flag, runtime, core, savers, left, excused>>

Step(c) ==
  \/ LockProfiles(c) \/ Stage(c) \/ BeginUpdate(c) \/ Debounce(c) \/ Generate(c) \/ Apply(c)
  \/ Discard(c) \/ Enter(c, "enterCommit", "commit") \/ Commit(c)
  \/ Enter(c, "enterSave", "save") \/ Save(c)
  \/ Undo(c) \/ PutBack(c) \/ PutBackApply(c) \/ End(c)
  \/ Enter(c, "enterDelete", "planDelete") \/ PlanDelete(c) \/ Refused(c) \/ DeleteSave(c) \/ Rollback(c)
  \/ Enter(c, "enterAppend", "append") \/ AppendItem(c)
  \/ Enter(c, "enterSaveItem", "saveItem") \/ SaveItem(c)
  \/ Enter(c, "enterItem", "item") \/ UpdateItem(c)
  \/ Enter(c, "enterPatch", "patch") \/ PatchItem(c)

Next == (\E c \in Callers : Begin(c) \/ Step(c)) \/ SaverTask \/ StartCore
Spec == Init /\ [][Next]_vars

----------------------------------------------------------------------------
AtRest == (\A c \in Callers : At(c, "idle")) /\ savers = 0

\* When nothing is under way the core, if it runs, runs the current profile,
\* however switches and deletions have failed and whoever wrote the profiles
\* meanwhile; and so does a core that is started later.  Left out: an update made
\* between a switch's staging and its commit or undoing, which takes an unsettled
\* profile; a draft discarded by an import; an import's own update that is refused;
\* an import whose profile becomes current and that asks for no update, because one
\* was current when it began or because a switch's draft hides it; and a deletion
\* whose rollback fails too.
CoreRunsCurrent ==
  AtRest /\ ~excused => draft = NoDraft /\ runtime = data.cur /\ core \in {data.cur, "down"}

\* When nothing is under way the file holds the profiles of memory, although
\* updates save it inside with_data_modify before they know whether the data may
\* be replaced, and a failed switch replaces the data without asking.  Left out:
\* a file that cannot be written, which is only logged.
FileFollowsData == AtRest => disk = data
============================================================================
