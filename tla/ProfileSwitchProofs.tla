---------------------------- MODULE ProfileSwitchProofs ----------------------------
(*********************************************************************************)
(* What is proved of switches, deletions, imports and updates of profiles: when  *)
(* nothing is under way the core runs the current profile and the file holds the *)
(* profiles of memory, for every set of callers, every list of profiles and any  *)
(* number of commands.                                                           *)
(*********************************************************************************)
EXTENDS ProfileSwitch, TLAPS

\* What the code gives the constants: a uid is drawn at random when its profile is made, so
\* that of an import is no other's, and neither is the marker of an absent draft.
Given ==
  /\ Nobody \notin Callers
  /\ Kinds \subseteq {"switch", "delete", "import", "update", "patch", "enhance"}
  /\ Uids \in Seq(Members(Uids)) /\ Uids # << >>
  /\ Imported \notin Members(Uids)
  /\ NoDraft.cur \notin Members(Uids) \cup {Imported}

Uid == Members(Uids) \cup {Imported}
Current == Uid \cup {NoUid}
Profiles == [cur : Current, items : Seq(Uid)]
AllKinds == {"switch", "delete", "import", "update", "patch", "enhance", "none"}

\* Where only a command of one kind may be, and where more than one.
Switching == {"stage", "discard", "enterCommit", "commit", "enterSave", "save", "undo", "putBack",
              "putBackApply"}
Deleting == {"enterDelete", "planDelete", "refused", "deleteSave", "rollback"}
Locking == {"lock", "end"}
Importing == {"enterAppend", "append", "enterSaveItem", "saveItem"}
Updating == {"update", "generate", "apply"}
Places == Switching \cup Deleting \cup Locking \cup Importing \cup Updating
            \cup {"enterItem", "item", "enterPatch", "patch", "idle"}

Operations == [kind : AllKinds, arg : Current, at : Places, prev : Current, to : Current,
               clone : Profiles \cup {NoDraft}, first : BOOLEAN]

Typed ==
  /\ data \in Profiles /\ disk \in Profiles /\ draft \in Profiles \cup {NoDraft}
  /\ permit \in [by : Callers \cup {Nobody}, fresh : BOOLEAN]
  /\ runtime \in Current /\ core \in Current \cup {"down"} /\ savers \in Nat
  /\ op \in [Callers -> Operations]
  /\ excused \in BOOLEAN

IsSwitch(c) == op[c].kind = "switch"
IsDelete(c) == op[c].kind = "delete"
IsImport(c) == op[c].kind = "import"

\* A caller is where its command goes, and what is switched to or deleted was there at first.
CallFits(c) ==
  /\ op[c].at \in Switching => IsSwitch(c)
  /\ op[c].at \in Deleting => IsDelete(c)
  /\ op[c].at \in Locking => IsSwitch(c) \/ IsDelete(c)
  /\ op[c].at \in Importing => IsImport(c)
  /\ op[c].at \in {"enterItem", "item", "enterPatch", "patch", "idle"} =>
       ~IsSwitch(c) /\ ~IsDelete(c) /\ ~IsImport(c)
  /\ IsSwitch(c) \/ IsDelete(c) => op[c].arg \in Members(Uids)
  /\ IsImport(c) => op[c].arg = Imported

\* Who is inside with_data_modify.
Inside(c) == \/ op[c].at \in {"commit", "save", "planDelete", "refused", "deleteSave", "rollback",
                              "append", "saveItem", "item", "patch"}
             \/ IsDelete(c) /\ op[c].at \in Updating

\* Whoever is inside has the permit; its clone is the data, unless a failed switch has put
\* a profile back meanwhile, and then the file is still to be saved.
PermitFits(c) ==
  Inside(c) =>
    /\ permit.by = c /\ op[c].clone \in Profiles
    /\ permit.fresh => op[c].clone = data
    /\ ~permit.fresh => savers > 0 /\ ~IsSwitch(c) /\ ~IsDelete(c)

\* Who holds PROFILE_WRITE_LOCK.
LockFits(c) == (IsSwitch(c) \/ IsDelete(c)) /\ op[c].at # "lock" => plock = c

\* Who holds the config_update flag: a deletion keeps it until it is over.
FlagFits(c) ==
  /\ op[c].at \in {"generate", "apply", "rollback"} => flag = c
  /\ flag = c => op[c].at \in {"generate", "apply", "deleteSave", "rollback", "end"}

\* What is deleted is there; and the core is asked first where it loses its profile.
DeleteFits(c) ==
  /\ IsDelete(c) /\ op[c].at \in Updating \cup {"deleteSave"} =>
       op[c].arg \in Members(op[c].clone.items)
  /\ IsDelete(c) /\ op[c].at = "apply" => op[c].to = Without(op[c].clone, op[c].arg).cur
  /\ op[c].at = "deleteSave" =>
       IF flag = c
       THEN runtime = Without(op[c].clone, op[c].arg).cur /\ core \in {runtime, "down"}
       ELSE ~Loses(op[c].clone, op[c].arg)

\* A draft is that of a switch.
Staging(c) == IsSwitch(c) /\ op[c].at \in {"update", "generate", "apply", "discard", "undo", "putBackApply"}
DraftFits == draft # NoDraft => \E c \in Callers : Staging(c)

\* What a switch may put back is still current, unless there was none.
PrevFits(c) ==
  /\ IsSwitch(c) /\ op[c].at \in {"update", "generate", "apply", "undo", "putBack", "putBackApply"} =>
       op[c].prev \in {NoUid, data.cur}
  /\ op[c].at \in {"putBack", "putBackApply"} => op[c].prev # NoUid
  /\ op[c].at = "putBackApply" => draft = NoDraft \/ draft.cur = op[c].prev

\* What memory holds and the file does not will be saved.
Saving(c) == op[c].at \in {"enterSave", "save", "enterSaveItem", "saveItem"}
DiskFits == disk = data \/ savers > 0 \/ \E c \in Callers : Saving(c)

----------------------------------------------------------------------------------
(* The rest holds unless something happened that the property leaves out.         *)

\* An import that has made its profile the current one, and has the core still to update.
Saves(d) == IsImport(d) /\ op[d].at \in {"enterSaveItem", "saveItem"} /\ op[d].arg = data.cur
Unseen(d) == Saves(d) /\ op[d].arg # draft.cur
Waiting(d) == Saves(d) \/ (IsImport(d) /\ op[d].at = "update")
Pending(d) == Waiting(d) \/ (IsImport(d) /\ op[d].at \in {"generate", "apply"})

\* A switch has staged what its target will be, if that is there.
StageFits(c) ==
  IsSwitch(c) /\ op[c].at \in {"update", "generate", "apply", "discard"} =>
    /\ draft # NoDraft
    /\ op[c].arg \in Members(data.items) => draft.cur = op[c].arg
    /\ op[c].arg \notin Members(data.items) => draft.cur = data.cur \/ \E d \in Callers : Unseen(d)
    /\ op[c].at = "apply" => op[c].to = draft.cur

\* From its application to its commit, what a switch will commit is what the core runs, and
\* nobody else applies anything.
Ahead(c) == IsSwitch(c) /\ op[c].at \in {"discard", "enterCommit", "commit"}
AheadFits(c) ==
  Ahead(c) =>
    /\ runtime = op[c].to /\ core \in {op[c].to, "down"}
    /\ op[c].arg \in Members(data.items) => op[c].to = op[c].arg
    /\ op[c].arg \notin Members(data.items) => op[c].to = data.cur \/ \E d \in Callers : Pending(d)
    /\ \A d \in Callers : op[d].at # "apply"

\* What an update applies is the current profile, or an import is still to update the core.
ApplyFits(c) ==
  op[c].at = "apply" /\ ~IsSwitch(c) /\ ~IsDelete(c) =>
    op[c].to = data.cur \/ \E d \in Callers : Waiting(d)

\* The core runs the current profile, or somebody is about to see to it.
Agree == runtime = data.cur /\ core \in {data.cur, "down"}
Undoing(c) == op[c].at \in {"deleteSave", "rollback"} /\ flag = c
CoreFits == Agree \/ \E c \in Callers : Pending(c) \/ Ahead(c) \/ Undoing(c)

CallsFit == \A c \in Callers : CallFits(c)
PermitsFit == \A c \in Callers : PermitFits(c)
LocksFit == \A c \in Callers : LockFits(c)
FlagsFit == \A c \in Callers : FlagFits(c)
DeletesFit == \A c \in Callers : DeleteFits(c)
PrevsFit == \A c \in Callers : PrevFits(c)
StagesFit == excused \/ \A c \in Callers : StageFits(c)
AheadsFit == excused \/ \A c \in Callers : AheadFits(c)
AppliesFit == excused \/ \A c \in Callers : ApplyFits(c)
CoreIsFit == excused \/ CoreFits

IInv == /\ Typed /\ CallsFit /\ PermitsFit /\ LocksFit /\ FlagsFit /\ DeletesFit /\ DraftFits
        /\ PrevsFit /\ DiskFits /\ StagesFit /\ AheadsFit /\ AppliesFit /\ CoreIsFit

----------------------------------------------------------------------------------
(* How a caller moves.                                                             *)

Others(c) == \A d \in Callers : d # c => op'[d] = op[d]
Kept(c) == /\ op'[c].kind = op[c].kind /\ op'[c].arg = op[c].arg /\ op'[c].first = op[c].first
           /\ Others(c) /\ op' \in [Callers -> Operations]
Moved(c, place) == /\ Kept(c) /\ op'[c].at = place /\ op'[c].prev = op[c].prev
                   /\ op'[c].to = op[c].to /\ op'[c].clone = op[c].clone
Ended(c) == Others(c) /\ op' \in [Callers -> Operations] /\ op'[c].kind = "none" /\ op'[c].at = "idle"

\* A call that is not there is typed.
LEMMA IdleFacts == Idle \in Operations /\ Idle.kind = "none" /\ Idle.at = "idle"
BY DEF Idle, Operations, AllKinds, Current, Places

\* A call that goes to a place changes nothing else of it.
LEMMA GotoMoves ==
  ASSUME Typed, NEW c \in Callers, NEW place \in Places, Goto(c, place) PROVE Moved(c, place)
<1>1. op \in [Callers -> Operations]
  BY DEF Typed
<1>2. op[c] \in Operations
  BY <1>1
<1>3. PICK r : r = [op[c] EXCEPT !.at = place]
  OBVIOUS
<1>4. r \in Operations /\ r.at = place /\ r.kind = op[c].kind /\ r.arg = op[c].arg /\ r.prev = op[c].prev
      /\ r.to = op[c].to /\ r.clone = op[c].clone /\ r.first = op[c].first
  BY <1>2, <1>3 DEF Operations
<1>5. op' = [op EXCEPT ![c] = r]
  BY <1>3 DEF Goto
<1>6. op' \in [Callers -> Operations] /\ op'[c] = r /\ \A d \in Callers : d # c => op'[d] = op[d]
  BY <1>1, <1>4, <1>5
<1> QED BY <1>4, <1>6 DEF Moved, Kept, Others

\* A call that is over is idle.
LEMMA OverEnds == ASSUME Typed, NEW c \in Callers, Over(c) PROVE Ended(c)
<1>1. op \in [Callers -> Operations]
  BY DEF Typed
<1>2. op' = [op EXCEPT ![c] = Idle]
  BY DEF Over
<1> QED BY <1>1, <1>2, IdleFacts DEF Ended, Others

----------------------------------------------------------------------------------
(* What each step does.                                                            *)

EnterDoes(c) ==
  /\ permit.by = Nobody /\ permit' = [by |-> c, fresh |-> TRUE]
  /\ Kept(c) /\ op'[c].prev = op[c].prev /\ op'[c].to = op[c].to /\ op'[c].clone = data
  /\ \/ op[c].at = "enterCommit" /\ op'[c].at = "commit"
     \/ op[c].at = "enterSave" /\ op'[c].at = "save"
     \/ op[c].at = "enterDelete" /\ op'[c].at = "planDelete"
     \/ op[c].at = "enterAppend" /\ op'[c].at = "append"
     \/ op[c].at = "enterSaveItem" /\ op'[c].at = "saveItem"
     \/ op[c].at = "enterItem" /\ op'[c].at = "item"
     \/ op[c].at = "enterPatch" /\ op'[c].at = "patch"
  /\ UNCHANGED <<data, draft, disk, plock, flag, runtime, core, savers, excused>>
Enters(c) ==
  \/ Enter(c, "enterCommit", "commit") \/ Enter(c, "enterSave", "save")
  \/ Enter(c, "enterDelete", "planDelete") \/ Enter(c, "enterAppend", "append")
  \/ Enter(c, "enterSaveItem", "saveItem") \/ Enter(c, "enterItem", "item")
  \/ Enter(c, "enterPatch", "patch")
\* with_data_modify: the permit, and a clone of the data.
LEMMA EnterMoves ==
  ASSUME Typed, NEW c \in Callers, NEW from \in Places, NEW to \in Places, Enter(c, from, to)
  PROVE  /\ permit.by = Nobody /\ permit' = [by |-> c, fresh |-> TRUE]
         /\ Kept(c) /\ op'[c].prev = op[c].prev /\ op'[c].to = op[c].to /\ op'[c].clone = data
         /\ op[c].at = from /\ op'[c].at = to
         /\ UNCHANGED <<data, draft, disk, plock, flag, runtime, core, savers, excused>>
<1>1. op \in [Callers -> Operations] /\ data \in Profiles
  BY DEF Typed
<1>2. op[c] \in Operations
  BY <1>1
<1>3. PICK r : r = [op[c] EXCEPT !.at = to, !.clone = data]
  OBVIOUS
<1>4. r \in Operations /\ r.at = to /\ r.kind = op[c].kind /\ r.arg = op[c].arg /\ r.prev = op[c].prev
      /\ r.to = op[c].to /\ r.clone = data /\ r.first = op[c].first
  BY <1>1, <1>2, <1>3 DEF Operations
<1>5. op' = [op EXCEPT ![c] = r]
  <2>1. op' = [op EXCEPT ![c].at = to, ![c].clone = data]
    BY DEF Enter
  <2> QED BY <1>1, <1>3, <2>1
<1>6. op' \in [Callers -> Operations] /\ op'[c] = r /\ \A d \in Callers : d # c => op'[d] = op[d]
  BY <1>1, <1>4, <1>5
<1> QED BY <1>4, <1>6 DEF Kept, Others, Enter, At, TakePermit, layer

\* Who enters it.
LEMMA EntersMoves == ASSUME Typed, NEW c \in Callers, Enters(c) PROVE EnterDoes(c)
<1> USE EnterMoves DEF EnterDoes
<1>1. {"enterCommit", "commit", "enterSave", "save", "enterDelete", "planDelete", "enterAppend", "append",
       "enterSaveItem", "saveItem", "enterItem", "item", "enterPatch", "patch"} \subseteq Places
  BY DEF Places, Switching, Deleting, Locking, Importing, Updating
<1>2. CASE Enter(c, "enterCommit", "commit")
  BY <1>1, <1>2
<1>3. CASE Enter(c, "enterSave", "save")
  BY <1>1, <1>3
<1>4. CASE Enter(c, "enterDelete", "planDelete")
  BY <1>1, <1>4
<1>5. CASE Enter(c, "enterAppend", "append")
  BY <1>1, <1>5
<1>6. CASE Enter(c, "enterSaveItem", "saveItem")
  BY <1>1, <1>6
<1>7. CASE Enter(c, "enterItem", "item")
  BY <1>1, <1>7
<1>8. CASE Enter(c, "enterPatch", "patch")
  BY <1>1, <1>8
<1> QED BY <1>2, <1>3, <1>4, <1>5, <1>6, <1>7, <1>8 DEF Enters

\* Where the steps lead.
LEMMA PlacesAre ==
  {"stage", "enterDelete", "undo", "refused", "generate", "rollback", "discard", "deleteSave", "enterCommit",
   "enterSave", "end", "putBack", "putBackApply", "update", "enterSaveItem", "apply", "commit"} \subseteq Places
BY DEF Places, Switching, Deleting, Locking, Importing, Updating

BeginDoes(c) ==
  /\ op[c].at = "idle" /\ Others(c) /\ op' \in [Callers -> Operations]
  /\ \/ op'[c].kind \in {"switch", "delete"} /\ op'[c].arg \in Members(Uids) /\ op'[c].at = "lock"
     \/ op'[c].kind = "import" /\ op'[c].arg = Imported /\ op'[c].at = "enterAppend"
     \/ op'[c].kind = "update" /\ op'[c].at = "enterItem"
     \/ op'[c].kind = "patch" /\ op'[c].at = "enterPatch"
     \/ op'[c].kind = "enhance" /\ op'[c].at = "update"
  /\ UNCHANGED <<data, draft, disk, permit, plock, flag, runtime, core, savers, excused>>
\* A command begins, with a profile that was there at first or the one it imports.
LEMMA BeginMoves == ASSUME Given, Typed, NEW c \in Callers, Begin(c) PROVE BeginDoes(c)
<1>1. op \in [Callers -> Operations] /\ op[c].at = "idle"
  BY DEF Typed, Begin, At
<1>2. UNCHANGED <<data, draft, disk, permit, plock, flag, runtime, core, savers, excused>>
  BY DEF Begin, layer
<1>3. PICK k \in Kinds, u \in Members(Uids) :
        LET start == [Idle EXCEPT !.kind = k, !.arg = u] IN
        CASE k = "switch"  -> /\ ~switching /\ switching' = TRUE
                              /\ op' = [op EXCEPT ![c] = [start EXCEPT !.at = "lock"]]
          [] k = "delete"  -> op' = [op EXCEPT ![c] = [start EXCEPT !.at = "lock"]] /\ UNCHANGED switching
          [] k = "import"  -> /\ Imported \notin Members(data.items) /\ UNCHANGED switching
                              /\ op' = [op EXCEPT ![c] = [start EXCEPT !.at = "enterAppend", !.arg = Imported,
                                                                       !.first = Latest.cur = NoUid]]
          [] k = "update"  -> op' = [op EXCEPT ![c] = [start EXCEPT !.at = "enterItem"]] /\ UNCHANGED switching
          [] k = "patch"   -> op' = [op EXCEPT ![c] = [start EXCEPT !.at = "enterPatch"]] /\ UNCHANGED switching
          [] k = "enhance" -> op' = [op EXCEPT ![c] = [start EXCEPT !.at = "update"]] /\ UNCHANGED switching
  BY Zenon DEF Begin
<1>4. k \in {"switch", "delete", "import", "update", "patch", "enhance"}
  BY DEF Given
<1> DEFINE start == [Idle EXCEPT !.kind = k, !.arg = u]
<1>5. PICK b \in BOOLEAN : b = (Latest.cur = NoUid)
  BY Zenon
<1>6. \/ k \in {"switch", "delete"} /\ op' = [op EXCEPT ![c] = [start EXCEPT !.at = "lock"]]
      \/ k = "import" /\ op' = [op EXCEPT ![c] = [start EXCEPT !.at = "enterAppend", !.arg = Imported, !.first = b]]
      \/ k = "update" /\ op' = [op EXCEPT ![c] = [start EXCEPT !.at = "enterItem"]]
      \/ k = "patch" /\ op' = [op EXCEPT ![c] = [start EXCEPT !.at = "enterPatch"]]
      \/ k = "enhance" /\ op' = [op EXCEPT ![c] = [start EXCEPT !.at = "update"]]
  <2>1. CASE k = "switch"
    BY Zenon, <1>3, <2>1
  <2>2. CASE k = "delete"
    BY Zenon, <1>3, <2>2
  <2>3. CASE k = "import"
    BY Zenon, <1>3, <1>5, <2>3
  <2>4. CASE k = "update"
    BY Zenon, <1>3, <2>4
  <2>5. CASE k = "patch"
    BY Zenon, <1>3, <2>5
  <2>6. CASE k = "enhance"
    BY Zenon, <1>3, <2>6
  <2> QED BY Zenon, <1>4, <2>1, <2>2, <2>3, <2>4, <2>5, <2>6
<1>7. PICK s : s = start
  OBVIOUS
<1>8. /\ s.kind = k /\ s.arg = u /\ s.at = "idle" /\ s \in Operations
  BY <1>4, <1>7, IdleFacts DEF Idle, Operations, AllKinds, Current, Uid
<1>9. ASSUME NEW r \in Operations, op' = [op EXCEPT ![c] = r]
      PROVE  Others(c) /\ op' \in [Callers -> Operations] /\ op'[c] = r
  BY <1>1, <1>9 DEF Others
<1>10. ASSUME NEW place \in Places, op' = [op EXCEPT ![c] = [s EXCEPT !.at = place]]
       PROVE  /\ Others(c) /\ op' \in [Callers -> Operations]
              /\ op'[c].kind = k /\ op'[c].arg = u /\ op'[c].at = place
  <2>1. PICK r : r = [s EXCEPT !.at = place]
    OBVIOUS
  <2>2. r \in Operations /\ r.kind = k /\ r.arg = u /\ r.at = place
    BY <1>8, <2>1 DEF Operations
  <2>3. op' = [op EXCEPT ![c] = r]
    BY Zenon, <1>10, <2>1
  <2> QED BY <1>9, <2>2, <2>3
<1>11. {"lock", "enterAppend", "enterItem", "enterPatch", "update"} \subseteq Places
  BY DEF Places, Switching, Deleting, Locking, Importing, Updating
<1>12. CASE k \in {"switch", "delete"} /\ op' = [op EXCEPT ![c] = [start EXCEPT !.at = "lock"]]
  <2>1. op' = [op EXCEPT ![c] = [s EXCEPT !.at = "lock"]]
    BY Zenon, <1>7, <1>12
  <2>2. Others(c) /\ op' \in [Callers -> Operations] /\ op'[c].kind = k /\ op'[c].arg = u /\ op'[c].at = "lock"
    BY Zenon, <1>10, <1>11, <2>1
  <2> QED BY <1>1, <1>2, <1>12, <2>2 DEF BeginDoes
<1>13. CASE k = "import" /\ op' = [op EXCEPT ![c] = [start EXCEPT !.at = "enterAppend", !.arg = Imported, !.first = b]]
  <2>1. PICK r : r = [s EXCEPT !.at = "enterAppend", !.arg = Imported, !.first = b]
    OBVIOUS
  <2>2. op' = [op EXCEPT ![c] = r]
    BY Zenon, <1>7, <1>13, <2>1
  <2>3. r \in Operations /\ r.kind = k /\ r.arg = Imported /\ r.at = "enterAppend"
    BY <1>5, <1>8, <1>11, <2>1 DEF Operations, Current, Uid
  <2> QED BY <1>1, <1>2, <1>9, <1>13, <2>2, <2>3 DEF BeginDoes
<1>14. CASE k = "update" /\ op' = [op EXCEPT ![c] = [start EXCEPT !.at = "enterItem"]]
  <2>1. op' = [op EXCEPT ![c] = [s EXCEPT !.at = "enterItem"]]
    BY Zenon, <1>7, <1>14
  <2>2. Others(c) /\ op' \in [Callers -> Operations] /\ op'[c].kind = k /\ op'[c].arg = u /\ op'[c].at = "enterItem"
    BY Zenon, <1>10, <1>11, <2>1
  <2> QED BY <1>1, <1>2, <1>14, <2>2 DEF BeginDoes
<1>15. CASE k = "patch" /\ op' = [op EXCEPT ![c] = [start EXCEPT !.at = "enterPatch"]]
  <2>1. op' = [op EXCEPT ![c] = [s EXCEPT !.at = "enterPatch"]]
    BY Zenon, <1>7, <1>15
  <2>2. Others(c) /\ op' \in [Callers -> Operations] /\ op'[c].kind = k /\ op'[c].arg = u /\ op'[c].at = "enterPatch"
    BY Zenon, <1>10, <1>11, <2>1
  <2> QED BY <1>1, <1>2, <1>15, <2>2 DEF BeginDoes
<1>16. CASE k = "enhance" /\ op' = [op EXCEPT ![c] = [start EXCEPT !.at = "update"]]
  <2>1. op' = [op EXCEPT ![c] = [s EXCEPT !.at = "update"]]
    BY Zenon, <1>7, <1>16
  <2>2. Others(c) /\ op' \in [Callers -> Operations] /\ op'[c].kind = k /\ op'[c].arg = u /\ op'[c].at = "update"
    BY Zenon, <1>10, <1>11, <2>1
  <2> QED BY <1>1, <1>2, <1>16, <2>2 DEF BeginDoes
<1> QED BY <1>6, <1>12, <1>13, <1>14, <1>15, <1>16

LockDoes(c) ==
  /\ op[c].at = "lock" /\ plock = Nobody /\ plock' = c
  /\ Moved(c, IF IsSwitch(c) THEN "stage" ELSE "enterDelete")
  /\ UNCHANGED <<data, draft, disk, permit, flag, runtime, core, savers, excused>>
\* A switch or a deletion has PROFILE_WRITE_LOCK.
LEMMA LockMoves == ASSUME Typed, NEW c \in Callers, LockProfiles(c) PROVE LockDoes(c)
BY GotoMoves, PlacesAre DEF LockDoes, LockProfiles, At, IsSwitch, layer

\* Whoever stages is one profile further; nothing is put into the data yet.
StageDoes(c) ==
  /\ op[c].at = "stage" /\ draft' = Patched(Latest, op[c].arg)
  /\ Kept(c) /\ op'[c].at = "update" /\ op'[c].prev = data.cur /\ op'[c].to = op[c].to /\ op'[c].clone = op[c].clone
  /\ UNCHANGED <<data, disk, permit, plock, flag, runtime, core, savers, excused>>
\* A switch stages its target.
LEMMA StageMoves == ASSUME Typed, NEW c \in Callers, Stage(c) PROVE StageDoes(c)
<1>1. op \in [Callers -> Operations] /\ data.cur \in Current
  BY DEF Typed, Profiles
<1>2. op[c] \in Operations
  BY <1>1
<1>3. PICK r : r = [op[c] EXCEPT !.at = "update", !.prev = data.cur]
  OBVIOUS
<1>4. r \in Operations /\ r.at = "update" /\ r.kind = op[c].kind /\ r.arg = op[c].arg /\ r.prev = data.cur
      /\ r.to = op[c].to /\ r.clone = op[c].clone /\ r.first = op[c].first
  BY <1>1, <1>2, <1>3, PlacesAre DEF Operations
<1>5. op' = [op EXCEPT ![c] = r]
  <2>1. op' = [op EXCEPT ![c].at = "update", ![c].prev = data.cur]
    BY DEF Stage
  <2> QED BY <1>1, <1>3, <2>1
<1>6. op' \in [Callers -> Operations] /\ op'[c] = r /\ \A d \in Callers : d # c => op'[d] = op[d]
  BY <1>1, <1>4, <1>5
<1> QED BY <1>4, <1>6 DEF StageDoes, Kept, Others, Stage, At, locks

TakeFlagDoes(c) ==
  /\ op[c].at = "update" /\ flag = Nobody /\ flag' = c /\ Moved(c, "generate")
  /\ UNCHANGED <<data, draft, disk, permit, plock, runtime, core, savers, excused>>

\* An update that is refused, is skipped or fails: a switch is undone, a deletion is given up
\* or undone, and of an import nobody tells the core.
FailDoes(c) ==
  /\ op[c].at \in Updating
  /\ flag' \in {flag, Nobody} /\ (flag = c \/ (op[c].at = "update" /\ flag' = flag))
  /\ excused' \in BOOLEAN /\ (excused => excused')
  /\ core' \in {core, "down"} /\ (op[c].at # "apply" => core' = core)
  /\ \/ IsSwitch(c) /\ Moved(c, "undo") /\ (flag = c => flag' = Nobody)
     \/ IsDelete(c) /\ Moved(c, "refused") /\ (flag = c => flag' = Nobody) /\ core' = core
     \/ IsDelete(c) /\ Moved(c, "rollback") /\ flag = c /\ flag' = flag
     \/ /\ ~IsSwitch(c) /\ ~IsDelete(c) /\ Ended(c) /\ (flag = c => flag' = Nobody)
        /\ IsImport(c) => excused'
  /\ UNCHANGED <<data, draft, disk, permit, plock, runtime, savers>>

\* Calls that are where only a call of their kind can be.
LEMMA Fails ==
  ASSUME Typed, FlagsFit, NEW c \in Callers,
         UpdateFails(c), op[c].at \in {"generate", "apply"}
  PROVE  /\ flag = c /\ flag' \in {flag, Nobody} /\ excused' \in BOOLEAN /\ (excused => excused')
         /\ \/ IsSwitch(c) /\ Moved(c, "undo") /\ flag' = Nobody
            \/ IsDelete(c) /\ Moved(c, "rollback") /\ flag' = flag
            \/ ~IsSwitch(c) /\ ~IsDelete(c) /\ Ended(c) /\ flag' = Nobody /\ (IsImport(c) => excused')
<1> USE DEF IsSwitch, IsDelete, IsImport
<1>0. flag = c /\ excused \in BOOLEAN
  BY DEF FlagsFit, FlagFits, Typed
<1>1. CASE op[c].kind = "switch"
  <2>1. Goto(c, "undo") /\ flag' = Nobody /\ excused' = excused
    BY Zenon, <1>1 DEF UpdateFails
  <2> QED BY <1>0, <1>1, <2>1, GotoMoves, PlacesAre
<1>2. CASE op[c].kind = "delete"
  <2>1. Goto(c, "rollback") /\ flag' = flag /\ excused' = excused
    BY Zenon, <1>2 DEF UpdateFails
  <2> QED BY <1>0, <1>2, <2>1, GotoMoves, PlacesAre
<1>3. CASE op[c].kind = "import"
  <2>1. Over(c) /\ flag' = Nobody /\ excused' = TRUE
    BY Zenon, <1>3 DEF UpdateFails
  <2> QED BY <1>0, <1>3, <2>1, OverEnds
<1>4. CASE op[c].kind \notin {"switch", "delete", "import"}
  <2>1. Over(c) /\ flag' = Nobody /\ excused' = excused
    BY Zenon, <1>4 DEF UpdateFails
  <2> QED BY <1>0, <1>4, <2>1, OverEnds
<1> QED BY <1>1, <1>2, <1>3, <1>4

\* An update that is refused leads to what a failed one leads to.
LEMMA Refuses ==
  ASSUME Typed, NEW c \in Callers, Refusal(c)
  PROVE  /\ UNCHANGED permit /\ excused' \in BOOLEAN /\ (excused => excused')
         /\ \/ IsSwitch(c) /\ Moved(c, "undo")
            \/ IsDelete(c) /\ Moved(c, "refused")
            \/ ~IsSwitch(c) /\ ~IsDelete(c) /\ Ended(c) /\ (IsImport(c) => excused')
<1> USE DEF IsSwitch, IsDelete, IsImport
<1>0. excused \in BOOLEAN
  BY DEF Typed
<1>1. CASE op[c].kind = "switch"
  <2>1. Goto(c, "undo") /\ UNCHANGED permit /\ excused' = excused
    BY Zenon, <1>1 DEF Refusal
  <2> QED BY <1>0, <1>1, <2>1, GotoMoves, PlacesAre
<1>2. CASE op[c].kind = "delete"
  <2>1. Goto(c, "refused") /\ UNCHANGED permit /\ excused' = excused
    BY Zenon, <1>2 DEF Refusal
  <2> QED BY <1>0, <1>2, <2>1, GotoMoves, PlacesAre
<1>3. CASE op[c].kind = "import"
  <2>1. Over(c) /\ UNCHANGED permit /\ excused' = TRUE
    BY Zenon, <1>3 DEF Refusal
  <2> QED BY <1>0, <1>3, <2>1, OverEnds
<1>4. CASE op[c].kind \notin {"switch", "delete", "import"}
  <2>1. Over(c) /\ UNCHANGED permit /\ excused' = excused
    BY Zenon, <1>4 DEF Refusal
  <2> QED BY <1>0, <1>4, <2>1, OverEnds
<1> QED BY <1>1, <1>2, <1>3, <1>4

\* An update takes the flag or is refused.
LEMMA BeginUpdateMoves ==
  ASSUME Given, Typed, FlagsFit, NEW c \in Callers, BeginUpdate(c)
  PROVE  TakeFlagDoes(c) \/ FailDoes(c)
<1>1. op[c].at = "update" /\ UNCHANGED <<data, draft, disk, plock, runtime, core, savers>>
  BY DEF BeginUpdate, At, layer
<1>2. CASE flag # Nobody /\ Refusal(c) /\ UNCHANGED flag
  <2>1. flag # c
    BY <1>1 DEF FlagsFit, FlagFits
  <2> QED BY <1>1, <1>2, <2>1, Refuses DEF FailDoes, Updating, Moved, Kept, Ended, Others
<1>3. CASE flag = Nobody /\ flag' = c /\ Goto(c, "generate") /\ UNCHANGED <<excused, permit>>
  BY <1>1, <1>3, GotoMoves, PlacesAre DEF TakeFlagDoes
<1> QED BY <1>2, <1>3 DEF BeginUpdate

\* An update that is skipped ends the call.
LEMMA DebounceMoves ==
  ASSUME Given, Typed, FlagsFit, NEW c \in Callers, Debounce(c) PROVE FailDoes(c)
BY OverEnds
DEF Debounce, FailDoes, At, layer, locks, Updating, IsSwitch, IsDelete, IsImport, Typed, FlagsFit,
    FlagFits

GenerateDoes(c) ==
  /\ op[c].at = "generate" /\ Kept(c) /\ op'[c].at = "apply" /\ op'[c].prev = op[c].prev
  /\ op'[c].to = Source(c) /\ op'[c].clone = op[c].clone
  /\ excused' \in BOOLEAN /\ (excused => excused') /\ (~IsDelete(c) /\ CrossesSwitch(c) => excused')
  /\ UNCHANGED <<data, draft, disk, permit, plock, flag, runtime, core, savers>>
\* A configuration is generated, or the update fails.
LEMMA GenerateMoves ==
  ASSUME Typed, FlagsFit, NEW c \in Callers, Generate(c), Source(c) \in Current
  PROVE  GenerateDoes(c) \/ FailDoes(c)
<1>1. op[c].at = "generate" /\ UNCHANGED <<data, draft, disk, permit, plock, runtime, core, savers>>
  BY DEF Generate, At, layer
<1>2. CASE /\ op' = [op EXCEPT ![c].at = "apply", ![c].to = Source(c)] /\ UNCHANGED flag
           /\ excused' = (excused \/ (op[c].kind # "delete" /\ CrossesSwitch(c)))
  <2>1. op \in [Callers -> Operations] /\ excused \in BOOLEAN
    BY DEF Typed
  <2>2. op[c] \in Operations
    BY <2>1
  <2>3. PICK s \in Current : s = Source(c)
    OBVIOUS
  <2>4. PICK r : r = [op[c] EXCEPT !.at = "apply", !.to = s]
    OBVIOUS
  <2>5. r \in Operations /\ r.at = "apply" /\ r.kind = op[c].kind /\ r.arg = op[c].arg /\ r.prev = op[c].prev
        /\ r.to = s /\ r.clone = op[c].clone /\ r.first = op[c].first
    BY <2>2, <2>4, PlacesAre DEF Operations
  <2>6. op' = [op EXCEPT ![c] = r]
    <3>1. op' = [op EXCEPT ![c].at = "apply", ![c].to = s]
      BY Zenon, <1>2, <2>3
    <3> QED BY <2>1, <2>4, <3>1
  <2>7. op' \in [Callers -> Operations] /\ op'[c] = r /\ \A d \in Callers : d # c => op'[d] = op[d]
    BY <2>1, <2>5, <2>6
  <2>8. excused' \in BOOLEAN /\ (excused => excused') /\ (op[c].kind # "delete" /\ CrossesSwitch(c) => excused')
    BY Zenon, <1>2, <2>1
  <2> QED BY <1>1, <1>2, <2>3, <2>5, <2>7, <2>8 DEF GenerateDoes, Kept, Others, IsDelete
<1>3. CASE UpdateFails(c)
  <2>1. op[c].at \in {"generate", "apply"} /\ op[c].at \in Updating /\ core' \in {core, "down"} /\ core' = core
    BY <1>1 DEF Updating
  <2>2. UNCHANGED <<data, draft, disk, permit, plock, runtime, savers>>
    BY <1>1
  <2> QED BY Zenon, <1>3, <2>1, <2>2, Fails DEF FailDoes
<1>4. CASE UpdateInvalid(c)
  <2>1. CASE op[c].kind = "delete"
    <3>1. Goto(c, "refused") /\ flag' = Nobody /\ UNCHANGED excused
      BY Zenon, <1>4, <2>1 DEF UpdateInvalid
    <3>2. flag = c /\ excused \in BOOLEAN
      BY <1>1 DEF FlagsFit, FlagFits, Typed
    <3>3. /\ Moved(c, "refused") /\ op[c].at \in Updating /\ core' \in {core, "down"} /\ core' = core
          /\ flag' \in {flag, Nobody} /\ UNCHANGED <<data, draft, disk, permit, plock, runtime, savers>>
      BY <1>1, <3>1, GotoMoves, PlacesAre DEF Updating
    <3>4. excused' \in BOOLEAN /\ (excused => excused')
      BY <3>1, <3>2
    <3> QED BY Zenon, <2>1, <3>1, <3>2, <3>3, <3>4 DEF FailDoes, IsDelete
  <2>2. CASE op[c].kind # "delete"
    <3>1. UpdateFails(c)
      BY Zenon, <1>4, <2>2 DEF UpdateInvalid
    <3> QED BY <1>3, <3>1
  <2> QED BY <2>1, <2>2
<1> QED BY <1>2, <1>3, <1>4 DEF Generate

\* What an update that has succeeded applies is what the core runs and will run.
ApplyDoes(c) ==
  /\ op[c].at = "apply" /\ flag = c /\ core' = op[c].to /\ runtime' = op[c].to
  /\ \/ IsSwitch(c) /\ Moved(c, "discard") /\ flag' = Nobody
     \/ IsDelete(c) /\ Moved(c, "deleteSave") /\ flag' = flag
     \/ ~IsSwitch(c) /\ ~IsDelete(c) /\ Ended(c) /\ flag' = Nobody
  /\ UNCHANGED <<data, draft, disk, permit, plock, savers, excused>>
\* It is applied, or the update fails.
LEMMA ApplyMoves ==
  ASSUME Typed, FlagsFit, NEW c \in Callers, Apply(c) PROVE ApplyDoes(c) \/ FailDoes(c)
<1>1. op[c].at = "apply" /\ UNCHANGED <<data, draft, disk, permit, plock, savers>>
  BY DEF Apply, At, layer
<1>2. flag = c
  BY <1>1 DEF FlagsFit, FlagFits
<1>3. CASE core' = op[c].to /\ runtime' = op[c].to /\ Applied(c) /\ UNCHANGED excused
  <2> USE DEF IsSwitch, IsDelete
  <2>1. CASE op[c].kind = "switch"
    <3>1. Goto(c, "discard") /\ flag' = Nobody
      BY Zenon, <1>3, <2>1 DEF Applied
    <3> QED BY <1>1, <1>2, <1>3, <2>1, <3>1, GotoMoves, PlacesAre DEF ApplyDoes
  <2>2. CASE op[c].kind = "delete"
    <3>1. Goto(c, "deleteSave") /\ flag' = flag
      BY Zenon, <1>3, <2>2 DEF Applied
    <3> QED BY <1>1, <1>2, <1>3, <2>2, <3>1, GotoMoves, PlacesAre DEF ApplyDoes
  <2>3. CASE op[c].kind \notin {"switch", "delete"}
    <3>1. Over(c) /\ flag' = Nobody
      BY Zenon, <1>3, <2>3 DEF Applied
    <3> QED BY <1>1, <1>2, <1>3, <2>3, <3>1, OverEnds DEF ApplyDoes
  <2> QED BY <2>1, <2>2, <2>3
<1>4. CASE UpdateFails(c) /\ core' \in {core, "down"} /\ runtime' = runtime
  <2>1. /\ op[c].at \in {"generate", "apply"} /\ op[c].at \in Updating /\ op[c].at = "apply"
        /\ UNCHANGED <<data, draft, disk, permit, plock, runtime, savers>>
    BY <1>1, <1>4 DEF Updating
  <2>2. core' = core \/ core' = "down"
    BY Zenon, <1>4
  <2>3. /\ flag = c /\ flag' \in {flag, Nobody} /\ excused' \in BOOLEAN /\ (excused => excused')
        /\ \/ IsSwitch(c) /\ Moved(c, "undo") /\ flag' = Nobody
           \/ IsDelete(c) /\ Moved(c, "rollback") /\ flag' = flag
           \/ ~IsSwitch(c) /\ ~IsDelete(c) /\ Ended(c) /\ flag' = Nobody /\ (IsImport(c) => excused')
    BY Zenon, <1>4, <2>1, Fails
  <2> QED BY Zenon, <1>4, <2>1, <2>3 DEF FailDoes
<1> QED BY <1>3, <1>4 DEF Apply

StartCoreDoes ==
  /\ core = "down" /\ flag = Nobody /\ core' = runtime
  /\ UNCHANGED <<data, draft, disk, permit, plock, flag, runtime, savers, op, excused>>
\* The core is started again.
LEMMA StartCoreMoves == StartCore => StartCoreDoes
BY DEF StartCore, StartCoreDoes, layer, locks

DiscardDoes(c) ==
  /\ op[c].at = "discard" /\ draft' = NoDraft /\ Moved(c, "enterCommit")
  /\ UNCHANGED <<data, disk, permit, plock, flag, runtime, core, savers, excused>>
\* A switch that has been applied discards its draft.
LEMMA DiscardMoves == ASSUME Typed, NEW c \in Callers, Discard(c) PROVE DiscardDoes(c)
BY GotoMoves, PlacesAre DEF Discard, DiscardDoes, At, locks

Opened == [by |-> Nobody, fresh |-> TRUE]
CommitDoes(c) ==
  /\ op[c].at = "commit" /\ permit' = Opened
  /\ \/ permit.fresh /\ data' = Patched(op[c].clone, op[c].arg) /\ Moved(c, "enterSave")
     \/ ~permit.fresh /\ data' = data /\ Moved(c, "end")
  /\ UNCHANGED <<draft, disk, plock, flag, runtime, core, savers, excused>>
\* It commits its target, unless the data were replaced under it.
LEMMA CommitMoves == ASSUME Typed, NEW c \in Callers, Commit(c) PROVE CommitDoes(c)
<1>1. permit.fresh \in BOOLEAN
  BY DEF Typed
<1> QED BY <1>1, GotoMoves, PlacesAre DEF Commit, CommitDoes, At, GivePermit, Opened, ReplaceWith

SaveDoes(c) ==
  /\ op[c].at = "save" /\ permit' = Opened /\ disk' = op[c].clone /\ Moved(c, "end")
  /\ data' = IF permit.fresh THEN op[c].clone ELSE data
  /\ UNCHANGED <<draft, plock, flag, runtime, core, savers, excused>>
\* It saves the profiles.
LEMMA SaveMoves == ASSUME Typed, NEW c \in Callers, Save(c) PROVE SaveDoes(c)
<1>1. permit.fresh \in BOOLEAN
  BY DEF Typed
<1> QED BY <1>1, GotoMoves, PlacesAre DEF Save, SaveDoes, At, GivePermit, Opened, ReplaceWith

UndoDoes(c) ==
  /\ op[c].at = "undo" /\ draft' = NoDraft /\ Moved(c, IF op[c].prev = NoUid THEN "end" ELSE "putBack")
  /\ UNCHANGED <<data, disk, permit, plock, flag, runtime, core, savers, excused>>
\* A switch that failed discards its draft.
LEMMA UndoMoves == ASSUME Typed, NEW c \in Callers, Undo(c) PROVE UndoDoes(c)
BY GotoMoves, PlacesAre DEF Undo, UndoDoes, Undone, At, locks

PutBackDoes(c) ==
  /\ op[c].at = "putBack" /\ draft' = Patched(Latest, op[c].prev) /\ Moved(c, "putBackApply")
  /\ UNCHANGED <<data, disk, permit, plock, flag, runtime, core, savers, excused>>
\* It stages the profile that was current.
LEMMA PutBackMoves == ASSUME Typed, NEW c \in Callers, PutBack(c) PROVE PutBackDoes(c)
BY GotoMoves, PlacesAre DEF PutBack, PutBackDoes, At, locks

PutBackApplyDoes(c) ==
  /\ op[c].at = "putBackApply" /\ data' = Latest /\ draft' = NoDraft /\ savers' = savers + 1
  /\ permit' \in [by : Callers \cup {Nobody}, fresh : BOOLEAN] /\ permit'.by = permit.by
  /\ (IF draft # NoDraft THEN ~permit'.fresh ELSE permit' = permit)
  /\ Moved(c, "end")
  /\ UNCHANGED <<disk, plock, flag, runtime, core, excused>>
\* It applies that without the permit.
LEMMA PutBackApplyMoves == ASSUME Typed, NEW c \in Callers,
                                  PutBackApply(c) PROVE PutBackApplyDoes(c)
<1>1. PICK b \in BOOLEAN : b = FALSE
  OBVIOUS
<1>2. PICK p : p = [permit EXCEPT !.fresh = b]
  OBVIOUS
<1>3. p \in [by : Callers \cup {Nobody}, fresh : BOOLEAN] /\ p.by = permit.by /\ p.fresh = b
  BY <1>2 DEF Typed
<1>4. permit' = IF draft # NoDraft THEN p ELSE permit
  BY Zenon, <1>1, <1>2 DEF PutBackApply
<1>5. /\ permit' \in [by : Callers \cup {Nobody}, fresh : BOOLEAN] /\ permit'.by = permit.by
      /\ IF draft # NoDraft THEN ~permit'.fresh ELSE permit' = permit
  BY <1>1, <1>3, <1>4 DEF Typed
<1> QED BY <1>5, GotoMoves, PlacesAre DEF PutBackApply, PutBackApplyDoes, Saver, At

SaverDoes ==
  /\ savers > 0 /\ savers' = savers - 1 /\ permit.by = Nobody /\ disk' = data
  /\ UNCHANGED <<data, draft, permit, plock, flag, runtime, core, op, excused>>
\* A saver writes the file.
LEMMA SaverMoves == SaverTask => SaverDoes
BY DEF SaverTask, SaverDoes, locks

EndDoes(c) ==
  /\ op[c].at = "end" /\ Ended(c)
  /\ plock' = (IF plock = c THEN Nobody ELSE plock) /\ flag' = (IF flag = c THEN Nobody ELSE flag)
  /\ UNCHANGED <<data, draft, disk, permit, runtime, core, savers, excused>>
\* A call that ends lets go of the locks that it has.
LEMMA EndMoves == ASSUME Typed, NEW c \in Callers, End(c) PROVE EndDoes(c)
BY OverEnds DEF End, EndDoes, At, layer

----------------------------------------------------------------------------------

PlanDeleteDoes(c) ==
  /\ op[c].at = "planDelete"
  /\ \/ permit' = Opened /\ Moved(c, "end")
     \/ /\ op[c].arg \in Members(op[c].clone.items) /\ permit' = permit
        /\ \/ Loses(op[c].clone, op[c].arg) /\ Moved(c, "update")
           \/ ~Loses(op[c].clone, op[c].arg) /\ Moved(c, "deleteSave")
  /\ UNCHANGED <<data, draft, disk, plock, flag, runtime, core, savers, excused>>
\* A deletion asks the core first where it takes the current profile.
LEMMA PlanDeleteMoves == ASSUME Typed, NEW c \in Callers, PlanDelete(c) PROVE PlanDeleteDoes(c)
BY GotoMoves, PlacesAre DEF PlanDelete, PlanDeleteDoes, At, GivePermit, Opened, layer

RefusedDoes(c) ==
  /\ op[c].at = "refused" /\ permit' = Opened /\ Moved(c, "end")
  /\ data' = IF permit.fresh THEN op[c].clone ELSE data
  /\ UNCHANGED <<draft, disk, plock, flag, runtime, core, savers, excused>>
\* A deletion that is refused hands back what it had.
LEMMA RefusedMoves == ASSUME Typed, NEW c \in Callers, Refused(c) PROVE RefusedDoes(c)
BY GotoMoves, PlacesAre DEF Typed, Refused, RefusedDoes, At, GivePermit, Opened, ReplaceWith

DeleteSaveDoes(c) ==
  /\ op[c].at = "deleteSave"
  /\ \/ /\ disk' = Without(op[c].clone, op[c].arg) /\ permit' = Opened /\ Moved(c, "end")
        /\ data' = IF permit.fresh THEN Without(op[c].clone, op[c].arg) ELSE data
     \/ UNCHANGED <<data, disk, permit>> /\ flag = c /\ Moved(c, "rollback")
     \/ UNCHANGED <<data, disk>> /\ flag # c /\ permit' = Opened /\ Moved(c, "end")
  /\ UNCHANGED <<draft, plock, flag, runtime, core, savers, excused>>
\* A deletion saves, and replaces the data or undoes its update.
LEMMA DeleteSaveMoves == ASSUME Typed, NEW c \in Callers, DeleteSave(c) PROVE DeleteSaveDoes(c)
BY GotoMoves, PlacesAre DEF Typed, DeleteSave, DeleteSaveDoes, At, GivePermit, Opened, ReplaceWith

RollbackDoes(c) ==
  /\ op[c].at = "rollback" /\ permit' = Opened /\ Moved(c, "end")
  /\ excused' \in BOOLEAN /\ (excused => excused')
  /\ \/ core' = op[c].clone.cur /\ runtime' = op[c].clone.cur
     \/ excused' /\ UNCHANGED <<core, runtime>>
  /\ UNCHANGED <<data, draft, disk, plock, flag, savers>>
\* An update that undoes that of a deletion.
LEMMA RollbackMoves == ASSUME Typed, NEW c \in Callers, Rollback(c) PROVE RollbackDoes(c)
<1>1. /\ op[c].at = "rollback" /\ permit' = Opened /\ Moved(c, "end")
      /\ UNCHANGED <<data, draft, disk, plock, flag, savers>>
  BY GotoMoves, PlacesAre DEF Rollback, At, GivePermit, Opened, layer
<1>2. /\ excused' \in BOOLEAN /\ (excused => excused')
      /\ \/ core' = op[c].clone.cur /\ runtime' = op[c].clone.cur
         \/ excused' /\ UNCHANGED <<core, runtime>>
  <2>1. excused \in BOOLEAN
    BY DEF Typed
  <2>2. CASE core' = op[c].clone.cur /\ runtime' = op[c].clone.cur /\ excused' = excused
    BY <2>1, <2>2
  <2>3. CASE excused' = TRUE /\ UNCHANGED <<core, runtime>>
    BY <2>1, <2>3
  <2> QED BY Zenon, <2>2, <2>3 DEF Rollback, RolledBack
<1> QED BY Zenon, <1>1, <1>2 DEF RollbackDoes

AppendDoes(c) ==
  /\ op[c].at = "append" /\ permit' = Opened
  /\ excused' \in BOOLEAN /\ (excused => excused')
  /\ \/ /\ permit.fresh /\ data' = Appended(op[c].clone, op[c].arg)
        /\ Moved(c, "enterSaveItem") /\ UNCHANGED draft
     \/ data' = data /\ draft' = NoDraft /\ Ended(c) /\ (draft # NoDraft => excused')
  /\ UNCHANGED <<disk, plock, flag, runtime, core, savers>>
\* An import appends its profile, or discards whatever draft there is.
LEMMA AppendMoves == ASSUME Typed, NEW c \in Callers, AppendItem(c) PROVE AppendDoes(c)
<1>0. excused \in BOOLEAN
  BY DEF Typed
<1>1. op[c].at = "append" /\ permit' = Opened /\ UNCHANGED <<disk, plock, flag, runtime, core, savers>>
  BY DEF AppendItem, At, GivePermit, Opened
<1>2. CASE /\ permit.fresh /\ data' = Appended(op[c].clone, op[c].arg)
           /\ Goto(c, "enterSaveItem") /\ UNCHANGED <<draft, excused>>
  BY <1>0, <1>1, <1>2, GotoMoves, PlacesAre DEF AppendDoes
<1>3. CASE /\ draft' = NoDraft /\ Over(c) /\ UNCHANGED data
           /\ excused' = (excused \/ draft # NoDraft)
  <2>1. excused' \in BOOLEAN /\ (excused => excused') /\ (draft # NoDraft => excused')
    BY Zenon, <1>0, <1>3
  <2> QED BY <1>1, <1>3, <2>1, OverEnds DEF AppendDoes
<1> QED BY <1>2, <1>3 DEF AppendItem

SaveItemDoes(c) ==
  /\ op[c].at = "saveItem" /\ permit' = Opened /\ disk' = op[c].clone
  /\ data' = IF permit.fresh THEN op[c].clone ELSE data
  /\ excused' \in BOOLEAN /\ (excused => excused')
  /\ \/ Latest.cur = op[c].arg /\ Moved(c, "update")
     \/ Ended(c) /\ (data.cur = op[c].arg => excused')
  /\ UNCHANGED <<draft, plock, flag, runtime, core, savers>>
\* It saves the profiles, and updates the core if its profile is the first.
LEMMA SaveItemMoves == ASSUME Typed, NEW c \in Callers, SaveItem(c) PROVE SaveItemDoes(c)
<1>0. excused \in BOOLEAN /\ permit.fresh \in BOOLEAN
  BY DEF Typed
<1>1. op[c].at = "saveItem" /\ permit' = Opened /\ disk' = op[c].clone
      /\ UNCHANGED <<draft, plock, flag, runtime, core, savers>>
  BY DEF SaveItem, At, GivePermit, Opened
<1>2. data' = IF permit.fresh THEN op[c].clone ELSE data
  BY <1>0 DEF SaveItem, ReplaceWith
<1>3. excused' \in BOOLEAN /\ (excused => excused') /\ (~IsFirst(c) /\ data.cur = op[c].arg => excused')
  BY Zenon, <1>0 DEF SaveItem
<1>4. CASE IsFirst(c)
  <2>1. Goto(c, "update") /\ Latest.cur = op[c].arg
    BY Zenon, <1>4 DEF SaveItem, IsFirst
  <2> QED BY <1>1, <1>2, <1>3, <2>1, GotoMoves, PlacesAre DEF SaveItemDoes
<1>5. CASE ~IsFirst(c)
  <2>1. Over(c)
    BY Zenon, <1>5 DEF SaveItem
  <2> QED BY <1>1, <1>2, <1>3, <1>5, <2>1, OverEnds DEF SaveItemDoes
<1> QED BY <1>4, <1>5

ItemDoes(c) ==
  /\ op[c].at \in {"item", "patch"} /\ permit' = Opened
  /\ Ended(c) \/ (op[c].at = "item" /\ Moved(c, "update"))
  /\ \/ UNCHANGED <<data, disk>>
     \/ disk' = op[c].clone /\ data' = IF permit.fresh THEN op[c].clone ELSE data
  /\ UNCHANGED <<draft, plock, flag, runtime, core, savers, excused>>
\* An update of a profile saves, and updates the core if that is current.
LEMMA UpdateItemMoves == ASSUME Typed, NEW c \in Callers, UpdateItem(c) PROVE ItemDoes(c)
<1>0. permit.fresh \in BOOLEAN
  BY DEF Typed
<1>1. op[c].at = "item" /\ permit' = Opened /\ UNCHANGED <<draft, plock, flag, runtime, core, savers, excused>>
  BY DEF UpdateItem, At, GivePermit, Opened
<1>2. Over(c) \/ Goto(c, "update")
  BY DEF UpdateItem
<1>3. \/ UNCHANGED <<data, disk>>
      \/ disk' = op[c].clone /\ data' = IF permit.fresh THEN op[c].clone ELSE data
  BY <1>0 DEF UpdateItem, ReplaceWith
<1> QED BY <1>1, <1>2, <1>3, GotoMoves, OverEnds, PlacesAre DEF ItemDoes
\* So does a patch, which does not update the core.
LEMMA PatchItemMoves == ASSUME Typed, NEW c \in Callers, PatchItem(c) PROVE ItemDoes(c)
BY OverEnds DEF Typed, PatchItem, ItemDoes, At, GivePermit, Opened, ReplaceWith

Does(c) ==
  \/ BeginDoes(c) \/ LockDoes(c) \/ StageDoes(c) \/ TakeFlagDoes(c) \/ FailDoes(c) \/ GenerateDoes(c)
  \/ ApplyDoes(c) \/ DiscardDoes(c) \/ CommitDoes(c) \/ SaveDoes(c) \/ UndoDoes(c) \/ PutBackDoes(c)
  \/ PutBackApplyDoes(c) \/ EndDoes(c) \/ EnterDoes(c) \/ PlanDeleteDoes(c) \/ RefusedDoes(c)
  \/ DeleteSaveDoes(c) \/ RollbackDoes(c) \/ AppendDoes(c) \/ SaveItemDoes(c) \/ ItemDoes(c)
Effect == (\E c \in Callers : Does(c)) \/ StartCoreDoes \/ SaverDoes \/ UNCHANGED vars

----------------------------------------------------------------------------------
(* What the profiles become.                                                       *)

\* What is in a sequence is of its set.
LEMMA MembersIn == ASSUME NEW S, NEW s \in Seq(S) PROVE Members(s) \subseteq S
BY DEF Members

\* patch_config changes the current profile, to one that is there.
LEMMA PatchedFacts ==
  ASSUME NEW p \in Profiles, NEW u
  PROVE  /\ Patched(p, u) \in Profiles /\ Patched(p, u).items = p.items
         /\ Patched(p, u).cur = IF u \in Members(p.items) THEN u ELSE p.cur
<1>1. Members(p.items) \subseteq Uid
  BY MembersIn DEF Profiles
<1>2. CASE u \in Members(p.items)
  <2>1. u \in Current
    BY <1>1, <1>2 DEF Current
  <2>2. PICK q : q = [p EXCEPT !.cur = u]
    OBVIOUS
  <2>3. q \in Profiles /\ q.items = p.items /\ q.cur = u
    BY <2>1, <2>2 DEF Profiles
  <2> QED BY <1>2, <2>2, <2>3 DEF Patched
<1>3. CASE u \notin Members(p.items)
  BY <1>3 DEF Patched
<1> QED BY <1>2, <1>3

\* What is appended to a sequence is in it.
LEMMA MembersOfAppend ==
  ASSUME NEW S, NEW s \in Seq(S), NEW u \in S PROVE Members(Append(s, u)) = Members(s) \cup {u}
<1>1. Len(Append(s, u)) = Len(s) + 1 /\ DOMAIN Append(s, u) = 1 .. Len(s) + 1 /\ DOMAIN s = 1 .. Len(s) /\ Len(s) \in Nat
  OBVIOUS
<1>2. Append(s, u)[Len(s) + 1] = u /\ \A i \in 1 .. Len(s) : Append(s, u)[i] = s[i]
  OBVIOUS
<1> QED BY <1>1, <1>2 DEF Members

\* append_item adds a profile, and makes the first one current.
LEMMA AppendedFacts ==
  ASSUME NEW p \in Profiles, NEW u \in Uid
  PROVE  /\ Appended(p, u) \in Profiles
         /\ Members(Appended(p, u).items) = Members(p.items) \cup {u}
         /\ Appended(p, u).cur = IF p.cur = NoUid THEN u ELSE p.cur
<1>1. p.items \in Seq(Uid) /\ p.cur \in Current
  BY DEF Profiles
<1>2. PICK a : a = Append(p.items, u)
  OBVIOUS
<1>3. a \in Seq(Uid) /\ Members(a) = Members(p.items) \cup {u}
  BY <1>1, <1>2, MembersOfAppend
<1> QED BY <1>1, <1>2, <1>3 DEF Appended, Profiles, Current

\* A sequence without one of its elements is of the same set.
LEMMA RemoveAtTypes ==
  ASSUME NEW S, NEW s \in Seq(S), NEW i \in DOMAIN s PROVE RemoveAt(s, i) \in Seq(S)
<1>1. i \in 1 .. Len(s) /\ Len(s) \in Nat
  OBVIOUS
<1>2. SubSeq(s, 1, i - 1) \in Seq(S) /\ SubSeq(s, i + 1, Len(s)) \in Seq(S)
  BY <1>1
<1> QED BY <1>2 DEF RemoveAt

\* plan_delete_item leaves the current profile, unless it is the one that is deleted.
LEMMA WithoutFacts ==
  ASSUME NEW p \in Profiles, NEW u \in Members(p.items)
  PROVE  Without(p, u) \in Profiles /\ (~Loses(p, u) => Without(p, u).cur = p.cur)
<1>1. p.items \in Seq(Uid) /\ p.cur \in Current
  BY DEF Profiles
<1>2. \E i \in DOMAIN p.items : p.items[i] = u
  BY DEF Members
<1>3. PICK j : j = CHOOSE i \in DOMAIN p.items : p.items[i] = u
  OBVIOUS
<1>4. j \in DOMAIN p.items
  BY <1>2, <1>3
<1>5. PICK r : r = TakenFrom(p.items, u)
  OBVIOUS
<1>6. r \in Seq(Uid)
  BY <1>1, <1>3, <1>4, <1>5, RemoveAtTypes DEF TakenFrom
<1>7. Without(p, u) = [items |-> r,
                       cur   |-> IF ~Loses(p, u) THEN p.cur ELSE IF r = << >> THEN NoUid ELSE Head(r)]
  BY <1>5 DEF Without
<1>8. r # << >> => Head(r) \in Uid
  BY <1>6
<1> QED BY <1>1, <1>6, <1>7, <1>8 DEF Profiles, Current

\* What is generated from is a profile or none.
LEMMA SourceTypes ==
  ASSUME Typed, DeletesFit, NEW c \in Callers, op[c].at = "generate" PROVE Source(c) \in Current
<1>1. op[c] \in Operations /\ op[c].clone \in Profiles \cup {NoDraft}
  BY DEF Typed, Operations
<1>2. CASE op[c].kind = "delete"
  <2>1. op[c].arg \in Members(op[c].clone.items)
    BY <1>2 DEF DeletesFit, DeleteFits, IsDelete, Updating
  <2>2. op[c].clone # NoDraft
    <3>1. \A u : u \notin Members(NoDraft.items)
      <4>1. NoDraft.items = << >> /\ DOMAIN << >> = {}
        BY DEF NoDraft
      <4> QED BY <4>1 DEF Members
    <3> QED BY <2>1, <3>1
  <2>3. Without(op[c].clone, op[c].arg) \in Profiles
    BY <1>1, <2>1, <2>2, WithoutFacts
  <2> QED BY <1>2, <2>3 DEF Source, Profiles
<1>3. CASE op[c].kind # "delete"
  <2>1. data.cur \in Current /\ (draft \in Profiles \/ draft = NoDraft)
    BY DEF Typed, Profiles
  <2>2. Latest.cur \in Current
    BY <2>1 DEF Latest, Profiles
  <2> QED BY <1>3, <2>2 DEF Source
<1> QED BY <1>2, <1>3

\* Every step has one of these effects.
LEMMA Effects == ASSUME Given, IInv, [Next]_vars PROVE Effect
<1>1. Typed /\ FlagsFit /\ DeletesFit
  BY DEF IInv
<1>2. ASSUME NEW c \in Callers, Begin(c) \/ Step(c) PROVE Does(c)
  <2> USE <1>1 DEF Does
  <2>1. CASE Begin(c)
    BY <2>1, BeginMoves
  <2>2. CASE LockProfiles(c)
    BY <2>2, LockMoves
  <2>3. CASE Stage(c)
    BY <2>3, StageMoves
  <2>4. CASE BeginUpdate(c)
    BY <2>4, BeginUpdateMoves
  <2>5. CASE Debounce(c)
    BY <2>5, DebounceMoves
  <2>6. CASE Generate(c)
    <3>1. op[c].at = "generate"
      BY <2>6 DEF Generate, At
    <3> QED BY <2>6, <3>1, GenerateMoves, SourceTypes
  <2>7. CASE Apply(c)
    BY <2>7, ApplyMoves
  <2>8. CASE Discard(c)
    BY <2>8, DiscardMoves
  <2>9. CASE Commit(c)
    BY <2>9, CommitMoves
  <2>10. CASE Save(c)
    BY <2>10, SaveMoves
  <2>11. CASE Undo(c)
    BY <2>11, UndoMoves
  <2>12. CASE PutBack(c)
    BY <2>12, PutBackMoves
  <2>13. CASE PutBackApply(c)
    BY <2>13, PutBackApplyMoves
  <2>14. CASE End(c)
    BY <2>14, EndMoves
  <2>15. CASE PlanDelete(c)
    BY <2>15, PlanDeleteMoves
  <2>16. CASE Refused(c)
    BY <2>16, RefusedMoves
  <2>17. CASE DeleteSave(c)
    BY <2>17, DeleteSaveMoves
  <2>18. CASE Rollback(c)
    BY <2>18, RollbackMoves
  <2>19. CASE AppendItem(c)
    BY <2>19, AppendMoves
  <2>20. CASE SaveItem(c)
    BY <2>20, SaveItemMoves
  <2>21. CASE UpdateItem(c)
    BY <2>21, UpdateItemMoves
  <2>22. CASE PatchItem(c)
    BY <2>22, PatchItemMoves
  <2>23. CASE Enters(c)
    BY <2>23, EntersMoves
  <2> QED BY <1>2, <2>1, <2>2, <2>3, <2>4, <2>5, <2>6, <2>7, <2>8, <2>9, <2>10, <2>11, <2>12,
            <2>13, <2>14, <2>15, <2>16, <2>17, <2>18, <2>19, <2>20, <2>21, <2>22, <2>23
        DEF Step, Enters
<1>3. CASE StartCore
  BY <1>3, StartCoreMoves DEF Effect
<1>4. CASE SaverTask
  BY <1>4, SaverMoves DEF Effect
<1>5. CASE UNCHANGED vars
  BY <1>5 DEF Effect
<1> QED BY <1>2, <1>3, <1>4, <1>5 DEF Next, Effect

\* Every step leaves each call where its command goes.
LEMMA CallStep ==
  ASSUME Given, Typed, CallsFit, Effect PROVE CallsFit'
<1> SUFFICES ASSUME NEW d \in Callers PROVE CallFits(d)'
  BY DEF CallsFit
<1> USE DEF Moved, Kept, Others, Ended, CallFits, CallsFit, Switching, Deleting, Locking,
          Importing, Given, IsSwitch, IsDelete, IsImport, Updating
<1>1. ASSUME NEW c \in Callers, Does(c) PROVE CallFits(d)'
  <2>1. CASE BeginDoes(c)
    BY <2>1 DEF BeginDoes
  <2>2. CASE LockDoes(c)
    BY <2>2 DEF LockDoes
  <2>3. CASE StageDoes(c)
    BY <2>3 DEF StageDoes
  <2>4. CASE TakeFlagDoes(c)
    BY <2>4 DEF TakeFlagDoes
  <2>5. CASE FailDoes(c)
    BY <2>5 DEF FailDoes
  <2>6. CASE GenerateDoes(c)
    BY <2>6 DEF GenerateDoes
  <2>7. CASE ApplyDoes(c)
    BY <2>7 DEF ApplyDoes
  <2>8. CASE DiscardDoes(c)
    BY <2>8 DEF DiscardDoes
  <2>9. CASE CommitDoes(c)
    BY <2>9 DEF CommitDoes
  <2>10. CASE SaveDoes(c)
    BY <2>10 DEF SaveDoes
  <2>11. CASE UndoDoes(c)
    BY <2>11 DEF UndoDoes
  <2>12. CASE PutBackDoes(c)
    BY <2>12 DEF PutBackDoes
  <2>13. CASE PutBackApplyDoes(c)
    BY <2>13 DEF PutBackApplyDoes
  <2>14. CASE EndDoes(c)
    BY <2>14 DEF EndDoes
  <2>15. CASE EnterDoes(c)
    BY <2>15 DEF EnterDoes
  <2>16. CASE PlanDeleteDoes(c)
    BY <2>16 DEF PlanDeleteDoes
  <2>17. CASE RefusedDoes(c)
    BY <2>17 DEF RefusedDoes
  <2>18. CASE DeleteSaveDoes(c)
    BY <2>18 DEF DeleteSaveDoes
  <2>19. CASE RollbackDoes(c)
    BY <2>19 DEF RollbackDoes
  <2>20. CASE AppendDoes(c)
    BY <2>20 DEF AppendDoes
  <2>21. CASE SaveItemDoes(c)
    BY <2>21 DEF SaveItemDoes
  <2>22. CASE ItemDoes(c)
    BY <2>22 DEF ItemDoes
  <2> QED BY <1>1, <2>1, <2>2, <2>3, <2>4, <2>5, <2>6, <2>7, <2>8, <2>9, <2>10, <2>11, <2>12,
            <2>13, <2>14, <2>15, <2>16, <2>17, <2>18, <2>19, <2>20, <2>21, <2>22 DEF Does
<1>2. CASE StartCoreDoes
  BY <1>2 DEF StartCoreDoes
<1>3. CASE SaverDoes
  BY <1>3 DEF SaverDoes
<1>4. CASE UNCHANGED vars
  BY <1>4 DEF vars
<1> QED BY <1>1, <1>2, <1>3, <1>4 DEF Effect

\* And PROFILE_WRITE_LOCK with whoever is past taking it.
LEMMA LockStep ==
  ASSUME Given, Typed, CallsFit, LocksFit, Effect PROVE LocksFit'
<1> SUFFICES ASSUME NEW d \in Callers PROVE LockFits(d)'
  BY DEF LocksFit
<1> USE DEF Moved, Kept, Others, Ended, LockFits, LocksFit, CallsFit, CallFits, Given, Switching,
          Deleting, Locking, Importing, IsSwitch, IsDelete, IsImport, Updating
<1>1. ASSUME NEW c \in Callers, Does(c) PROVE LockFits(d)'
  <2>1. CASE BeginDoes(c)
    BY <2>1 DEF BeginDoes
  <2>2. CASE LockDoes(c)
    BY <2>2 DEF LockDoes
  <2>3. CASE StageDoes(c)
    BY <2>3 DEF StageDoes
  <2>4. CASE TakeFlagDoes(c)
    BY <2>4 DEF TakeFlagDoes
  <2>5. CASE FailDoes(c)
    BY <2>5 DEF FailDoes
  <2>6. CASE GenerateDoes(c)
    BY <2>6 DEF GenerateDoes
  <2>7. CASE ApplyDoes(c)
    BY <2>7 DEF ApplyDoes
  <2>8. CASE DiscardDoes(c)
    BY <2>8 DEF DiscardDoes
  <2>9. CASE CommitDoes(c)
    BY <2>9 DEF CommitDoes
  <2>10. CASE SaveDoes(c)
    BY <2>10 DEF SaveDoes
  <2>11. CASE UndoDoes(c)
    BY <2>11 DEF UndoDoes
  <2>12. CASE PutBackDoes(c)
    BY <2>12 DEF PutBackDoes
  <2>13. CASE PutBackApplyDoes(c)
    BY <2>13 DEF PutBackApplyDoes
  <2>14. CASE EndDoes(c)
    BY <2>14 DEF EndDoes
  <2>15. CASE EnterDoes(c)
    BY <2>15 DEF EnterDoes
  <2>16. CASE PlanDeleteDoes(c)
    BY <2>16 DEF PlanDeleteDoes
  <2>17. CASE RefusedDoes(c)
    BY <2>17 DEF RefusedDoes
  <2>18. CASE DeleteSaveDoes(c)
    BY <2>18 DEF DeleteSaveDoes
  <2>19. CASE RollbackDoes(c)
    BY <2>19 DEF RollbackDoes
  <2>20. CASE AppendDoes(c)
    BY <2>20 DEF AppendDoes
  <2>21. CASE SaveItemDoes(c)
    BY <2>21 DEF SaveItemDoes
  <2>22. CASE ItemDoes(c)
    BY <2>22 DEF ItemDoes
  <2> QED BY <1>1, <2>1, <2>2, <2>3, <2>4, <2>5, <2>6, <2>7, <2>8, <2>9, <2>10, <2>11, <2>12,
            <2>13, <2>14, <2>15, <2>16, <2>17, <2>18, <2>19, <2>20, <2>21, <2>22 DEF Does
<1>2. CASE StartCoreDoes
  BY <1>2 DEF StartCoreDoes
<1>3. CASE SaverDoes
  BY <1>3 DEF SaverDoes
<1>4. CASE UNCHANGED vars
  BY <1>4 DEF vars
<1> QED BY <1>1, <1>2, <1>3, <1>4 DEF Effect

\* And the flag with whoever applies.
LEMMA FlagStep ==
  ASSUME Given, Typed, CallsFit, FlagsFit, Effect PROVE FlagsFit'
<1> SUFFICES ASSUME NEW d \in Callers PROVE FlagFits(d)'
  BY DEF FlagsFit
<1> USE DEF Moved, Kept, Others, Ended, FlagFits, FlagsFit, CallsFit, CallFits, Given, Switching,
          Deleting, Locking, Importing, IsSwitch, IsDelete, IsImport, Updating
<1>1. ASSUME NEW c \in Callers, Does(c) PROVE FlagFits(d)'
  <2>1. CASE BeginDoes(c)
    BY <2>1 DEF BeginDoes
  <2>2. CASE LockDoes(c)
    BY <2>2 DEF LockDoes
  <2>3. CASE StageDoes(c)
    BY <2>3 DEF StageDoes
  <2>4. CASE TakeFlagDoes(c)
    BY <2>4 DEF TakeFlagDoes
  <2>5. CASE FailDoes(c)
    BY <2>5 DEF FailDoes
  <2>6. CASE GenerateDoes(c)
    BY <2>6 DEF GenerateDoes
  <2>7. CASE ApplyDoes(c)
    BY <2>7 DEF ApplyDoes
  <2>8. CASE DiscardDoes(c)
    BY <2>8 DEF DiscardDoes
  <2>9. CASE CommitDoes(c)
    BY <2>9 DEF CommitDoes
  <2>10. CASE SaveDoes(c)
    BY <2>10 DEF SaveDoes
  <2>11. CASE UndoDoes(c)
    BY <2>11 DEF UndoDoes
  <2>12. CASE PutBackDoes(c)
    BY <2>12 DEF PutBackDoes
  <2>13. CASE PutBackApplyDoes(c)
    BY <2>13 DEF PutBackApplyDoes
  <2>14. CASE EndDoes(c)
    BY <2>14 DEF EndDoes
  <2>15. CASE EnterDoes(c)
    BY <2>15 DEF EnterDoes
  <2>16. CASE PlanDeleteDoes(c)
    BY <2>16 DEF PlanDeleteDoes
  <2>17. CASE RefusedDoes(c)
    BY <2>17 DEF RefusedDoes
  <2>18. CASE DeleteSaveDoes(c)
    BY <2>18 DEF DeleteSaveDoes
  <2>19. CASE RollbackDoes(c)
    BY <2>19 DEF RollbackDoes
  <2>20. CASE AppendDoes(c)
    BY <2>20 DEF AppendDoes
  <2>21. CASE SaveItemDoes(c)
    BY <2>21 DEF SaveItemDoes
  <2>22. CASE ItemDoes(c)
    BY <2>22 DEF ItemDoes
  <2> QED BY <1>1, <2>1, <2>2, <2>3, <2>4, <2>5, <2>6, <2>7, <2>8, <2>9, <2>10, <2>11, <2>12,
            <2>13, <2>14, <2>15, <2>16, <2>17, <2>18, <2>19, <2>20, <2>21, <2>22 DEF Does
<1>2. CASE StartCoreDoes
  BY <1>2 DEF StartCoreDoes
<1>3. CASE SaverDoes
  BY <1>3 DEF SaverDoes
<1>4. CASE UNCHANGED vars
  BY <1>4 DEF vars
<1> QED BY <1>1, <1>2, <1>3, <1>4 DEF Effect

\* The permit that nobody has.
LEMMA OpenedFacts ==
  /\ Opened \in [by : Callers \cup {Nobody}, fresh : BOOLEAN]
  /\ Opened.by = Nobody /\ Opened.fresh
BY DEF Opened

\* The latest profiles are typed, unless they are the data.
LEMMA LatestTypes == ASSUME Typed PROVE Latest \in Profiles
BY DEF Typed, Latest

\* So is the clone of whoever is inside.
LEMMA CloneTypes ==
  ASSUME Typed, PermitsFit, NEW c \in Callers, Inside(c)
  PROVE  op[c].clone \in Profiles /\ op[c].clone.cur \in Current /\ (permit.fresh => op[c].clone = data)
BY DEF PermitsFit, PermitFits, Profiles

\* And what a deletion leaves of it.
LEMMA WithoutTypes ==
  ASSUME Typed, PermitsFit, DeletesFit, CallsFit, NEW c \in Callers, op[c].at = "deleteSave"
  PROVE  Without(op[c].clone, op[c].arg) \in Profiles
<1>1. op[c].clone \in Profiles
  BY CloneTypes DEF Inside
<1>2. op[c].arg \in Members(op[c].clone.items)
  BY DEF DeletesFit, DeleteFits, CallsFit, CallFits, Deleting
<1> QED BY <1>1, <1>2, WithoutFacts

\* Every step keeps the types.
LEMMA TypeStep ==
  ASSUME Given, Typed, CallsFit, PermitsFit, DeletesFit, Effect PROVE Typed'
<1> USE DEF Moved, Kept, Others, Ended, Typed, Opened
<1>1. ASSUME NEW c \in Callers, Does(c) PROVE Typed'
  <2>1. CASE BeginDoes(c)
    BY <2>1 DEF BeginDoes
  <2>2. CASE LockDoes(c)
    BY <2>2 DEF LockDoes
  <2>3. CASE StageDoes(c)
    BY <2>3, LatestTypes, PatchedFacts DEF StageDoes
  <2>4. CASE TakeFlagDoes(c)
    BY <2>4 DEF TakeFlagDoes
  <2>5. CASE FailDoes(c)
    BY <2>5 DEF FailDoes
  <2>6. CASE GenerateDoes(c)
    BY <2>6 DEF GenerateDoes
  <2>7. CASE ApplyDoes(c)
    <3>1. op[c].to \in Current
      BY DEF Operations
    <3> QED BY <2>7, <3>1 DEF ApplyDoes
  <2>8. CASE DiscardDoes(c)
    BY <2>8 DEF DiscardDoes
  <2>9. CASE CommitDoes(c)
    <3>1. op[c].clone \in Profiles
      BY <2>9, CloneTypes DEF CommitDoes, Inside
    <3> QED BY <2>9, <3>1, PatchedFacts DEF CommitDoes
  <2>10. CASE SaveDoes(c)
    <3>1. op[c].clone \in Profiles /\ op[c].clone.cur \in Current
      BY <2>10, CloneTypes DEF SaveDoes, Inside
    <3> QED BY <2>10, <3>1 DEF SaveDoes
  <2>11. CASE UndoDoes(c)
    BY <2>11 DEF UndoDoes
  <2>12. CASE PutBackDoes(c)
    BY <2>12, LatestTypes, PatchedFacts DEF PutBackDoes
  <2>13. CASE PutBackApplyDoes(c)
    BY <2>13, LatestTypes DEF PutBackApplyDoes
  <2>14. CASE EndDoes(c)
    BY <2>14 DEF EndDoes
  <2>15. CASE EnterDoes(c)
    BY <2>15 DEF EnterDoes
  <2>16. CASE PlanDeleteDoes(c)
    <3>a. UNCHANGED <<data, draft, disk, runtime, core, savers, excused>> /\ (permit' = permit \/ permit' = Opened)
      BY <2>16 DEF PlanDeleteDoes
    <3>b. Kept(c)
      BY <2>16 DEF PlanDeleteDoes
    <3>c. permit' \in [by : Callers \cup {Nobody}, fresh : BOOLEAN]
      BY Zenon, <3>a, OpenedFacts DEF Typed
    <3> QED BY <3>a, <3>b, <3>c
  <2>17. CASE RefusedDoes(c)
    <3>1. op[c].clone \in Profiles /\ op[c].clone.cur \in Current
      BY <2>17, CloneTypes DEF RefusedDoes, Inside
    <3> QED BY <2>17, <3>1 DEF RefusedDoes
  <2>18. CASE DeleteSaveDoes(c)
    <3>1. Without(op[c].clone, op[c].arg) \in Profiles
      BY <2>18, WithoutTypes DEF DeleteSaveDoes
    <3>2. data' \in Profiles /\ disk' \in Profiles
      BY <2>18, <3>1 DEF DeleteSaveDoes
    <3>a. UNCHANGED <<draft, runtime, core, savers, excused>> /\ (permit' = permit \/ permit' = Opened)
      BY <2>18 DEF DeleteSaveDoes
    <3>b. Kept(c)
      BY <2>18 DEF DeleteSaveDoes
    <3>c. permit' \in [by : Callers \cup {Nobody}, fresh : BOOLEAN]
      BY Zenon, <3>a, OpenedFacts DEF Typed
    <3> QED BY <3>2, <3>a, <3>b, <3>c
  <2>19. CASE RollbackDoes(c)
    <3>1. op[c].clone \in Profiles /\ op[c].clone.cur \in Current
      BY <2>19, CloneTypes DEF RollbackDoes, Inside
    <3> QED BY <2>19, <3>1 DEF RollbackDoes
  <2>20. CASE AppendDoes(c)
    <3>1. op[c].clone \in Profiles /\ op[c].arg \in Uid
      BY <2>20, CloneTypes DEF AppendDoes, Inside, CallsFit, CallFits, Importing, Uid
    <3> QED BY <2>20, <3>1, AppendedFacts DEF AppendDoes
  <2>21. CASE SaveItemDoes(c)
    <3>1. op[c].clone \in Profiles /\ op[c].clone.cur \in Current
      BY <2>21, CloneTypes DEF SaveItemDoes, Inside
    <3> QED BY <2>21, <3>1 DEF SaveItemDoes
  <2>22. CASE ItemDoes(c)
    <3>1. op[c].clone \in Profiles /\ op[c].clone.cur \in Current
      BY <2>22, CloneTypes DEF ItemDoes, Inside
    <3> QED BY <2>22, <3>1 DEF ItemDoes
  <2> QED BY <1>1, <2>1, <2>2, <2>3, <2>4, <2>5, <2>6, <2>7, <2>8, <2>9, <2>10, <2>11, <2>12,
            <2>13, <2>14, <2>15, <2>16, <2>17, <2>18, <2>19, <2>20, <2>21, <2>22 DEF Does
<1>2. CASE StartCoreDoes
  BY <1>2 DEF StartCoreDoes
<1>3. CASE SaverDoes
  BY <1>3 DEF SaverDoes
<1>4. CASE UNCHANGED vars
  BY <1>4 DEF vars
<1> QED BY <1>1, <1>2, <1>3, <1>4 DEF Effect

\* Every step leaves the clone of whoever is inside the data, or the file to be saved.
LEMMA PermitStep ==
  ASSUME Given, Typed, CallsFit, PermitsFit, LocksFit, DeletesFit, Effect PROVE PermitsFit'
<1> SUFFICES ASSUME NEW d \in Callers PROVE PermitFits(d)'
  BY DEF PermitsFit
<1>0. data \in Profiles /\ data' \in Profiles
  BY TypeStep DEF Typed
<1> USE DEF Moved, Kept, Others, Ended, PermitFits, CallsFit, CallFits, PermitsFit, LocksFit,
          LockFits, Inside, Given, Switching, Deleting, Locking, Importing, IsSwitch, IsDelete,
          IsImport, Updating
<1>1. ASSUME NEW c \in Callers, Does(c) PROVE PermitFits(d)'
  <2>1. CASE BeginDoes(c)
    BY <1>0, OpenedFacts, <2>1 DEF BeginDoes
  <2>2. CASE LockDoes(c)
    BY <1>0, OpenedFacts, <2>2 DEF LockDoes
  <2>3. CASE StageDoes(c)
    BY <1>0, OpenedFacts, <2>3 DEF StageDoes
  <2>4. CASE TakeFlagDoes(c)
    BY <1>0, OpenedFacts, <2>4 DEF TakeFlagDoes
  <2>5. CASE FailDoes(c)
    BY <1>0, OpenedFacts, <2>5 DEF FailDoes
  <2>6. CASE GenerateDoes(c)
    BY <1>0, OpenedFacts, <2>6 DEF GenerateDoes
  <2>7. CASE ApplyDoes(c)
    BY <1>0, OpenedFacts, <2>7 DEF ApplyDoes
  <2>8. CASE DiscardDoes(c)
    BY <1>0, OpenedFacts, <2>8 DEF DiscardDoes
  <2>9. CASE CommitDoes(c)
    BY <1>0, OpenedFacts, <2>9 DEF CommitDoes
  <2>10. CASE SaveDoes(c)
    BY <1>0, OpenedFacts, <2>10 DEF SaveDoes
  <2>11. CASE UndoDoes(c)
    BY <1>0, OpenedFacts, <2>11 DEF UndoDoes
  <2>12. CASE PutBackDoes(c)
    BY <1>0, OpenedFacts, <2>12 DEF PutBackDoes
  <2>13. CASE PutBackApplyDoes(c)
    <3>1. savers' > 0 /\ (permit'.fresh => data' = data)
      BY <2>13 DEF PutBackApplyDoes, Typed, Latest
    <3> QED BY <2>13, <3>1 DEF PutBackApplyDoes
  <2>14. CASE EndDoes(c)
    BY <1>0, OpenedFacts, <2>14 DEF EndDoes
  <2>15. CASE EnterDoes(c)
    BY <1>0, OpenedFacts, <2>15 DEF EnterDoes
  <2>16. CASE PlanDeleteDoes(c)
    BY <1>0, OpenedFacts, <2>16 DEF PlanDeleteDoes
  <2>17. CASE RefusedDoes(c)
    BY <1>0, OpenedFacts, <2>17 DEF RefusedDoes
  <2>18. CASE DeleteSaveDoes(c)
    BY <1>0, OpenedFacts, <2>18 DEF DeleteSaveDoes
  <2>19. CASE RollbackDoes(c)
    BY <1>0, OpenedFacts, <2>19 DEF RollbackDoes
  <2>20. CASE AppendDoes(c)
    BY <1>0, OpenedFacts, <2>20 DEF AppendDoes
  <2>21. CASE SaveItemDoes(c)
    BY <1>0, OpenedFacts, <2>21 DEF SaveItemDoes
  <2>22. CASE ItemDoes(c)
    BY <1>0, OpenedFacts, <2>22 DEF ItemDoes
  <2> QED BY <1>1, <2>1, <2>2, <2>3, <2>4, <2>5, <2>6, <2>7, <2>8, <2>9, <2>10, <2>11, <2>12,
            <2>13, <2>14, <2>15, <2>16, <2>17, <2>18, <2>19, <2>20, <2>21, <2>22 DEF Does
<1>2. CASE StartCoreDoes
  BY <1>0, OpenedFacts, <1>2 DEF StartCoreDoes
<1>3. CASE SaverDoes
  BY <1>0, OpenedFacts, <1>3 DEF SaverDoes
<1>4. CASE UNCHANGED vars
  BY <1>0, OpenedFacts, <1>4 DEF vars
<1> QED BY <1>1, <1>2, <1>3, <1>4 DEF Effect

\* Two calls that hold PROFILE_WRITE_LOCK are one.
LEMMA OneLocks ==
  ASSUME LocksFit, NEW c \in Callers, NEW d \in Callers, IsSwitch(c) \/ IsDelete(c),
         op[c].at # "lock",
         IsSwitch(d) \/ IsDelete(d), op[d].at # "lock"
  PROVE  c = d
BY DEF LocksFit, LockFits

\* No draft is left where the one switch that there can be has discarded its own.
LEMMA NoDraftLeft ==
  ASSUME LocksFit, DraftFits, NEW c \in Callers, IsSwitch(c) \/ IsDelete(c), op[c].at # "lock",
         ~Staging(c)
  PROVE  draft = NoDraft
<1> SUFFICES ASSUME draft # NoDraft PROVE FALSE
  OBVIOUS
<1>1. PICK d \in Callers : Staging(d)
  BY DEF DraftFits
<1> QED BY <1>1, OneLocks DEF Staging

\* What is handed back is what the data were, or they stay as they are.
LEMMA CloneIsData ==
  ASSUME Typed, PermitsFit, NEW c \in Callers, Inside(c)
  PROVE  (IF permit.fresh THEN op[c].clone ELSE data) = data
BY CloneTypes DEF Typed

\* No step changes the current profile under a switch that may put it back.
LEMMA PrevStep ==
  ASSUME Given, Typed, CallsFit, PermitsFit, LocksFit, DraftFits, PrevsFit, Effect PROVE PrevsFit'
<1> SUFFICES ASSUME NEW d \in Callers PROVE PrevFits(d)'
  BY DEF PrevsFit
<1> USE DEF Moved, Kept, Others, Ended, PrevFits, PrevsFit, CallsFit, CallFits, PermitsFit,
          PermitFits, LocksFit, LockFits, Inside, Given, Switching, Deleting, Locking, Importing,
          IsSwitch, IsDelete, IsImport, Updating
<1>1. ASSUME NEW c \in Callers, Does(c) PROVE PrevFits(d)'
  <2>1. CASE BeginDoes(c)
    BY <2>1 DEF BeginDoes
  <2>2. CASE LockDoes(c)
    BY <2>2 DEF LockDoes
  <2>3. CASE StageDoes(c)
    BY <2>3 DEF StageDoes
  <2>4. CASE TakeFlagDoes(c)
    BY <2>4 DEF TakeFlagDoes
  <2>5. CASE FailDoes(c)
    BY <2>5 DEF FailDoes
  <2>6. CASE GenerateDoes(c)
    BY <2>6 DEF GenerateDoes
  <2>7. CASE ApplyDoes(c)
    BY <2>7 DEF ApplyDoes
  <2>8. CASE DiscardDoes(c)
    BY <2>8 DEF DiscardDoes
  <2>9. CASE CommitDoes(c)
    <3>1. d = c \/ op[d].at \in {"idle", "lock"} \/ (~IsSwitch(d) /\ ~IsDelete(d))
      BY <2>9, OneLocks DEF CommitDoes
    <3> QED BY <2>9, <3>1 DEF CommitDoes
  <2>10. CASE SaveDoes(c)
    <3>1. data' = data
      BY <2>10, CloneIsData DEF SaveDoes
    <3> QED BY <2>10, <3>1 DEF SaveDoes
  <2>11. CASE UndoDoes(c)
    BY <2>11 DEF UndoDoes
  <2>12. CASE PutBackDoes(c)
    <3>1. draft = NoDraft /\ Latest = data /\ data \in Profiles
      BY <2>12, NoDraftLeft DEF PutBackDoes, Staging, Latest, Typed
    <3>2. Patched(data, op[c].prev).cur = IF op[c].prev \in Members(data.items) THEN op[c].prev ELSE data.cur
      BY <3>1, PatchedFacts
    <3> QED BY <2>12, <3>1, <3>2 DEF PutBackDoes
  <2>13. CASE PutBackApplyDoes(c)
    <3>1. d = c \/ op[d].at \in {"idle", "lock"} \/ (~IsSwitch(d) /\ ~IsDelete(d))
      BY <2>13, OneLocks DEF PutBackApplyDoes
    <3> QED BY <2>13, <3>1 DEF PutBackApplyDoes
  <2>14. CASE EndDoes(c)
    BY <2>14 DEF EndDoes
  <2>15. CASE EnterDoes(c)
    BY <2>15 DEF EnterDoes
  <2>16. CASE PlanDeleteDoes(c)
    BY <2>16 DEF PlanDeleteDoes
  <2>17. CASE RefusedDoes(c)
    <3>1. data' = data
      BY <2>17, CloneIsData DEF RefusedDoes
    <3> QED BY <2>17, <3>1 DEF RefusedDoes
  <2>18. CASE DeleteSaveDoes(c)
    <3>1. d = c \/ op[d].at \in {"idle", "lock"} \/ (~IsSwitch(d) /\ ~IsDelete(d))
      BY <2>18, OneLocks DEF DeleteSaveDoes
    <3> QED BY <2>18, <3>1 DEF DeleteSaveDoes
  <2>19. CASE RollbackDoes(c)
    BY <2>19 DEF RollbackDoes
  <2>20. CASE AppendDoes(c)
    <3>1. op[c].clone \in Profiles /\ (permit.fresh => op[c].clone = data) /\ op[c].arg \in Uid
      BY <2>20, CloneTypes DEF AppendDoes, Uid
    <3>2. data' = data \/ (data' = Appended(data, op[c].arg))
      BY <2>20, <3>1 DEF AppendDoes
    <3>3. data'.cur = data.cur \/ data.cur = NoUid
      BY <3>1, <3>2, AppendedFacts DEF Typed
    <3> QED BY <2>20, <3>3 DEF AppendDoes
  <2>21. CASE SaveItemDoes(c)
    <3>1. data' = data
      BY <2>21, CloneIsData DEF SaveItemDoes
    <3> QED BY <2>21, <3>1 DEF SaveItemDoes
  <2>22. CASE ItemDoes(c)
    <3>1. data' = data
      BY <2>22, CloneIsData DEF ItemDoes
    <3> QED BY <2>22, <3>1 DEF ItemDoes
  <2> QED BY <1>1, <2>1, <2>2, <2>3, <2>4, <2>5, <2>6, <2>7, <2>8, <2>9, <2>10, <2>11, <2>12,
            <2>13, <2>14, <2>15, <2>16, <2>17, <2>18, <2>19, <2>20, <2>21, <2>22 DEF Does
<1>2. CASE StartCoreDoes
  BY <1>2 DEF StartCoreDoes
<1>3. CASE SaverDoes
  BY <1>3 DEF SaverDoes
<1>4. CASE UNCHANGED vars
  BY <1>4 DEF vars
<1> QED BY <1>1, <1>2, <1>3, <1>4 DEF Effect

\* Every step leaves a draft to a switch.
LEMMA DraftStep ==
  ASSUME Given, Typed, CallsFit, LocksFit, DraftFits, Effect PROVE DraftFits'
<1> USE DEF Moved, Kept, Others, Ended, DraftFits, Staging, CallsFit, CallFits, LocksFit, LockFits,
          Given, Switching, Deleting, Locking, Importing, IsSwitch, IsDelete, IsImport, Updating
<1>1. ASSUME NEW c \in Callers, Does(c) PROVE DraftFits'
  <2>1. CASE BeginDoes(c)
    BY <2>1 DEF BeginDoes
  <2>2. CASE LockDoes(c)
    BY <2>2 DEF LockDoes
  <2>3. CASE StageDoes(c)
    BY <2>3 DEF StageDoes
  <2>4. CASE TakeFlagDoes(c)
    BY <2>4 DEF TakeFlagDoes
  <2>5. CASE FailDoes(c)
    BY <2>5 DEF FailDoes
  <2>6. CASE GenerateDoes(c)
    BY <2>6 DEF GenerateDoes
  <2>7. CASE ApplyDoes(c)
    BY <2>7 DEF ApplyDoes
  <2>8. CASE DiscardDoes(c)
    BY <2>8 DEF DiscardDoes
  <2>9. CASE CommitDoes(c)
    BY <2>9 DEF CommitDoes
  <2>10. CASE SaveDoes(c)
    BY <2>10 DEF SaveDoes
  <2>11. CASE UndoDoes(c)
    BY <2>11 DEF UndoDoes
  <2>12. CASE PutBackDoes(c)
    BY <2>12 DEF PutBackDoes
  <2>13. CASE PutBackApplyDoes(c)
    BY <2>13 DEF PutBackApplyDoes
  <2>14. CASE EndDoes(c)
    BY <2>14 DEF EndDoes
  <2>15. CASE EnterDoes(c)
    BY <2>15 DEF EnterDoes
  <2>16. CASE PlanDeleteDoes(c)
    BY <2>16 DEF PlanDeleteDoes
  <2>17. CASE RefusedDoes(c)
    BY <2>17 DEF RefusedDoes
  <2>18. CASE DeleteSaveDoes(c)
    BY <2>18 DEF DeleteSaveDoes
  <2>19. CASE RollbackDoes(c)
    BY <2>19 DEF RollbackDoes
  <2>20. CASE AppendDoes(c)
    BY <2>20 DEF AppendDoes
  <2>21. CASE SaveItemDoes(c)
    BY <2>21 DEF SaveItemDoes
  <2>22. CASE ItemDoes(c)
    BY <2>22 DEF ItemDoes
  <2> QED BY <1>1, <2>1, <2>2, <2>3, <2>4, <2>5, <2>6, <2>7, <2>8, <2>9, <2>10, <2>11, <2>12,
            <2>13, <2>14, <2>15, <2>16, <2>17, <2>18, <2>19, <2>20, <2>21, <2>22 DEF Does
<1>2. CASE StartCoreDoes
  BY <1>2 DEF StartCoreDoes
<1>3. CASE SaverDoes
  BY <1>3 DEF SaverDoes
<1>4. CASE UNCHANGED vars
  BY <1>4 DEF vars
<1> QED BY <1>1, <1>2, <1>3, <1>4 DEF Effect

\* Every step leaves the file equal to the data, or somebody to save it.
LEMMA DiskStep ==
  ASSUME Given, Typed, CallsFit, PermitsFit, DiskFits, Effect PROVE DiskFits'
<1> USE DEF Moved, Kept, Others, Ended, DiskFits, Saving, CallsFit, CallFits, Given, Switching,
          Deleting, Locking, Importing, IsSwitch, IsDelete, IsImport, Updating
<1>1. ASSUME NEW c \in Callers, Does(c) PROVE DiskFits'
  <2>1. CASE BeginDoes(c)
    BY <2>1 DEF BeginDoes
  <2>2. CASE LockDoes(c)
    BY <2>2 DEF LockDoes
  <2>3. CASE StageDoes(c)
    BY <2>3 DEF StageDoes
  <2>4. CASE TakeFlagDoes(c)
    BY <2>4 DEF TakeFlagDoes
  <2>5. CASE FailDoes(c)
    BY <2>5 DEF FailDoes
  <2>6. CASE GenerateDoes(c)
    BY <2>6 DEF GenerateDoes
  <2>7. CASE ApplyDoes(c)
    BY <2>7 DEF ApplyDoes
  <2>8. CASE DiscardDoes(c)
    BY <2>8 DEF DiscardDoes
  <2>9. CASE CommitDoes(c)
    <3>1. data' = data \/ op'[c].at = "enterSave"
      BY <2>9 DEF CommitDoes
    <3> QED BY <2>9, <3>1 DEF CommitDoes
  <2>10. CASE SaveDoes(c)
    <3>1. data' = data
      BY <2>10, CloneIsData DEF SaveDoes, Inside
    <3>2. (permit.fresh => op[c].clone = data) /\ (~permit.fresh => savers > 0)
      BY <2>10 DEF SaveDoes, Inside, PermitsFit, PermitFits
    <3> QED BY <2>10, <3>1, <3>2 DEF SaveDoes
  <2>11. CASE UndoDoes(c)
    BY <2>11 DEF UndoDoes
  <2>12. CASE PutBackDoes(c)
    BY <2>12 DEF PutBackDoes
  <2>13. CASE PutBackApplyDoes(c)
    BY <2>13 DEF PutBackApplyDoes, Typed
  <2>14. CASE EndDoes(c)
    BY <2>14 DEF EndDoes
  <2>15. CASE EnterDoes(c)
    BY <2>15 DEF EnterDoes
  <2>16. CASE PlanDeleteDoes(c)
    BY <2>16 DEF PlanDeleteDoes
  <2>17. CASE RefusedDoes(c)
    <3>1. data' = data
      BY <2>17, CloneIsData DEF RefusedDoes, Inside
    <3>2. (permit.fresh => op[c].clone = data) /\ (~permit.fresh => savers > 0)
      BY <2>17 DEF RefusedDoes, Inside, PermitsFit, PermitFits
    <3> QED BY <2>17, <3>1, <3>2 DEF RefusedDoes
  <2>18. CASE DeleteSaveDoes(c)
    <3>1. Inside(c) /\ (~permit.fresh => savers > 0)
      BY <2>18 DEF DeleteSaveDoes, Inside, PermitsFit, PermitFits
    <3> QED BY <2>18, <3>1 DEF DeleteSaveDoes
  <2>19. CASE RollbackDoes(c)
    BY <2>19 DEF RollbackDoes
  <2>20. CASE AppendDoes(c)
    BY <2>20 DEF AppendDoes
  <2>21. CASE SaveItemDoes(c)
    <3>1. data' = data
      BY <2>21, CloneIsData DEF SaveItemDoes, Inside
    <3>2. (permit.fresh => op[c].clone = data) /\ (~permit.fresh => savers > 0)
      BY <2>21 DEF SaveItemDoes, Inside, PermitsFit, PermitFits
    <3> QED BY <2>21, <3>1, <3>2 DEF SaveItemDoes
  <2>22. CASE ItemDoes(c)
    <3>1. data' = data
      BY <2>22, CloneIsData DEF ItemDoes, Inside
    <3>2. (permit.fresh => op[c].clone = data) /\ (~permit.fresh => savers > 0)
      BY <2>22 DEF ItemDoes, Inside, PermitsFit, PermitFits
    <3> QED BY <2>22, <3>1, <3>2 DEF ItemDoes
  <2> QED BY <1>1, <2>1, <2>2, <2>3, <2>4, <2>5, <2>6, <2>7, <2>8, <2>9, <2>10, <2>11, <2>12,
            <2>13, <2>14, <2>15, <2>16, <2>17, <2>18, <2>19, <2>20, <2>21, <2>22 DEF Does
<1>2. CASE StartCoreDoes
  BY <1>2 DEF StartCoreDoes
<1>3. CASE SaverDoes
  BY <1>3 DEF SaverDoes
<1>4. CASE UNCHANGED vars
  BY <1>4 DEF vars
<1> QED BY <1>1, <1>2, <1>3, <1>4 DEF Effect

\* Every step leaves a deletion what it deletes, and the core ahead of it.
LEMMA DeleteStep ==
  ASSUME Given, Typed, CallsFit, PermitsFit, LocksFit, FlagsFit, DeletesFit,
         Effect PROVE DeletesFit'
<1> SUFFICES ASSUME NEW d \in Callers PROVE DeleteFits(d)'
  BY DEF DeletesFit
<1> USE DEF Moved, Kept, Others, Ended, DeleteFits, DeletesFit, CallsFit, CallFits, LocksFit,
          LockFits, FlagsFit, FlagFits, PermitsFit, PermitFits, Inside, Given, Switching, Deleting,
          Locking, Importing, IsSwitch, IsDelete, IsImport, Updating
<1>1. ASSUME NEW c \in Callers, Does(c) PROVE DeleteFits(d)'
  <2>1. CASE BeginDoes(c)
    BY <2>1 DEF BeginDoes
  <2>2. CASE LockDoes(c)
    BY <2>2 DEF LockDoes
  <2>3. CASE StageDoes(c)
    BY <2>3 DEF StageDoes
  <2>4. CASE TakeFlagDoes(c)
    BY <2>4 DEF TakeFlagDoes
  <2>5. CASE FailDoes(c)
    BY <2>5 DEF FailDoes
  <2>6. CASE GenerateDoes(c)
    <3>1. IsDelete(c) => op'[c].to = Without(op[c].clone, op[c].arg).cur
      BY <2>6 DEF GenerateDoes, Source
    <3> QED BY <2>6, <3>1 DEF GenerateDoes
  <2>7. CASE ApplyDoes(c)
    BY <2>7 DEF ApplyDoes
  <2>8. CASE DiscardDoes(c)
    BY <2>8 DEF DiscardDoes
  <2>9. CASE CommitDoes(c)
    BY <2>9 DEF CommitDoes
  <2>10. CASE SaveDoes(c)
    BY <2>10 DEF SaveDoes
  <2>11. CASE UndoDoes(c)
    BY <2>11 DEF UndoDoes
  <2>12. CASE PutBackDoes(c)
    BY <2>12 DEF PutBackDoes
  <2>13. CASE PutBackApplyDoes(c)
    BY <2>13 DEF PutBackApplyDoes
  <2>14. CASE EndDoes(c)
    BY <2>14 DEF EndDoes
  <2>15. CASE EnterDoes(c)
    BY <2>15 DEF EnterDoes
  <2>16. CASE PlanDeleteDoes(c)
    BY <2>16 DEF PlanDeleteDoes
  <2>17. CASE RefusedDoes(c)
    BY <2>17 DEF RefusedDoes
  <2>18. CASE DeleteSaveDoes(c)
    BY <2>18 DEF DeleteSaveDoes
  <2>19. CASE RollbackDoes(c)
    BY <2>19 DEF RollbackDoes
  <2>20. CASE AppendDoes(c)
    BY <2>20 DEF AppendDoes
  <2>21. CASE SaveItemDoes(c)
    BY <2>21 DEF SaveItemDoes
  <2>22. CASE ItemDoes(c)
    BY <2>22 DEF ItemDoes
  <2> QED BY <1>1, <2>1, <2>2, <2>3, <2>4, <2>5, <2>6, <2>7, <2>8, <2>9, <2>10, <2>11, <2>12,
            <2>13, <2>14, <2>15, <2>16, <2>17, <2>18, <2>19, <2>20, <2>21, <2>22 DEF Does
<1>2. CASE StartCoreDoes
  BY <1>2 DEF StartCoreDoes
<1>3. CASE SaverDoes
  BY <1>3 DEF SaverDoes
<1>4. CASE UNCHANGED vars
  BY <1>4 DEF vars
<1> QED BY <1>1, <1>2, <1>3, <1>4 DEF Effect

----------------------------------------------------------------------------------
(* How the data change, and who is still to see to the core.                       *)

\* What a step makes of the data.
LEMMA DataStep ==
  ASSUME Given, Typed, CallsFit, PermitsFit, PrevsFit, NEW c \in Callers, Does(c)
  PROVE  \/ data' = data
         \/ CommitDoes(c) /\ data' = Patched(data, op[c].arg)
         \/ DeleteSaveDoes(c) /\ data' = Without(data, op[c].arg) /\ op[c].clone = data
         \/ PutBackApplyDoes(c) /\ data'.cur = data.cur
         \/ /\ AppendDoes(c) /\ data' = Appended(data, Imported) /\ draft' = draft
            /\ Moved(c, "enterSaveItem") /\ op[c].arg = Imported
<1>1. CASE BeginDoes(c)
  BY <1>1 DEF BeginDoes
<1>2. CASE LockDoes(c)
  BY <1>2 DEF LockDoes
<1>3. CASE StageDoes(c)
  BY <1>3 DEF StageDoes
<1>4. CASE TakeFlagDoes(c)
  BY <1>4 DEF TakeFlagDoes
<1>5. CASE FailDoes(c)
  BY <1>5 DEF FailDoes
<1>6. CASE GenerateDoes(c)
  BY <1>6 DEF GenerateDoes
<1>7. CASE ApplyDoes(c)
  BY <1>7 DEF ApplyDoes
<1>8. CASE DiscardDoes(c)
  BY <1>8 DEF DiscardDoes
<1>9. CASE CommitDoes(c)
  <2>1. permit.fresh /\ op[c].clone = data
    BY <1>9 DEF CommitDoes, CallsFit, CallFits, PermitsFit, PermitFits, Inside, Switching
  <2> QED BY <1>9, <2>1 DEF CommitDoes
<1>10. CASE SaveDoes(c)
  BY <1>10, CloneIsData DEF SaveDoes, Inside
<1>11. CASE UndoDoes(c)
  BY <1>11 DEF UndoDoes
<1>12. CASE PutBackDoes(c)
  BY <1>12 DEF PutBackDoes
<1>13. CASE PutBackApplyDoes(c)
  <2>1. op[c].prev = data.cur /\ (draft = NoDraft \/ draft.cur = op[c].prev)
    BY <1>13 DEF PutBackApplyDoes, CallsFit, CallFits, PrevsFit, PrevFits, Switching
  <2>2. data'.cur = data.cur
    BY <1>13, <2>1 DEF PutBackApplyDoes, Latest
  <2> QED BY <1>13, <2>2
<1>14. CASE EndDoes(c)
  BY <1>14 DEF EndDoes
<1>15. CASE EnterDoes(c)
  BY <1>15 DEF EnterDoes
<1>16. CASE PlanDeleteDoes(c)
  BY <1>16 DEF PlanDeleteDoes
<1>17. CASE RefusedDoes(c)
  BY <1>17, CloneIsData DEF RefusedDoes, Inside
<1>18. CASE DeleteSaveDoes(c)
  <2>1. permit.fresh /\ op[c].clone = data
    BY <1>18 DEF DeleteSaveDoes, CallsFit, CallFits, PermitsFit, PermitFits, Inside, Deleting
  <2> QED BY <1>18, <2>1 DEF DeleteSaveDoes
<1>19. CASE RollbackDoes(c)
  BY <1>19 DEF RollbackDoes
<1>20. CASE AppendDoes(c)
  <2>1. (permit.fresh => op[c].clone = data) /\ op[c].arg = Imported
    BY <1>20 DEF AppendDoes, CallsFit, CallFits, PermitsFit, PermitFits, Inside, Importing
  <2> QED BY <1>20, <2>1 DEF AppendDoes
<1>21. CASE SaveItemDoes(c)
  BY <1>21, CloneIsData DEF SaveItemDoes, Inside
<1>22. CASE ItemDoes(c)
  BY <1>22, CloneIsData DEF ItemDoes, Inside
<1> QED BY <1>1, <1>2, <1>3, <1>4, <1>5, <1>6, <1>7, <1>8, <1>9, <1>10, <1>11, <1>12, <1>13, <1>14,
          <1>15, <1>16, <1>17, <1>18, <1>19, <1>20, <1>21, <1>22 DEF Does

\* A current profile is replaced by a commit, a deletion or the first import.
LEMMA CurStep ==
  ASSUME Given, Typed, CallsFit, PermitsFit, DeletesFit, PrevsFit, NEW c \in Callers, Does(c)
  PROVE  \/ data'.cur = data.cur
         \/ CommitDoes(c) /\ data' = Patched(data, op[c].arg)
         \/ DeleteSaveDoes(c) /\ flag = c /\ data' = Without(op[c].clone, op[c].arg)
         \/ /\ AppendDoes(c) /\ data.cur = NoUid /\ data'.cur = Imported
            /\ Moved(c, "enterSaveItem") /\ op[c].arg = Imported
<1>1. CASE data' = data \/ (PutBackApplyDoes(c) /\ data'.cur = data.cur)
  BY <1>1
<1>2. CASE CommitDoes(c) /\ data' = Patched(data, op[c].arg)
  BY <1>2
<1>3. CASE DeleteSaveDoes(c) /\ data' = Without(data, op[c].arg) /\ op[c].clone = data
  <2>1. CASE flag = c
    BY <1>3, <2>1
  <2>2. CASE flag # c
    <3>1. ~Loses(data, op[c].arg) /\ op[c].arg \in Members(data.items) /\ data \in Profiles
      BY <1>3, <2>2 DEF DeleteSaveDoes, DeletesFit, DeleteFits, CallsFit, CallFits, Deleting, Typed
    <3>2. Without(data, op[c].arg).cur = data.cur
      BY <3>1, WithoutFacts
    <3> QED BY <1>3, <3>2
  <2> QED BY <2>1, <2>2
<1>4. CASE /\ AppendDoes(c) /\ data' = Appended(data, Imported)
           /\ Moved(c, "enterSaveItem") /\ op[c].arg = Imported
  <2>1. Appended(data, Imported).cur = IF data.cur = NoUid THEN Imported ELSE data.cur
    BY AppendedFacts DEF Typed, Uid
  <2> QED BY <1>4, <2>1
<1> QED BY <1>1, <1>2, <1>3, <1>4, DataStep

\* An import that is to see to the core does so or is one of the exceptions.
LEMMA PendingStays ==
  ASSUME Given, Typed, CallsFit, FlagsFit, NEW c \in Callers, Does(c), NEW e \in Callers,
         Pending(e),
         data'.cur = data.cur, ~excused'
  PROVE  Pending(e)' \/ (c = e /\ ApplyDoes(c))
<1> USE DEF Pending, Waiting, Saves, IsSwitch, IsDelete, IsImport, Updating, CallsFit, CallFits,
          Switching,
            Deleting, Locking, Importing, Moved, Kept, Others
<1>1. CASE c # e
  <2>1. op'[e] = op[e]
    BY <1>1
    DEF Does, Ended, BeginDoes, LockDoes, StageDoes, TakeFlagDoes, FailDoes, GenerateDoes,
        ApplyDoes,
                DiscardDoes, CommitDoes, SaveDoes, UndoDoes, PutBackDoes, PutBackApplyDoes, EndDoes, EnterDoes,
                PlanDeleteDoes, RefusedDoes, DeleteSaveDoes, RollbackDoes, AppendDoes, SaveItemDoes, ItemDoes
  <2> QED BY <2>1
<1>2. CASE c = e
  <2>1. CASE BeginDoes(c)
    BY <1>2, <2>1 DEF BeginDoes
  <2>2. CASE LockDoes(c)
    BY <1>2, <2>2 DEF LockDoes
  <2>3. CASE StageDoes(c)
    BY <1>2, <2>3 DEF StageDoes
  <2>4. CASE TakeFlagDoes(c)
    BY <1>2, <2>4 DEF TakeFlagDoes
  <2>5. CASE FailDoes(c)
    BY <1>2, <2>5 DEF FailDoes
  <2>6. CASE GenerateDoes(c)
    BY <1>2, <2>6 DEF GenerateDoes
  <2>7. CASE ApplyDoes(c)
    BY <1>2, <2>7 DEF ApplyDoes
  <2>8. CASE DiscardDoes(c)
    BY <1>2, <2>8 DEF DiscardDoes
  <2>9. CASE CommitDoes(c)
    BY <1>2, <2>9 DEF CommitDoes
  <2>10. CASE SaveDoes(c)
    BY <1>2, <2>10 DEF SaveDoes
  <2>11. CASE UndoDoes(c)
    BY <1>2, <2>11 DEF UndoDoes
  <2>12. CASE PutBackDoes(c)
    BY <1>2, <2>12 DEF PutBackDoes
  <2>13. CASE PutBackApplyDoes(c)
    BY <1>2, <2>13 DEF PutBackApplyDoes
  <2>14. CASE EndDoes(c)
    BY <1>2, <2>14 DEF EndDoes
  <2>15. CASE EnterDoes(c)
    BY <1>2, <2>15 DEF EnterDoes
  <2>16. CASE PlanDeleteDoes(c)
    BY <1>2, <2>16 DEF PlanDeleteDoes
  <2>17. CASE RefusedDoes(c)
    BY <1>2, <2>17 DEF RefusedDoes
  <2>18. CASE DeleteSaveDoes(c)
    BY <1>2, <2>18 DEF DeleteSaveDoes
  <2>19. CASE RollbackDoes(c)
    BY <1>2, <2>19 DEF RollbackDoes
  <2>20. CASE AppendDoes(c)
    BY <1>2, <2>20 DEF AppendDoes
  <2>21. CASE SaveItemDoes(c)
    BY <1>2, <2>21 DEF SaveItemDoes
  <2>22. CASE ItemDoes(c)
    BY <1>2, <2>22 DEF ItemDoes
  <2> QED BY <1>2, <2>1, <2>2, <2>3, <2>4, <2>5, <2>6, <2>7, <2>8, <2>9, <2>10, <2>11, <2>12,
            <2>13, <2>14, <2>15, <2>16, <2>17, <2>18, <2>19, <2>20, <2>21, <2>22 DEF Does
<1> QED BY <1>1, <1>2

----------------------------------------------------------------------------------
(* What a switch has staged, and what is applied.                                  *)

\* A step of one call leaves the others where they are.
LEMMA OthersStand ==
  ASSUME NEW c \in Callers, Does(c), NEW e \in Callers, e # c PROVE op'[e] = op[e]
BY DEF Does, Moved, Kept, Others, Ended, BeginDoes, LockDoes, StageDoes, TakeFlagDoes, FailDoes,
   GenerateDoes, ApplyDoes,
                DiscardDoes, CommitDoes, SaveDoes, UndoDoes, PutBackDoes, PutBackApplyDoes,
                EndDoes, EnterDoes, PlanDeleteDoes, RefusedDoes, DeleteSaveDoes, RollbackDoes,
                AppendDoes, SaveItemDoes, ItemDoes

\* An exception is one for good.
LEMMA StaysExcused == ASSUME Effect, excused PROVE excused'
<1>1. ASSUME NEW c \in Callers, Does(c) PROVE excused'
  <2>1. CASE BeginDoes(c)
    BY <2>1 DEF BeginDoes
  <2>2. CASE LockDoes(c)
    BY <2>2 DEF LockDoes
  <2>3. CASE StageDoes(c)
    BY <2>3 DEF StageDoes
  <2>4. CASE TakeFlagDoes(c)
    BY <2>4 DEF TakeFlagDoes
  <2>5. CASE FailDoes(c)
    BY <2>5 DEF FailDoes
  <2>6. CASE GenerateDoes(c)
    BY <2>6 DEF GenerateDoes
  <2>7. CASE ApplyDoes(c)
    BY <2>7 DEF ApplyDoes
  <2>8. CASE DiscardDoes(c)
    BY <2>8 DEF DiscardDoes
  <2>9. CASE CommitDoes(c)
    BY <2>9 DEF CommitDoes
  <2>10. CASE SaveDoes(c)
    BY <2>10 DEF SaveDoes
  <2>11. CASE UndoDoes(c)
    BY <2>11 DEF UndoDoes
  <2>12. CASE PutBackDoes(c)
    BY <2>12 DEF PutBackDoes
  <2>13. CASE PutBackApplyDoes(c)
    BY <2>13 DEF PutBackApplyDoes
  <2>14. CASE EndDoes(c)
    BY <2>14 DEF EndDoes
  <2>15. CASE EnterDoes(c)
    BY <2>15 DEF EnterDoes
  <2>16. CASE PlanDeleteDoes(c)
    BY <2>16 DEF PlanDeleteDoes
  <2>17. CASE RefusedDoes(c)
    BY <2>17 DEF RefusedDoes
  <2>18. CASE DeleteSaveDoes(c)
    BY <2>18 DEF DeleteSaveDoes
  <2>19. CASE RollbackDoes(c)
    BY <2>19 DEF RollbackDoes
  <2>20. CASE AppendDoes(c)
    BY <2>20 DEF AppendDoes
  <2>21. CASE SaveItemDoes(c)
    BY <2>21 DEF SaveItemDoes
  <2>22. CASE ItemDoes(c)
    BY <2>22 DEF ItemDoes
  <2> QED BY <1>1, <2>1, <2>2, <2>3, <2>4, <2>5, <2>6, <2>7, <2>8, <2>9, <2>10, <2>11, <2>12,
            <2>13, <2>14, <2>15, <2>16, <2>17, <2>18, <2>19, <2>20, <2>21, <2>22 DEF Does
<1>2. CASE StartCoreDoes
  BY <1>2 DEF StartCoreDoes
<1>3. CASE SaverDoes
  BY <1>3 DEF SaverDoes
<1>4. CASE UNCHANGED vars
  BY <1>4 DEF vars
<1> QED BY <1>1, <1>2, <1>3, <1>4 DEF Effect

\* While a switch holds PROFILE_WRITE_LOCK only an import changes the data.
LEMMA OnlyAppends ==
  ASSUME Given, Typed, CallsFit, PermitsFit, PrevsFit, LocksFit, NEW c \in Callers, Does(c),
         NEW d \in Callers, d # c, IsSwitch(d), op[d].at # "lock"
  PROVE  \/ data' = data
         \/ /\ AppendDoes(c) /\ data' = Appended(data, Imported) /\ draft' = draft
            /\ Moved(c, "enterSaveItem") /\ op[c].arg = Imported
<1>1. ASSUME op[c].at \in {"commit", "deleteSave", "putBackApply"} PROVE FALSE
  <2>1. IsSwitch(c) \/ IsDelete(c)
    BY <1>1 DEF CallsFit, CallFits, Switching, Deleting
  <2> QED BY <1>1, <2>1, OneLocks
<1> QED BY <1>1, DataStep DEF CommitDoes, DeleteSaveDoes, PutBackApplyDoes

\* What an import makes of the data, seen by a switch.
LEMMA AppendSeen ==
  ASSUME Given, Typed, CallsFit, NEW c \in Callers, NEW d \in Callers, IsSwitch(d),
         data' = Appended(data, Imported), Moved(c, "enterSaveItem"), op[c].arg = Imported,
         op[c].at = "append"
  PROVE  /\ op[d].arg \in Members(data'.items) <=> op[d].arg \in Members(data.items)
         /\ data'.cur = data.cur \/ (data.cur = NoUid /\ data'.cur = Imported /\ Saves(c)')
<1>1. /\ Members(Appended(data, Imported).items) = Members(data.items) \cup {Imported}
      /\ Appended(data, Imported).cur = IF data.cur = NoUid THEN Imported ELSE data.cur
  BY AppendedFacts DEF Typed, Uid
<1>2. op[d].arg # Imported
  BY DEF CallsFit, CallFits, Given
<1>3. IsImport(c)
  BY DEF CallsFit, CallFits, Importing
<1>4. data'.cur = Imported => Saves(c)'
  BY <1>3 DEF Saves, Moved, Kept, IsImport
<1> QED BY <1>1, <1>2, <1>4

\* While a switch is staged, the draft stays, or an import has discarded it.
LEMMA DraftStays ==
  ASSUME Given, Typed, CallsFit, LocksFit, DraftFits, NEW c \in Callers, Does(c), ~excused',
         NEW d \in Callers, d # c, Staging(d)
  PROVE  draft' = draft
<1>1. ASSUME IsSwitch(c) \/ IsDelete(c), op[c].at # "lock" PROVE FALSE
  BY <1>1, OneLocks DEF Staging
<1>2. op[c].at \notin Switching
  BY <1>1 DEF CallsFit, CallFits, Switching
<1>3. CASE BeginDoes(c)
  BY <1>3 DEF BeginDoes
<1>4. CASE LockDoes(c)
  BY <1>4 DEF LockDoes
<1>5. CASE StageDoes(c)
  BY <1>2, <1>5 DEF StageDoes, Switching
<1>6. CASE TakeFlagDoes(c)
  BY <1>6 DEF TakeFlagDoes
<1>7. CASE FailDoes(c)
  BY <1>7 DEF FailDoes
<1>8. CASE GenerateDoes(c)
  BY <1>8 DEF GenerateDoes
<1>9. CASE ApplyDoes(c)
  BY <1>9 DEF ApplyDoes
<1>10. CASE DiscardDoes(c)
  BY <1>2, <1>10 DEF DiscardDoes, Switching
<1>11. CASE CommitDoes(c)
  BY <1>11 DEF CommitDoes
<1>12. CASE SaveDoes(c)
  BY <1>12 DEF SaveDoes
<1>13. CASE UndoDoes(c)
  BY <1>2, <1>13 DEF UndoDoes, Switching
<1>14. CASE PutBackDoes(c)
  BY <1>2, <1>14 DEF PutBackDoes, Switching
<1>15. CASE PutBackApplyDoes(c)
  BY <1>2, <1>15 DEF PutBackApplyDoes, Switching
<1>16. CASE EndDoes(c)
  BY <1>16 DEF EndDoes
<1>17. CASE EnterDoes(c)
  BY <1>17 DEF EnterDoes
<1>18. CASE PlanDeleteDoes(c)
  BY <1>18 DEF PlanDeleteDoes
<1>19. CASE RefusedDoes(c)
  BY <1>19 DEF RefusedDoes
<1>20. CASE DeleteSaveDoes(c)
  BY <1>20 DEF DeleteSaveDoes
<1>21. CASE RollbackDoes(c)
  BY <1>21 DEF RollbackDoes
<1>22. CASE AppendDoes(c)
  BY <1>22 DEF AppendDoes
<1>23. CASE SaveItemDoes(c)
  BY <1>23 DEF SaveItemDoes
<1>24. CASE ItemDoes(c)
  BY <1>24 DEF ItemDoes
<1> QED BY <1>3, <1>4, <1>5, <1>6, <1>7, <1>8, <1>9, <1>10, <1>11, <1>12, <1>13, <1>14, <1>15,
          <1>16, <1>17, <1>18, <1>19, <1>20, <1>21, <1>22, <1>23, <1>24 DEF Does

\* An import whose profile a switch hides stays until it is told of.
LEMMA UnseenStays ==
  ASSUME Given, Typed, CallsFit, NEW c \in Callers, Does(c), ~excused', NEW e \in Callers,
         Unseen(e),
         draft' = draft, draft # NoDraft, data'.cur = data.cur \/ (data.cur = NoUid /\ data'.cur = Imported)
  PROVE  Unseen(e)'
<1>1. data'.cur = data.cur
  BY DEF Unseen, Saves, CallsFit, CallFits
<1> USE DEF Unseen, Saves, Moved, Kept, Others, Ended, IsSwitch, IsDelete, IsImport, Switching,
          Deleting, Locking, Importing, Updating
<1>2. CASE c # e
  BY <1>1, <1>2, OthersStand
<1>3. CASE c = e
  <2>1. op[c].at \in {"enterSaveItem", "saveItem"} /\ op[c].kind = "import" /\ op[c].arg = data.cur
        /\ op[c].arg # draft.cur
    BY <1>3
  <2>2. EnterDoes(c) \/ SaveItemDoes(c)
    BY <2>1
    DEF Does, CallsFit, CallFits, BeginDoes, LockDoes, StageDoes, TakeFlagDoes, FailDoes,
        GenerateDoes, ApplyDoes,
                DiscardDoes, CommitDoes, SaveDoes, UndoDoes, PutBackDoes, PutBackApplyDoes,
                EndDoes, EnterDoes, PlanDeleteDoes, RefusedDoes, DeleteSaveDoes, RollbackDoes,
                AppendDoes, SaveItemDoes, ItemDoes
  <2>3. CASE EnterDoes(c)
    BY <1>1, <1>3, <2>1, <2>3 DEF EnterDoes
  <2>4. CASE SaveItemDoes(c)
    BY <2>1, <2>4 DEF SaveItemDoes, Latest
  <2> QED BY <2>2, <2>3, <2>4
<1> QED BY <1>2, <1>3

\* Every step leaves what a switch has staged what it will commit.
LEMMA StageStep ==
  ASSUME Given, Typed, CallsFit, PermitsFit, LocksFit, DraftFits, PrevsFit, StagesFit, Effect
  PROVE  StagesFit'
<1> SUFFICES ASSUME ~excused', NEW d \in Callers PROVE StageFits(d)'
  BY Zenon DEF StagesFit
<1>0. ~excused /\ StageFits(d)
  BY StaysExcused DEF StagesFit
<1>1. ASSUME NEW c \in Callers, Does(c), c # d PROVE StageFits(d)'
  <2> SUFFICES ASSUME IsSwitch(d)', op'[d].at \in {"update", "generate", "apply", "discard"}
               PROVE  /\ draft' # NoDraft
                      /\ op'[d].arg \in Members(data'.items) => draft'.cur = op'[d].arg
                      /\ op'[d].arg \notin Members(data'.items) =>
                           draft'.cur = data'.cur \/ \E e \in Callers : Unseen(e)'
                      /\ op'[d].at = "apply" => op'[d].to = draft'.cur
    BY DEF StageFits
  <2>1. op'[d] = op[d]
    BY <1>1, OthersStand
  <2>2. IsSwitch(d) /\ op[d].at \in {"update", "generate", "apply", "discard"} /\ Staging(d)
    BY <2>1 DEF IsSwitch, Staging
  <2>3. /\ draft # NoDraft
        /\ op[d].arg \in Members(data.items) => draft.cur = op[d].arg
        /\ op[d].arg \notin Members(data.items) => draft.cur = data.cur \/ \E e \in Callers : Unseen(e)
        /\ op[d].at = "apply" => op[d].to = draft.cur
    BY <1>0, <2>2 DEF StageFits
  <2>4. draft' = draft
    BY <1>1, <2>2, DraftStays
  <2>5. /\ op[d].arg \in Members(data'.items) <=> op[d].arg \in Members(data.items)
        /\ data'.cur = data.cur \/ (data.cur = NoUid /\ data'.cur = Imported /\ Saves(c)')
    <3>1. CASE data' = data
      BY <3>1
    <3>2. CASE /\ AppendDoes(c) /\ data' = Appended(data, Imported) /\ draft' = draft
               /\ Moved(c, "enterSaveItem") /\ op[c].arg = Imported
      BY <2>2, <3>2, AppendSeen DEF AppendDoes
    <3> QED BY <1>1, <2>2, <3>1, <3>2, OnlyAppends
  <2>6. ASSUME NEW e \in Callers, Unseen(e) PROVE Unseen(e)'
    BY <1>1, <2>3, <2>4, <2>5, <2>6, UnseenStays
  <2>7. ASSUME draft.cur = data.cur PROVE draft'.cur = data'.cur \/ Unseen(c)'
    <3>1. CASE data'.cur = data.cur
      BY <2>4, <2>7, <3>1
    <3>2. CASE Saves(c)' /\ data.cur = NoUid /\ data'.cur = Imported
      BY <2>4, <2>7, <3>2 DEF Unseen, Saves
    <3> QED BY <2>5, <3>1, <3>2
  <2>8. op[d].arg \notin Members(data.items) => draft'.cur = data'.cur \/ \E e \in Callers : Unseen(e)'
    BY <2>3, <2>6, <2>7
  <2> QED BY <2>1, <2>3, <2>4, <2>5, <2>8
<1>2. ASSUME Does(d) PROVE StageFits(d)'
  <2> SUFFICES ASSUME IsSwitch(d)', op'[d].at \in {"update", "generate", "apply", "discard"}
               PROVE  /\ draft' # NoDraft
                      /\ op'[d].arg \in Members(data'.items) => draft'.cur = op'[d].arg
                      /\ op'[d].arg \notin Members(data'.items) =>
                           draft'.cur = data'.cur \/ \E e \in Callers : Unseen(e)'
                      /\ op'[d].at = "apply" => op'[d].to = draft'.cur
    BY DEF StageFits
  <2>1. \/ StageDoes(d) \/ TakeFlagDoes(d) \/ GenerateDoes(d)
        \/ ApplyDoes(d) /\ op'[d].at = "discard" /\ Moved(d, "discard")
    BY <1>2
    DEF Does, CallsFit, CallFits, Moved, Kept, Others, Ended, IsSwitch, IsDelete, IsImport,
        Switching, Deleting, Locking, Importing, Updating,
                BeginDoes, LockDoes, StageDoes, TakeFlagDoes, FailDoes, GenerateDoes, ApplyDoes,
                DiscardDoes, CommitDoes, SaveDoes, UndoDoes, PutBackDoes, PutBackApplyDoes,
                EndDoes, EnterDoes, PlanDeleteDoes, RefusedDoes, DeleteSaveDoes, RollbackDoes,
                AppendDoes, SaveItemDoes, ItemDoes
  <2>2. CASE StageDoes(d)
    <3>1. IsSwitch(d) /\ draft = NoDraft /\ Latest = data
      BY <2>2, NoDraftLeft DEF StageDoes, Kept, IsSwitch, Staging, Latest
    <3>2. data \in Profiles /\ data' = data /\ draft' = Patched(data, op[d].arg) /\ op'[d].arg = op[d].arg
          /\ op'[d].at = "update"
      BY <2>2, <3>1 DEF StageDoes, Kept, Typed
    <3>3. /\ Patched(data, op[d].arg) \in Profiles
          /\ Patched(data, op[d].arg).cur = IF op[d].arg \in Members(data.items) THEN op[d].arg ELSE data.cur
      BY <3>2, PatchedFacts
    <3>4. NoDraft \notin Profiles
      BY DEF Given, Profiles, Current, Uid, NoDraft, NoUid
    <3> QED BY <3>2, <3>3, <3>4
  <2>3. CASE TakeFlagDoes(d) \/ GenerateDoes(d) \/ (ApplyDoes(d) /\ op'[d].at = "discard" /\ Moved(d, "discard"))
    <3>1. /\ IsSwitch(d) /\ op[d].at \in {"update", "generate", "apply"} /\ op'[d].arg = op[d].arg
          /\ draft' = draft /\ data' = data
          /\ op'[d].at = "apply" => op'[d].to = Source(d)
          /\ \A e \in Callers : e # d => op'[e] = op[e]
      BY <2>3 DEF TakeFlagDoes, GenerateDoes, ApplyDoes, Moved, Kept, Others, Ended, IsSwitch
    <3>2. /\ draft # NoDraft
          /\ op[d].arg \in Members(data.items) => draft.cur = op[d].arg
          /\ op[d].arg \notin Members(data.items) => draft.cur = data.cur \/ \E e \in Callers : Unseen(e)
      BY <1>0, <3>1 DEF StageFits
    <3>3. ASSUME NEW e \in Callers, Unseen(e) PROVE Unseen(e)'
      <4>1. e # d
        BY <3>1, <3>3 DEF Unseen, Saves, IsImport, IsSwitch
      <4> QED BY <3>1, <3>3, <4>1 DEF Unseen, Saves, IsImport
    <3>4. Source(d) = draft.cur
      BY <3>1, <3>2 DEF Source, Latest, IsSwitch
    <3> QED BY <3>1, <3>2, <3>3, <3>4
  <2> QED BY <2>1, <2>2, <2>3
<1>3. ASSUME UNCHANGED <<op, data, draft>> PROVE StageFits(d)'
  <2>1. StageFits(d) => StageFits(d)'
    BY <1>3 DEF StageFits, Unseen, Saves, IsImport, IsSwitch
  <2> QED BY <1>0, <2>1
<1> QED BY <1>1, <1>2, <1>3 DEF Effect, StartCoreDoes, SaverDoes, vars

\* Whoever does not apply, fail to apply or roll back leaves the core alone.
LEMMA CoreStays ==
  ASSUME NEW c \in Callers, Does(c), ~ApplyDoes(c), ~RollbackDoes(c)
  PROVE  /\ runtime' = runtime /\ core' \in {core, "down"}
         /\ op[c].at # "apply" => core' = core
BY DEF Does, BeginDoes, LockDoes, StageDoes, TakeFlagDoes, FailDoes, GenerateDoes, DiscardDoes,
   CommitDoes, SaveDoes, UndoDoes, PutBackDoes, PutBackApplyDoes, EndDoes, EnterDoes,
   PlanDeleteDoes, RefusedDoes, DeleteSaveDoes, AppendDoes, SaveItemDoes, ItemDoes

\* Every step leaves what a switch has applied what it will commit.
LEMMA AheadStep ==
  ASSUME Given, Typed, CallsFit, PermitsFit, LocksFit, FlagsFit, PrevsFit, StagesFit, AheadsFit,
         Effect
  PROVE  AheadsFit'
<1> SUFFICES ASSUME ~excused', NEW d \in Callers, Ahead(d)'
             PROVE  /\ runtime' = op'[d].to /\ core' \in {op'[d].to, "down"}
                    /\ op'[d].arg \in Members(data'.items) => op'[d].to = op'[d].arg
                    /\ op'[d].arg \notin Members(data'.items) =>
                         op'[d].to = data'.cur \/ \E e \in Callers : Pending(e)'
                    /\ \A e \in Callers : op'[e].at # "apply"
  BY Zenon DEF AheadsFit, AheadFits
<1>0. ~excused /\ AheadFits(d) /\ StageFits(d)
  BY StaysExcused DEF AheadsFit, StagesFit
<1> DEFINE Goal == /\ runtime' = op'[d].to /\ core' \in {op'[d].to, "down"}
                   /\ op'[d].arg \in Members(data'.items) => op'[d].to = op'[d].arg
                   /\ op'[d].arg \notin Members(data'.items) =>
                        op'[d].to = data'.cur \/ \E e \in Callers : Pending(e)'
                   /\ \A e \in Callers : op'[e].at # "apply"
<1>1. ASSUME NEW c \in Callers, Does(c), c # d PROVE Goal
  <2>1. op'[d] = op[d]
    BY <1>1, OthersStand
  <2>2. IsSwitch(d) /\ op[d].at \in {"discard", "enterCommit", "commit"} /\ Ahead(d)
    BY <2>1 DEF IsSwitch, Ahead
  <2>3. /\ runtime = op[d].to /\ core \in {op[d].to, "down"}
        /\ op[d].arg \in Members(data.items) => op[d].to = op[d].arg
        /\ op[d].arg \notin Members(data.items) => op[d].to = data.cur \/ \E e \in Callers : Pending(e)
        /\ \A e \in Callers : op[e].at # "apply"
    BY <1>0, <2>2 DEF AheadFits
  <2>4. ASSUME IsDelete(c), op[c].at # "lock" PROVE FALSE
    BY <1>1, <2>2, <2>4, OneLocks
  <2>5. ~ApplyDoes(c) /\ ~RollbackDoes(c)
    BY <2>3, <2>4 DEF ApplyDoes, RollbackDoes, CallsFit, CallFits, Deleting
  <2>6. runtime' = runtime /\ core' = core
    BY <1>1, <2>3, <2>5, CoreStays
  <2>7. /\ op[d].arg \in Members(data'.items) <=> op[d].arg \in Members(data.items)
        /\ data'.cur = data.cur \/ (data.cur = NoUid /\ data'.cur = Imported /\ Saves(c)')
    <3>1. CASE data' = data
      BY <3>1
    <3>2. CASE /\ AppendDoes(c) /\ data' = Appended(data, Imported) /\ draft' = draft
               /\ Moved(c, "enterSaveItem") /\ op[c].arg = Imported
      BY <2>2, <3>2, AppendSeen DEF AppendDoes
    <3> QED BY <1>1, <2>2, <3>1, <3>2, OnlyAppends
  <2>8. op'[c].at # "apply"
    <3> SUFFICES ASSUME op'[c].at = "apply" PROVE FALSE
      OBVIOUS
    <3>1. GenerateDoes(c)
      BY <1>1, <2>3 DEF Does, Moved, Kept, Others, Ended,
                BeginDoes, LockDoes, StageDoes, TakeFlagDoes, FailDoes, GenerateDoes, ApplyDoes,
                DiscardDoes, CommitDoes, SaveDoes, UndoDoes, PutBackDoes, PutBackApplyDoes,
                EndDoes, EnterDoes, PlanDeleteDoes, RefusedDoes, DeleteSaveDoes, RollbackDoes,
                AppendDoes, SaveItemDoes, ItemDoes
    <3>2. ~IsDelete(c)
      BY <2>4, <3>1 DEF GenerateDoes
    <3>3. CrossesSwitch(c)
      BY <1>1, <2>2 DEF CrossesSwitch, Unsettled, At, IsSwitch
    <3> QED BY <3>1, <3>2, <3>3 DEF GenerateDoes
  <2>9. \A e \in Callers : op'[e].at # "apply"
    BY <1>1, <2>3, <2>8, OthersStand
  <2>10. ASSUME op[d].to = data.cur \/ \E e \in Callers : Pending(e)
         PROVE  op[d].to = data'.cur \/ \E e \in Callers : Pending(e)'
    <3>1. CASE data'.cur = data.cur
      BY <1>1, <2>5, <2>10, <3>1, PendingStays
    <3>2. CASE Saves(c)'
      BY <3>2 DEF Pending, Waiting
    <3> QED BY <2>7, <3>1, <3>2
  <2> QED BY <2>1, <2>3, <2>6, <2>7, <2>9, <2>10
<1>2. ASSUME Does(d) PROVE Goal
  <2>1. \/ ApplyDoes(d) /\ IsSwitch(d) /\ Moved(d, "discard")
        \/ DiscardDoes(d)
        \/ EnterDoes(d) /\ op[d].at = "enterCommit"
    <3>1. op'[d].kind = "switch" /\ op'[d].at \in {"discard", "enterCommit", "commit"}
      BY DEF Ahead, IsSwitch
    <3>2. \/ ApplyDoes(d) \/ DiscardDoes(d) \/ EnterDoes(d)
      BY <1>2, <3>1 DEF Does, Moved, Kept, Others, Ended, IsSwitch,
                BeginDoes, LockDoes, StageDoes, TakeFlagDoes, FailDoes, GenerateDoes, ApplyDoes,
                DiscardDoes, CommitDoes, SaveDoes, UndoDoes, PutBackDoes, PutBackApplyDoes,
                EndDoes, EnterDoes, PlanDeleteDoes, RefusedDoes, DeleteSaveDoes, RollbackDoes,
                AppendDoes, SaveItemDoes, ItemDoes
    <3>3. CASE ApplyDoes(d)
      BY <3>1, <3>3 DEF ApplyDoes, Moved, Kept, Others, Ended, IsSwitch
    <3>4. CASE EnterDoes(d)
      BY <3>1, <3>4 DEF EnterDoes
    <3> QED BY <3>2, <3>3, <3>4
  <2>2. CASE ApplyDoes(d) /\ IsSwitch(d) /\ Moved(d, "discard")
    <3>1. /\ flag = d /\ op[d].at = "apply" /\ runtime' = op[d].to /\ core' = op[d].to /\ data' = data
          /\ op'[d].arg = op[d].arg /\ op'[d].to = op[d].to /\ op'[d].at = "discard"
          /\ \A e \in Callers : e # d => op'[e] = op[e]
      BY <2>2 DEF ApplyDoes, Moved, Kept, Others, Ended
    <3>2. /\ op[d].arg \in Members(data.items) => op[d].to = op[d].arg
          /\ op[d].arg \notin Members(data.items) => op[d].to = data.cur \/ \E e \in Callers : Unseen(e)
      BY <1>0, <2>2, <3>1 DEF StageFits
    <3>3. ASSUME NEW e \in Callers, Unseen(e) PROVE Pending(e)'
      <4>1. e # d
        BY <2>2, <3>3 DEF Unseen, Saves, IsImport, IsSwitch
      <4> QED BY <3>1, <3>3, <4>1 DEF Unseen, Pending, Waiting, Saves, IsImport
    <3>4. \A e \in Callers : op'[e].at # "apply"
      BY <3>1 DEF FlagsFit, FlagFits
    <3> QED BY <3>1, <3>2, <3>3, <3>4
  <2>3. CASE DiscardDoes(d) \/ (EnterDoes(d) /\ op[d].at = "enterCommit")
    <3>1. /\ op[d].at \in {"discard", "enterCommit"} /\ IsSwitch(d) /\ op'[d].at # "apply"
          /\ op'[d].arg = op[d].arg /\ op'[d].to = op[d].to
          /\ data' = data /\ runtime' = runtime /\ core' = core
          /\ \A e \in Callers : e # d => op'[e] = op[e]
      BY <2>3 DEF DiscardDoes, EnterDoes, Moved, Kept, Others, Ended, IsSwitch, Ahead
    <3>2. /\ runtime = op[d].to /\ core \in {op[d].to, "down"}
          /\ op[d].arg \in Members(data.items) => op[d].to = op[d].arg
          /\ op[d].arg \notin Members(data.items) => op[d].to = data.cur \/ \E e \in Callers : Pending(e)
          /\ \A e \in Callers : op[e].at # "apply"
      BY <1>0, <3>1 DEF AheadFits, Ahead
    <3>3. ASSUME NEW e \in Callers, Pending(e) PROVE Pending(e)'
      <4>1. e # d
        BY <3>1, <3>3 DEF Pending, Waiting, Saves, IsImport, IsSwitch
      <4> QED BY <3>1, <3>3, <4>1 DEF Pending, Waiting, Saves, IsImport
    <3> QED BY <3>1, <3>2, <3>3
  <2> QED BY <2>1, <2>2, <2>3
<1>3. CASE UNCHANGED <<op, data, runtime>> /\ core' \in {core, runtime}
  <2>1. IsSwitch(d) /\ Ahead(d)
    BY <1>3 DEF Ahead, IsSwitch
  <2>2. \A e \in Callers : Pending(e) => Pending(e)'
    BY <1>3 DEF Pending, Waiting, Saves, IsImport
  <2> QED BY <1>0, <1>3, <2>1, <2>2 DEF AheadFits
<1> QED BY <1>1, <1>2, <1>3 DEF Effect, StartCoreDoes, SaverDoes, vars

\* An import that an update in progress keeps waiting waits until it is over.
LEMMA WaitingStays ==
  ASSUME Given, Typed, CallsFit, NEW c \in Callers, Does(c), ~excused', NEW e \in Callers,
         Waiting(e),
         data'.cur = data.cur, flag # Nobody
  PROVE  Waiting(e)'
<1> USE DEF Waiting, Saves, Moved, Kept, Others, Ended, IsSwitch, IsDelete, IsImport, Switching,
          Deleting, Locking, Importing, Updating
<1>1. CASE c # e
  BY <1>1, OthersStand
<1>2. CASE c = e
  <2>1. op[c].at \in {"enterSaveItem", "saveItem", "update"} /\ op[c].kind = "import"
        /\ (op[c].at # "update" => op[c].arg = data.cur)
    BY <1>2
  <2>2. EnterDoes(c) \/ SaveItemDoes(c) \/ FailDoes(c)
    BY <2>1
    DEF Does, CallsFit, CallFits, BeginDoes, LockDoes, StageDoes, TakeFlagDoes, FailDoes,
        GenerateDoes, ApplyDoes,
                DiscardDoes, CommitDoes, SaveDoes, UndoDoes, PutBackDoes, PutBackApplyDoes,
                EndDoes, EnterDoes, PlanDeleteDoes, RefusedDoes, DeleteSaveDoes, RollbackDoes,
                AppendDoes, SaveItemDoes, ItemDoes
  <2>3. CASE EnterDoes(c)
    BY <1>2, <2>1, <2>3 DEF EnterDoes
  <2>4. CASE SaveItemDoes(c)
    BY <1>2, <2>1, <2>4 DEF SaveItemDoes
  <2>5. CASE FailDoes(c)
    BY <1>2, <2>1, <2>5 DEF FailDoes
  <2> QED BY <2>2, <2>3, <2>4, <2>5
<1> QED BY <1>1, <1>2

\* Every step leaves what an update applies current, or an import to come after it.
LEMMA ApplyStep ==
  ASSUME Given, Typed, CallsFit, PermitsFit, LocksFit, FlagsFit, DeletesFit, DraftFits, PrevsFit,
         AheadsFit,
         AppliesFit, Effect
  PROVE  AppliesFit'
<1> SUFFICES ASSUME ~excused', NEW d \in Callers, op'[d].at = "apply", ~IsSwitch(d)', ~IsDelete(d)'
             PROVE  op'[d].to = data'.cur \/ \E e \in Callers : Waiting(e)'
  BY Zenon DEF AppliesFit, ApplyFits
<1>0. ~excused /\ ApplyFits(d) /\ AheadsFit
  BY StaysExcused DEF AppliesFit
<1>1. ASSUME NEW c \in Callers, Does(c),
             c # d PROVE op'[d].to = data'.cur \/ \E e \in Callers : Waiting(e)'
  <2>1. op'[d] = op[d]
    BY <1>1, OthersStand
  <2>2. op[d].at = "apply" /\ ~IsSwitch(d) /\ ~IsDelete(d) /\ flag = d /\ flag # Nobody
    BY <2>1 DEF IsSwitch, IsDelete, FlagsFit, FlagFits, Given
  <2>3. op[d].to = data.cur \/ \E e \in Callers : Waiting(e)
    BY <1>0, <2>2 DEF ApplyFits
  <2>4. CASE data'.cur = data.cur
    BY <1>1, <2>1, <2>2, <2>3, <2>4, WaitingStays
  <2>5. CASE CommitDoes(c)
    <3>1. Ahead(c)
      BY <2>5 DEF CommitDoes, Ahead, CallsFit, CallFits, Switching
    <3> QED BY <1>0, <2>2, <3>1 DEF AheadsFit, AheadFits
  <2>6. CASE flag = c
    BY <1>1, <2>2, <2>6
  <2>7. CASE AppendDoes(c) /\ data'.cur = Imported /\ Moved(c, "enterSaveItem") /\ op[c].arg = Imported
    <3>1. Saves(c)'
      BY <2>7 DEF Saves, AppendDoes, Moved, Kept, CallsFit, CallFits, Importing, IsImport
    <3> QED BY <3>1 DEF Waiting
  <2> QED BY <1>1, <2>4, <2>5, <2>6, <2>7, CurStep
<1>2. ASSUME Does(d) PROVE op'[d].to = data'.cur \/ \E e \in Callers : Waiting(e)'
  <2>1. GenerateDoes(d)
    BY <1>2 DEF Does, Moved, Kept, Others, Ended,
                BeginDoes, LockDoes, StageDoes, TakeFlagDoes, FailDoes, GenerateDoes, ApplyDoes,
                DiscardDoes, CommitDoes, SaveDoes, UndoDoes, PutBackDoes, PutBackApplyDoes,
                EndDoes, EnterDoes, PlanDeleteDoes, RefusedDoes, DeleteSaveDoes, RollbackDoes,
                AppendDoes, SaveItemDoes, ItemDoes
  <2>2. ~IsDelete(d) /\ ~IsSwitch(d) /\ op'[d].to = Latest.cur /\ data' = data
    BY <2>1 DEF GenerateDoes, Kept, IsDelete, IsSwitch, Source
  <2>3. CASE draft = NoDraft
    BY <2>2, <2>3 DEF Latest
  <2>4. CASE draft # NoDraft
    <3>1. PICK s \in Callers : Staging(s)
      BY <2>4 DEF DraftFits
    <3>2. CrossesSwitch(d)
      BY <2>2, <3>1 DEF CrossesSwitch, Staging, Unsettled, At, IsSwitch
    <3> QED BY <2>1, <2>2, <3>2 DEF GenerateDoes
  <2> QED BY <2>3, <2>4
<1>3. CASE UNCHANGED <<op, data>>
  <2>1. op[d].at = "apply" /\ ~IsSwitch(d) /\ ~IsDelete(d)
    BY <1>3 DEF IsSwitch, IsDelete
  <2>2. \A e \in Callers : Waiting(e) => Waiting(e)'
    BY <1>3 DEF Waiting, Saves, IsImport
  <2> QED BY <1>0, <1>3, <2>1, <2>2 DEF ApplyFits
<1> QED BY <1>1, <1>2, <1>3 DEF Effect, StartCoreDoes, SaverDoes, vars

----------------------------------------------------------------------------------
(* What the core runs.                                                             *)

\* Nobody else takes the flag from a deletion that is undoing its update.
LEMMA UndoingStays ==
  ASSUME NEW c \in Callers, Does(c), NEW e \in Callers, e # c, Undoing(e), Given PROVE Undoing(e)'
<1>1. op'[e] = op[e]
  BY OthersStand
<1>2. flag = e /\ e # Nobody
  BY DEF Undoing, Given
<1>3. flag' = flag
  BY <1>2 DEF Does, BeginDoes, LockDoes, StageDoes, TakeFlagDoes, FailDoes, GenerateDoes, ApplyDoes,
                DiscardDoes, CommitDoes, SaveDoes, UndoDoes, PutBackDoes, PutBackApplyDoes,
                EndDoes, EnterDoes, PlanDeleteDoes, RefusedDoes, DeleteSaveDoes, RollbackDoes,
                AppendDoes, SaveItemDoes, ItemDoes
<1> QED BY <1>1, <1>2, <1>3 DEF Undoing

\* Where neither the profile nor what the core should run changes, it is as it was.
LEMMA CoreKept ==
  ASSUME Given, Typed, CallsFit, FlagsFit, NEW c \in Callers, Does(c), ~excused', CoreFits,
         ~ApplyDoes(c), ~RollbackDoes(c), ~CommitDoes(c), ~DeleteSaveDoes(c),
         data'.cur = data.cur
  PROVE  CoreFits'
<1>1. runtime' = runtime /\ core' \in {core, "down"}
  BY CoreStays
<1>2. CASE Agree
  BY <1>1, <1>2 DEF Agree, CoreFits
<1>3. ASSUME NEW e \in Callers, Pending(e) PROVE CoreFits'
  <2>1. Pending(e)'
    BY <1>3, PendingStays
  <2> QED BY <2>1 DEF CoreFits
<1>4. ASSUME NEW e \in Callers, Ahead(e) PROVE Ahead(e)'
  <2>1. CASE e = c
    <3>1. op[c].kind = "switch" /\ op[c].at \in {"discard", "enterCommit", "commit"}
      BY <1>4, <2>1 DEF Ahead, IsSwitch
    <3>2. DiscardDoes(c) \/ EnterDoes(c)
      BY <3>1
      DEF Does, Updating, BeginDoes, LockDoes, StageDoes, TakeFlagDoes, FailDoes, GenerateDoes,
          SaveDoes,
                UndoDoes, PutBackDoes, PutBackApplyDoes, EndDoes, PlanDeleteDoes, RefusedDoes,
                AppendDoes, SaveItemDoes, ItemDoes, CommitDoes
    <3>3. op'[c].kind = op[c].kind /\ op'[c].at \in {"discard", "enterCommit", "commit"}
      BY <3>1, <3>2 DEF DiscardDoes, EnterDoes, Moved, Kept
    <3> QED BY <2>1, <3>1, <3>3 DEF Ahead, IsSwitch
  <2>2. CASE e # c
    BY <1>4, <2>2, OthersStand DEF Ahead, IsSwitch
  <2> QED BY <2>1, <2>2
<1>5. ASSUME NEW e \in Callers, Undoing(e) PROVE Undoing(e)'
  <2>1. e # c
    <3> SUFFICES ASSUME e = c PROVE FALSE
      OBVIOUS
    <3>1. op[c].at \in {"deleteSave", "rollback"}
      BY <1>5 DEF Undoing
    <3> QED BY <3>1
          DEF Does, Updating, BeginDoes, LockDoes, StageDoes, TakeFlagDoes, FailDoes, GenerateDoes,
                DiscardDoes, CommitDoes, SaveDoes, UndoDoes, PutBackDoes, PutBackApplyDoes,
                EndDoes, EnterDoes, PlanDeleteDoes, RefusedDoes, DeleteSaveDoes, RollbackDoes,
                AppendDoes, SaveItemDoes, ItemDoes
  <2> QED BY <1>5, <2>1, UndoingStays
<1> QED BY <1>2, <1>3, <1>4, <1>5 DEF CoreFits

\* Every step leaves the core with the current profile, or somebody to see to it.
LEMMA CoreStep ==
  ASSUME Given, Typed, CallsFit, PermitsFit, LocksFit, FlagsFit, DeletesFit, PrevsFit, AheadsFit,
         AppliesFit,
         CoreIsFit, Effect
  PROVE  CoreIsFit'
<1> SUFFICES ASSUME ~excused' PROVE CoreFits'
  BY Zenon DEF CoreIsFit
<1>0. ~excused /\ CoreFits /\ AheadsFit /\ AppliesFit
  BY StaysExcused DEF CoreIsFit
<1>1. ASSUME NEW c \in Callers, Does(c) PROVE CoreFits'
  <2>1. CASE ApplyDoes(c)
    <3>1. CASE IsSwitch(c)
      <4>1. Moved(c, "discard")
        BY <2>1, <3>1 DEF ApplyDoes, IsSwitch, IsDelete
      <4>2. Ahead(c)'
        BY <3>1, <4>1 DEF Ahead, Moved, Kept, IsSwitch
      <4> QED BY <4>2 DEF CoreFits
    <3>2. CASE IsDelete(c)
      <4>1. Moved(c, "deleteSave") /\ flag' = c
        BY <2>1, <3>2 DEF ApplyDoes, IsSwitch, IsDelete
      <4>2. Undoing(c)'
        BY <4>1 DEF Undoing, Moved
      <4> QED BY <4>2 DEF CoreFits
    <3>3. CASE ~IsSwitch(c) /\ ~IsDelete(c)
      <4>1. data' = data /\ runtime' = op[c].to /\ core' = op[c].to /\ op[c].at = "apply"
        BY <2>1 DEF ApplyDoes
      <4>2. op[c].to = data.cur \/ \E e \in Callers : Waiting(e)
        BY <1>0, <3>3, <4>1 DEF AppliesFit, ApplyFits
      <4>3. CASE op[c].to = data.cur
        BY <4>1, <4>3 DEF Agree, CoreFits
      <4>4. ASSUME NEW e \in Callers, Waiting(e) PROVE CoreFits'
        <5>1. e # c
          BY <4>1, <4>4 DEF Waiting, Saves
        <5>2. Waiting(e)'
          BY <1>1, <4>1, <4>4, <5>1, OthersStand DEF Waiting, Saves, IsImport
        <5> QED BY <5>2 DEF CoreFits, Pending
      <4> QED BY <4>2, <4>3, <4>4
    <3> QED BY <3>1, <3>2, <3>3
  <2>2. CASE CommitDoes(c)
    <3>1. IsSwitch(c) /\ Ahead(c) /\ op[c].at = "commit" /\ Inside(c) /\ runtime' = runtime /\ core' = core
      BY <2>2 DEF CommitDoes, Ahead, Inside, CallsFit, CallFits, Switching
    <3>2. data' = Patched(data, op[c].arg) /\ data \in Profiles
      BY <2>2, <3>1 DEF CommitDoes, PermitsFit, PermitFits, Typed
    <3>3. data'.cur = IF op[c].arg \in Members(data.items) THEN op[c].arg ELSE data.cur
      BY <3>2, PatchedFacts
    <3>4. /\ runtime = op[c].to /\ core \in {op[c].to, "down"}
          /\ op[c].arg \in Members(data.items) => op[c].to = op[c].arg
          /\ op[c].arg \notin Members(data.items) => op[c].to = data.cur \/ \E e \in Callers : Pending(e)
      BY <1>0, <3>1 DEF AheadsFit, AheadFits
    <3>5. CASE op[c].to = data'.cur
      BY <3>1, <3>4, <3>5 DEF Agree, CoreFits
    <3>6. ASSUME NEW e \in Callers, Pending(e), data'.cur = data.cur PROVE CoreFits'
      <4>1. ~ApplyDoes(c)
        BY <3>1 DEF ApplyDoes
      <4>2. Pending(e)'
        BY <1>1, <3>6, <4>1, PendingStays
      <4> QED BY <4>2 DEF CoreFits
    <3> QED BY <3>3, <3>4, <3>5, <3>6
  <2>3. CASE DeleteSaveDoes(c)
    <3>1. IsDelete(c) /\ op[c].at = "deleteSave" /\ Inside(c) /\ runtime' = runtime /\ core' = core /\ flag' = flag
      BY <2>3 DEF DeleteSaveDoes, Inside, CallsFit, CallFits, Deleting
    <3>2. permit.fresh /\ op[c].clone = data
      BY <3>1 DEF PermitsFit, PermitFits
    <3>3. CASE flag = c /\ data' = Without(op[c].clone, op[c].arg)
      <4>1. runtime = data'.cur /\ core \in {runtime, "down"}
        BY <3>1, <3>3 DEF DeletesFit, DeleteFits
      <4> QED BY <3>1, <4>1 DEF Agree, CoreFits
    <3>4. CASE flag = c /\ data' # Without(op[c].clone, op[c].arg)
      <4>1. Moved(c, "rollback")
        BY <2>3, <3>2, <3>4 DEF DeleteSaveDoes
      <4>2. Undoing(c)'
        BY <3>1, <3>4, <4>1 DEF Undoing, Moved
      <4> QED BY <4>2 DEF CoreFits
    <3>5. CASE flag # c
      <4>1. data'.cur = data.cur
        BY <1>1, <2>3, <3>1, <3>5, CurStep DEF CommitDoes, AppendDoes
      <4>2. ~ApplyDoes(c)
        BY <3>1 DEF ApplyDoes
      <4>3. CASE Agree
        BY <3>1, <4>1, <4>3 DEF Agree, CoreFits
      <4>4. ASSUME NEW e \in Callers, Pending(e) PROVE CoreFits'
        <5>1. Pending(e)'
          BY <1>1, <4>1, <4>2, <4>4, PendingStays
        <5> QED BY <5>1 DEF CoreFits
      <4>5. ASSUME NEW e \in Callers, Ahead(e) PROVE Ahead(e)'
        <5>1. e # c
          BY <3>1, <4>5 DEF Ahead
        <5> QED BY <1>1, <4>5, <5>1, OthersStand DEF Ahead, IsSwitch
      <4>6. ASSUME NEW e \in Callers, Undoing(e) PROVE Undoing(e)'
        <5>1. e # c
          BY <3>5, <4>6 DEF Undoing
        <5> QED BY <1>1, <4>6, <5>1, UndoingStays
      <4> QED BY <1>0, <4>3, <4>4, <4>5, <4>6 DEF CoreFits
    <3> QED BY <3>3, <3>4, <3>5
  <2>4. CASE RollbackDoes(c)
    <3>1. IsDelete(c) /\ op[c].at = "rollback" /\ Inside(c)
      BY <2>4 DEF RollbackDoes, Inside, CallsFit, CallFits, Deleting
    <3>2. op[c].clone = data
      BY <3>1 DEF PermitsFit, PermitFits
    <3>3. data' = data /\ core' = data.cur /\ runtime' = data.cur
      BY <2>4, <3>2 DEF RollbackDoes
    <3> QED BY <3>3 DEF Agree, CoreFits
  <2>5. CASE ~ApplyDoes(c) /\ ~RollbackDoes(c) /\ ~CommitDoes(c) /\ ~DeleteSaveDoes(c)
    <3>1. CASE data'.cur = data.cur
      BY <1>0, <1>1, <2>5, <3>1, CoreKept
    <3>2. CASE AppendDoes(c) /\ data'.cur = Imported /\ Moved(c, "enterSaveItem") /\ op[c].arg = Imported
      <4>1. Saves(c)'
        BY <3>2 DEF Saves, AppendDoes, Moved, Kept, CallsFit, CallFits, Importing, IsImport
      <4> QED BY <4>1 DEF CoreFits, Pending, Waiting
    <3> QED BY <1>1, <2>5, <3>1, <3>2, CurStep
  <2> QED BY <2>1, <2>2, <2>3, <2>4, <2>5
<1>2. CASE UNCHANGED <<op, data, runtime, flag>> /\ (core' = core \/ (core = "down" /\ core' = runtime))
  <2>1. Agree => Agree'
    BY <1>2 DEF Agree
  <2>2. \A e \in Callers : Pending(e) \/ Ahead(e) \/ Undoing(e) => Pending(e)' \/ Ahead(e)' \/ Undoing(e)'
    BY <1>2 DEF Pending, Waiting, Saves, IsImport, IsSwitch, Ahead, Undoing
  <2> QED BY <1>0, <2>1, <2>2 DEF CoreFits
<1> QED BY <1>1, <1>2 DEF Effect, StartCoreDoes, SaverDoes, vars

----------------------------------------------------------------------------------
(* The invariant holds at first and every step keeps it.                           *)

\* It holds at first: nobody does anything, and everything is as the file says.
LEMMA InitFits == ASSUME Given, Init PROVE IInv
<1>1. \A c \in Callers : op[c] = Idle
  BY DEF Init
<1>2. \A c \in Callers : op[c].kind = "none" /\ op[c].at = "idle"
  BY <1>1, IdleFacts
<1>3. data \in Profiles /\ data.cur = Uids[1]
  <2>1. Uids \in Seq(Uid) /\ Uids[1] \in Uid
    <3>1. Len(Uids) \in Nat \ {0} /\ DOMAIN Uids = 1 .. Len(Uids) /\ Uids \in [1 .. Len(Uids) -> Members(Uids)]
      BY DEF Given
    <3>2. Uids[1] \in Members(Uids)
      BY <3>1
    <3> QED BY <3>1, <3>2 DEF Given, Uid
  <2> QED BY <2>1 DEF Init, Profiles, Current
<1>4. op \in [Callers -> Operations]
  BY IdleFacts DEF Init
<1>5. permit \in [by : Callers \cup {Nobody}, fresh : BOOLEAN]
  BY DEF Init
<1>6. Typed
  BY <1>3, <1>4, <1>5 DEF Typed, Init, Profiles
<1>7. CallsFit /\ PermitsFit /\ LocksFit /\ DeletesFit /\ PrevsFit
  BY <1>2
  DEF CallsFit, CallFits, PermitsFit, PermitFits, LocksFit, LockFits, DeletesFit, DeleteFits,
      PrevsFit,
              PrevFits, Inside, IsSwitch, IsDelete, IsImport, Switching, Deleting, Locking, Importing, Updating
<1>8. FlagsFit
  BY <1>2 DEF FlagsFit, FlagFits, Init, Given
<1>9. DraftFits /\ DiskFits /\ CoreIsFit
  BY <1>3 DEF DraftFits, DiskFits, CoreIsFit, CoreFits, Agree, Init
<1>10. (\A c \in Callers : StageFits(c)) /\ (\A c \in Callers : AheadFits(c)) /\ (\A c \in Callers : ApplyFits(c))
  BY <1>2 DEF StageFits, AheadFits, Ahead, ApplyFits
<1>11. StagesFit /\ AheadsFit /\ AppliesFit
  BY Zenon, <1>10 DEF StagesFit, AheadsFit, AppliesFit
<1> QED BY <1>6, <1>7, <1>8, <1>9, <1>11 DEF IInv

\* Every step keeps it, for all that the step does is its effect.
LEMMA StepFits == ASSUME Given, IInv, [Next]_vars PROVE IInv'
<1>1. Effect
  BY Effects
<1> USE DEF IInv
<1>2. Typed'
  BY <1>1, TypeStep
<1>3. CallsFit'
  BY <1>1, CallStep
<1>4. PermitsFit'
  BY <1>1, PermitStep
<1>5. LocksFit'
  BY <1>1, LockStep
<1>6. FlagsFit'
  BY <1>1, FlagStep
<1>7. DeletesFit'
  BY <1>1, DeleteStep
<1>8. DraftFits'
  BY <1>1, DraftStep
<1>9. PrevsFit'
  BY <1>1, PrevStep
<1>10. DiskFits'
  BY <1>1, DiskStep
<1>11. StagesFit'
  BY <1>1, StageStep
<1>12. AheadsFit'
  BY <1>1, AheadStep
<1>13. AppliesFit'
  BY <1>1, ApplyStep
<1>14. CoreIsFit'
  BY <1>1, CoreStep
<1> QED BY <1>2, <1>3, <1>4, <1>5, <1>6, <1>7, <1>8, <1>9, <1>10, <1>11, <1>12, <1>13, <1>14

\* Whoever holds which lock, what a draft and the file hold, and what the core is about to
\* run, at every moment of any number of commands.
THEOREM Invariant == ASSUME Given PROVE Spec => []IInv
<1>1. Init => IInv
  BY InitFits
<1>2. IInv /\ [Next]_vars => IInv'
  BY StepFits
<1> QED BY <1>1, <1>2, PTL DEF Spec

\* The layer holds lists of profiles, and its current one is a profile or none.
THEOREM WellTyped == ASSUME Given PROVE Spec => []Typed
<1>1. IInv => Typed
  BY DEF IInv
<1> QED BY <1>1, Invariant, PTL

\* The core and the runtime configuration follow the current profile (ProfileSwitch).
LEMMA AtRestAgrees == ASSUME IInv PROVE CoreRunsCurrent
<1> SUFFICES ASSUME \A c \in Callers : op[c].at = "idle", savers = 0, ~excused
             PROVE  draft = NoDraft /\ runtime = data.cur /\ core \in {data.cur, "down"}
  BY DEF CoreRunsCurrent, AtRest, At
<1>1. draft = NoDraft
  BY DEF IInv, DraftFits, Staging
<1>2. CoreFits
  BY Zenon DEF IInv, CoreIsFit
<1>3. Agree
  BY <1>2 DEF CoreFits, Pending, Waiting, Saves, Ahead, Undoing
<1> QED BY <1>1, <1>3 DEF Agree

\* When nothing is under way the core, if it runs, runs the current profile, and so does one
\* that is started later (CoreRunsCurrent), whoever has switched, deleted, imported and
\* updated meanwhile.
THEOREM RunsCurrent == ASSUME Given PROVE Spec => []CoreRunsCurrent
<1>1. IInv => CoreRunsCurrent
  BY AtRestAgrees
<1> QED BY <1>1, Invariant, PTL

\* When nothing is under way the file holds the profiles of memory (FileFollowsData).
THEOREM FileFollows == ASSUME Given PROVE Spec => []FileFollowsData
<1>1. IInv => FileFollowsData
  <2> SUFFICES ASSUME IInv, \A c \in Callers : op[c].at = "idle", savers = 0 PROVE disk = data
    BY DEF FileFollowsData, AtRest, At
  <2> QED BY DEF IInv, DiskFits, Saving
<1> QED BY <1>1, Invariant, PTL
===============================================================================
