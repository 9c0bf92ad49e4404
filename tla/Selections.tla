----------------------------- MODULE Selections -----------------------------
(***************************************************************************)
(* The nodes the user has selected, recorded with the profile, and their    *)
(* restoration after the core starts or the profile changes                 *)
(* (config/profiles.rs: activate_selected_nodes, restore_selected_nodes,    *)
(* record_selected_node).  A restoration reads the groups of the core, puts *)
(* its nodes back one by one and may repair the records, while the user      *)
(* selects and the core loads its providers.                                *)
(***************************************************************************)
EXTENDS Naturals, Sequences

CONSTANTS Groups, Selectable,  \* the groups, and those whose node can be set
          Nodes,
          Profiles,
          NoNode,
          MaxTasks,    \* bound: restorations begun
          MaxChoices,  \* bound: selections by the user
          MaxChanges   \* bound: changes of the core's groups by itself

VARIABLES current, records,   \* the data of the profiles: records[profile][group]
          permit,             \* who is inside with_data_modify: "nobody", "user" or "task"
          generation,         \* ACTIVATE_SELECTED_GENERATION
          tasks,              \* restorations, each awaiting the one before it
          core,               \* the groups of the core
          user,               \* the user's selection under way
          switch,             \* a profile switch under way: the profile the core already runs
          chosen,             \* ghost: what the user has last selected in this core
          crossed,            \* ghost: a select of a restoration overlapped the user's
          bounds              \* choices and changes left
vars == <<current, records, permit, generation, tasks, core, user, switch, chosen, crossed, bounds>>

None == "none"
Absent == [there |-> FALSE, all |-> {}, now |-> NoNode]
Group(all, now) == [there |-> TRUE, all |-> all, now |-> now]
\* A group loads its provider later, or has its nodes at once.
Fresh == {Absent} \cup {Group({}, NoNode)} \cup {Group(Nodes, n) : n \in Nodes}
NoRecords == [g \in Groups |-> NoNode]

Task(repair) == [gen |-> generation + 1, repair |-> repair, at |-> "wait", uid |-> None,
                 sel |-> NoRecords, first |-> << >>, todo |-> {}, done |-> NoRecords,
                 new |-> NoRecords, group |-> None]
Idle == [at |-> "idle", group |-> None, node |-> NoNode]

Init ==
  /\ current \in Profiles /\ records \in [Profiles -> [Groups -> Nodes \cup {NoNode}]]
  /\ permit = "nobody" /\ generation = 0 /\ tasks = << >>
  /\ core = [g \in Groups |-> Absent] /\ user = Idle /\ switch = None
  /\ chosen = NoRecords /\ crossed = FALSE
  /\ bounds = [choices |-> MaxChoices, changes |-> MaxChanges]

----------------------------------------------------------------------------
(* reconcile_selected_nodes: the records to keep and the nodes to put back,  *)
(* from one snapshot or, with `before`, from two.                            *)

Loaded(snap, g) == snap[g].there /\ snap[g].all # {}
Has(snap, g, n) == Loaded(snap, g) /\ n \in snap[g].all

NeedsConfirmation(sel, snap) == \E g \in Groups : sel[g] # NoNode /\ ~Has(snap, g, sel[g])

MissingThen(before, g, n) ==
  before # << >> /\ IF before[1][g].there THEN Loaded(before[1], g) /\ n \notin before[1][g].all
                                          ELSE FALSE
AbsentThen(before, g) == before # << >> /\ ~before[1][g].there

\* What a node that is missing is replaced by.
Valid(snap, g) == IF Has(snap, g, snap[g].now) THEN snap[g].now ELSE NoNode

Kept(sel, before, snap, g) ==
  LET n == sel[g] IN
  CASE n = NoNode -> NoNode
    [] ~snap[g].there -> IF AbsentThen(before, g) THEN NoNode ELSE n
    [] ~Loaded(snap, g) -> n
    [] g \notin Selectable -> IF Valid(snap, g) # NoNode THEN Valid(snap, g)
                              ELSE IF n \in snap[g].all THEN n ELSE NoNode
    [] n \in snap[g].all \/ ~MissingThen(before, g, n) -> n
    [] OTHER -> Valid(snap, g)
Repaired(sel, before, snap) == [g \in Groups |-> Kept(sel, before, snap, g)]

\* Activations: the recorded node is there and the group is on another one.
ToActivate(sel, snap) ==
  {g \in Selectable : sel[g] # NoNode /\ Has(snap, g, sel[g]) /\ snap[g].now # sel[g]}

----------------------------------------------------------------------------
(* A restoration.  Only the first of `tasks` does anything.                  *)

Head1 == tasks[1]
At(place) == tasks # << >> /\ Head1.at = place
IsCurrent(t) == t.gen = generation
Goto(t) == tasks' = [tasks EXCEPT ![1] = t]
Finish == tasks' = Tail(tasks)
Quiet == UNCHANGED <<current, records, permit, generation, core, user, switch, chosen, crossed, bounds>>

\* activate_selected_nodes_with: the generation is taken with the task's slot.
Activate(repair) ==
  generation < MaxTasks + MaxChoices /\ generation' = generation + 1 /\ tasks' = Append(tasks, Task(repair))

\* The task before this one has ended: the data is read, not the draft.
Wake ==
  /\ At("wait") /\ Quiet
  /\ IF IsCurrent(Head1) /\ records[current] # NoRecords
     THEN Goto([Head1 EXCEPT !.at = "first", !.uid = current, !.sel = records[current]])
     ELSE Finish

\* fetch_proxies_with_timeout fails only after its ten seconds.
FirstSnapshot ==
  /\ At("first") /\ Quiet
  /\ \/ Finish
     \/ /\ IsCurrent(Head1)
        /\ Goto([Head1 EXCEPT !.at = "apply", !.first = <<core>>, !.todo = ToActivate(Head1.sel, core),
                              !.new = Repaired(Head1.sel, << >>, core)])

\* apply_activations: each is looked at before and after it is sent.
\* fault: the generation is only looked at between the passes.
MaySend_Once(t) == TRUE
MaySend(t) == IsCurrent(t)
Send ==
  /\ At("apply") /\ Head1.todo # {}
  /\ IF MaySend(Head1)
     THEN \E g \in Head1.todo : Goto([Head1 EXCEPT !.at = "sent", !.group = g, !.todo = @ \ {g}])
     ELSE Finish
  /\ Quiet

\* The node is set, or refused, or set although the answer came too late.
Overlaps(g) == user.group = g /\ user.at \in {"record", "commit", "supersede"}
Arrive ==
  /\ At("sent")
  /\ LET g == Head1.group  n == Head1.sel[g]
         answered == IF IsCurrent(Head1) THEN Goto([Head1 EXCEPT !.at = "apply", !.done[g] = n]) ELSE Finish
         failed == IF IsCurrent(Head1) THEN Goto([Head1 EXCEPT !.at = "apply"]) ELSE Finish IN
     \/ /\ Has(core, g, n) /\ core' = [core EXCEPT ![g].now = n]
        /\ answered \/ failed
        /\ crossed' = (crossed \/ Overlaps(g))
     \/ failed /\ UNCHANGED <<core, crossed>>
  /\ UNCHANGED <<current, records, permit, generation, user, switch, chosen, bounds>>

\* After a pass: what could not be matched is looked at again a second later;
\* then the records are kept, and the nodes tried for thirty seconds, or repaired.
PassDone ==
  /\ At("apply") /\ Head1.todo = {} /\ Quiet
  /\ IF ~IsCurrent(Head1) THEN Finish
     ELSE IF Len(Head1.first) = 1 /\ NeedsConfirmation(Head1.sel, Head1.first[1])
     THEN Goto([Head1 EXCEPT !.at = "second"])
     ELSE IF Head1.repair = "keep" THEN Goto([Head1 EXCEPT !.at = "settle"])
     ELSE IF Head1.new # Head1.sel THEN Goto([Head1 EXCEPT !.at = "persist"])
     ELSE Finish

SecondSnapshot ==
  /\ At("second") /\ Quiet
  /\ \/ Finish
     \/ /\ IsCurrent(Head1)
        /\ Goto([Head1 EXCEPT !.at = "apply", !.first = <<Head1.first[1], core>>,
                              !.new = Repaired(Head1.sel, Head1.first, core),
                              !.todo = {g \in ToActivate(Head1.sel, core) : Head1.done[g] # Head1.sel[g]}])

\* settle_pending_selections; the deadline may pass at any round.
Settle ==
  /\ At("settle") /\ Quiet
  /\ \/ Finish
     \/ /\ IsCurrent(Head1) /\ \E g \in Groups : Head1.sel[g] # NoNode /\ core[g].now # Head1.sel[g]
        /\ {g \in ToActivate(Head1.sel, core) : Head1.done[g] # Head1.sel[g]} # {}
        /\ Goto([Head1 EXCEPT !.at = "apply", !.first = <<core, core>>,
                 !.todo = {g \in ToActivate(Head1.sel, core) : Head1.done[g] # Head1.sel[g]}])

\* persist_reconciled_selected
EnterPersist ==
  /\ At("persist")
  /\ IF IsCurrent(Head1) THEN permit = "nobody" /\ permit' = "task" /\ Goto([Head1 EXCEPT !.at = "write"])
                         ELSE Finish /\ UNCHANGED permit
  /\ UNCHANGED <<current, records, generation, core, user, switch, chosen, crossed, bounds>>

\* fault: only the generation is looked at, the records are not compared.
StillTheirs_Gen(t) == IsCurrent(t)
StillTheirs(t) == IsCurrent(t) /\ current = t.uid /\ records[current] = t.sel
Persist ==
  /\ At("write") /\ permit' = "nobody" /\ Finish
  /\ records' = IF StillTheirs(Head1) THEN [records EXCEPT ![current] = Head1.new] ELSE records
  /\ UNCHANGED <<current, generation, core, user, switch, chosen, crossed, bounds>>

Restoration ==
  \/ Wake \/ FirstSnapshot \/ Send \/ Arrive \/ PassDone \/ SecondSnapshot \/ Settle \/ EnterPersist \/ Persist
----------------------------------------------------------------------------
(* The user: switch_proxy_node, and the window's record and forget.           *)

UserStep(at) == user' = [user EXCEPT !.at = at]

\* The core is set first; twice if it fails.
Choose(g, n) ==
  /\ user.at = "idle" /\ bounds.choices > 0 /\ bounds' = [bounds EXCEPT !.choices = @ - 1]
  /\ g \in Selectable /\ Has(core, g, n)
  /\ core' = [core EXCEPT ![g].now = n] /\ chosen' = [chosen EXCEPT ![g] = n]
  /\ user' = [at |-> "record", group |-> g, node |-> n]
  /\ crossed' = (crossed \/ (At("sent") /\ Head1.group = g))
  /\ UNCHANGED <<current, records, permit, generation, tasks, switch>>

\* The window lets a group go back to choosing for itself, and only then forgets.
Forget(g) ==
  /\ user.at = "idle" /\ bounds.choices > 0 /\ bounds' = [bounds EXCEPT !.choices = @ - 1]
  /\ g \in Selectable /\ chosen' = [chosen EXCEPT ![g] = NoNode]
  /\ user' = [at |-> "record", group |-> g, node |-> NoNode]
  /\ UNCHANGED <<current, records, permit, generation, tasks, core, switch, crossed>>

EnterRecord ==
  /\ user.at = "record" /\ permit = "nobody" /\ permit' = "user" /\ UserStep("commit")
  /\ UNCHANGED <<current, records, generation, tasks, core, switch, chosen, crossed, bounds>>

\* An unchanged record supersedes nothing.
Record ==
  /\ user.at = "commit" /\ permit' = "nobody"
  /\ IF records[current][user.group] = user.node THEN user' = Idle /\ UNCHANGED records
     ELSE records' = [records EXCEPT ![current][user.group] = user.node] /\ UserStep("supersede")
  /\ crossed' = (crossed \/ switch # None \/ (records[current][user.group] = user.node /\ tasks # << >>))
  /\ UNCHANGED <<current, generation, tasks, core, switch, chosen, bounds>>

\* fault: the restoration under way is left to go on.
Superseded_Not == generation
Superseded == generation + 1
Supersede ==
  /\ user.at = "supersede" /\ user' = Idle
  /\ generation' = Superseded
  /\ crossed' = (crossed \/ (At("sent") /\ Head1.group = user.group))
  /\ UNCHANGED <<current, records, permit, tasks, core, switch, chosen, bounds>>

----------------------------------------------------------------------------
(* The core and the profile.                                                 *)

\* Groups load, and change with their providers.
CoreChanges(g) ==
  /\ bounds.changes > 0 /\ bounds' = [bounds EXCEPT !.changes = @ - 1]
  /\ \E all \in SUBSET Nodes \ {{}} : \E now \in all :
       /\ core[g].now \in all => now = core[g].now
       /\ core' = [core EXCEPT ![g] = Group(all, now)]
  /\ chosen' = [chosen EXCEPT ![g] = IF core'[g].now = chosen[g] THEN @ ELSE NoNode]
  /\ UNCHANGED <<current, records, permit, generation, tasks, user, switch, crossed>>

\* A core that starts has forgotten everything; the records are put back and kept.
NewCore == \E c \in [Groups -> Fresh] : core' = c
CoreStarts ==
  /\ switch = None /\ user = Idle /\ Len(tasks) < 2 /\ NewCore /\ Activate("keep")
  /\ chosen' = NoRecords
  /\ UNCHANGED <<current, records, permit, user, switch, crossed, bounds>>

\* A switch: the core has the new configuration before the data names the profile;
\* then the restoration that may repair.
SwitchCore(p) ==
  /\ switch = None /\ user = Idle /\ p # current /\ Len(tasks) < 2 /\ generation < MaxTasks + MaxChoices
  /\ switch' = p /\ NewCore
  /\ chosen' = NoRecords
  /\ UNCHANGED <<current, records, permit, generation, tasks, user, crossed, bounds>>
SwitchCommit ==
  /\ switch # None /\ permit = "nobody" /\ current' = switch /\ switch' = None
  /\ Activate("prune")
  /\ crossed' = (crossed \/ user # Idle)
  /\ UNCHANGED <<records, permit, core, user, chosen, bounds>>

Next ==
  \/ Restoration
  \/ \E g \in Groups, n \in Nodes : Choose(g, n)
  \/ \E g \in Groups : Forget(g) \/ CoreChanges(g)
  \/ EnterRecord \/ Record \/ Supersede \/ CoreStarts
  \/ \E p \in Profiles : SwitchCore(p)
  \/ SwitchCommit
Spec == Init /\ [][Next]_vars

----------------------------------------------------------------------------
AtRest == tasks = << >> /\ user = Idle /\ switch = None

\* "Cancels restoration so it cannot overwrite a newer selection" (profiles.rs:592):
\* when nothing is under way the core is on the node the user last selected in it.
NewerSelectionStands == AtRest => \A g \in Groups : chosen[g] # NoNode => core[g].now = chosen[g]

\* The same, but for a restoration's select that is on its way while the user's
\* selection is set, recorded and announced.
SelectionStands == AtRest /\ ~crossed => \A g \in Groups : chosen[g] # NoNode => core[g].now = chosen[g]

\* A selection the user made is what the profile has recorded, whatever repair was
\* computed before it.
ChoiceIsRecorded ==
  user = Idle /\ ~crossed => \A g \in Selectable : chosen[g] # NoNode => records[current][g] = chosen[g]
=============================================================================
