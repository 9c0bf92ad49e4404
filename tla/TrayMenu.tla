------------------------------- MODULE TrayMenu -------------------------------
(***************************************************************************)
(* The menu of the tray (core/tray/mod.rs): what is in it, what a click on    *)
(* it does, and how it is rebuilt after a choice of a node in the window      *)
(* (cmd/proxy.rs, one loop that coalesces requests) or in the menu itself.    *)
(***************************************************************************)
EXTENDS Naturals, Sequences

CONSTANTS Windows,    \* calls of sync_tray_proxy_selection
          Clicks,     \* clicks on the menu
          Groups,     \* the core's groups: name -> [all, hidden]; names are sequences of words
          MaxChoices  \* bound: choices

VARIABLES now,        \* group -> the node it uses, in the core
          version,    \* ghost: choices so far
          mode,       \* the outbound mode
          display,    \* tray_proxy_groups_display_mode
          menu,       \* what the menu was built from, and at which version
          running, pending,  \* TRAY_SYNC_RUNNING, TRAY_SYNC_PENDING
          at, seen,   \* of each task: its step, and what it has read for its menu
          lost, crossed  \* ghost: a request was left that no loop serves; an older menu came later
vars == <<now, version, mode, display, menu, running, pending, at, seen, lost, crossed>>

Tasks == Windows \cup Clicks
GLOBAL == <<"GLOBAL">>
View(v, n) == [version |-> v, now |-> n, mode |-> mode, display |-> display]
Empty == [g \in {} |-> << >>]   \* the core did not answer in time, or was not asked

----------------------------------------------------------------------------
(* create_tray_menu: what can be clicked, and what it stands for.  An id is   *)
(* the sequence of its words, which the program joins with "_".               *)

Item(id, means, checked) == [id |-> id, means |-> means, checked |-> checked]
ModeItems(v) ==
  {Item(<<"tray", m, "mode">>, <<"mode", m>>, v.mode = m) : m \in {"rule", "global", "direct"}}
Fixed == {Item(<<"tray", "exit">>, <<"exit">>, FALSE), Item(<<"tray", "system", "proxy">>, <<"proxy">>, FALSE)}
ProfileItems == {Item(<<"profiles", "p1">>, <<"profile", "p1">>, TRUE)}
Shown(v, g) == ~Groups[g].hidden /\ IF v.mode = "global" THEN g = GLOBAL ELSE g # GLOBAL
NodeItems(v) ==
  IF v.display = "disable" THEN {}
  ELSE UNION {{Item(<<"proxy">> \o g \o node, <<"node", g, node>>, v.now[g] = node) : node \in Groups[g].all}
                : g \in {g \in DOMAIN v.now : Shown(v, g)}}
Items(v) == ModeItems(v) \cup Fixed \cup ProfileItems \cup NodeItems(v)

\* fault: the id is cut at its last "_".
Cut_Last(rest) == <<SubSeq(rest, 1, Len(rest) - 1), <<rest[Len(rest)]>>>>
\* on_menu_event: of what follows proxy_ the first word is the group.
Cut(rest) == <<<<Head(rest)>>, Tail(rest)>>
Dispatch(id) ==
  CASE Len(id) = 3 /\ id[1] = "tray" /\ id[3] = "mode" -> <<"mode", id[2]>>
    [] id = <<"tray", "exit">> -> <<"exit">>
    [] id = <<"tray", "system", "proxy">> -> <<"proxy">>
    [] id[1] = "profiles" -> <<"profile", id[2]>>
    [] id[1] = "proxy" /\ Len(id) > 2 -> <<"node">> \o Cut(Tail(id))
    [] OTHER -> <<"unhandled">>

----------------------------------------------------------------------------

Init ==
  /\ now = [g \in DOMAIN Groups |-> CHOOSE n \in Groups[g].all : TRUE] /\ version = 0
  /\ mode \in {"rule", "global"} /\ display \in {"default", "disable"}
  /\ menu = View(0, now) /\ running = FALSE /\ pending = FALSE
  /\ at = [t \in Tasks |-> "idle"] /\ seen = [t \in Tasks |-> menu] /\ lost = FALSE /\ crossed = FALSE

Goes(t, to) == at' = [at EXCEPT ![t] = to]
Flags == UNCHANGED <<running, pending>>
Settings == UNCHANGED <<mode, display>>
Shape == UNCHANGED <<menu, seen, crossed>>

\* select_node_for_group, by the window or by switch_proxy_node; the menu is to follow.
Choose(t) ==
  /\ at[t] = "idle" /\ version < MaxChoices /\ version' = version + 1
  /\ \E g \in DOMAIN Groups : \E n \in Groups[g].all : n # now[g] /\ now' = [now EXCEPT ![g] = n]
  /\ Goes(t, IF t \in Windows THEN "ask" ELSE "update")
  /\ Flags /\ Settings /\ Shape /\ UNCHANGED lost

\* sync_tray_proxy_selection: run the loop, or leave a request for it.
Ask(t) ==
  /\ at[t] = "ask"
  /\ IF running THEN Goes(t, "leave") /\ UNCHANGED running ELSE Goes(t, "update") /\ running' = TRUE
  /\ UNCHANGED <<now, version, pending, lost>> /\ Settings /\ Shape
Looking == {"update", "set", "look", "release", "relook"}
LeaveRequest(t) ==
  /\ at[t] = "leave" /\ Goes(t, "idle") /\ pending' = TRUE
  /\ lost' = (lost \/ ~\E w \in Windows : at[w] \in Looking)
  /\ UNCHANGED <<now, version, running>> /\ Settings /\ Shape

\* update_menu_internal: the settings, then the core's proxies, which may not come in time;
\* then the menu is set, whatever was set meanwhile.
Read(t) ==
  /\ at[t] = "update" /\ Goes(t, "set")
  /\ \E n \in IF display = "disable" THEN {Empty} ELSE {now, Empty} : seen' = [seen EXCEPT ![t] = View(version, n)]
  /\ lost' = (lost /\ t \in Clicks)
  /\ UNCHANGED <<now, version, menu, crossed>> /\ Flags /\ Settings
Set(t) ==
  /\ at[t] = "set" /\ Goes(t, IF t \in Windows THEN "look" ELSE "idle")
  /\ menu' = seen[t]
  /\ crossed' = (seen[t].version < menu.version \/ (crossed /\ seen[t].version # version))
  /\ UNCHANGED <<now, version, seen, lost>> /\ Flags /\ Settings

\* fault: the loop leaves without a second look.
AfterRelease_Ends == "idle"
AfterRelease == "relook"
\* run_tray_sync_loop: the request is taken, or the loop is released and the request looked
\* for once more.
Look(t) ==
  /\ at[t] = "look" /\ pending' = FALSE /\ Goes(t, IF pending THEN "update" ELSE "release")
  /\ UNCHANGED <<now, version, running, lost>> /\ Settings /\ Shape
Release(t) ==
  /\ at[t] = "release" /\ running' = FALSE /\ Goes(t, AfterRelease)
  /\ UNCHANGED <<now, version, pending, lost>> /\ Settings /\ Shape
LookAgain(t) ==
  /\ at[t] = "relook" /\ pending' = FALSE /\ Goes(t, IF pending THEN "retake" ELSE "idle")
  /\ UNCHANGED <<now, version, running, lost>> /\ Settings /\ Shape
\* A request that is taken while another loop has started is left to that one, which may have
\* read its menu before.
Retake(t) ==
  /\ at[t] = "retake" /\ running' = TRUE /\ Goes(t, IF running THEN "idle" ELSE "update")
  /\ lost' = (lost \/ (running /\ ~\E w \in Windows : at[w] = "update"))
  /\ UNCHANGED <<now, version, pending>> /\ Settings /\ Shape

Next == \E t \in Tasks : \/ Choose(t) \/ Ask(t) \/ LeaveRequest(t) \/ Read(t) \/ Set(t)
                         \/ Look(t) \/ Release(t) \/ LookAgain(t) \/ Retake(t)
Spec == Init /\ [][Next]_vars

----------------------------------------------------------------------------
(* What must hold                                                            *)

\* When nothing is under way the menu shows the nodes in use, or no groups at all where the
\* core did not say; unless a request was left after the loop's last look or taken by a loop
\* that gave way, and then waits for the next one, or a menu that was read earlier was set later.
MenuShowsChoice ==
  (\A t \in Tasks : at[t] = "idle") /\ ~lost /\ ~crossed =>
    menu.version = version /\ menu.now \in {now, Empty}
\* Only one task at a time is in the loop.
OneLoop == \A s, t \in Windows : at[s] \in Looking \ {"relook"} /\ at[t] \in Looking \ {"relook"} => s = t

\* A click does what the item stands for, also where a node's name contains the character
\* that separates the words; only a group's name may not contain it.
ClickReaches ==
  \A item \in Items(menu) :
    (item.means[1] = "node" => Len(item.means[2]) = 1) => Dispatch(item.id) = item.means

TrayFollows == MenuShowsChoice /\ OneLoop /\ ClickReaches
=============================================================================
