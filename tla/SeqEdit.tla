-------------------------------- MODULE SeqEdit --------------------------------
(***************************************************************************)
(* The edits of a profile's lists of rules, proxies and groups                *)
(* (enhance/seq.rs), and how the groups are cleaned up afterwards             *)
(* (enhance/mod.rs).                                                         *)
(***************************************************************************)
EXTENDS Functions, Sequences, SequencesExt

CONSTANTS Bases,      \* [rules, proxies, groups, providers]: configurations before the edits
          RuleEdits, ProxyEdits, GroupEdits  \* [prepend, append, delete]: the edits of each list

VARIABLES base, config,
          edits,      \* list -> its edit
          todo        \* the steps to come
vars == <<base, config, edits, todo>>

\* A group names proxies and providers; NoList where it has no such list.
NoList == <<"no list">>
Names(items) == [i \in DOMAIN items |-> items[i].name]
Filtered(s, out) == IF s = NoList THEN s ELSE SelectSeq(s, LAMBDA x : x \notin out)
Builtin == {"DIRECT", "REJECT", "REJECT-DROP", "PASS", "PASS-RULE"}

----------------------------------------------------------------------------
(* use_seq                                                                   *)

\* The list between what is put before and after it, less what is deleted from it.
Edited(edit, kept) == edit.prepend \o kept \o edit.append
KeptNames(items, edit) == SelectSeq(items, LAMBDA item : item.name \notin edit.delete)

Selector(group) == group.type \in {"select", "selector"}
\* fault: the members of every group stay as they are.
Members_Kept(group, edit) == group.proxies
\* A deleted proxy leaves every group.
Members(group, edit) == Filtered(group.proxies, edit.delete)

\* The added proxies come first in the first selector, and once each.
Added(edit) == Names(edit.prepend \o edit.append)
First(groups) == {i \in DOMAIN groups : Selector(groups[i]) /\ \A j \in 1..i - 1 : ~Selector(groups[j])}
Unique(s) == FoldLeft(LAMBDA done, x : IF x \in Range(done) THEN done ELSE Append(done, x), << >>, s)
Regrouped(groups, edit) ==
  [i \in DOMAIN groups |->
     LET kept == Members(groups[i], edit) IN
     [groups[i] EXCEPT !.proxies =
        IF i \in First(groups) /\ Added(edit) # << >>
        THEN Unique(Added(edit) \o IF kept = NoList THEN << >> ELSE kept)
        ELSE kept]]

\* process_seq_items: rules, then proxies, then groups.
EditRules(c) == [c EXCEPT !.rules = Edited(edits.rules, Filtered(@, edits.rules.delete))]
EditProxies(c) ==
  [c EXCEPT !.proxies = Edited(edits.proxies, KeptNames(@, edits.proxies)),
            !.groups = Regrouped(@, edits.proxies)]
EditGroups(c) == [c EXCEPT !.groups = Edited(edits.groups, KeptNames(@, edits.groups))]

----------------------------------------------------------------------------
(* cleanup_proxy_groups                                                      *)

\* fault: a provider that a group uses, whether there or not, lets all its names pass.
Backed_Any(group, c) == group.use # NoList
\* A group with a provider that is there keeps all its names: the provider may supply them.
Backed(group, c) == group.use # NoList /\ Range(group.use) \cap c.providers # {}
Allowed(c) == Range(Names(c.proxies)) \cup Range(Names(c.groups)) \cup c.providers \cup Builtin
CleanUp(c) ==
  [c EXCEPT !.groups =
     [i \in DOMAIN c.groups |->
        LET g == c.groups[i] IN
        [g EXCEPT !.use = Filtered(@, Range(@) \ c.providers),
                  !.proxies = IF Backed(g, c) THEN @ ELSE Filtered(@, Range(@) \ Allowed(c))]]]

----------------------------------------------------------------------------

AllEdits == [rules : RuleEdits, proxies : ProxyEdits, groups : GroupEdits]
Init ==
  /\ base \in Bases /\ config = base /\ todo = <<"rules", "proxies", "groups", "clean up">>
  /\ edits \in AllEdits

Does(step, result) ==
  todo # << >> /\ Head(todo) = step /\ todo' = Tail(todo) /\ config' = result /\ UNCHANGED <<base, edits>>
Next == \/ Does("rules", EditRules(config)) \/ Does("proxies", EditProxies(config))
        \/ Does("groups", EditGroups(config)) \/ Does("clean up", CleanUp(config))
Spec == Init /\ [][Next]_vars

----------------------------------------------------------------------------
(* What must hold of the result                                              *)

Result == todo = << >>
\* No group names a proxy that is not there, unless one of its providers may supply it, and
\* it uses no provider that is not there.
NothingDangles ==
  \A i \in DOMAIN config.groups :
    LET g == config.groups[i] IN
    /\ g.use # NoList => Range(g.use) \subseteq config.providers
    /\ g.proxies # NoList /\ ~(g.use # NoList /\ g.use # << >>) =>
         \A p \in Range(g.proxies) :
           \/ p \in Builtin \cup config.providers
           \/ \E q \in Range(config.proxies) : q.name = p
           \/ \E q \in Range(config.groups) : q.name = p
\* What was deleted and not put there again is in no list and no group, but for a group that
\* the edit of the groups itself adds with a provider of its own.
DeletedIsGone ==
  LET gone == edits.proxies.delete \ (Range(Added(edits.proxies)) \cup config.providers \cup Builtin \cup Range(Names(config.groups))) IN
  /\ gone \cap Range(Names(config.proxies)) = {}
  /\ \A i \in DOMAIN config.groups :
       LET g == config.groups[i] IN
       g.proxies # NoList /\ g \notin Range(edits.groups.prepend \o edits.groups.append) =>
         gone \cap Range(g.proxies) = {}
\* What was added can be chosen, once, in the first selector that the profile has, where
\* the edit of the groups has not deleted it.
AddedCanBeChosen ==
  \A i \in First(base.groups) :
    \A g \in Range(config.groups) :
      g.name = base.groups[i].name /\ g \notin Range(edits.groups.prepend \o edits.groups.append) =>
        \A p \in Range(Added(edits.proxies)) :
          g.proxies # NoList /\ \E j \in DOMAIN g.proxies : {k \in DOMAIN g.proxies : g.proxies[k] = p} = {j}
\* What was not touched stays, in its order.
RestStays ==
  LET rest(items, delete) == SelectSeq(items, LAMBDA x : x \notin delete)
      inner(s, before, after) == SubSeq(s, Len(before) + 1, Len(s) - Len(after))
  IN /\ inner(config.rules, edits.rules.prepend, edits.rules.append) = rest(base.rules, edits.rules.delete)
     /\ inner(Names(config.groups), edits.groups.prepend, edits.groups.append)
          = rest(Names(base.groups), edits.groups.delete)

ListsFollow == Result => NothingDangles /\ DeletedIsGone /\ AddedCanBeChosen /\ RestStays
=============================================================================
