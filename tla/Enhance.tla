-------------------------------- MODULE Enhance --------------------------------
(***************************************************************************)
(* How the configuration of the core is made of the current profile, the      *)
(* application's own settings and what the user writes over both              *)
(* (enhance/mod.rs, merge.rs, tun.rs, script.rs).  A configuration is a        *)
(* function from the paths it sets to their values.                          *)
(***************************************************************************)
EXTENDS FiniteSets, Functions, Naturals, Sequences, TLC

CONSTANTS Profiles,   \* configurations of profiles
          Apps,       \* the application's own, config.yaml
          Pages,      \* fields that the DNS page has filled in
          Switches,   \* sets of settings that are on
          Writes, Removals,  \* what a merge or a script may set, paths a script may remove
          MaxWrites   \* bound: items that write something

VARIABLES profile, app, page,
          switch,     \* the switches of the settings that are on
          config, todo,  \* the configuration so far, and the stages to come
          owned,      \* AuthoritativeFields: what stands in the end
          notes,      \* item -> the paths whose value it is told was discarded
          written,    \* ghost: item -> what it wrote
          discarded   \* what the user is told was discarded
vars == <<profile, app, page, switch, config, todo, owned, notes, written, discarded>>

Items == {"global merge", "global script", "merge", "script"}
Nothing == [p \in {} |-> ""]
Without(c, ps) == Restrict(c, DOMAIN c \ ps)
Of(c, p) == IF p \in DOMAIN c THEN c[p] ELSE "-"

\* CONTROL_PLANE_KEYS, as far as the instances tell them apart.
Control == {"secret", "socks-port", "external-controller", "mode", "allow-lan", "ipv6"}
\* gui_tun_keys: the switch, and the fields of the TUN that the application has saved.
GuiTun == {"tun.enable"} \cup (DOMAIN app \cap {"tun.stack"})

----------------------------------------------------------------------------
(* The stages up to the user's own                                           *)

\* merge_default_config: the application's settings over the profile's; a listener that is
\* off is removed, the controller's address is blanked.
Merged(c) ==
  LET off == {p \in {"socks-port"} \cap DOMAIN app : "socks" \notin switch}
      blank == {p \in {"external-controller"} \cap DOMAIN app : "controller" \notin switch}
  IN [p \in blank |-> ""] @@ Without(app, off) @@ Without(c, off)

\* apply_builtin_scripts: all keys in lower case, and no mode that the core has no more.
Lower(p) == IF p = "Socks-Port" THEN "socks-port" ELSE p
Lowered(c) == [p \in {Lower(q) : q \in DOMAIN c} |->
                 IF p \in DOMAIN c THEN c[p] ELSE c[CHOOSE q \in DOMAIN c : Lower(q) = p]]
Guarded(c) ==
  IF "builtin" \notin switch THEN c
  ELSE LET l == Lowered(c) IN IF Of(l, "mode") = "script" THEN ("mode" :> "rule") @@ l ELSE l

\* ensure_fake_ip_range6
WithRange(c) ==
  IF Of(c, "dns.ipv6") = "on" /\ Of(c, "dns.mode") \in {"-", "fake-ip"} /\ Of(c, "dns.range6") \in {"-", ""}
  THEN ("dns.range6" :> "default") @@ c ELSE c
\* use_tun: with the TUN come the settings of a fake-ip DNS, unless another mode was chosen.
Tunnelled(c) ==
  LET on == "tun" \in switch
      six == IF Of(c, "ipv6") = "on" THEN "on" ELSE "off"
      dns == ("dns.enable" :> "on") @@ ("dns.ipv6" :> six) @@ c @@ ("dns.mode" :> "fake-ip")
      own == ("dns.ipv6" :> six) @@ dns
  IN ("tun.enable" :> IF on THEN "on" ELSE "off")
       @@ (IF on /\ Of(c, "dns.mode") \in {"-", "fake-ip"}
           THEN IF six = "on" THEN own @@ ("dns.range6" :> "default") ELSE own
           ELSE c)
\* apply_dns_settings: the filled fields of the page.
Paged(c) == IF "dns" \in switch THEN WithRange(page @@ c) ELSE c

\* AuthoritativeFields::capture
Captured(c) == Restrict(c, DOMAIN c \cap (Control \cup GuiTun)) @@ (IF "dns" \in switch THEN page ELSE Nothing)

----------------------------------------------------------------------------
(* The user's own, and what is put back after them                           *)

\* overridden: owned paths that a step has moved, and not to the application's value.
Moved(before, after) ==
  {p \in Control \cup DOMAIN owned : Of(before, p) # Of(after, p) /\ Of(after, p) # Of(owned, p)}

\* fault: what the application left out is not removed.
Enforced_Extend(c) == owned @@ c
\* enforce
Enforced(c) == owned @@ Without(c, Control)

\* ensure_lan_bind_address
Bound(c) == IF Of(c, "allow-lan") = "on" /\ Of(c, "bind-address") = "loopback"
            THEN ("bind-address" :> "*") @@ c ELSE c

----------------------------------------------------------------------------

\* fault: what the application owns is captured before the switch of the TUN is applied.
Stages_Early == <<"defaults", "builtin", "capture", "tun", "dns", "global merge", "global script",
                  "merge", "script", "enforce", "bind">>
\* enhance: the order of the stages.
Stages == <<"defaults", "builtin", "tun", "dns", "capture", "global merge", "global script",
            "merge", "script", "enforce", "bind">>

Init ==
  /\ profile \in Profiles /\ app \in Apps /\ page \in Pages
  /\ switch \in Switches
  /\ config = profile /\ todo = Stages /\ owned = Nothing /\ discarded = {}
  /\ notes = [i \in Items |-> {}] /\ written = [i \in Items |-> Nothing]

At(stage) == todo # << >> /\ Head(todo) = stage /\ todo' = Tail(todo)
Inputs == UNCHANGED <<profile, app, page, switch>>

Makes(stage, result) ==
  /\ At(stage) /\ config' = result /\ Inputs /\ UNCHANGED <<owned, notes, written, discarded>>
Defaults == Makes("defaults", Merged(config))
Builtin == Makes("builtin", Guarded(config))
Tun == Makes("tun", Tunnelled(config))
Dns == Makes("dns", Paged(config))
Capture ==
  /\ At("capture") /\ owned' = Captured(config) /\ Inputs
  /\ UNCHANGED <<config, notes, written, discarded>>

\* process_global_items, process_profile_items: a merge or a script writes over the
\* configuration; a script sees it in lower case, may also remove a path, and leaves
\* everything as it was when it fails.
Scripts == {"global script", "script"}
Override(item) ==
  /\ At(item) /\ Inputs
  /\ \E w \in Writes \cup {Nothing} :
       /\ w # Nothing => Cardinality({i \in Items : written[i] # Nothing}) < MaxWrites
       /\ written' = [written EXCEPT ![item] = w]
       /\ \/ item \in Scripts /\ config' = w @@ Lowered(config)
          \/ (item \in Scripts => w = Nothing) /\ config' = w @@ config
  /\ notes' = [notes EXCEPT ![item] = Moved(config, config')]
  /\ UNCHANGED <<owned, discarded>>
Remove(item) ==
  /\ item \in Scripts /\ At(item) /\ Inputs
  /\ \E p \in Removals \cap DOMAIN config : config' = Without(Lowered(config), {p})
  /\ notes' = [notes EXCEPT ![item] = Moved(config, config')]
  /\ UNCHANGED <<owned, written, discarded>>
Enforce ==
  /\ At("enforce") /\ Inputs
  /\ discarded' = Moved(owned, config) /\ config' = Enforced(config)
  /\ UNCHANGED <<owned, notes, written>>
Bind == Makes("bind", Bound(config))

Next == Defaults \/ Builtin \/ Tun \/ Dns \/ Capture \/ Enforce \/ Bind
        \/ \E i \in Items : Override(i) \/ Remove(i)
Spec == Init /\ [][Next]_vars

----------------------------------------------------------------------------
(* What must hold of the result                                              *)

Made == todo = << >>

\* What the settings say stands, whatever profile, merges and scripts write; a listener that
\* is off is absent (a profile that spells it in capitals can bring it back).
SettingsStand ==
  /\ Of(config, "tun.enable") = IF "tun" \in switch THEN "on" ELSE "off"
  /\ \A p \in DOMAIN app \cap {"secret", "allow-lan", "ipv6", "tun.stack"} : Of(config, p) = app[p]
  /\ "socks-port" \in DOMAIN app /\ "Socks-Port" \notin DOMAIN profile =>
       Of(config, "socks-port") = IF "socks" \in switch THEN app["socks-port"] ELSE "-"
  /\ "external-controller" \in DOMAIN app =>
       Of(config, "external-controller") = IF "controller" \in switch THEN app["external-controller"] ELSE ""
  /\ "dns" \in switch => \A p \in DOMAIN page : Of(config, p) = page[p]
\* A control that the application says nothing about is the profile's, and no override's.
NothingSlipsIn ==
  \A p \in Control \ DOMAIN app : "Socks-Port" \notin DOMAIN profile /\ p # "mode" => Of(config, p) = Of(profile, p)
\* Of the rest the last item that wrote it wins.
LastWriterWins ==
  \A p \in UNION {DOMAIN w : w \in Writes} \ (Control \cup DOMAIN owned \cup {"bind-address"}) :
    Of(config, p) \in
      IF p \in DOMAIN written["script"] THEN {written["script"][p]}
      ELSE IF p \in DOMAIN written["merge"] THEN {written["merge"][p]}
      ELSE IF p \in DOMAIN written["global script"] THEN {written["global script"][p]}
      ELSE IF p \in DOMAIN written["global merge"] THEN {written["global merge"][p]}
      ELSE {Of(config, p)}
\* What the user is told was discarded some item is told too.
DiscardedIsNoted == discarded \subseteq UNION Range(notes)
\* The core is given no mode it does not know, and no loopback address when the LAN is let in.
CoreCanUse ==
  /\ "builtin" \in switch => Of(config, "mode") # "script"
  /\ Of(config, "allow-lan") = "on" => Of(config, "bind-address") # "loopback"

ResultFollows ==
  Made => SettingsStand /\ NothingSlipsIn /\ LastWriterWins /\ DiscardedIsNoted /\ CoreCanUse
=============================================================================
