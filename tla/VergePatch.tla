------------------------------ MODULE VergePatch ------------------------------
(***************************************************************************)
(* A patch of the settings (feat/config.rs) and what the settings drive: the  *)
(* core, the desktop, the tray (core/tray/mod.rs) and the log.  Patches go    *)
(* one at a time under the configuration lock; the tray is refreshed by       *)
(* others too.                                                               *)
(***************************************************************************)
EXTENDS Functions, Naturals, Sequences

CONSTANTS Patches,    \* sets of settings that one patch names
          MaxPatches, MaxRefreshes  \* bounds: patches, refreshes by others

VARIABLES linux,      \* cfg!(target_os = "linux")
          data, draft,  \* the settings: what is committed, and what a patch stages
          file,       \* verge.yaml
          patch,      \* the settings that the patch under way names, {} when there is none
          todo,       \* its flags that have not taken effect yet
          menu,       \* what another task has read for a menu it is building, or NoMenu
          shown,      \* target -> setting -> the value it last acted on
          doubt,      \* ghost: <<target, setting>> that a failure or a race left behind
          patches, refreshes
vars == <<linux, data, draft, file, patch, todo, menu, shown, doubt, patches, refreshes>>

\* The settings, those of one group as one.
Settings == {"tun", "ports", "builtin", "launch", "language", "proxy", "proxy_details",
             "hotkeys", "display", "icons", "click", "light", "level", "file_size", "file_count"}
\* What each target reads of them when it acts.
Reads ==
  [core    |-> {"tun", "ports", "builtin"},
   launch  |-> {"launch"},
   words   |-> {"language"},
   proxy   |-> {"proxy", "proxy_details"},
   hotkeys |-> {"hotkeys"},
   menu    |-> {"tun", "proxy", "hotkeys", "language", "display"},
   icon    |-> {"tun", "proxy", "icons"},
   tooltip |-> {"tun", "proxy", "language"},
   click   |-> {"click"},
   light   |-> {"light"},
   level   |-> {"level"},
   log     |-> {"file_size", "file_count"}]
Targets == DOMAIN Reads
Pairs(ts, fs) == UNION {{t} \X (Reads[t] \cap fs) : t \in ts}

\* fault: the locale is set after the tray.
Order_LanguageLast ==
  <<"RESTART_CORE", "CLASH_CONFIG", "LAUNCH", "SYS_PROXY", "HOTKEY", "SYSTRAY_MENU", "SYSTRAY_ICON",
    "SYSTRAY_TOOLTIP", "SYSTRAY_CLICK_BEHAVIOR", "LIGHT_WEIGHT", "LOG_LEVEL", "LOG_FILE", "LANGUAGE">>
\* process_terminated_flags: the flags in the order in which they take effect, and on what.
Order == <<"RESTART_CORE", "CLASH_CONFIG", "LAUNCH", "LANGUAGE", "SYS_PROXY", "HOTKEY",
           "SYSTRAY_MENU", "SYSTRAY_ICON", "SYSTRAY_TOOLTIP", "SYSTRAY_CLICK_BEHAVIOR",
           "LIGHT_WEIGHT", "LOG_LEVEL", "LOG_FILE">>
Touches ==
  [RESTART_CORE |-> {"core"}, CLASH_CONFIG |-> {"core"}, LAUNCH |-> {"launch"}, LANGUAGE |-> {"words"},
   SYS_PROXY |-> {"proxy"}, HOTKEY |-> {"hotkeys"}, SYSTRAY_MENU |-> {"menu"},
   SYSTRAY_ICON |-> {"icon"}, SYSTRAY_TOOLTIP |-> {"tooltip"}, SYSTRAY_CLICK_BEHAVIOR |-> {"click"},
   LIGHT_WEIGHT |-> {"light"}, LOG_LEVEL |-> {"level"}, LOG_FILE |-> {"log"}]

\* fault: the switch of the proxy leaves the tray as it is.
TrayFlags_TunOnly(f) == IF f = "tun" THEN {"SYSTRAY_MENU", "SYSTRAY_TOOLTIP", "SYSTRAY_ICON"} ELSE {}
TrayFlags(f) == IF f \in {"tun", "proxy"} THEN {"SYSTRAY_MENU", "SYSTRAY_TOOLTIP", "SYSTRAY_ICON"} ELSE {}
\* What a named setting asks for.  `builtin` asks for nothing: the core takes it over with
\* the next configuration it is given.
FlagsOf(f) ==
  CASE f = "ports" -> {"RESTART_CORE"}
    [] f = "tun" -> {"CLASH_CONFIG"} \cup TrayFlags(f)
    [] f = "launch" -> {"LAUNCH"}
    [] f = "proxy" -> {"SYS_PROXY"} \cup TrayFlags(f)
    [] f = "proxy_details" -> {"SYS_PROXY"}
    [] f = "language" -> {"LANGUAGE", "SYSTRAY_MENU", "SYSTRAY_TOOLTIP"}
    [] f = "icons" -> {"SYSTRAY_ICON"}
    [] f = "hotkeys" -> {"HOTKEY", "SYSTRAY_MENU"}
    [] f = "click" -> {"SYSTRAY_CLICK_BEHAVIOR"}
    [] f = "light" -> {"LIGHT_WEIGHT"}
    [] f = "display" -> {"SYSTRAY_MENU"}
    [] f = "level" -> {"LOG_LEVEL"}
    [] f \in {"file_size", "file_count"} -> {"LOG_FILE"}
    [] OTHER -> {}
\* determine_update_flags: on Linux a TUN that is turned on needs a new process.
Flags(fs, new) ==
  (UNION {FlagsOf(f) : f \in fs}) \cup IF linux /\ "tun" \in fs /\ new["tun"] THEN {"RESTART_CORE"} ELSE {}

Idle == patch = {}
NoMenu == [tun |-> FALSE, proxy |-> FALSE, late |-> FALSE, none |-> TRUE]

Init ==
  /\ linux \in BOOLEAN
  /\ data = [f \in Settings |-> FALSE] /\ draft = data /\ file = data
  /\ patch = {} /\ todo = {} /\ menu = NoMenu /\ doubt = {}
  /\ shown = [t \in Targets |-> Restrict(data, Reads[t])]
  /\ patches = 0 /\ refreshes = 0

----------------------------------------------------------------------------
(* What a target takes over when it acts                                     *)

\* The staged settings.  The log takes those that the patch names, and the default for the
\* others; the words of menu and tooltip are those of the locale.
Shows(t) ==
  [f \in Reads[t] |->
     IF t = "log" /\ f \notin patch THEN FALSE
     ELSE IF f = "language" /\ t # "words" THEN shown["words"][f] ELSE draft[f]]
Acts(ts) == shown' = [t \in Targets |-> IF t \in ts THEN Shows(t) ELSE shown[t]]

\* Afterwards they are no longer in doubt, if the locale is not.
Settled(ts) ==
  (doubt \ Pairs(ts, Settings))
    \cup (IF <<"words", "language">> \in doubt /\ "words" \notin ts THEN Pairs(ts, {"language"}) ELSE {})
    \cup (IF "log" \in ts THEN Pairs({"log"}, Settings \ patch) ELSE {})

----------------------------------------------------------------------------
(* apply_verge_patch_locked                                                  *)

Begin ==
  /\ Idle /\ patches < MaxPatches /\ patches' = patches + 1
  /\ \E fs \in Patches :
       /\ patch' = fs
       /\ draft' = [f \in Settings |-> IF f \in fs THEN ~data[f] ELSE data[f]]
       /\ todo' = Flags(fs, draft')
  /\ UNCHANGED <<linux, data, file, menu, shown, doubt, refreshes>>

\* The flag whose turn it is: the first in the order.
IsNext(flag) ==
  flag \in todo /\ \E i \in DOMAIN Order : Order[i] = flag /\ \A j \in 1..i - 1 : Order[j] \notin todo
Effect ==
  /\ \E flag \in todo :
       LET ts == Touches[flag] IN
       /\ IsNext(flag) /\ todo' = todo \ {flag}
       /\ Acts(ts) /\ doubt' = Settled(ts)
       /\ menu' = [menu EXCEPT !.late = menu.late \/ "menu" \in ts]
  /\ UNCHANGED <<linux, data, draft, file, patch, patches, refreshes>>

\* An effect that fails ends the patch; the transaction is dropped and discards the draft.
\* What the effects before it did stays, and what it touches itself may have been reached.
Fail ==
  /\ \E flag \in todo \ {"LANGUAGE", "LIGHT_WEIGHT"} :
       /\ IsNext(flag)
       /\ \E reached \in {{}, Touches[flag]} : Acts(reached)
       /\ doubt' = doubt \cup Pairs(Targets, patch)
                        \cup IF flag = "LOG_FILE" THEN Pairs({"log"}, Settings) ELSE {}
  /\ draft' = data /\ patch' = {} /\ todo' = {} /\ menu' = [menu EXCEPT !.late = TRUE]
  /\ UNCHANGED <<linux, data, file, patches, refreshes>>

\* The draft becomes the data, and the file follows unless it is not to, or cannot be,
\* written.  What only the next configuration takes over is in doubt until then.
Commit ==
  /\ ~Idle /\ todo = {}
  /\ data' = draft /\ file' \in {file, draft} /\ patch' = {}
  /\ doubt' = doubt \cup IF Flags(patch, draft) \cap {"RESTART_CORE", "CLASH_CONFIG"} = {}
                         THEN Pairs({"core"}, patch \cap {"builtin"}) ELSE {}
  /\ UNCHANGED <<linux, draft, todo, menu, shown, patches, refreshes>>

----------------------------------------------------------------------------
(* update_part: other tasks renew the tray, also while a patch is under way    *)

\* The two switches are read first, then the core is asked for its proxies.
ReadMenu ==
  /\ menu.none /\ refreshes < MaxRefreshes /\ refreshes' = refreshes + 1
  /\ menu' = [tun |-> draft["tun"], proxy |-> draft["proxy"], late |-> FALSE, none |-> FALSE]
  /\ UNCHANGED <<linux, data, draft, file, patch, todo, shown, doubt, patches>>

\* The icon comes from the committed settings; a menu that a patch has overtaken is set all
\* the same, and both may be older than what they replace.
SetTray ==
  /\ ~menu.none /\ menu' = NoMenu
  /\ shown' = [shown EXCEPT
       !["menu"] = [f \in Reads["menu"] |-> IF f \in {"tun", "proxy"} THEN menu[f] ELSE Shows("menu")[f]],
       !["icon"] = Restrict(data, Reads["icon"]),
       !["tooltip"] = Shows("tooltip")]
  /\ doubt' = Settled({"menu", "icon", "tooltip"})
       \cup (IF menu.late THEN Pairs({"menu"}, {"tun", "proxy"}) ELSE {})
       \cup (IF "SYSTRAY_ICON" \notin todo THEN Pairs({"icon"}, patch) ELSE {})
  /\ UNCHANGED <<linux, data, draft, file, patch, todo, patches, refreshes>>

Next == Begin \/ Effect \/ Fail \/ Commit \/ ReadMenu \/ SetTray
Spec == Init /\ [][Next]_vars

----------------------------------------------------------------------------

\* Between patches everything that a setting drives acts on the committed value, whatever
\* was patched in whatever order, except where a patch failed under way or a refresh of the
\* tray was overtaken by a patch, and there only until the target acts again.
SettingsAct ==
  Idle => \A t \in Targets : \A f \in Reads[t] :
            <<t, f>> \in doubt \/ shown[t][f] = data[f]
=============================================================================
