------------------------------- MODULE Hotkeys -------------------------------
(***************************************************************************)
(* The shortcuts registered with the desktop (core/hotkey.rs) and the events  *)
(* of the window that register and release them (lib.rs: event_handlers).     *)
(* An event is handled before the next one comes.                             *)
(***************************************************************************)
EXTENDS Functions, FiniteSets, Naturals

CONSTANTS Keys,       \* keys a user may choose
          Actions,    \* HotkeyFunction
          SystemKeys, \* CMD+Q and CMD+W, on macOS
          MaxEvents   \* bound: events

VARIABLES config,     \* `hotkeys` and `enable_global_hotkey` of the configuration
          current,    \* Hotkey.current
          registered, \* what the desktop has: key -> function
          focused,    \* the window has the focus
          doubt,      \* ghost: keys that a failed change left as they came
          events
vars == <<config, current, registered, focused, doubt, events>>

\* A list of hotkeys, each key once.
Lists == UNION {[K -> Actions] : K \in SUBSET Keys}
Nothing == [k \in {} |-> "none"]
SystemAction(k) == "system"

Without(f, K) == Restrict(f, DOMAIN f \ K)
With(f, g) == [k \in DOMAIN f \cup DOMAIN g |-> IF k \in DOMAIN g THEN g[k] ELSE f[k]]
System == [k \in SystemKeys |-> SystemAction(k)]

\* init at startup skips them all when they are not global; one that fails is logged.
Init ==
  /\ config \in [list : Lists, global : BOOLEAN]
  /\ focused = FALSE /\ events = 0
  /\ IF config.global
     THEN current = config.list /\ doubt \in SUBSET DOMAIN current /\ registered = Without(current, doubt)
     ELSE current = Nothing /\ doubt = {} /\ registered = Nothing

Event == events < MaxEvents /\ events' = events + 1

----------------------------------------------------------------------------
(* handle_window_focus, handle_window_destroyed                              *)

\* The system's shortcuts come with the focus, and the user's too when they are not global.
\* A registration that fails is logged, and the others go on.
Focus ==
  /\ Event /\ ~focused /\ focused' = TRUE /\ UNCHANGED config
  /\ IF config.global
     THEN registered' = With(registered, System) /\ UNCHANGED <<current, doubt>>
     ELSE \E failing \in SUBSET DOMAIN config.list :
            /\ registered' = With(With(registered, System), Without(config.list, failing))
            /\ current' = config.list /\ doubt' = (doubt \ DOMAIN config.list) \cup failing

\* fault: the user's shortcuts stay registered.
Released_System(f) == Without(f, SystemKeys)
Released(f) == IF config.global THEN Without(f, SystemKeys) ELSE Nothing
Blur ==
  /\ Event /\ focused /\ focused' = FALSE
  /\ registered' = Released(registered) /\ doubt' = IF config.global THEN doubt ELSE {}
  /\ UNCHANGED <<config, current>>

----------------------------------------------------------------------------
(* Hotkey::update, from a patch of the configuration made in the window       *)

\* get_diff: what to release and what to register.
Deleted(old, new) == {k \in DOMAIN old : k \notin DOMAIN new \/ new[k] # old[k]}
\* fault: a key whose function changed is only released.
Added_New(old, new) == DOMAIN new \ DOMAIN old
Added(old, new) == {k \in DOMAIN new : k \notin DOMAIN old \/ new[k] # old[k]}

\* The keys are registered in any order up to the first that fails; then the patch is
\* rolled back and `current` is still the old list.
Update(new) ==
  /\ Event /\ focused /\ UNCHANGED focused
  /\ LET kept == Without(registered, Deleted(current, new))
         added == Added(current, new)
     IN \/ /\ registered' = With(kept, Restrict(new, added)) /\ current' = new
           /\ config' = [config EXCEPT !.list = new] /\ UNCHANGED doubt
        \/ \E done \in SUBSET added :
             /\ done # added /\ registered' = With(kept, Restrict(new, done))
             /\ doubt' = doubt \cup Deleted(current, new) \cup added
             /\ UNCHANGED <<config, current>>

\* enable_global_hotkey is only written: the next event of the window acts on it.
SetGlobal ==
  /\ Event /\ focused /\ config' = [config EXCEPT !.global = ~@]
  /\ UNCHANGED <<current, registered, focused, doubt>>

Next == Focus \/ Blur \/ (\E new \in Lists : Update(new)) \/ SetGlobal
Spec == Init /\ [][Next]_vars

----------------------------------------------------------------------------

\* Through every order of focus, blur, change of the list and of its scope, the desktop has
\* the shortcuts of the configuration where they are to act, and none where they are not;
\* only the keys that a failed change touched are in doubt, until they are released and
\* registered again.
HotkeysFollow ==
  \A k \in Keys \ doubt :
    IF (config.global \/ focused) /\ k \in DOMAIN config.list
    THEN k \in DOMAIN registered /\ registered[k] = config.list[k]
    ELSE k \notin DOMAIN registered
=============================================================================
