---------------------------- MODULE Lightweight ----------------------------
(***************************************************************************)
(* Lightweight mode and the main window (module/lightweight.rs,            *)
(* utils/window_manager.rs, utils/resolve/window.rs, crates/                *)
(* clash-verge-limiter).  In lightweight mode the window is destroyed.  The *)
(* tray, a hotkey, a command or a second instance enter and leave the mode  *)
(* on threads of their own; closing the window arms a timer that enters it, *)
(* and the focus cancels the timer.  The mode is one atomic, moved by a     *)
(* compare-and-swap and then stored again.                                  *)
(***************************************************************************)
EXTENDS Naturals

CONSTANTS Threads,   \* callers: tray, hotkey, command, second instance
          MaxAsks,   \* bound: calls made in a behaviour
          MaxTimers  \* bound: timers armed in a behaviour

VARIABLES mode,     \* LIGHTWEIGHT_STATE
          window,   \* the main window, and whether the two listeners are on it
          limited,  \* WINDOW_OPERATION_LIMITER would refuse
          auto,     \* enable_auto_light_weight_mode
          tx,       \* CANCEL_TX: the timer whose sender it holds; 0: None
          timers,   \* what each timer task is doing
          arming,   \* tasks the close listener has spawned
          call,     \* what each thread is doing
          asks
vars == <<mode, window, limited, auto, tx, timers, arming, call, asks>>

Modes == {"Normal", "In", "Exiting"}
Views == {"focused", "visible", "minimized", "hidden"}
NoWindow == [view |-> "none", close |-> FALSE, focus |-> FALSE]
NewWindow == [view |-> "hidden", close |-> FALSE, focus |-> FALSE]
Ids == 1 .. MaxTimers
Idle == [at |-> "idle", leaving |-> FALSE]
Exists == window.view # "none"
Entrants == Threads \cup Ids

Init ==
  /\ mode = "Normal" /\ window = [NewWindow EXCEPT !.view = "visible"]
  /\ limited = FALSE /\ auto \in BOOLEAN /\ tx = 0
  /\ timers = [t \in Ids |-> "none"] /\ arming = 0
  /\ call = [c \in Entrants |-> Idle] /\ asks = 0

At(c, place) == call' = [call EXCEPT ![c].at = place]
Done(c) == call' = [call EXCEPT ![c] = Idle]
Move(from, to) == mode = from /\ mode' = to

-----------------------------------------------------------------------------
(* The timer.                                                              *)

\* cancel_light_weight_timer: the sender is taken, the task may already be awake.
CancelTimer ==
  /\ tx' = 0
  /\ timers' = [t \in Ids |-> IF t = tx /\ timers[t] = "sleeping" THEN "cancelled"
                              ELSE timers[t]]

\* setup_light_weight_timer: one timer at a time.
Arm ==
  /\ arming > 0 /\ arming' = arming - 1
  /\ IF tx # 0 THEN UNCHANGED <<tx, timers>>
     ELSE \E t \in Ids :
            /\ timers[t] = "none" /\ \A u \in 1 .. (t - 1) : timers[u] # "none"
            /\ tx' = t /\ timers' = [timers EXCEPT ![t] = "sleeping"]
  /\ UNCHANGED <<mode, window, limited, auto, call, asks>>

\* select! takes the sleep even when the cancellation is ready too.  The expired
\* task clears the sender it finds, and a sender that is dropped cancels its timer.
\* fault: the sender found is put back instead of dropped.
Dropped_Leaked(t) == timers
Dropped(t) == [u \in Ids |-> IF u = tx /\ u # t /\ timers[u] = "sleeping" THEN "cancelled"
                             ELSE timers[u]]
Expire(t) ==
  /\ timers[t] \in {"sleeping", "cancelled"}
  /\ tx' = 0 /\ timers' = [Dropped(t) EXCEPT ![t] = "over"]
  /\ At(t, "enter")
  /\ UNCHANGED <<mode, window, limited, auto, arming, asks>>

Stopped(t) ==
  /\ timers[t] = "cancelled" /\ timers' = [timers EXCEPT ![t] = "over"]
  /\ UNCHANGED <<mode, window, limited, auto, tx, arming, call, asks>>

-----------------------------------------------------------------------------
(* Entering and leaving the mode.                                          *)

\* entry_lightweight_mode
Enter(c) ==
  /\ call[c].at = "enter"
  /\ IF mode = "Normal" THEN mode' = "In" /\ At(c, "entered")
                        ELSE Done(c) /\ UNCHANGED mode
  /\ UNCHANGED <<window, limited, auto, tx, timers, arming, asks>>

RecordIn(c) ==
  /\ call[c].at = "entered" /\ mode' = "In" /\ At(c, "destroy")
  /\ UNCHANGED <<window, limited, auto, tx, timers, arming, asks>>

\* destroy_main_window, then the timer
Destroy(c) ==
  /\ call[c].at = "destroy" /\ window' = NoWindow /\ CancelTimer /\ Done(c)
  /\ UNCHANGED <<mode, limited, auto, arming, asks>>

\* exit_lightweight_mode; who cannot leave shows the window
Leave(c) ==
  /\ call[c].at = "leave"
  /\ IF mode = "In" THEN mode' = "Exiting" /\ call' = [call EXCEPT ![c] = [at |-> "left", leaving |-> TRUE]]
                    ELSE At(c, "show") /\ UNCHANGED mode
  /\ UNCHANGED <<window, limited, auto, tx, timers, arming, asks>>

RecordExiting(c) ==
  /\ call[c].at = "left" /\ mode' = "Exiting" /\ At(c, "show")
  /\ UNCHANGED <<window, limited, auto, tx, timers, arming, asks>>

\* setup_window_close_listener and setup_webview_focus_listener find the window or do nothing
Listeners(on) == IF Exists THEN [window EXCEPT !.close = on, !.focus = on] ELSE window

Listen(c) ==
  /\ call[c].at = "listen"
  /\ window' = IF auto THEN Listeners(TRUE) ELSE window
  /\ CancelTimer /\ At(c, "settle")
  /\ UNCHANGED <<mode, limited, auto, arming, asks>>

\* fault: the mode is left as it is when the window was not shown.
Settle_OnlyIfShown(c) == mode' = IF Exists THEN "Normal" ELSE mode
Settled(c) == mode' = "Normal"
Settle(c) ==
  /\ call[c].at = "settle" /\ Settled(c) /\ Done(c)
  /\ UNCHANGED <<window, limited, auto, tx, timers, arming, asks>>

-----------------------------------------------------------------------------
(* The window.                                                             *)

After(c) == IF call[c].leaving THEN At(c, "listen") ELSE Done(c)

\* The window hides, and its close listener arms the timer.
Closing == /\ window' = [window EXCEPT !.view = "hidden"]
           /\ arming' = IF window.close THEN arming + 1 ELSE arming

\* show_main_window, toggle_main_window: at most one operation in 625 ms; a window that
\* is missing is built, one that is shown is closed by the toggle.
Show(c) ==
  /\ call[c].at \in {"show", "toggle"}
  /\ IF limited THEN After(c) /\ UNCHANGED <<window, limited, arming>>
     ELSE /\ limited' = TRUE
          /\ CASE ~Exists -> At(c, "build") /\ UNCHANGED <<window, arming>>
               [] window.view \in {"focused", "visible"} /\ call[c].at = "toggle" ->
                    Closing /\ After(c)
               [] window.view = "focused" /\ call[c].at = "show" ->
                    After(c) /\ UNCHANGED <<window, arming>>
               [] OTHER -> /\ window' = [window EXCEPT !.view = "visible"]
                           /\ After(c) /\ UNCHANGED arming
  /\ UNCHANGED <<mode, auto, tx, timers, asks>>

\* build_new_window: a second window of the same label is refused.
Build(c) ==
  /\ call[c].at = "build" /\ window' \in {window, NewWindow}
  /\ (Exists => window' = window) /\ After(c)
  /\ UNCHANGED <<mode, limited, auto, tx, timers, arming, asks>>

\* on_page_load, set_focus, the user: the window comes to the front.
Focus ==
  /\ Exists /\ window.view # "focused" /\ window' = [window EXCEPT !.view = "focused"]
  /\ IF window.focus THEN CancelTimer ELSE UNCHANGED <<tx, timers>>
  /\ UNCHANGED <<mode, limited, auto, arming, call, asks>>

Blur ==
  /\ window.view = "focused" /\ window' \in {[window EXCEPT !.view = v] : v \in {"visible", "minimized"}}
  /\ UNCHANGED <<mode, limited, auto, tx, timers, arming, call, asks>>

\* handle_window_close
CloseRequest ==
  /\ window.view \in {"focused", "visible"} /\ arming = 0 /\ Closing
  /\ UNCHANGED <<mode, limited, auto, tx, timers, call, asks>>

\* feat::hide (macOS, Cmd-W): the timer is armed by the call itself.
Hide ==
  /\ window.view \in {"focused", "visible"} /\ auto /\ arming = 0 /\ arming' = 1
  /\ window' = [window EXCEPT !.view = "hidden"]
  /\ UNCHANGED <<mode, limited, auto, tx, timers, call, asks>>

Limiter == /\ limited /\ limited' = FALSE
           /\ UNCHANGED <<mode, window, auto, tx, timers, arming, call, asks>>

-----------------------------------------------------------------------------
\* A request: enter, leave or show, or the dashboard, which leaves or toggles.
Ask(c) ==
  /\ call[c] = Idle /\ asks < MaxAsks /\ asks' = asks + 1
  /\ \E place \in {"enter", "leave", IF mode = "In" THEN "leave" ELSE "toggle"} : At(c, place)
  /\ UNCHANGED <<mode, window, limited, auto, tx, timers, arming>>

\* enable_auto_light_weight_mode, disable_auto_light_weight_mode
SetAuto ==
  /\ asks < MaxAsks /\ asks' = asks + 1 /\ auto' = ~auto /\ window' = Listeners(~auto)
  /\ IF auto THEN CancelTimer ELSE UNCHANGED <<tx, timers>>
  /\ UNCHANGED <<mode, limited, arming, call>>

Step(c) == Enter(c) \/ RecordIn(c) \/ Destroy(c) \/ Leave(c) \/ RecordExiting(c) \/ Listen(c)
           \/ Settle(c) \/ Show(c) \/ Build(c)
Timer(t) == Expire(t) \/ Stopped(t)
User == Focus \/ Blur \/ CloseRequest \/ Hide \/ SetAuto
Next == (\E c \in Threads : Ask(c)) \/ (\E c \in Entrants : Step(c)) \/ Arm \/ Limiter
        \/ (\E t \in Ids : Timer(t)) \/ User

Spec == Init /\ [][Next]_vars

\* A call that has begun goes on; nobody has to ask for anything.
Fairness == \A c \in Threads : WF_vars(Step(c))
FairSpec == Spec /\ Fairness

-----------------------------------------------------------------------------
Places == {"idle", "enter", "entered", "destroy", "leave", "left", "show", "toggle", "build",
           "listen", "settle"}
TypeOK ==
  /\ mode \in Modes /\ window.view \in Views \cup {"none"} /\ limited \in BOOLEAN
  /\ auto \in BOOLEAN /\ tx \in 0 .. MaxTimers
  /\ \A t \in Ids : timers[t] \in {"none", "sleeping", "cancelled", "over"}
  /\ arming \in Nat /\ \A c \in Entrants : call[c].at \in Places

\* A timer that still runs can be cancelled: however an expiry, a focus and a second
\* close interleave, no task sleeps towards lightweight mode that the focus cannot stop.
SleeperCanBeCancelled == \A t \in Ids : timers[t] = "sleeping" => tx = t

\* The mode does not stay between the two: whoever starts to leave ends up in normal
\* mode even when the limiter refuses the window, or another thread enters meanwhile.
LeavingEnds == mode = "Exiting" ~> mode # "Exiting"
=============================================================================
