------------------------------- MODULE SpeedTask -------------------------------
(***************************************************************************)
(* The speed beside the tray icon (core/tray/speed_task.rs): one task reads   *)
(* the core's traffic stream (utils/connections_stream.rs) and leaves the id  *)
(* of its connection where whoever stops it finds it.                        *)
(***************************************************************************)
EXTENDS Naturals

CONSTANTS MaxCalls,   \* bound: calls of update_task
          MaxConns    \* bound: connections made

VARIABLES slot,       \* speed_task: the task that is kept, or None
          shared,     \* speed_connection_id
          at,         \* call -> where the task is that it has started, or that stops another
          whom,       \* call -> the task it stops, or None
          held,       \* call -> the connection its task is about to close
          aborted,    \* tasks that are to be dropped where they next wait
          open, made, \* the connections the core holds, and how many were made
          exiting, calls,
          excused     \* ghost: a task was started before an older one was stopped, or dropped
                      \* in the middle of closing its connection
vars == <<slot, shared, at, whom, held, aborted, open, made, exiting, calls, excused>>

None == 0
Calls == 1..MaxCalls
Reader == {"connect", "stream", "closing", "pause"}
Stopper == {"abort", "join", "take", "close"}
Goes(c, to) == at' = [at EXCEPT ![c] = to]
Kept == UNCHANGED <<slot, whom, exiting, calls>>

Init ==
  /\ slot = None /\ shared = None /\ aborted = {} /\ open = {} /\ made = 0
  /\ at = [c \in Calls |-> "none"] /\ whom = [c \in Calls |-> None] /\ held = whom
  /\ exiting = FALSE /\ calls = 0 /\ excused = FALSE

----------------------------------------------------------------------------
(* update_task                                                               *)

\* start_task: not while a task runs.
Start ==
  /\ calls < MaxCalls /\ calls' = calls + 1
  /\ IF ~exiting /\ (slot = None \/ at[slot] \notin Reader)
     THEN /\ slot' = calls' /\ Goes(calls', "connect")
          /\ excused' = (excused \/ \E c \in Calls : at[c] \in Stopper)
     ELSE UNCHANGED <<slot, at, excused>>
  /\ UNCHANGED <<shared, whom, held, aborted, open, made, exiting>>

\* stop_task: the task is taken out at once, and stopped by another.
Stop ==
  /\ calls < MaxCalls /\ calls' = calls + 1
  /\ slot' = None /\ whom' = [whom EXCEPT ![calls'] = slot]
  /\ Goes(calls', IF slot = None THEN "take" ELSE "abort")
  /\ UNCHANGED <<shared, held, aborted, open, made, exiting, excused>>
Exit == /\ ~exiting /\ exiting' = TRUE
        /\ UNCHANGED <<slot, shared, at, whom, held, aborted, open, made, calls, excused>>

----------------------------------------------------------------------------
(* The task that reads                                                       *)

\* The loop ends when the application does; the id is dropped.
Ends(c) == shared' = None /\ Goes(c, "done")

Connect(c) ==
  /\ at[c] = "connect" /\ Kept /\ UNCHANGED <<held, aborted, excused>>
  /\ IF exiting THEN Ends(c) /\ UNCHANGED <<open, made>>
     ELSE \/ Goes(c, "pause") /\ UNCHANGED <<shared, open, made>>
          \/ /\ made < MaxConns /\ made' = made + 1 /\ open' = open \cup {made'}
             /\ shared' = made' /\ Goes(c, "stream")

\* next_event: the core closes the stream, it says nothing for five seconds, or the
\* application ends.  The id is taken, and the connection it names is closed.
StreamEnds(c) ==
  /\ at[c] = "stream" /\ Goes(c, "closing")
  /\ open' \in {open, open \ {shared}}
  /\ held' = [held EXCEPT ![c] = shared] /\ shared' = None
  /\ Kept /\ UNCHANGED <<aborted, made, excused>>
Closed(c) ==
  /\ at[c] = "closing" /\ open' = open \ {held[c]} /\ held' = [held EXCEPT ![c] = None]
  /\ IF exiting THEN Ends(c) ELSE Goes(c, "pause") /\ UNCHANGED shared
  /\ Kept /\ UNCHANGED <<aborted, made, excused>>
Again(c) ==
  /\ at[c] = "pause" /\ Goes(c, "connect")
  /\ Kept /\ UNCHANGED <<shared, held, aborted, open, made, excused>>

----------------------------------------------------------------------------
(* The task that stops it                                                    *)

\* fault: nobody waits until the aborted task has ended.
AfterAbort_Take == "take"
\* The abort is awaited, so the task cannot leave a connection behind the one that closes it.
AfterAbort == "join"
Abort(c) ==
  /\ at[c] = "abort" /\ Goes(c, AfterAbort) /\ aborted' = aborted \cup {whom[c]}
  /\ Kept /\ UNCHANGED <<shared, held, open, made, excused>>
\* An aborted task is dropped where it waits, after it may have gone on to another wait.
Dropped(c) ==
  /\ c \in aborted /\ at[c] \in Reader /\ Goes(c, "done")
  /\ excused' = (excused \/ held[c] \in open) /\ held' = [held EXCEPT ![c] = None]
  /\ Kept /\ UNCHANGED <<shared, aborted, open, made>>
Join(c) ==
  /\ at[c] = "join" /\ at[whom[c]] \notin Reader /\ Goes(c, "take")
  /\ Kept /\ UNCHANGED <<shared, held, aborted, open, made, excused>>
Take(c) ==
  /\ at[c] = "take" /\ Goes(c, "close") /\ held' = [held EXCEPT ![c] = shared] /\ shared' = None
  /\ Kept /\ UNCHANGED <<aborted, open, made, excused>>
CloseIt(c) ==
  /\ at[c] = "close" /\ Goes(c, "done")
  /\ open' = open \ {held[c]} /\ held' = [held EXCEPT ![c] = None]
  /\ Kept /\ UNCHANGED <<shared, aborted, made, excused>>

Next == \/ Start \/ Stop \/ Exit
        \/ \E c \in Calls : \/ Connect(c) \/ StreamEnds(c) \/ Closed(c) \/ Again(c)
                            \/ Abort(c) \/ Dropped(c) \/ Join(c) \/ Take(c) \/ CloseIt(c)
Spec == Init /\ [][Next]_vars

----------------------------------------------------------------------------

\* While nobody stops a task the core holds at most the connection that the running task
\* reads or is about to close: none is left behind by a stop, and none is taken from under
\* a task that was started later.
OneStream ==
  (\A c \in Calls : at[c] \notin Stopper) /\ ~excused =>
    /\ open \subseteq {IF held[c] # None THEN held[c] ELSE shared : c \in {c \in Calls : at[c] \in Reader}}
    /\ \A c, d \in Calls : at[c] \in Reader /\ at[d] \in Reader => c = d
    /\ \A c \in Calls : at[c] = "stream" => shared # None
=============================================================================
