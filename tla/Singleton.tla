------------------------------ MODULE Singleton ------------------------------
(***************************************************************************)
(* One instance of the application at a time (utils/server.rs, lib.rs: run):  *)
(* a lock of the system, the record of where the instance listens, and the    *)
(* requests by which a later launch hands itself over.                        *)
(***************************************************************************)
EXTENDS Naturals

CONSTANTS Procs,      \* processes of the application, launched at most once each
          Ports,      \* ports a listener may get
          MaxForeign  \* bound: ports taken by other programs

VARIABLES at,         \* what each process does
          lock,       \* who holds singleton-instance.lock, or Nobody
          record,     \* singleton-instance.json: a port and whose token, or NoRecord
          bound,      \* port -> the process or program that listens there, or Nobody
          ready,      \* COMMANDS_READY of each process
          heard,      \* ghost: who took a launch over, and what it did then
          links,      \* ghost: how many times the link of each launch was taken
          foreign
vars == <<at, lock, record, bound, ready, heard, links, foreign>>

Nobody == "nobody"
Foreign == "foreign"
NoRecord == [port |-> 0, token |-> Nobody]

Init ==
  /\ at = [p \in Procs |-> "none"] /\ lock = Nobody /\ record = NoRecord
  /\ bound = [n \in Ports |-> Nobody] /\ ready = [p \in Procs |-> FALSE]
  /\ heard = [p \in Procs |-> [by |-> Nobody, ready |-> FALSE, holds |-> FALSE]]
  /\ links = [p \in Procs |-> 0] /\ foreign = 0

Serving(p) == at[p] = "primary"
Goes(p, to) == at' = [at EXCEPT ![p] = to]
Freed(p) == bound' = [n \in Ports |-> IF bound[n] = p THEN Nobody ELSE bound[n]]

----------------------------------------------------------------------------
(* check_singleton                                                           *)

Launch(p) == at[p] = "none" /\ Goes(p, "trying") /\ UNCHANGED <<lock, record, bound, ready, heard, links, foreign>>

\* try_lock_instance: once at first, then again in every round of the wait.
TryLock(p) ==
  /\ at[p] \in {"trying", "waiting"}
  /\ IF lock = Nobody THEN lock' = p /\ Goes(p, "binding")
     ELSE at[p] = "trying" /\ Goes(p, "waiting") /\ UNCHANGED lock
  /\ UNCHANGED <<record, bound, ready, heard, links, foreign>>

\* Twenty seconds have passed.
GivesUp(p) == at[p] = "waiting" /\ Goes(p, "failed") /\ UNCHANGED <<lock, record, bound, ready, heard, links, foreign>>

\* fault: any answer will do, also that the instance is starting.
Accepts_Any(q, token) == Serving(q) /\ token = q
\* The routes behind instance_auth answer with success when the token is right and the
\* commands are ready.
Accepts(q, token) == Serving(q) /\ token = q /\ ready[q]

\* notify_existing_instance: the request reaches whoever listens at the recorded port.  The
\* answer may come after the half second of the client, although the link was taken.
Notify(p) ==
  /\ at[p] = "waiting" /\ record # NoRecord
  /\ \E q \in {bound[record.port]} :
       \/ /\ q \in Procs /\ Accepts(q, record.token)
          /\ links' = [links EXCEPT ![p] = IF @ = 2 THEN 2 ELSE @ + 1]
          /\ \/ /\ Goes(p, "secondary")
                /\ heard' = [heard EXCEPT ![p] = [by |-> q, ready |-> ready[q], holds |-> lock = q]]
             \/ UNCHANGED <<at, heard>>
       \/ /\ q = Foreign /\ Goes(p, "secondary") /\ UNCHANGED links
          /\ heard' = [heard EXCEPT ![p] = [by |-> Foreign, ready |-> FALSE, holds |-> FALSE]]
  /\ UNCHANGED <<lock, record, bound, ready, foreign>>

\* bind_primary_listener: the port of the last instance, or any.
Bind(p) ==
  /\ at[p] = "binding" /\ Goes(p, "bound")
  /\ \E n \in Ports :
       /\ bound[n] = Nobody /\ (record # NoRecord /\ bound[record.port] = Nobody => n = record.port)
       /\ bound' = [bound EXCEPT ![n] = p]
  /\ UNCHANGED <<lock, record, ready, heard, links, foreign>>
\* The record is replaced by a rename, with a new token; only then is the listener served.
\* The lock stays with the process from here on.
\* fault: the lock goes with the function that took it.
Holder_Dropped(p) == Nobody
Holder(p) == p
Record(p) ==
  /\ at[p] = "bound" /\ Goes(p, "primary") /\ lock' = Holder(p)
  /\ \E n \in Ports : bound[n] = p /\ record' = [port |-> n, token |-> p]
  /\ UNCHANGED <<bound, ready, heard, links, foreign>>

\* The event loop runs (handle_ready_resumed).
Ready(p) == Serving(p) /\ ready' = [ready EXCEPT ![p] = TRUE]
            /\ UNCHANGED <<at, lock, record, bound, heard, links, foreign>>

----------------------------------------------------------------------------

\* feat::quit, feat::restart_app: the server is shut down first; a restart launches the
\* next process before it ends.
Close(p) == Serving(p) /\ Goes(p, "closing") /\ Freed(p) /\ UNCHANGED <<lock, record, ready, heard, links, foreign>>
Relaunch(p, q) ==
  /\ at[p] = "closing" /\ at[q] = "none" /\ Goes(q, "trying")
  /\ UNCHANGED <<lock, record, bound, ready, heard, links, foreign>>
\* The process ends, of itself or not; a start that could not bind or write is one too.
End(p) ==
  /\ at[p] \in {"binding", "bound", "primary", "closing"} /\ Goes(p, "ended") /\ Freed(p)
  /\ lock' = IF lock = p THEN Nobody ELSE lock
  /\ UNCHANGED <<record, ready, heard, links, foreign>>

\* Another program listens at a port.
TakePort ==
  /\ foreign < MaxForeign /\ foreign' = foreign + 1
  /\ \E n \in Ports : bound[n] = Nobody /\ bound' = [bound EXCEPT ![n] = Foreign]
  /\ UNCHANGED <<at, lock, record, ready, heard, links>>

Next ==
  \/ \E p \in Procs : \/ Launch(p) \/ TryLock(p) \/ GivesUp(p) \/ Notify(p) \/ Bind(p) \/ Record(p)
                      \/ Ready(p) \/ Close(p) \/ End(p) \/ \E q \in Procs : Relaunch(p, q)
  \/ TakePort
Spec == Init /\ [][Next]_vars

----------------------------------------------------------------------------
(* What must hold                                                            *)

Live == {p \in Procs : at[p] \in {"binding", "bound", "primary", "closing"}}

\* No two processes are past the check, also while one replaces the other; and a launch
\* that ends because another instance serves was taken over by one that did, was ready to
\* act on it and held the lock, or by a foreign program at a port that was no longer, or not
\* yet, an instance's.
OneInstance ==
  /\ \A p, q \in Live : p = q
  /\ \A p \in Procs : at[p] = "secondary" =>
       heard[p].by = Foreign \/ (heard[p].ready /\ heard[p].holds /\ links[p] > 0)
=============================================================================
