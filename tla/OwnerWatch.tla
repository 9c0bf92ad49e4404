----------------------------- MODULE OwnerWatch -----------------------------
(***************************************************************************)
(* What the owner monitor concludes from the answers of the helper, one      *)
(* every five seconds (core/runstate/owner.rs, core/service.rs:              *)
(* start_owner_monitor).  What a conclusion does to the core and the proxy    *)
(* is in CoreLifecycle.                                                      *)
(***************************************************************************)
EXTENDS FiniteSets, Naturals, Sequences

CONSTANTS Sustained,  \* SUSTAINED_SAMPLES
          MaxSamples  \* bound: answers read

VARIABLES watch,      \* OwnerWatch: the two counters
          step,       \* what the last sample led to
          stopped,    \* the monitor's loop is over
          heard       \* ghost: the answers so far, and whether the core, if asked, answered
vars == <<watch, step, stopped, heard>>

Status == [kind : {"status"}, active : BOOLEAN, wanted : BOOLEAN,
           state : {"Running", "Starting", "RecoveringCore", "Fatal"}, core : BOOLEAN]
\* What the helper may answer: nothing, an error, no data; that it runs for nobody; or
\* its status, of this session or of another.
Answers == [kind : {"silent", "error", "empty", "not active"}]
           \cup [status : Status, ours : BOOLEAN]

IsStatus(a) == a \in [status : Status, ours : BOOLEAN]

\* read_owner_sample
Unreadable == [kind |-> "unreadable"]
NotActive == [kind |-> "not active"]
Sample(a) ==
  IF IsStatus(a) THEN (IF a.ours THEN a.status ELSE NotActive)
  ELSE IF a.kind = "not active" THEN NotActive ELSE Unreadable

Init == watch = [unreadable |-> 0, missing |-> 0] /\ step = "continue" /\ stopped = FALSE /\ heard = << >>

----------------------------------------------------------------------------
(* OwnerWatch::observe                                                       *)

Settling(s) == s.state \in {"Starting", "RecoveringCore"}
Missing(s) == ~s.core /\ ~Settling(s)

\* fault: a readable answer leaves the count of the unreadable ones.
Counted_Kept(w, s) ==
  CASE s = Unreadable -> [w EXCEPT !.unreadable = w.unreadable + 1]
    [] s = NotActive -> w
    [] OTHER -> [w EXCEPT !.missing = IF Missing(s) THEN w.missing + 1 ELSE 0]
Counted(w, s) ==
  CASE s = Unreadable -> [w EXCEPT !.unreadable = w.unreadable + 1]
    [] s = NotActive -> w
    [] OTHER -> [unreadable |-> 0, missing |-> IF Missing(s) THEN w.missing + 1 ELSE 0]

\* recovery_reason
Reason(w, s) ==
  IF ~s.active THEN "displaced"
  ELSE IF ~s.wanted \/ s.state = "Fatal" \/ (Missing(s) /\ w.missing >= Sustained)
  THEN "same owner failure" ELSE "continue"

Observed(w, s) ==
  CASE s = Unreadable -> IF w.unreadable >= Sustained THEN "verify" ELSE "continue"
    [] s = NotActive -> "displaced"
    [] OTHER -> Reason(w, s)

\* One round of the monitor: when only the channel fails, the core is asked.
Round(s, o, w) ==
  \E answers \in IF o = "verify" THEN BOOLEAN ELSE {FALSE} :
    /\ watch' = IF answers THEN [w EXCEPT !.unreadable = 0] ELSE w
    /\ step' = IF o # "verify" THEN o ELSE IF answers THEN "continue" ELSE "transport failure"
    /\ heard' = Append(heard, [sample |-> s, answers |-> answers])
Read ==
  /\ ~stopped /\ Len(heard) < MaxSamples
  /\ \E a \in Answers :
       LET s == Sample(a)  w == Counted(watch, s) IN Round(s, Observed(w, s), w)
  /\ stopped' = (step' # "continue")

\* A newer monitor has begun, or the mode is no longer Service.
Superseded == ~stopped /\ stopped' = TRUE /\ UNCHANGED <<watch, step, heard>>

Next == Read \/ Superseded
Spec == Init /\ [][Next]_vars

----------------------------------------------------------------------------
(* What the counters are for, said of everything that was heard.             *)

Last == heard[Len(heard)].sample
IsReadable(h) == h.sample # Unreadable
Gone(h) == h.sample # NotActive /\ Missing(h.sample)
\* The answers that could be read since one of them had the core, or asked not to wait for it.
GoneSince ==
  {i \in DOMAIN heard :
     IsReadable(heard[i]) /\ \A j \in i..Len(heard) : IsReadable(heard[j]) => Gone(heard[j])}
SilentSince(count) == Len(heard) >= count /\ \A i \in Len(heard) - count + 1 .. Len(heard) : ~IsReadable(heard[i])
\* The helper is given up when it says so itself, when three answers in a row that
\* could be read had no core, however many could not be read between them, or when
\* it was silent three times and the core does not answer either; and then at once.
GivenUpForCause ==
  heard # << >> =>
    /\ step = "displaced" <=> Last = NotActive \/ (Last # Unreadable /\ ~Last.active)
    /\ step = "same owner failure" <=>
         /\ Last \notin {Unreadable, NotActive} /\ Last.active
         /\ ~Last.wanted \/ Last.state = "Fatal" \/ Cardinality(GoneSince) >= Sustained
    /\ step = "transport failure" => SilentSince(Sustained) /\ ~heard[Len(heard)].answers
    /\ SilentSince(Sustained) /\ (\A i \in DOMAIN heard : ~heard[i].answers)
         => step = "transport failure"
============================================================================
