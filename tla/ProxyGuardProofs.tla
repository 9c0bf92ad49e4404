--------------------------- MODULE ProxyGuardProofs ---------------------------
(***************************************************************************)
(* Proofs that the writes of the system proxy (ProxyGuard) keep what is    *)
(* promised of them, for every set of platforms and settings, and every    *)
(* number of calls, patches and failures.                                  *)
(***************************************************************************)
EXTENDS ProxyGuard, TLAPS

-----------------------------------------------------------------------------
(* The invariant.                                                          *)

\* What a call may still have to do; some of it has yet to start the guard.
Guarding == {<<"check", "refresh", "check">>, <<"refresh", "check">>, <<"refresh">>}
Todos ==
  Guarding \cup
  {<< >>, <<"apply", "check", "refresh", "check">>, <<"apply", "refresh">>, <<"check">>,
   <<"stop", "end">>, <<"clear", "end">>, <<"end">>,
   <<"stop", "end", "clear">>, <<"end", "clear">>, <<"clear">>,
   <<"clear", "stop", "fail">>, <<"stop", "fail">>, <<"fail">>}
Now == IF call.todo = << >> THEN "nothing" ELSE Head(call.todo)

\* The stages of each step: what the call does from this process, and through the helper.
Here == {"first", "second", "compensate", "again"}
There == {"invalidate", "queue", "ask"}
Places(p) ==
  CASE p = "apply"   -> {"next", "wait", "first", "second", "compensate"} \cup There
    [] p = "clear"   -> {"next", "wait", "first", "second", "again"} \cup There
    [] p = "stop"    -> {"next", "queue", "wait", "release"}
    [] p = "refresh" -> {"next", "queue", "wait", "release", "guard"}
    [] OTHER         -> {"next"}
AllPlaces == {"next", "wait", "release", "guard"} \cup Here \cup There

AnyConfig == {Idle.cfg} \cup UNION {Settings[p] : p \in Platforms}
Calls ==
  [why : {"none", "apply", "stop", "loss", "patch"}, todo : Todos, at : AllPlaces,
   asked : Requests \cup {"Restore"}, cfg : AnyConfig, mine : Nat, was : BOOLEAN,
   drained : BOOLEAN, wrote : BOOLEAN, skipped : BOOLEAN,
   code : {"none", "PrivilegeRequired", "SystemCallFailed"}, tries : Nat, valid : BOOLEAN]
Locals ==
  [run : {"stopped", "running", "writing", "draining"},
   type : Kinds \cup {"none"}, writes : Kinds \cup {"none"}]
Loops ==
  [gen : Nat, proof : Nat, cfg : AnyConfig, fails : Nat, at : {"sleep", "asking", "report"}]
Systems == [Kinds -> {"on", "off", "part"}]
Promises == [os : SUBSET Systems, guard : SUBSET Systems, meant : SUBSET Systems]

Typed ==
  /\ platform \in Platforms /\ verge \in AnyConfig
  /\ patch \in [at : {"none", "waiting", "applying"}, old : AnyConfig]
  /\ mode \in {"NotRunning", "Sidecar", "Service"} /\ session \in Nat /\ lost \in BOOLEAN
  /\ net \in BOOLEAN /\ gen \in Nat /\ writer \in Nat /\ calls \in Nat
  /\ opLock \in {"free", "call", "loop"}
  /\ call \in Calls /\ local \in Locals /\ loops \subseteq Loops
  /\ os \in Systems /\ promise \in Promises
  /\ failures \in [Codes -> Operations \cup {"none"}]

\* A call is at a stage of what it has to do now, on the way it began.  Only a start
\* whose core the helper has given away clears through the helper.
Draining == Now \in {"stop", "refresh"} /\ call.at = "wait"
CallFits ==
  /\ call.at \in Places(Now)
  /\ (call.why = "none") <=> (call.todo = << >>)
  /\ call.at \in Here => ~ThroughHelper
  /\ call.at \in There /\ Now \in {"apply", "clear"} => ThroughHelper
  /\ Now = "clear" /\ call.at = "wait" => ~ThroughHelper
  /\ Now = "clear" /\ ThroughHelper => lost
  /\ ~call.valid /\ Now \in {"apply", "check", "refresh"} => lost
  /\ lost => mode = "Service"
RequestFits == call.asked \in Requests => call.why = "patch"

\* The helper is asked by one loop, or by the call, at a time.
Asking(l) == l.at = "asking"
LockFits ==
  /\ call.at \in {"ask", "release"} \/ Draining => opLock = "call"
  /\ opLock # "loop" => \A l \in loops : ~Asking(l)
  /\ \A l, m \in loops : Asking(l) /\ Asking(m) => l = m

\* One loop for each generation, none of them ahead; those of earlier generations are all
\* there is once a call has begun a generation of its own, and without the helper.
Overtaken == \A l \in loops : l.gen < gen
NoneAsks == \A l \in loops : ~Asking(l)
Fresh == call.at \in {"queue", "ask", "release", "guard"} \/ Draining
LoopsFit ==
  /\ loops # {} => IsMac
  /\ \A l \in loops : l.gen <= gen
  /\ \A l, m \in loops : l.gen = m.gen => l = m
  /\ Fresh => Overtaken /\ call.mine = gen
  /\ mode # "Service" \/ Now = "end" => Overtaken /\ NoneAsks
  /\ call.at = "guard" => NoneAsks

\* A guard that a call has waited for has stopped.
Waited ==
  \/ Now = "apply" /\ call.at \notin {"next", "wait"}
  \/ Now = "clear" /\ call.at \in {"first", "second"}
  \/ call.at = "release"
DrainFits ==
  /\ Waited /\ call.drained => local.run = "stopped"
  /\ call.at = "guard" /\ promise.os # {} => local.run = "stopped"

\* Nothing is promised while a call writes, and of the guard nothing until it has started.
QuietFits ==
  /\ Now \in {"apply", "clear"} /\ call.at # "next" => promise.os = {} /\ promise.guard = {}
  /\ call.at = "guard" => promise.guard = {}

\* The first of two writes lasts until the second.
FirstLasts ==
  Now = "apply" /\ call.at = "second" /\ call.drained /\ ~call.skipped
    => os[Step(call.cfg, "first")] = Target(call.cfg)[Step(call.cfg, "first")]

\* What is promised is there, and whoever may write writes what is promised.
Told == promise.os \cup promise.guard
On(k) == [Off EXCEPT ![k] = "on"]
Threat(l) == Asking(l) \/ Current(l)
GuardMayRun == local.run # "stopped" \/ (call.todo \in Guarding /\ ~ThroughHelper)
PromiseFits ==
  promise.os # {} =>
    /\ os \in Told
    /\ \A l \in loops : Threat(l) => Target(l.cfg) \in Told
    /\ local.run \in {"writing", "draining"} => local.type # "none" /\ local.writes = local.type
    /\ local.type # "none" /\ GuardMayRun => Told \subseteq {On(local.type)}

\* What is filed of a guard that has stopped is about the last generation.
ReportFits ==
  /\ failures["GuardStopped"] \in {"none", "Guard"}
  /\ failures["GuardStopped"] # "none" => \A l \in loops : ~Current(l)

\* Whoever asks the helper has the latest generation that has written, or a later one.
WriterFits ==
  /\ writer <= gen
  /\ \A l \in loops : Asking(l) => writer <= l.gen

IInv ==
  /\ Typed /\ CallFits /\ RequestFits /\ LockFits /\ LoopsFit /\ DrainFits /\ QuietFits
  /\ FirstLasts /\ PromiseFits /\ ReportFits /\ WriterFits

-----------------------------------------------------------------------------
(* What a call still has to do.                                            *)

\* What may come after a step.
After(p) ==
  CASE p = "apply"   -> {"check", "refresh"}
    [] p = "check"   -> {"refresh", "nothing"}
    [] p = "refresh" -> {"check", "nothing"}
    [] p = "stop"    -> {"end", "fail"}
    [] p = "clear"   -> {"end", "stop", "nothing"}
    [] p = "end"     -> {"clear", "nothing"}
    [] OTHER         -> {"nothing"}
Steps == {"apply", "clear", "stop", "refresh", "check", "end", "fail"}

\* The steps of a call come in their order, and the guard's at the end.
LEMMA TodoFacts ==
  ASSUME NEW t \in Todos, t # << >>
  PROVE  /\ Head(t) \in Steps /\ Len(t) \in Nat
         /\ Len(t) = 1 => "nothing" \in After(Head(t))
         /\ Len(t) # 1 => /\ Tail(t) \in Todos /\ Tail(t) # << >>
                          /\ Head(Tail(t)) \in After(Head(t))
         /\ Len(t) # 1 /\ Tail(t) \in Guarding => t \in Guarding \/ Head(t) = "apply"
         /\ t \in Guarding => Head(t) \in {"check", "refresh"}
<1>1. CASE t = <<"check", "refresh", "check">>
  <2>1. Head(t) = "check" /\ Len(t) = 3 /\ Tail(t) = <<"refresh", "check">> /\ Head(Tail(t)) = "refresh"
    BY <1>1
  <2> QED BY <1>1, <2>1 DEF Todos, Guarding, Steps, After
<1>2. CASE t = <<"refresh", "check">>
  <2>1. Head(t) = "refresh" /\ Len(t) = 2 /\ Tail(t) = <<"check">> /\ Head(Tail(t)) = "check"
    BY <1>2
  <2> QED BY <1>2, <2>1 DEF Todos, Guarding, Steps, After
<1>3. CASE t = <<"refresh">>
  BY <1>3 DEF Todos, Guarding, Steps, After
<1>4. CASE t = <<"apply", "check", "refresh", "check">>
  <2>1. Head(t) = "apply" /\ Len(t) = 4 /\ Tail(t) = <<"check", "refresh", "check">> /\ Head(Tail(t)) = "check"
    BY <1>4
  <2> QED BY <1>4, <2>1 DEF Todos, Guarding, Steps, After
<1>5. CASE t = <<"apply", "refresh">>
  <2>1. Head(t) = "apply" /\ Len(t) = 2 /\ Tail(t) = <<"refresh">> /\ Head(Tail(t)) = "refresh"
    BY <1>5
  <2> QED BY <1>5, <2>1 DEF Todos, Guarding, Steps, After
<1>6. CASE t = <<"check">>
  BY <1>6 DEF Todos, Guarding, Steps, After
<1>7. CASE t = <<"stop", "end">>
  <2>1. Head(t) = "stop" /\ Len(t) = 2 /\ Tail(t) = <<"end">> /\ Head(Tail(t)) = "end"
    BY <1>7
  <2> QED BY <1>7, <2>1 DEF Todos, Guarding, Steps, After
<1>8. CASE t = <<"clear", "end">>
  <2>1. Head(t) = "clear" /\ Len(t) = 2 /\ Tail(t) = <<"end">> /\ Head(Tail(t)) = "end"
    BY <1>8
  <2> QED BY <1>8, <2>1 DEF Todos, Guarding, Steps, After
<1>9. CASE t = <<"end">>
  BY <1>9 DEF Todos, Guarding, Steps, After
<1>10. CASE t = <<"stop", "end", "clear">>
  <2>1. Head(t) = "stop" /\ Len(t) = 3 /\ Tail(t) = <<"end", "clear">> /\ Head(Tail(t)) = "end"
    BY <1>10
  <2> QED BY <1>10, <2>1 DEF Todos, Guarding, Steps, After
<1>11. CASE t = <<"end", "clear">>
  <2>1. Head(t) = "end" /\ Len(t) = 2 /\ Tail(t) = <<"clear">> /\ Head(Tail(t)) = "clear"
    BY <1>11
  <2> QED BY <1>11, <2>1 DEF Todos, Guarding, Steps, After
<1>12. CASE t = <<"clear">>
  BY <1>12 DEF Todos, Guarding, Steps, After
<1>13. CASE t = <<"clear", "stop", "fail">>
  <2>1. Head(t) = "clear" /\ Len(t) = 3 /\ Tail(t) = <<"stop", "fail">> /\ Head(Tail(t)) = "stop"
    BY <1>13
  <2> QED BY <1>13, <2>1 DEF Todos, Guarding, Steps, After
<1>14. CASE t = <<"stop", "fail">>
  <2>1. Head(t) = "stop" /\ Len(t) = 2 /\ Tail(t) = <<"fail">> /\ Head(Tail(t)) = "fail"
    BY <1>14
  <2> QED BY <1>14, <2>1 DEF Todos, Guarding, Steps, After
<1>15. CASE t = <<"fail">>
  BY <1>15 DEF Todos, Guarding, Steps, After
<1> QED BY <1>1, <1>2, <1>3, <1>4, <1>5, <1>6, <1>7, <1>8, <1>9, <1>10, <1>11, <1>12, <1>13, <1>14,
          <1>15 DEF Todos, Guarding

\* What the call does now, and at which stage.
LEMMA NowFacts ==
  ASSUME call \in Calls
  PROVE  /\ Now \in Steps \cup {"nothing"} /\ (Now = "nothing" <=> call.todo = << >>)
         /\ call.todo # << >> => Now = Head(call.todo)
         /\ \A p, s : Doing(p, s) <=> Now = p /\ call.at = s /\ call.todo # << >>
         /\ call.todo \in Guarding => Now \in {"check", "refresh"}
<1> call.todo \in Todos
  BY DEF Calls
<1> call.todo = << >> => call.todo \notin Guarding
  BY DEF Guarding
<1> QED BY TodoFacts DEF Now, Doing, Steps

\* The idle call.
LEMMA IdleFacts ==
  /\ Idle \in Calls /\ Idle.why = "none" /\ Idle.todo = << >> /\ Idle.at = "next"
  /\ Idle.asked = "Restore" /\ Idle.drained = TRUE /\ Idle.valid = TRUE
BY DEF Idle, Calls, Todos, AllPlaces, AnyConfig, Requests, Codes

\* The call goes on with what it has to do next.
GoesOn ==
  /\ call' \in Calls /\ call'.why = call.why /\ call'.asked = call.asked /\ call'.valid = call.valid
  /\ call'.at = "next" /\ call'.todo # << >> /\ Now' \in After(Now) \ {"nothing"}
  /\ call'.todo \in Guarding => call.todo \in Guarding \/ Now = "apply"
Ended == call' = Idle /\ Now' = "nothing"

\* A call that is idle again has nothing to do.
LEMMA Ends ==
  ASSUME call' = Idle PROVE Ended
BY IdleFacts DEF Ended, Now

\* A step that succeeds leads to the next one, or ends the call.
LEMMA DoneMoves ==
  ASSUME call \in Calls, call.todo # << >>, StepDone
  PROVE  GoesOn \/ (Ended /\ "nothing" \in After(Now))
<1>1. call.todo \in Todos /\ Now = Head(call.todo)
  BY DEF Calls, Now
<1>2. CASE Len(call.todo) = 1
  BY <1>1, <1>2, TodoFacts, Ends DEF StepDone, Finish
<1>3. CASE Len(call.todo) # 1
  <2>1. call' = [Idle EXCEPT !.why = call.why, !.todo = Tail(call.todo), !.asked = call.asked,
                             !.valid = call.valid]
    BY <1>3 DEF StepDone
  <2>2. Tail(call.todo) \in Todos /\ Tail(call.todo) # << >>
    BY <1>1, <1>3, TodoFacts
  <2>3. call' \in Calls
    BY <2>1, <2>2, IdleFacts DEF Calls
  <2>4. /\ call'.why = call.why /\ call'.asked = call.asked /\ call'.valid = call.valid
        /\ call'.at = "next" /\ call'.todo = Tail(call.todo)
    BY <2>1, IdleFacts DEF Calls
  <2>5. Head(Tail(call.todo)) \in Steps
    BY <2>2, TodoFacts
  <2>6. Now' = Head(Tail(call.todo)) /\ Now' # "nothing"
    BY <2>2, <2>4, <2>5 DEF Now, Steps
  <2>7. Now' \in After(Now)
    BY <1>1, <1>3, <2>6, TodoFacts
  <2>8. call'.todo \in Guarding => call.todo \in Guarding \/ Now = "apply"
    BY <1>1, <1>3, <2>4, TodoFacts
  <2> QED BY <2>2, <2>3, <2>4, <2>6, <2>7, <2>8 DEF GoesOn
<1> QED BY <1>2, <1>3

\* A step that fails ends the call.
LEMMA FailMoves ==
  ASSUME StepFailed PROVE Ended
BY Ends DEF StepFailed, Finish

-----------------------------------------------------------------------------
(* What each action does to the call, and to the rest.                     *)

\* The call goes to another stage of what it is doing.
Moves(s) ==
  /\ call' \in Calls /\ call'.at = s /\ call'.todo = call.todo /\ Now' = Now
  /\ call'.why = call.why /\ call'.asked = call.asked /\ call'.valid = call.valid
Does(p, s) == Now = p /\ call.at = s /\ call.todo # << >>
OneOf(w, t, a) ==
  /\ call.why = "none" /\ calls' = calls + 1 /\ call' \in Calls /\ call'.why = w /\ call'.todo = t
  /\ call'.at = "next" /\ call'.asked = a /\ call'.valid = TRUE

\* A call begins.
LEMMA BeginMoves ==
  ASSUME call \in Calls, NEW w \in {"apply", "stop", "loss", "patch"}, NEW t \in Todos,
         NEW a \in Requests \cup {"Restore"}, Begin(w, t, a)
  PROVE  OneOf(w, t, a)
BY IdleFacts DEF Begin, OneOf, Calls

\* The stage is all that changes.
LEMMA GotoMoves ==
  ASSUME call \in Calls, NEW s \in AllPlaces, Goto(s)
  PROVE  Moves(s) /\ call'.drained = call.drained /\ call'.mine = call.mine
<1>1. call' = [call EXCEPT !.at = s]
  BY DEF Goto
<1> QED BY <1>1 DEF Calls, Moves, Now

\* A guard that is told to stop finishes the write it is in.
Shut ==
  /\ local' \in Locals /\ local'.type = local.type /\ local'.writes = local.writes
  /\ \/ local'.run = "stopped" /\ local.run \in {"stopped", "running"}
     \/ local'.run = "draining" /\ local.run \in {"writing", "draining"}
\* Telling the guard to stop does not start it.
LEMMA ShutdownMoves ==
  ASSUME local \in Locals, Shutdown PROVE Shut
BY DEF Shutdown, Shut, Locals

LocalDoes(p) ==
  /\ p \in {"apply", "clear"} /\ Does(p, "next") /\ ~ThroughHelper
  /\ UNCHANGED <<other, os, gen, opLock, loops, writer, failures>>
  /\ \/ Moves("wait") /\ Shut /\ promise' = Put({})
     \/ p = "apply" /\ Ended /\ UNCHANGED <<local, promise>>
\* A write from this process begins by stopping the guard.
LEMMA LocalMoves ==
  ASSUME Typed, NEW p \in {"apply", "clear", "stop", "refresh"}, Local(p)
  PROVE  LocalDoes(p)
<1> USE DEF LocalDoes
<1>1. call \in Calls /\ local \in Locals /\ verge \in AnyConfig
  BY DEF Typed
<1>2. p \in {"apply", "clear"} /\ Does(p, "next") /\ ~ThroughHelper
  BY <1>1, NowFacts DEF Local, Does
<1>3. UNCHANGED <<other, os, gen, opLock, loops, writer, failures>>
  BY DEF Local, locks
<1>4. CASE /\ Shutdown /\ promise' = Put({})
           /\ call' = [call EXCEPT !.at = "wait", !.cfg = IF p = "apply" THEN verge ELSE Idle.cfg,
                                   !.was = local.run # "stopped", !.wrote = FALSE, !.code = "none"]
  <2>1. (IF p = "apply" THEN verge ELSE Idle.cfg) \in AnyConfig
    BY <1>1 DEF AnyConfig
  <2>2. PICK c \in AnyConfig, w \in BOOLEAN :
          call' = [call EXCEPT !.at = "wait", !.cfg = c, !.was = w, !.wrote = FALSE, !.code = "none"]
    BY <1>4, <2>1
  <2>3. Moves("wait")
    BY <1>1, <2>2 DEF Calls, Moves, Now, AllPlaces, Codes
  <2> QED BY <1>1, <1>2, <1>3, <1>4, <2>3, ShutdownMoves
<1>5. CASE p = "apply" /\ StepFailed /\ UNCHANGED <<local, promise>>
  BY <1>2, <1>3, <1>5, FailMoves
<1> QED BY <1>4, <1>5 DEF Local

WaitDoes(p) ==
  /\ Does(p, "wait") /\ call'.drained = (local.run = "stopped") /\ call'.mine = call.mine
  /\ UNCHANGED <<other, os, gen, opLock, local, loops, promise, writer, failures>>
  /\ IF p = "apply" /\ ThroughHelper THEN Moves("invalidate")
     ELSE IF p \in {"stop", "refresh"} THEN Moves("release") ELSE Moves("first")
\* The wait for the guard ends with knowing whether it has stopped.
LEMMA WaitMoves ==
  ASSUME Typed, NEW p \in {"apply", "clear", "stop", "refresh"}, Wait(p) PROVE WaitDoes(p)
<1> USE DEF WaitDoes
<1>1. call \in Calls
  BY DEF Typed
<1>2. Does(p, "wait")
  BY <1>1, NowFacts DEF Wait, Does
<1>3. UNCHANGED <<other, os, gen, opLock, local, loops, promise, writer, failures>>
  BY DEF Wait, locks, guards, said, quiet, other
<1>4. PICK s \in AllPlaces : call' = [call EXCEPT !.at = s, !.drained = (local.run = "stopped")]
        /\ s = IF p = "apply" /\ ThroughHelper THEN "invalidate"
               ELSE IF p \in {"stop", "refresh"} THEN "release" ELSE "first"
  BY DEF Wait, Drained, AllPlaces, Here, There
<1>5. Moves(s) /\ call'.drained = (local.run = "stopped") /\ call'.mine = call.mine
  BY <1>1, <1>4 DEF Calls, Moves, Now
<1> QED BY <1>2, <1>3, <1>4, <1>5

HelperDoes(p) ==
  /\ p \in {"apply", "clear"} /\ Does(p, "next") /\ ThroughHelper
  /\ UNCHANGED <<other, os, gen, opLock, loops, writer, failures>>
  /\ \/ p = "apply" /\ Moves("wait") /\ Shut /\ promise' = Put({})
     \/ p = "apply" /\ Ended /\ UNCHANGED <<local, promise>>
     \/ p = "clear" /\ Moves("invalidate") /\ promise' = Put({}) /\ UNCHANGED local
\* A write through the helper begins by stopping the guard, unless it clears.
LEMMA HelperMoves ==
  ASSUME Typed, NEW p \in {"apply", "clear", "stop", "refresh"}, Helper(p)
  PROVE  HelperDoes(p)
<1> USE DEF HelperDoes
<1>1. call \in Calls /\ local \in Locals /\ verge \in AnyConfig /\ Idle.cfg \in AnyConfig
  BY DEF Typed, AnyConfig
<1>2. p \in {"apply", "clear"} /\ Does(p, "next") /\ ThroughHelper
  BY <1>1, NowFacts DEF Helper, Does
<1>3. UNCHANGED <<other, os, gen, opLock, loops, writer, failures>>
  BY DEF Helper, locks
<1>4. CASE /\ p = "apply" /\ Shutdown /\ promise' = Put({})
           /\ call' = [call EXCEPT !.at = "wait", !.cfg = verge]
  <2>1. Moves("wait")
    BY <1>1, <1>4 DEF Calls, Moves, Now, AllPlaces
  <2> QED BY <1>1, <1>2, <1>3, <1>4, <2>1, ShutdownMoves
<1>5. CASE p = "apply" /\ StepFailed /\ UNCHANGED <<local, promise>>
  BY <1>2, <1>3, <1>5, FailMoves
<1>6. CASE /\ p = "clear" /\ promise' = Put({}) /\ UNCHANGED local
           /\ call' = [call EXCEPT !.at = "invalidate", !.cfg = Idle.cfg]
  <2>1. Moves("invalidate")
    BY <1>1, <1>6 DEF Calls, Moves, Now, AllPlaces, There
  <2> QED BY <1>2, <1>3, <1>6, <2>1
<1> QED BY <1>4, <1>5, <1>6 DEF Helper

CancelDoes(p) ==
  /\ p \in {"stop", "refresh"} /\ Does(p, "next") /\ Moves("queue")
  /\ gen' = gen + 1 /\ call'.mine = gen'
  /\ UNCHANGED <<other, os, opLock, local, loops, promise, writer, failures>>
\* stop_guard and refresh_guard begin a generation.
LEMMA CancelMoves ==
  ASSUME Typed, NEW p \in {"apply", "clear", "stop", "refresh"}, Cancel(p)
  PROVE  CancelDoes(p)
<1> USE DEF CancelDoes
<1>1. call \in Calls /\ gen \in Nat
  BY DEF Typed
<1>2. p \in {"stop", "refresh"} /\ Does(p, "next")
  BY <1>1, NowFacts DEF Cancel, Does
<1>3. Moves("queue") /\ call'.mine = gen + 1
  <2>1. PICK n \in Nat : n = gen + 1 /\ call' = [call EXCEPT !.at = "queue", !.mine = n]
    <3>1. gen + 1 \in Nat
      BY <1>1
    <3> QED BY <3>1, Zenon DEF Cancel
  <2> QED BY <1>1, <2>1 DEF Calls, Moves, Now, AllPlaces, There
<1> QED BY <1>2, <1>3 DEF Cancel, NewGeneration, quiet, other, guards, said

InvalidateDoes ==
  /\ Does(Now, "invalidate") /\ Moves("queue")
  /\ gen' = gen + 1 /\ call'.mine = gen' /\ call'.drained = call.drained
  /\ UNCHANGED <<other, os, opLock, local, loops, promise, writer, failures>>
\* So does a write through the helper.
LEMMA InvalidateMoves ==
  ASSUME Typed, call.todo # << >>, Invalidate PROVE InvalidateDoes
<1> USE DEF InvalidateDoes
<1>1. call \in Calls /\ gen \in Nat
  BY DEF Typed
<1>2. Does(Now, "invalidate")
  BY <1>1, NowFacts DEF Invalidate, Does
<1>3. Moves("queue") /\ call'.mine = gen + 1 /\ call'.drained = call.drained
  <2>1. PICK n \in Nat : n = gen + 1 /\ call' = [call EXCEPT !.at = "queue", !.mine = n]
    <3>1. gen + 1 \in Nat
      BY <1>1
    <3> QED BY <3>1, Zenon DEF Invalidate
  <2> QED BY <1>1, <2>1 DEF Calls, Moves, Now, AllPlaces, There
<1> QED BY <1>2, <1>3 DEF Invalidate, NewGeneration, quiet, other, guards, said

QueueDoes ==
  /\ Does(Now, "queue") /\ opLock = "free" /\ opLock' = "call" /\ call'.mine = call.mine
  /\ call'.drained = call.drained
  /\ IF Now \in {"stop", "refresh"} THEN Moves("wait") /\ Shut
     ELSE Moves("ask") /\ UNCHANGED local
  /\ UNCHANGED <<other, os, gen, loops, promise, writer, failures>>
\* The operation lock is had before the helper is asked, or the guard waited for.
LEMMA QueueMoves ==
  ASSUME Typed, call.todo # << >>, Queue PROVE QueueDoes
<1> USE DEF QueueDoes
<1>1. call \in Calls /\ local \in Locals
  BY DEF Typed
<1>2. Does(Now, "queue") /\ Now = Head(call.todo)
  BY <1>1, NowFacts DEF Queue, Does
<1>3. CASE Now \in {"stop", "refresh"}
  <2>1. Shutdown /\ Goto("wait")
    BY <1>2, <1>3 DEF Queue
  <2> QED BY <1>1, <1>2, <1>3, <2>1, ShutdownMoves, GotoMoves
        DEF Queue, quiet, other, said, AllPlaces
<1>4. CASE Now \notin {"stop", "refresh"}
  <2>1. UNCHANGED local /\ Goto("ask")
    BY <1>2, <1>4 DEF Queue
  <2> QED BY <1>1, <1>2, <1>4, <2>1, GotoMoves DEF Queue, quiet, other, said, AllPlaces, There
<1> QED BY <1>3, <1>4

ReleaseDoes ==
  /\ Does(Now, "release") /\ opLock' = "free"
  /\ promise' = IF call.drained
                THEN [promise EXCEPT !.guard = {},
                                     !.os = IF @ = {} THEN @ ELSE @ \cup promise.guard]
                ELSE Put({})
  /\ IF Now = "stop" THEN GoesOn \/ (Ended /\ "nothing" \in After(Now))
     ELSE Moves("guard") /\ call'.mine = call.mine
  /\ UNCHANGED <<other, os, gen, local, loops, writer, failures>>
\* The guard has been waited for: what it wrote is no longer to be expected.
LEMMA ReleaseMoves ==
  ASSUME Typed, call.todo # << >>, Release PROVE ReleaseDoes
<1> USE DEF ReleaseDoes
<1>1. call \in Calls
  BY DEF Typed
<1>2. Does(Now, "release") /\ Now = Head(call.todo)
  BY <1>1, NowFacts DEF Release, Does
<1>3. CASE Now = "stop"
  BY <1>1, <1>2, <1>3, DoneMoves DEF Release, guards
<1>4. CASE Now # "stop"
  <2>1. Goto("guard")
    BY <1>2, <1>4 DEF Release
  <2> QED BY <1>1, <1>2, <1>4, <2>1, GotoMoves DEF Release, guards, AllPlaces
<1> QED BY <1>3, <1>4

\* What was written is promised, unless a guard may still write.
Vouched(t, written) ==
  promise' = [promise EXCEPT !.os = IF call.drained /\ written THEN {t} ELSE {},
                             !.meant = IF call.drained THEN {t} ELSE {}]
Done == GoesOn \/ (Ended /\ "nothing" \in After(Now))

\* What a call files is never about the guard.
Filed == \E code \in (Codes \ {"GuardStopped"}) \cup {"none"} : Settled(code)

AskedDoes(landed, answer) ==
  /\ Does(Now, "ask") /\ opLock' = "free" /\ Filed
  /\ lost => ~landed
  /\ os' = IF ~landed THEN os ELSE IF answer = "fallback" THEN Off ELSE Target(call.cfg)
  /\ writer' = IF landed THEN call.mine ELSE writer
  /\ \/ /\ landed /\ Done /\ Vouched(Target(call.cfg), TRUE)
        /\ answer = "applied" \/ (answer = "fallback" /\ ~call.cfg.sys)
     \/ Ended /\ UNCHANGED promise
  /\ UNCHANGED <<other, gen, local, loops>>
\* What the helper makes of a request.
LEMMA AskedMoves ==
  ASSUME Typed, call.todo # << >>, NEW landed \in BOOLEAN,
         NEW answer \in {"applied", "fallback", "error"}, Asked(landed, answer)
  PROVE  AskedDoes(landed, answer)
<1> USE DEF AskedDoes
<1>1. call \in Calls
  BY DEF Typed
<1>2. Does(Now, "ask") /\ Now = Head(call.todo)
  BY <1>1, NowFacts DEF Asked, Does
<1>3. /\ opLock' = "free" /\ (lost => ~landed)
      /\ os' = IF ~landed THEN os ELSE IF answer = "fallback" THEN Off ELSE Target(call.cfg)
      /\ writer' = IF landed THEN call.mine ELSE writer
      /\ UNCHANGED <<other, gen, local, loops>>
  BY DEF Asked, guards
<1>4. CASE /\ answer = "applied" \/ (answer = "fallback" /\ ~call.cfg.sys)
           /\ Settled("none") /\ StepDone /\ Vouch(Target(call.cfg), TRUE)
  BY <1>1, <1>2, <1>3, <1>4, DoneMoves DEF Asked, Vouch, Vouched, Done, Filed
<1>5. CASE /\ Settled(IF answer = "fallback" THEN "DirectFallback" ELSE "none") /\ StepFailed
           /\ UNCHANGED promise
  BY <1>2, <1>3, <1>5, FailMoves DEF Filed, Codes
<1> QED BY <1>4, <1>5 DEF Asked

\* What the guard is told to write.
LEMMA GuardTypes ==
  ASSUME NEW c PROVE GuardType(c) \in Kinds \cup {"none"} /\ Wanted(c) \in Kinds \cup {"none"}
BY DEF GuardType, Wanted, Kinds

\* An apply from this process has written all it wanted.
Applied ==
  /\ Done /\ Filed /\ Vouched(Target(call.cfg), Written)
  /\ local' \in Locals /\ local'.run = local.run /\ local'.writes = local.writes
  /\ local'.type = GuardType(call.cfg)
\* An apply that has written everything.
LEMMA ApplyDoneMoves ==
  ASSUME Typed, call.todo # << >>, ApplyDone PROVE Applied
<1>1. call \in Calls /\ local \in Locals
  BY DEF Typed
<1>2. /\ local' \in Locals /\ local'.run = local.run /\ local'.writes = local.writes
      /\ local'.type = GuardType(call.cfg)
  BY <1>1, GuardTypes DEF ApplyDone, Locals
<1> QED BY <1>1, <1>2, DoneMoves DEF ApplyDone, Applied, Done, Filed, Vouch, Vouched

AlreadyAppliedDoes ==
  /\ Does("apply", "first") /\ os = Target(call.cfg) /\ Applied
  /\ UNCHANGED <<other, os, gen, opLock, loops, writer>>
\* An apply that has nothing to write.
LEMMA AlreadyAppliedMoves ==
  ASSUME Typed, AlreadyApplied PROVE AlreadyAppliedDoes
BY NowFacts, ApplyDoneMoves DEF AlreadyAppliedDoes, AlreadyApplied, Typed, Does, locks

WriteDoes(s) ==
  /\ Does("apply", s)
  /\ os' = IF IsMac /\ ~net THEN os
           ELSE [os EXCEPT ![Step(call.cfg, s)] = Target(call.cfg)[Step(call.cfg, s)]]
  /\ IF s = "first"
     THEN /\ Moves("second") /\ call'.skipped = (IsMac /\ ~net)
          /\ call'.cfg = call.cfg /\ call'.drained = call.drained
          /\ UNCHANGED <<local, promise, failures>>
     ELSE Applied
  /\ UNCHANGED <<other, gen, opLock, loops, writer>>
\* An apply writes one kind, then the other.
LEMMA WriteMoves ==
  ASSUME Typed, NEW s \in {"first", "second"}, Write(s) PROVE WriteDoes(s)
<1> USE DEF WriteDoes
<1>1. call \in Calls
  BY DEF Typed
<1>2. Does("apply", s)
  BY <1>1, NowFacts DEF Write, Does
<1>3. /\ os' = IF IsMac /\ ~net THEN os
               ELSE [os EXCEPT ![Step(call.cfg, s)] = Target(call.cfg)[Step(call.cfg, s)]]
      /\ UNCHANGED <<other, gen, opLock, loops, writer>>
  BY DEF Write, locks
<1>4. CASE s = "first"
  <2>1. PICK n \in BOOLEAN : /\ n = (IsMac /\ ~net)
          /\ call' = [call EXCEPT !.at = "second", !.wrote = ~n, !.skipped = n]
    BY <1>4 DEF Write
  <2>2. Moves("second") /\ call'.skipped = n /\ call'.cfg = call.cfg /\ call'.drained = call.drained
    BY <1>1, <2>1 DEF Calls, Moves, Now, AllPlaces, Here
  <2>3. UNCHANGED <<local, promise, failures>>
    BY <1>4 DEF Write
  <2> QED BY <1>2, <1>3, <1>4, <2>1, <2>2, <2>3
<1>5. CASE s # "first"
  <2>1. ApplyDone
    BY <1>5 DEF Write
  <2> QED BY <1>2, <1>3, <1>5, <2>1, ApplyDoneMoves DEF Does
<1> QED BY <1>4, <1>5

WriteFailsDoes(s, partly, code) ==
  /\ Does("apply", s) /\ os' \in Systems /\ local' \in Locals /\ (Ended \/ Moves("compensate"))
  /\ Filed \/ UNCHANGED failures
  /\ Moves("compensate") => local'.run = local.run /\ call'.drained = call.drained
  /\ UNCHANGED <<other, gen, opLock, loops, promise, writer>>
\* A write that fails ends the call, or leads to compensating for it.
LEMMA WriteFailsMoves ==
  ASSUME Typed, NEW s \in {"first", "second"}, NEW partly \in BOOLEAN,
         NEW code \in Codes \cup {"none"}, WriteFails(s, partly, code)
  PROVE  WriteFailsDoes(s, partly, code)
<1> USE DEF WriteFailsDoes
<1>1. call \in Calls /\ local \in Locals /\ os \in Systems
  BY DEF Typed
<1>2. Does("apply", s) /\ code \in {"none", "PrivilegeRequired", "SystemCallFailed"}
  BY <1>1, NowFacts DEF WriteFails, Does, Outcome
<1>3. os' \in Systems /\ UNCHANGED <<other, gen, opLock, loops, promise, writer>>
  BY <1>1 DEF WriteFails, locks, said, Systems
<1>4. CASE Unknown(partly)
  <2>1. /\ local' = [local EXCEPT !.type = "none"] /\ UNCHANGED failures
        /\ call' = [call EXCEPT !.at = "compensate", !.code = code]
    BY <1>4 DEF WriteFails
  <2>2. local' \in Locals /\ local'.run = local.run
    BY <1>1, <2>1 DEF Locals
  <2>3. Moves("compensate") /\ call'.drained = call.drained
    BY <1>1, <1>2, <2>1 DEF Calls, Moves, Now, AllPlaces, Here
  <2> QED BY <1>2, <1>3, <2>1, <2>2, <2>3
<1>5. CASE ~Unknown(partly)
  <2>1. /\ local' = IF call.was /\ Drained THEN [local EXCEPT !.run = "running"] ELSE local
        /\ Settled(code) /\ StepFailed
    BY <1>5 DEF WriteFails
  <2>2. local' \in Locals
    BY <1>1, <2>1 DEF Locals
  <2>3. Ended /\ Filed
    BY <1>2, <2>1, FailMoves DEF Filed, Codes
  <2>4. ~Moves("compensate")
    BY <2>3, IdleFacts DEF Ended, Moves
  <2> QED BY <1>2, <1>3, <2>2, <2>3, <2>4
<1> QED BY <1>4, <1>5

CompensateDoes(failed) ==
  /\ Does("apply", "compensate") /\ os' \in Systems /\ Ended /\ Filed
  /\ UNCHANGED <<other, gen, opLock, local, loops, promise, writer>>
\* Compensating for a write that failed ends the call.
LEMMA CompensateMoves ==
  ASSUME Typed, NEW failed \in SUBSET Kinds, Compensate(failed)
  PROVE  CompensateDoes(failed)
<1> USE DEF CompensateDoes
<1>1. call \in Calls /\ os \in Systems
  BY DEF Typed
<1>2. os' \in Systems
  BY <1>1 DEF Compensate, TurnedOff, Systems
<1>3. call.code \in (Codes \ {"GuardStopped"}) \cup {"none"}
  BY <1>1 DEF Calls, Codes
<1> QED BY <1>1, <1>2, <1>3, NowFacts, FailMoves
        DEF Compensate, Does, Filed, locks, guards, said

\* A clear has turned everything off.
Cleared == Done /\ Filed /\ Vouched(Off, Written)
\* A clear that has turned everything off.
LEMMA ClearDoneMoves ==
  ASSUME Typed, call.todo # << >>, ClearDone PROVE Cleared
BY DoneMoves DEF Typed, ClearDone, Cleared, Done, Filed, Vouch, Vouched

AlreadyClearedDoes ==
  /\ Does("clear", "first") /\ os = Off /\ Cleared
  /\ UNCHANGED <<other, os, gen, opLock, local, loops, writer>>
\* A clear that has nothing to turn off.
LEMMA AlreadyClearedMoves ==
  ASSUME Typed, AlreadyCleared PROVE AlreadyClearedDoes
BY NowFacts, ClearDoneMoves DEF AlreadyClearedDoes, AlreadyCleared, Typed, Does, locks, guards

TurnOffDoes(s) ==
  /\ Does("clear", s) /\ os' = IF IsMac /\ ~net THEN os ELSE Off
  /\ \/ (s = "second" \/ call.drained) /\ Cleared
     \/ Moves("again") /\ UNCHANGED <<promise, failures>>
  /\ UNCHANGED <<other, gen, opLock, local, loops, writer>>
\* A clear turns both kinds off, and again after a guard that had not stopped.
LEMMA TurnOffMoves ==
  ASSUME Typed, NEW s \in {"first", "second"}, TurnOff(s) PROVE TurnOffDoes(s)
<1> USE DEF TurnOffDoes
<1>1. call \in Calls /\ os \in Systems
  BY DEF Typed
<1>2. Does("clear", s)
  BY <1>1, NowFacts DEF TurnOff, Does
<1>3. UNCHANGED <<other, gen, opLock, local, loops, writer>>
  BY DEF TurnOff, locks, guards
<1>4. os' = IF IsMac /\ ~net THEN os ELSE Off
  BY <1>1 DEF TurnOff, TurnedOff, Off, Systems
<1>5. CASE s = "second" \/ call.drained
  BY <1>2, <1>3, <1>4, <1>5, ClearDoneMoves DEF TurnOff, Does
<1>6. CASE ~(s = "second" \/ call.drained)
  <2>1. PICK n \in BOOLEAN : call' = [call EXCEPT !.at = "again", !.skipped = n]
    BY <1>6 DEF TurnOff
  <2>2. Moves("again")
    BY <1>1, <2>1 DEF Calls, Moves, Now, AllPlaces, Here
  <2> QED BY <1>2, <1>3, <1>4, <1>6, <2>2 DEF TurnOff
<1> QED BY <1>5, <1>6

WaitAgainDoes ==
  /\ Does("clear", "again") /\ Moves("second") /\ call'.drained = (local.run = "stopped")
  /\ UNCHANGED <<other, os, gen, opLock, local, loops, promise, writer, failures>>
\* The guard is waited for once more before the second time.
LEMMA WaitAgainMoves ==
  ASSUME Typed, WaitAgain PROVE WaitAgainDoes
<1> USE DEF WaitAgainDoes
<1>1. call \in Calls
  BY DEF Typed
<1>2. Does("clear", "again")
  BY <1>1, NowFacts DEF WaitAgain, Does
<1>3. PICK n \in BOOLEAN : n = (local.run = "stopped") /\ call' = [call EXCEPT !.at = "second", !.drained = n]
  BY DEF WaitAgain, Drained
<1>4. Moves("second") /\ call'.drained = (local.run = "stopped")
  BY <1>1, <1>3 DEF Calls, Moves, Now, AllPlaces, Here
<1> QED BY <1>2, <1>4 DEF WaitAgain, quiet, other, locks, guards, said

TurnOffFailsDoes(s, failed, code) ==
  /\ Does("clear", s) /\ os' \in Systems
  /\ (Moves("next") /\ UNCHANGED failures) \/ (Ended /\ Filed)
  /\ UNCHANGED <<other, gen, opLock, local, loops, promise, writer>>
\* A clear that fails is tried again, or ends the call.
LEMMA TurnOffFailsMoves ==
  ASSUME Typed, NEW s \in {"first", "second"}, NEW failed \in SUBSET Kinds,
         NEW code \in Codes \cup {"none"}, TurnOffFails(s, failed, code)
  PROVE  TurnOffFailsDoes(s, failed, code)
<1> USE DEF TurnOffFailsDoes
<1>1. call \in Calls /\ os \in Systems
  BY DEF Typed
<1>2. Does("clear", s) /\ code \in {"none", "PrivilegeRequired", "SystemCallFailed"}
  BY <1>1, NowFacts DEF TurnOffFails, Does, Outcome
<1>3. os' \in Systems /\ UNCHANGED <<other, gen, opLock, local, loops, promise, writer>>
  BY <1>1 DEF TurnOffFails, TurnedOff, Systems, locks, guards, said
<1>4. CASE UNCHANGED failures /\ call' = [call EXCEPT !.tries = @ + 1, !.at = "next"]
  <2>1. PICK n \in Nat : call' = [call EXCEPT !.tries = n, !.at = "next"]
    <3>1. call.tries + 1 \in Nat
      BY <1>1 DEF Calls
    <3> QED BY <1>4, <3>1, Zenon
  <2>2. Moves("next")
    BY <1>1, <2>1 DEF Calls, Moves, Now, AllPlaces
  <2> QED BY <1>2, <1>3, <1>4, <2>2
<1>5. CASE Settled(code) /\ StepFailed
  <2>1. Filed /\ Ended
    BY <1>2, <1>5, FailMoves DEF Filed, Codes
  <2> QED BY <1>2, <1>3, <2>1
<1> QED BY <1>4, <1>5, Zenon DEF TurnOffFails

GuardLocallyDoes ==
  /\ Does("refresh", "guard") /\ ~ThroughHelper /\ Done
  /\ local' \in Locals /\ local'.type = local.type /\ local'.writes = local.writes
  /\ local'.run = local.run \/ (Guarded /\ local.run = "stopped" /\ local'.run = "running")
  /\ promise' = IF Guarded /\ local.type # "none"
                THEN [promise EXCEPT !.guard = {On(local.type)}] ELSE promise
  /\ failures' = GuardRetired(failures)
  /\ UNCHANGED <<other, os, gen, opLock, loops, writer>>
\* The guard is started in this process.
LEMMA GuardLocallyMoves ==
  ASSUME Typed, GuardLocally PROVE GuardLocallyDoes
<1> USE DEF GuardLocallyDoes
<1>1. call \in Calls /\ local \in Locals
  BY DEF Typed
<1>2. Does("refresh", "guard") /\ ~ThroughHelper /\ Done
  BY <1>1, NowFacts, DoneMoves DEF GuardLocally, Does, Done
<1>3. /\ local' \in Locals /\ local'.type = local.type /\ local'.writes = local.writes
      /\ local'.run = local.run \/ (Guarded /\ local.run = "stopped" /\ local'.run = "running")
  BY <1>1 DEF GuardLocally, Locals
<1> QED BY <1>2, <1>3 DEF GuardLocally, On, locks

GuardThroughHelperDoes ==
  /\ Does("refresh", "guard") /\ ThroughHelper
  /\ \/ /\ Done /\ failures' = GuardRetired(failures)
        /\ \/ /\ loops' = loops \cup {NewLoop} /\ NewLoop \in Loops
              /\ promise' = [promise EXCEPT !.guard = {Target(verge)}]
           \/ UNCHANGED <<loops, promise>>
     \/ Ended /\ UNCHANGED <<loops, promise, failures>>
  /\ UNCHANGED <<other, os, gen, opLock, local, writer>>
\* The guard is started as a loop of the last generation.
LEMMA GuardThroughHelperMoves ==
  ASSUME Typed, GuardThroughHelper PROVE GuardThroughHelperDoes
<1> USE DEF GuardThroughHelperDoes
<1>1. call \in Calls
  BY DEF Typed
<1>2. Does("refresh", "guard") /\ ThroughHelper
  BY <1>1, NowFacts DEF GuardThroughHelper, Does
<1>3. NewLoop \in Loops
  BY DEF Typed, NewLoop, Loops, Calls
<1>4. StepDone => Done
  BY <1>1, <1>2, DoneMoves DEF Done, Does
<1>5. StepFailed => Ended
  BY FailMoves
<1> QED BY <1>2, <1>3, <1>4, <1>5 DEF GuardThroughHelper, locks

CheckDoes ==
  /\ Does("check", "next")
  /\ \/ call.valid /\ Done
     \/ /\ ~call.valid /\ call' \in Calls /\ call'.at = "next" /\ Now' = "clear"
        /\ call'.todo = <<"clear", "stop", "fail">> /\ call'.why = call.why
        /\ call'.asked = call.asked /\ call'.valid
  /\ UNCHANGED <<other, os, gen, opLock, local, loops, promise, writer, failures>>
\* A start whose owner was lost is undone.
LEMMA CheckMoves ==
  ASSUME Typed, Check PROVE CheckDoes
<1> USE DEF CheckDoes
<1>1. call \in Calls
  BY DEF Typed
<1>2. Does("check", "next")
  BY <1>1, NowFacts DEF Check, Does
<1>3. UNCHANGED <<other, os, gen, opLock, local, loops, promise, writer, failures>>
  BY DEF Check, locks, guards, said
<1>4. CASE call.valid
  BY <1>1, <1>2, <1>3, <1>4, DoneMoves DEF Check, Done, Does
<1>5. CASE ~call.valid
  <2>1. PICK t \in Todos : /\ t = <<"clear", "stop", "fail">>
                           /\ call' = [call EXCEPT !.todo = t, !.valid = TRUE]
    BY <1>5 DEF Check, Todos
  <2>2. /\ call' \in Calls /\ call'.at = "next" /\ call'.todo = t /\ call'.why = call.why
        /\ call'.asked = call.asked /\ call'.valid
    BY <1>1, <1>2, <2>1 DEF Calls, Does
  <2>3. Now' = "clear"
    <3>1. t # << >> /\ Head(t) = "clear"
      BY <2>1
    <3> QED BY <2>2, <3>1 DEF Now
  <2> QED BY <1>2, <1>3, <1>5, <2>1, <2>2, <2>3
<1> QED BY <1>4, <1>5

FailDoes ==
  /\ Does("fail", "next") /\ Ended
  /\ UNCHANGED <<other, os, gen, opLock, local, loops, promise, writer, failures>>
\* A start that was undone fails.
LEMMA FailEnds ==
  ASSUME Typed, Fail PROVE FailDoes
BY NowFacts, FailMoves DEF FailDoes, Typed, Fail, Does, locks, guards, said

EndDoes ==
  /\ Does("end", "next") /\ Done
  /\ mode' = "NotRunning" /\ session' = 0 /\ lost' = FALSE
  /\ os' = IF ThroughHelper THEN Off ELSE os
  /\ promise' = IF ThroughHelper THEN Put({}) ELSE promise
  /\ UNCHANGED <<watch, calls, gen, opLock, local, loops, writer, failures>>
\* The core is gone.
LEMMA EndMoves ==
  ASSUME Typed, End PROVE EndDoes
BY NowFacts, DoneMoves DEF EndDoes, Typed, End, Does, Done, locks, guards

\* The calls, as they begin: nothing else changes but the core that is started.
Standing == UNCHANGED <<platform, net, os, gen, opLock, local, loops, promise, writer, failures>>
StartDoes(m) ==
  /\ mode = "NotRunning" /\ OneOf("apply", Applying, "Restore") /\ Now' = "apply"
  /\ mode' = m /\ session' \in Nat /\ UNCHANGED lost /\ Standing
\* A start of the core applies the proxy.
LEMMA StartMoves ==
  ASSUME Typed, NEW m \in {"Service", "Sidecar"}, Start(m) PROVE StartDoes(m)
<1> USE DEF StartDoes
<1>1. call \in Calls /\ calls \in Nat
  BY DEF Typed
<1>2. Applying \in Todos /\ Applying # << >> /\ Head(Applying) = "apply"
  BY DEF Applying, Todos
<1>3. mode = "NotRunning" /\ Begin("apply", Applying, "Restore") /\ mode' = m
      /\ session' = (IF m = "Service" THEN calls + 1 ELSE 0) /\ UNCHANGED lost /\ Standing
  BY DEF Start, Standing, watch, locks, guards, said
<1>4. OneOf("apply", Applying, "Restore")
  BY <1>1, <1>2, <1>3, BeginMoves
<1>5. session' \in Nat
  BY <1>1, <1>3
<1> QED BY <1>2, <1>3, <1>4, <1>5 DEF OneOf, Now

StopDoes(handOver) ==
  /\ \/ OneOf("stop", <<"stop", "end">>, "Restore") /\ Now' = "stop"
     \/ OneOf("stop", <<"clear", "end">>, "Restore") /\ Now' = "clear" /\ ~ThroughHelper
  /\ UNCHANGED core /\ Standing
\* A stop of the core clears it, or leaves it to the helper.
LEMMA StopMoves ==
  ASSUME Typed, NEW handOver \in BOOLEAN, Stop(handOver) PROVE StopDoes(handOver)
<1> USE DEF StopDoes
<1>1. call \in Calls /\ UNCHANGED core /\ Standing
  BY DEF Typed, Stop, Standing, watch, locks, guards, said
<1>2. CASE handOver \/ ThroughHelper
  <2>1. Begin("stop", <<"stop", "end">>, "Restore")
    BY <1>2 DEF Stop, ThroughHelper
  <2>2. <<"stop", "end">> \in Todos /\ <<"stop", "end">> # << >> /\ Head(<<"stop", "end">>) = "stop"
    BY DEF Todos
  <2>3. OneOf("stop", <<"stop", "end">>, "Restore")
    BY <1>1, <2>1, <2>2, BeginMoves
  <2> QED BY <1>1, <2>2, <2>3 DEF OneOf, Now
<1>3. CASE ~(handOver \/ ThroughHelper)
  <2>1. Begin("stop", <<"clear", "end">>, "Restore")
    BY <1>3 DEF Stop, ThroughHelper
  <2>2. <<"clear", "end">> \in Todos /\ <<"clear", "end">> # << >> /\ Head(<<"clear", "end">>) = "clear"
    BY DEF Todos
  <2>3. OneOf("stop", <<"clear", "end">>, "Restore")
    BY <1>1, <2>1, <2>2, BeginMoves
  <2> QED BY <1>1, <1>3, <2>2, <2>3 DEF OneOf, Now
<1> QED BY <1>2, <1>3

RecoverDoes ==
  /\ lost /\ mode = "Service" /\ Now' = "stop"
  /\ \E t \in {<<"stop", "end">>, <<"stop", "end", "clear">>} : OneOf("loss", t, "Restore")
  /\ UNCHANGED core /\ Standing
\* A core that was lost takes its guard with it.
LEMMA RecoverMoves ==
  ASSUME Typed, Recover PROVE RecoverDoes
<1> USE DEF RecoverDoes
<1>1. call \in Calls /\ UNCHANGED core /\ Standing /\ lost /\ mode = "Service"
  BY DEF Typed, Recover, Standing, watch, locks, guards, said
<1>2. PICK t \in {<<"stop", "end">>, <<"stop", "end", "clear">>} : Begin("loss", t, "Restore")
  BY DEF Recover
<1>3. t \in Todos /\ t # << >> /\ Head(t) = "stop"
  BY DEF Todos
<1>4. OneOf("loss", t, "Restore")
  BY <1>1, <1>2, <1>3, BeginMoves
<1> QED BY <1>1, <1>3, <1>4 DEF OneOf, Now

ApplyPatchDoes ==
  /\ \/ /\ \E t \in {Applying, <<"apply", "refresh">>}, a \in Requests \cup {"Restore"} :
              OneOf("patch", t, a)
        /\ Now' = "apply"
     \/ UNCHANGED <<call, calls>>
  /\ UNCHANGED core /\ Standing
\* A patch applies the proxy, or is refused.
LEMMA ApplyPatchMoves ==
  ASSUME Typed, ApplyPatch PROVE ApplyPatchDoes
<1> USE DEF ApplyPatchDoes
<1>1. call \in Calls /\ UNCHANGED core /\ Standing
  BY DEF Typed, ApplyPatch, Standing, watch, locks, guards, said
<1>2. CASE CanApply
  <2>1. PICK t \in {Applying, <<"apply", "refresh">>}, a \in Requests \cup {"Restore"} :
          Begin("patch", t, a)
    BY <1>2 DEF ApplyPatch, AskedBy, Requests
  <2>2. t \in Todos /\ t # << >> /\ Head(t) = "apply"
    BY DEF Todos, Applying
  <2>3. OneOf("patch", t, a)
    BY <1>1, <2>1, <2>2, BeginMoves
  <2> QED BY <1>1, <2>2, <2>3 DEF OneOf, Now
<1>3. CASE ~CanApply
  BY <1>1, <1>3 DEF ApplyPatch
<1> QED BY <1>2, <1>3

ReapplyDoes ==
  /\ (OneOf("apply", Applying, "Restore") /\ Now' = "apply") \/ UNCHANGED <<call, calls>>
  /\ UNCHANGED core /\ Standing
\* A network that is back has the proxy applied.
LEMMA ReapplyMoves ==
  ASSUME Typed, Reapply PROVE ReapplyDoes
<1> USE DEF ReapplyDoes
<1>1. call \in Calls /\ UNCHANGED core /\ Standing
  BY DEF Typed, Reapply, Standing, locks, guards, said
<1>2. Applying \in Todos /\ Applying # << >> /\ Head(Applying) = "apply"
  BY DEF Applying, Todos
<1>3. CASE Begin("apply", Applying, "Restore")
  <2>1. OneOf("apply", Applying, "Restore")
    BY <1>1, <1>2, <1>3, BeginMoves
  <2> QED BY <1>1, <1>2, <2>1 DEF OneOf, Now
<1>4. CASE UNCHANGED <<call, calls>>
  BY <1>1, <1>4
<1> QED BY <1>3, <1>4 DEF Reapply

\* The owner is lost: what the call has checked no longer counts.
LoseOwnerDoes ==
  /\ mode = "Service" /\ lost' = TRUE /\ UNCHANGED <<mode, session, calls>> /\ Standing
  /\ call' \in Calls /\ call'.at = call.at /\ call'.todo = call.todo /\ Now' = Now
  /\ call'.why = call.why /\ call'.asked = call.asked /\ call'.mine = call.mine
  /\ call'.drained = call.drained /\ call'.skipped = call.skipped /\ call'.cfg = call.cfg
\* A loss of the helper moves nothing but what is known of it.
LEMMA LoseOwnerMoves ==
  ASSUME Typed, LoseOwner PROVE LoseOwnerDoes
<1> USE DEF LoseOwnerDoes
<1>1. call \in Calls
  BY DEF Typed
<1>2. /\ call' \in Calls /\ call'.at = call.at /\ call'.todo = call.todo
      /\ call'.why = call.why /\ call'.asked = call.asked /\ call'.mine = call.mine
      /\ call'.drained = call.drained /\ call'.skipped = call.skipped /\ call'.cfg = call.cfg
  BY <1>1 DEF LoseOwner, Calls
<1> QED BY <1>2 DEF LoseOwner, Standing, Now, watch, settings, locks, guards, said

\* The loops, one at a time.
LoopAsksDoes(l) ==
  /\ opLock = "free" /\ l.at = "sleep"
  /\ \/ /\ Current(l) /\ opLock' = "loop"
        /\ \E m \in Loops : /\ loops' = (loops \ {l}) \cup {m}
                            /\ m.gen = l.gen /\ m.proof = l.proof /\ m.cfg = l.cfg
                            /\ m.at = "asking"
     \/ loops' = loops \ {l} /\ UNCHANGED opLock
  /\ UNCHANGED <<other, os, gen, local, call, promise, writer, failures>>
\* A loop asks, or ends since another took its place.
LEMMA LoopAsksMoves ==
  ASSUME Typed, NEW l \in loops, LoopAsks(l) PROVE LoopAsksDoes(l)
<1> USE DEF LoopAsksDoes
<1>1. l \in Loops
  BY DEF Typed
<1>2. PICK m : m = [l EXCEPT !.at = "asking"]
  OBVIOUS
<1>3. m \in Loops /\ m.gen = l.gen /\ m.proof = l.proof /\ m.cfg = l.cfg /\ m.at = "asking"
  BY <1>1, <1>2 DEF Loops
<1>4. opLock = "free" /\ l.at = "sleep"
  BY DEF LoopAsks
<1>5. UNCHANGED <<other, os, gen, local, call, promise, writer, failures>>
  BY DEF LoopAsks, quiet, other, said
<1>6. \/ Current(l) /\ opLock' = "loop" /\ loops' = (loops \ {l}) \cup {m}
      \/ loops' = loops \ {l} /\ UNCHANGED opLock
  BY <1>2, Zenon DEF LoopAsks, Becomes
<1> QED BY <1>3, <1>4, <1>5, <1>6

LoopAnsweredDoes(l, landed, ok) ==
  /\ Asking(l) /\ opLock' = "free"
  /\ os' = IF landed THEN Target(l.cfg) ELSE os
  /\ writer' = IF landed THEN l.gen ELSE writer
  /\ \E m \in Loops : /\ loops' = (loops \ {l}) \cup {m}
                      /\ m.gen = l.gen /\ m.proof = l.proof /\ m.cfg = l.cfg
                      /\ ~Asking(m)
  /\ UNCHANGED <<other, gen, local, call, promise, failures>>
\* A loop has its answer.
LEMMA LoopAnsweredMoves ==
  ASSUME Typed, NEW l \in loops, NEW landed \in BOOLEAN, NEW ok \in BOOLEAN,
         LoopAnswered(l, landed, ok)
  PROVE  LoopAnsweredDoes(l, landed, ok)
<1> USE DEF LoopAnsweredDoes
<1>1. l \in Loops /\ l.fails + 1 \in Nat
  BY DEF Typed, Loops
<1>2. PICK n \in Nat, s \in {"sleep", "report"} :
        loops' = (loops \ {l}) \cup {[l EXCEPT !.at = s, !.fails = n]}
  <2>1. CASE ok
    BY <2>1, Zenon, 0 \in Nat DEF LoopAnswered, Becomes
  <2>2. CASE ~ok
    BY <1>1, <2>2, Zenon DEF LoopAnswered, Becomes
  <2> QED BY <2>1, <2>2
<1>3. PICK m : m = [l EXCEPT !.at = s, !.fails = n]
  OBVIOUS
<1>4. m \in Loops /\ m.gen = l.gen /\ m.proof = l.proof /\ m.cfg = l.cfg /\ ~Asking(m)
  BY <1>1, <1>3 DEF Loops, Asking
<1>5. Asking(l) /\ opLock' = "free" /\ os' = (IF landed THEN Target(l.cfg) ELSE os)
      /\ writer' = (IF landed THEN l.gen ELSE writer)
  BY DEF LoopAnswered, Asking
<1>6. UNCHANGED <<other, gen, local, call, promise, failures>>
  BY DEF LoopAnswered, quiet, other
<1> QED BY <1>2, <1>3, <1>4, <1>5, <1>6

LoopReportsDoes(l) ==
  /\ opLock = "free" /\ loops' = loops \ {l}
  /\ failures' = IF l.gen = gen THEN Recorded(failures, "Guard", "GuardStopped") ELSE failures
  /\ UNCHANGED <<other, os, gen, opLock, local, call, promise, writer>>
\* A loop that has given up says so and ends.
LEMMA LoopReportsMoves ==
  ASSUME Typed, NEW l \in loops, LoopReports(l) PROVE LoopReportsDoes(l)
BY DEF LoopReportsDoes, LoopReports, MayReport, quiet, other, locks, said

\* The guard in this process.
LocalBeginsDoes ==
  /\ local.run = "running" /\ local.type # "none"
  /\ local' \in Locals /\ local'.run = "writing" /\ local'.type = local.type
  /\ local'.writes = local.type
  /\ UNCHANGED <<other, os, gen, opLock, loops, call, promise, writer, failures>>
\* The local guard begins a write.
LEMMA LocalBeginsMoves ==
  ASSUME Typed, LocalBegins PROVE LocalBeginsDoes
<1> USE DEF LocalBeginsDoes
<1>1. local \in Locals
  BY DEF Typed
<1>2. /\ local' \in Locals /\ local'.run = "writing" /\ local'.type = local.type
      /\ local'.writes = local.type
  BY <1>1 DEF LocalBegins, Locals
<1> QED BY <1>2 DEF LocalBegins, quiet, other, locks, said

LocalLandsDoes ==
  /\ local.run \in {"writing", "draining"}
  /\ local' \in Locals /\ local'.run \in {"running", "stopped"} /\ local'.type = local.type
  /\ local'.run = "running" => local.run = "writing"
  /\ os' = IF IsMac /\ ~net THEN os ELSE [os EXCEPT ![local.writes] = "on"]
  /\ UNCHANGED <<other, gen, opLock, loops, call, promise, writer, failures>>
\* The write of the local guard lands.
LEMMA LocalLandsMoves ==
  ASSUME Typed, LocalLands PROVE LocalLandsDoes
<1> USE DEF LocalLandsDoes
<1>1. local \in Locals
  BY DEF Typed
<1>2. /\ local' \in Locals /\ local'.run \in {"running", "stopped"} /\ local'.type = local.type
      /\ local'.run = "running" => local.run = "writing"
  BY <1>1 DEF LocalLands, Locals
<1> QED BY <1>2 DEF LocalLands, quiet, other, locks, said

\* What happens elsewhere: to the settings, or to the network.
Elsewhere ==
  /\ UNCHANGED <<platform, core, calls, os, gen, opLock, local, loops, call, promise, writer,
                 failures>>
  /\ net' \in BOOLEAN

\* All that a step may do.
Effect ==
  \/ \E m \in {"Service", "Sidecar"} : StartDoes(m)
  \/ \E handOver \in BOOLEAN : StopDoes(handOver)
  \/ RecoverDoes
  \/ ApplyPatchDoes
  \/ ReapplyDoes
  \/ LoseOwnerDoes
  \/ \E p \in {"apply", "clear", "stop", "refresh"} : LocalDoes(p)
  \/ \E p \in {"apply", "clear", "stop", "refresh"} : WaitDoes(p)
  \/ \E p \in {"apply", "clear", "stop", "refresh"} : HelperDoes(p)
  \/ \E p \in {"apply", "clear", "stop", "refresh"} : CancelDoes(p)
  \/ AlreadyAppliedDoes
  \/ AlreadyClearedDoes
  \/ WaitAgainDoes
  \/ \E s \in {"first", "second"} : WriteDoes(s)
  \/ \E s \in {"first", "second"} : TurnOffDoes(s)
  \/ \E s \in {"first", "second"}, partly \in BOOLEAN, code \in Codes \cup {"none"} : WriteFailsDoes(s, partly, code)
  \/ \E s \in {"first", "second"}, failed \in SUBSET Kinds, code \in Codes \cup {"none"} : TurnOffFailsDoes(s, failed, code)
  \/ \E failed \in SUBSET Kinds : CompensateDoes(failed)
  \/ InvalidateDoes
  \/ QueueDoes
  \/ ReleaseDoes
  \/ \E landed \in BOOLEAN, answer \in {"applied", "fallback", "error"} : AskedDoes(landed, answer)
  \/ GuardLocallyDoes
  \/ GuardThroughHelperDoes
  \/ CheckDoes
  \/ FailDoes
  \/ EndDoes
  \/ \E l \in loops : LoopAsksDoes(l)
  \/ \E l \in loops : LoopReportsDoes(l)
  \/ \E l \in loops, landed \in BOOLEAN, ok \in BOOLEAN : LoopAnsweredDoes(l, landed, ok)
  \/ LocalBeginsDoes
  \/ LocalLandsDoes
  \/ Elsewhere
\* Every step has one of these effects.
LEMMA Effects ==
  ASSUME Typed, Next PROVE Effect
<1>1. ASSUME NEW m \in {"Service", "Sidecar"}, Start(m)
      PROVE  Effect
  BY <1>1, StartMoves DEF Effect
<1>2. ASSUME NEW handOver \in BOOLEAN, Stop(handOver)
      PROVE  Effect
  BY <1>2, StopMoves DEF Effect
<1>3. CASE Recover
  BY <1>3, RecoverMoves DEF Effect
<1>4. CASE ApplyPatch
  BY <1>4, ApplyPatchMoves DEF Effect
<1>5. CASE Reapply
  BY <1>5, ReapplyMoves DEF Effect
<1>6. CASE LoseOwner
  BY <1>6, LoseOwnerMoves DEF Effect
<1>7. CASE RefusePatch
  BY <1>7
  DEF RefusePatch, Effect, Elsewhere, Typed, core, watch, quiet, locks, guards, said, settings
<1>8. CASE Network
  BY <1>8 DEF Network, Effect, Elsewhere, Typed, core, watch, quiet, locks, guards, said, settings
<1>9. ASSUME NEW v \in Settings[platform], Edit(v)
      PROVE  Effect
  BY <1>9 DEF Edit, Effect, Elsewhere, Typed, core, watch, quiet, locks, guards, said, settings
<1>10. ASSUME NEW p \in {"apply", "clear", "stop", "refresh"}, Local(p)
       PROVE  Effect
  BY <1>10, LocalMoves DEF Effect
<1>11. ASSUME NEW p \in {"apply", "clear", "stop", "refresh"}, Wait(p)
       PROVE  Effect
  BY <1>11, WaitMoves DEF Effect
<1>12. ASSUME NEW p \in {"apply", "clear", "stop", "refresh"}, Helper(p)
       PROVE  Effect
  BY <1>12, HelperMoves DEF Effect
<1>13. ASSUME NEW p \in {"apply", "clear", "stop", "refresh"}, Cancel(p)
       PROVE  Effect
  BY <1>13, CancelMoves DEF Effect
<1>14. CASE AlreadyApplied
  BY <1>14, AlreadyAppliedMoves DEF Effect
<1>15. CASE AlreadyCleared
  BY <1>15, AlreadyClearedMoves DEF Effect
<1>16. CASE WaitAgain
  BY <1>16, WaitAgainMoves DEF Effect
<1>17. ASSUME NEW s \in {"first", "second"}, Write(s)
       PROVE  Effect
  BY <1>17, WriteMoves DEF Effect
<1>18. ASSUME NEW s \in {"first", "second"}, TurnOff(s)
       PROVE  Effect
  BY <1>18, TurnOffMoves DEF Effect
<1>19. ASSUME NEW s \in {"first", "second"}, NEW partly \in BOOLEAN,
              NEW code \in Codes \cup {"none"}, WriteFails(s, partly, code)
       PROVE  Effect
  BY <1>19, WriteFailsMoves DEF Effect
<1>20. ASSUME NEW s \in {"first", "second"}, NEW failed \in SUBSET Kinds,
              NEW code \in Codes \cup {"none"}, TurnOffFails(s, failed, code)
       PROVE  Effect
  BY <1>20, TurnOffFailsMoves DEF Effect
<1>21. ASSUME NEW failed \in SUBSET Kinds, Compensate(failed)
       PROVE  Effect
  BY <1>21, CompensateMoves DEF Effect
<1>22. ASSUME call.todo # << >>, Invalidate
       PROVE  Effect
  BY <1>22, InvalidateMoves DEF Effect
<1>23. ASSUME call.todo # << >>, Queue
       PROVE  Effect
  BY <1>23, QueueMoves DEF Effect
<1>24. ASSUME call.todo # << >>, Release
       PROVE  Effect
  BY <1>24, ReleaseMoves DEF Effect
<1>25. ASSUME NEW landed \in BOOLEAN, NEW answer \in {"applied", "fallback", "error"},
              call.todo # << >>, Asked(landed, answer)
       PROVE  Effect
  BY <1>25, AskedMoves DEF Effect
<1>26. CASE GuardLocally
  BY <1>26, GuardLocallyMoves DEF Effect
<1>27. CASE GuardThroughHelper
  BY <1>27, GuardThroughHelperMoves DEF Effect
<1>28. CASE Check
  BY <1>28, CheckMoves DEF Effect
<1>29. CASE Fail
  BY <1>29, FailEnds DEF Effect
<1>30. CASE End
  BY <1>30, EndMoves DEF Effect
<1>31. ASSUME NEW l \in loops, LoopAsks(l)
       PROVE  Effect
  BY <1>31, LoopAsksMoves DEF Effect
<1>32. ASSUME NEW l \in loops, LoopReports(l)
       PROVE  Effect
  BY <1>32, LoopReportsMoves DEF Effect
<1>33. ASSUME NEW l \in loops, NEW landed \in BOOLEAN, NEW ok \in BOOLEAN, LoopAnswered(l, landed,
              ok)
       PROVE  Effect
  BY <1>33, LoopAnsweredMoves DEF Effect
<1>34. CASE LocalBegins
  BY <1>34, LocalBeginsMoves DEF Effect
<1>35. CASE LocalLands
  BY <1>35, LocalLandsMoves DEF Effect
<1> QED BY <1>1, <1>2, <1>3, <1>4, <1>5, <1>6, <1>7, <1>8, <1>9, <1>10, <1>11, <1>12, <1>13, <1>14,
          <1>15, <1>16, <1>17, <1>18, <1>19, <1>20, <1>21, <1>22, <1>23, <1>24, <1>25, <1>26,
          <1>27, <1>28, <1>29, <1>30, <1>31, <1>32, <1>33, <1>34, <1>35 DEF Next, CallStep, LoopStep

-----------------------------------------------------------------------------
(* Types.                                                                  *)

\* What is wanted of the OS is a state of it.
LEMMA SystemTypes ==
  /\ Off \in Systems /\ \A c : Target(c) \in Systems
  /\ \A k \in Kinds : On(k) \in Systems
BY DEF Off, Target, On, Systems

\* The empty promise.
LEMMA PutTypes == Put({}) \in Promises /\ Put({}).os = {} /\ Put({}).guard = {}
BY DEF Put, Promises

\* A promise that has been made.
LEMMA VouchedTypes ==
  ASSUME promise \in Promises, call \in Calls, NEW t \in Systems, NEW w, Vouched(t, w)
  PROVE  /\ promise' \in Promises /\ promise'.guard = promise.guard
         /\ promise'.os = IF call.drained /\ w THEN {t} ELSE {}
BY DEF Vouched, Promises

\* A call files nothing about the guard, and leaves what is filed of it.
LEMMA FiledKeeps ==
  ASSUME failures \in [Codes -> Operations \cup {"none"}], call \in Calls, Filed
  PROVE  /\ failures' \in [Codes -> Operations \cup {"none"}]
         /\ failures["GuardStopped"] \in {"none", "Guard"}
              => failures'["GuardStopped"] = failures["GuardStopped"]
<1>1. PICK code \in (Codes \ {"GuardStopped"}) \cup {"none"} : Settled(code)
  BY DEF Filed
<1>2. call.asked \in Operations /\ "GuardStopped" \in Codes
  BY DEF Calls, Operations, Codes
<1>3. CASE code # "none"
  <2>1. failures' = Recorded(failures, call.asked, code)
    BY <1>1, <1>3 DEF Settled
  <2> QED BY <1>1, <1>2, <1>3, <2>1 DEF Recorded
<1>4. CASE code = "none" /\ Head(call.todo) = "apply"
  <2>1. failures' = Retired(failures, call.asked)
    BY <1>1, <1>4 DEF Settled
  <2> QED BY <1>2, <2>1 DEF Retired, RetiredBy
<1>5. CASE code = "none" /\ Head(call.todo) # "apply"
  <2>1. failures' = failures
    BY <1>1, <1>5 DEF Settled
  <2> QED BY <2>1
<1> QED BY <1>3, <1>4, <1>5

\* Reporting that the guard has stopped, and that it has been started.
LEMMA GuardFiled ==
  ASSUME failures \in [Codes -> Operations \cup {"none"}]
  PROVE  /\ Recorded(failures, "Guard", "GuardStopped") \in [Codes -> Operations \cup {"none"}]
         /\ Recorded(failures, "Guard", "GuardStopped")["GuardStopped"] = "Guard"
         /\ GuardRetired(failures) \in [Codes -> Operations \cup {"none"}]
         /\ failures["GuardStopped"] \in {"none", "Guard"} => GuardRetired(failures)["GuardStopped"] = "none"
BY DEF Recorded, GuardRetired, Outranks, Operations, Requests, Codes

\* The settings come from the platform's, whoever puts them back.
SettingsFine ==
  verge' \in AnyConfig /\ patch' \in [at : {"none", "waiting", "applying"}, old : AnyConfig]
\* A call that ends leaves the settings, or puts the old ones back.
LEMMA FinishFine ==
  ASSUME Typed, UNCHANGED settings \/ StepDone \/ StepFailed PROVE SettingsFine
BY DEF Typed, SettingsFine, StepDone, StepFailed, Finish, settings
\* The settings stay among those of the platforms.
LEMMA SettingsTyped ==
  ASSUME Typed, Next PROVE SettingsFine
<1>1. ASSUME NEW m \in {"Service", "Sidecar"}, Start(m)
      PROVE  SettingsFine
  BY <1>1, FinishFine DEF Start, quiet, settings
<1>2. ASSUME NEW handOver \in BOOLEAN, Stop(handOver)
      PROVE  SettingsFine
  BY <1>2, FinishFine DEF Stop, quiet, settings
<1>3. CASE Recover
  BY <1>3, FinishFine DEF Recover, quiet, settings
<1>4. CASE ApplyPatch
  BY <1>4 DEF ApplyPatch, SettingsFine, Typed, AnyConfig, settings
<1>5. CASE Reapply
  BY <1>5, FinishFine DEF Reapply, quiet, settings
<1>6. CASE LoseOwner
  BY <1>6, FinishFine DEF LoseOwner, quiet, settings
<1>7. CASE RefusePatch
  BY <1>7 DEF RefusePatch, SettingsFine, Typed, AnyConfig, settings
<1>8. CASE Network
  BY <1>8, FinishFine DEF Network, quiet, settings
<1>9. ASSUME NEW v \in Settings[platform], Edit(v)
      PROVE  SettingsFine
  BY <1>9 DEF Edit, SettingsFine, Typed, AnyConfig, settings
<1>10. ASSUME NEW p \in {"apply", "clear", "stop", "refresh"}, Local(p)
       PROVE  SettingsFine
  BY <1>10, FinishFine, Zenon DEF Local, settings
<1>11. ASSUME NEW p \in {"apply", "clear", "stop", "refresh"}, Wait(p)
       PROVE  SettingsFine
  BY <1>11, FinishFine DEF Wait, quiet, settings
<1>12. ASSUME NEW p \in {"apply", "clear", "stop", "refresh"}, Helper(p)
       PROVE  SettingsFine
  BY <1>12, FinishFine, Zenon DEF Helper, settings
<1>13. ASSUME NEW p \in {"apply", "clear", "stop", "refresh"}, Cancel(p)
       PROVE  SettingsFine
  BY <1>13, FinishFine DEF Cancel, quiet, settings
<1>14. CASE AlreadyApplied
  BY <1>14, FinishFine, Zenon DEF AlreadyApplied, ApplyDone, settings
<1>15. CASE AlreadyCleared
  BY <1>15, FinishFine, Zenon DEF AlreadyCleared, ClearDone, settings
<1>16. CASE WaitAgain
  BY <1>16, FinishFine DEF WaitAgain, quiet, settings
<1>17. ASSUME NEW s \in {"first", "second"}, Write(s)
       PROVE  SettingsFine
  BY <1>17, FinishFine, Zenon DEF Write, ApplyDone, settings
<1>18. ASSUME NEW s \in {"first", "second"}, TurnOff(s)
       PROVE  SettingsFine
  BY <1>18, FinishFine, Zenon DEF TurnOff, ClearDone, settings
<1>19. ASSUME NEW s \in {"first", "second"}, NEW partly \in BOOLEAN,
              NEW code \in Codes \cup {"none"}, WriteFails(s, partly, code)
       PROVE  SettingsFine
  BY <1>19, FinishFine, Zenon DEF WriteFails, settings
<1>20. ASSUME NEW s \in {"first", "second"}, NEW failed \in SUBSET Kinds,
              NEW code \in Codes \cup {"none"}, TurnOffFails(s, failed, code)
       PROVE  SettingsFine
  BY <1>20, FinishFine, Zenon DEF TurnOffFails, settings
<1>21. ASSUME NEW failed \in SUBSET Kinds, Compensate(failed)
       PROVE  SettingsFine
  BY <1>21, FinishFine, Zenon DEF Compensate, settings
<1>22. ASSUME call.todo # << >>, Invalidate
       PROVE  SettingsFine
  BY <1>22, FinishFine DEF Invalidate, quiet, settings
<1>23. ASSUME call.todo # << >>, Queue
       PROVE  SettingsFine
  BY <1>23, FinishFine DEF Queue, quiet, settings
<1>24. ASSUME call.todo # << >>, Release
       PROVE  SettingsFine
  BY <1>24, FinishFine, Zenon DEF Release, settings
<1>25. ASSUME NEW landed \in BOOLEAN, NEW answer \in {"applied", "fallback", "error"},
              call.todo # << >>, Asked(landed, answer)
       PROVE  SettingsFine
  BY <1>25, FinishFine, Zenon DEF Asked, settings
<1>26. CASE GuardLocally
  BY <1>26, FinishFine, Zenon DEF GuardLocally, settings
<1>27. CASE GuardThroughHelper
  BY <1>27, FinishFine, Zenon DEF GuardThroughHelper, settings
<1>28. CASE Check
  BY <1>28, FinishFine, Zenon DEF Check, settings
<1>29. CASE Fail
  BY <1>29, FinishFine, Zenon DEF Fail, settings
<1>30. CASE End
  BY <1>30, FinishFine, Zenon DEF End, settings
<1>31. ASSUME NEW l \in loops, LoopAsks(l)
       PROVE  SettingsFine
  BY <1>31, FinishFine DEF LoopAsks, quiet, settings
<1>32. ASSUME NEW l \in loops, LoopReports(l)
       PROVE  SettingsFine
  BY <1>32, FinishFine DEF LoopReports, quiet, settings
<1>33. ASSUME NEW l \in loops, NEW landed \in BOOLEAN, NEW ok \in BOOLEAN, LoopAnswered(l, landed,
              ok)
       PROVE  SettingsFine
  BY <1>33, FinishFine DEF LoopAnswered, quiet, settings
<1>34. CASE LocalBegins
  BY <1>34, FinishFine DEF LocalBegins, quiet, settings
<1>35. CASE LocalLands
  BY <1>35, FinishFine DEF LocalLands, quiet, settings
<1> QED BY <1>1, <1>2, <1>3, <1>4, <1>5, <1>6, <1>7, <1>8, <1>9, <1>10, <1>11, <1>12, <1>13, <1>14,
          <1>15, <1>16, <1>17, <1>18, <1>19, <1>20, <1>21, <1>22, <1>23, <1>24, <1>25, <1>26,
          <1>27, <1>28, <1>29, <1>30, <1>31, <1>32, <1>33, <1>34, <1>35 DEF Next, CallStep, LoopStep

\* What is written and promised, and what is filed, keeps its type.
Rest ==
  /\ platform \in Platforms /\ mode \in {"NotRunning", "Sidecar", "Service"} /\ session \in Nat
  /\ lost \in BOOLEAN /\ net \in BOOLEAN /\ gen \in Nat /\ writer \in Nat /\ calls \in Nat
  /\ opLock \in {"free", "call", "loop"}
  /\ call \in Calls /\ local \in Locals /\ loops \subseteq Loops
  /\ os \in Systems /\ promise \in Promises
  /\ failures \in [Codes -> Operations \cup {"none"}]
\* So do all other variables in their types.
LEMMA RestTyped ==
  ASSUME Rest, Effect PROVE Rest'
<1> USE DEF Done, Ended, GoesOn, Moves, Does, OneOf, Standing, other, core, watch, Rest
<1>0. Rest
  OBVIOUS
<1>1. ASSUME NEW m \in {"Service", "Sidecar"}, StartDoes(m)
      PROVE  Rest'
  BY <1>1, <1>0 DEF StartDoes
<1>2. ASSUME NEW handOver \in BOOLEAN, StopDoes(handOver)
      PROVE  Rest'
  BY <1>2, <1>0 DEF StopDoes
<1>3. CASE RecoverDoes
  BY <1>3, <1>0 DEF RecoverDoes
<1>4. CASE ApplyPatchDoes
  BY <1>4, <1>0 DEF ApplyPatchDoes
<1>5. CASE ReapplyDoes
  BY <1>5, <1>0 DEF ReapplyDoes
<1>6. CASE LoseOwnerDoes
  BY <1>6, <1>0 DEF LoseOwnerDoes
<1>7. ASSUME NEW p \in {"apply", "clear", "stop", "refresh"}, LocalDoes(p)
      PROVE  Rest'
  BY <1>7, <1>0, PutTypes, IdleFacts DEF LocalDoes, Shut
<1>8. ASSUME NEW p \in {"apply", "clear", "stop", "refresh"}, WaitDoes(p)
      PROVE  Rest'
  BY <1>8, <1>0 DEF WaitDoes
<1>9. ASSUME NEW p \in {"apply", "clear", "stop", "refresh"}, HelperDoes(p)
      PROVE  Rest'
  BY <1>9, <1>0, PutTypes, IdleFacts DEF HelperDoes, Shut
<1>10. ASSUME NEW p \in {"apply", "clear", "stop", "refresh"}, CancelDoes(p)
       PROVE  Rest'
  BY <1>10, <1>0 DEF CancelDoes
<1>11. CASE AlreadyAppliedDoes
  BY <1>11, <1>0, VouchedTypes, SystemTypes, FiledKeeps, IdleFacts DEF AlreadyAppliedDoes, Applied
<1>12. CASE AlreadyClearedDoes
  BY <1>12, <1>0, VouchedTypes, SystemTypes, FiledKeeps, IdleFacts DEF AlreadyClearedDoes, Cleared
<1>13. CASE WaitAgainDoes
  BY <1>13, <1>0 DEF WaitAgainDoes
<1>14. ASSUME NEW s \in {"first", "second"}, WriteDoes(s)
       PROVE  Rest'
  <2>1. WriteDoes(s) /\ Rest
    BY <1>14, <1>0
  <2>2. os' \in Systems
    BY <2>1, SystemTypes DEF WriteDoes, Systems
  <2>3. CASE s = "first"
    BY <2>1, <2>2, <2>3 DEF WriteDoes
  <2>4. CASE s # "first"
    <3>1. Applied /\ UNCHANGED <<other, gen, opLock, loops, writer>>
      BY <2>1, <2>4 DEF WriteDoes
    <3>2. promise' \in Promises /\ failures' \in [Codes -> Operations \cup {"none"}]
      BY <2>1, <3>1, VouchedTypes, SystemTypes, FiledKeeps DEF Applied
    <3> QED BY <2>1, <2>2, <3>1, <3>2, IdleFacts DEF Applied
  <2> QED BY <2>3, <2>4
<1>15. ASSUME NEW s \in {"first", "second"}, TurnOffDoes(s)
       PROVE  Rest'
  BY <1>15, <1>0, VouchedTypes, SystemTypes, FiledKeeps, IdleFacts DEF TurnOffDoes, Cleared
<1>16. ASSUME NEW s \in {"first", "second"}, NEW partly \in BOOLEAN,
              NEW code \in Codes \cup {"none"}, WriteFailsDoes(s, partly, code)
       PROVE  Rest'
  BY <1>16, <1>0, FiledKeeps, IdleFacts DEF WriteFailsDoes
<1>17. ASSUME NEW s \in {"first", "second"}, NEW failed \in SUBSET Kinds,
              NEW code \in Codes \cup {"none"}, TurnOffFailsDoes(s, failed, code)
       PROVE  Rest'
  BY <1>17, <1>0, FiledKeeps, IdleFacts DEF TurnOffFailsDoes
<1>18. ASSUME NEW failed \in SUBSET Kinds, CompensateDoes(failed)
       PROVE  Rest'
  BY <1>18, <1>0, FiledKeeps, IdleFacts DEF CompensateDoes
<1>19. CASE InvalidateDoes
  BY <1>19, <1>0 DEF InvalidateDoes
<1>20. CASE QueueDoes
  BY <1>20, <1>0 DEF QueueDoes, Shut
<1>21. CASE ReleaseDoes
  BY <1>21, <1>0, PutTypes, IdleFacts DEF ReleaseDoes, Promises
<1>22. ASSUME NEW landed \in BOOLEAN, NEW answer \in {"applied", "fallback", "error"},
              AskedDoes(landed, answer)
       PROVE  Rest'
  BY <1>22, <1>0, VouchedTypes, SystemTypes, FiledKeeps, IdleFacts DEF AskedDoes, Calls
<1>23. CASE GuardLocallyDoes
  <2>1. promise' \in Promises
    <3>1. promise \in Promises /\ local \in Locals
      BY <1>0
    <3>2. local.type # "none" => {On(local.type)} \in SUBSET Systems
      BY <3>1, SystemTypes DEF Locals
    <3> QED BY <1>23, <3>1, <3>2 DEF GuardLocallyDoes, Promises
  <2> QED BY <1>23, <1>0, <2>1, GuardFiled, IdleFacts
          DEF GuardLocallyDoes
<1>24. CASE GuardThroughHelperDoes
  BY <1>24, <1>0, GuardFiled, SystemTypes, IdleFacts DEF GuardThroughHelperDoes, Promises
<1>25. CASE CheckDoes
  BY <1>25, <1>0, IdleFacts DEF CheckDoes
<1>26. CASE FailDoes
  BY <1>26, <1>0, IdleFacts DEF FailDoes
<1>27. CASE EndDoes
  BY <1>27, <1>0, PutTypes, SystemTypes, IdleFacts DEF EndDoes
<1>28. ASSUME NEW l \in loops, LoopAsksDoes(l)
       PROVE  Rest'
  BY <1>28, <1>0 DEF LoopAsksDoes
<1>29. ASSUME NEW l \in loops, LoopReportsDoes(l)
       PROVE  Rest'
  BY <1>29, <1>0, GuardFiled DEF LoopReportsDoes
<1>30. ASSUME NEW l \in loops, NEW landed \in BOOLEAN, NEW ok \in BOOLEAN,
              LoopAnsweredDoes(l, landed, ok)
       PROVE  Rest'
  BY <1>30, <1>0, SystemTypes DEF LoopAnsweredDoes, Loops
<1>31. CASE LocalBeginsDoes
  BY <1>31, <1>0 DEF LocalBeginsDoes
<1>32. CASE LocalLandsDoes
  BY <1>32, <1>0 DEF LocalLandsDoes, Systems
<1>33. CASE Elsewhere
  BY <1>33, <1>0 DEF Elsewhere
<1> QED BY <1>1, <1>2, <1>3, <1>4, <1>5, <1>6, <1>7, <1>8, <1>9, <1>10, <1>11, <1>12, <1>13, <1>14,
          <1>15, <1>16, <1>17, <1>18, <1>19, <1>20, <1>21, <1>22, <1>23, <1>24, <1>25, <1>26,
          <1>27, <1>28, <1>29, <1>30, <1>31, <1>32, <1>33 DEF Effect

\* Every step keeps the types.
LEMMA TypeStep ==
  ASSUME Typed, [Next]_vars PROVE Typed'
<1>1. CASE UNCHANGED vars
  BY <1>1 DEF vars, Typed
<1>2. CASE Next
  <2>1. Rest'
    BY <1>2, Effects, RestTyped DEF Typed, Rest
  <2> QED BY <1>2, <2>1, SettingsTyped DEF Typed, SettingsFine, Rest
<1> QED BY <1>1, <1>2

-----------------------------------------------------------------------------
(* The parts of the invariant, step by step.                               *)

\* A call that does not change does what it did.
LEMMA NowSame ==
  ASSUME UNCHANGED call PROVE Now' = Now
BY DEF Now

\* What the call does now, before a step and after it.
NowKnown ==
  /\ Now \in Steps \cup {"nothing"} /\ (Now = "nothing" <=> call.todo = << >>)
  /\ (Now' = "nothing" <=> call'.todo = << >>)
\* What the call does is one of the steps, or nothing.
LEMMA NowIsKnown ==
  ASSUME Typed, Typed' PROVE NowKnown
<1>1. call \in Calls /\ call' \in Calls
  BY DEF Typed
<1>2. (call \in Calls => (Now = "nothing" <=> call.todo = << >>))'
  BY NowFacts, PTL
<1> QED BY <1>1, <1>2, NowFacts DEF NowKnown

\* Where a call may be, and what it does there.
LEMMA PlaceFacts ==
  /\ \A p : "next" \in Places(p)
  /\ \A p \in {"apply", "clear"} : {"wait", "first", "second"} \cup There \subseteq Places(p)
  /\ \A p \in {"stop", "refresh"} : {"queue", "wait", "release"} \subseteq Places(p)
  /\ "compensate" \in Places("apply") /\ "again" \in Places("clear") /\ "guard" \in Places("refresh")
BY DEF Places, There
\* What a stage says of the step it belongs to.
LEMMA PlaceBack ==
  ASSUME call.at \in Places(Now), Now \in Steps \cup {"nothing"}
  PROVE  /\ call.at = "queue" => Now \in {"apply", "clear", "stop", "refresh"}
         /\ call.at = "release" => Now \in {"stop", "refresh"}
         /\ call.at \in {"invalidate", "ask"} \cup Here => Now \in {"apply", "clear"}
         /\ call.at = "guard" => Now = "refresh"
BY DEF Places, There, Here, Steps

\* The call is where it may be.
LEMMA CallStepFits ==
  ASSUME Typed, Typed', CallFits, Effect PROVE CallFits'
<1> USE DEF Done, Ended, GoesOn, Moves, Does, OneOf, Standing, other, core, watch, NowKnown,
          CallFits, ThroughHelper, IsMac, Here, There, After, Steps, Applied, Cleared
<1>0. CallFits /\ NowKnown
  BY NowIsKnown
<1>1. ASSUME NEW m \in {"Service", "Sidecar"}, StartDoes(m)
      PROVE  CallFits'
  BY <1>1, <1>0, NowSame, PlaceFacts, PlaceBack, IdleFacts DEF StartDoes
<1>2. ASSUME NEW handOver \in BOOLEAN, StopDoes(handOver)
      PROVE  CallFits'
  BY <1>2, <1>0, NowSame, PlaceFacts, PlaceBack, IdleFacts DEF StopDoes
<1>3. CASE RecoverDoes
  BY <1>3, <1>0, NowSame, PlaceFacts, PlaceBack, IdleFacts DEF RecoverDoes
<1>4. CASE ApplyPatchDoes
  BY <1>4, <1>0, NowSame, PlaceFacts, PlaceBack, IdleFacts DEF ApplyPatchDoes
<1>5. CASE ReapplyDoes
  BY <1>5, <1>0, NowSame, PlaceFacts, PlaceBack, IdleFacts DEF ReapplyDoes
<1>6. CASE LoseOwnerDoes
  BY <1>6, <1>0, NowSame, PlaceFacts, PlaceBack, IdleFacts DEF LoseOwnerDoes
<1>7. ASSUME NEW p \in {"apply", "clear", "stop", "refresh"}, LocalDoes(p)
      PROVE  CallFits'
  BY <1>7, <1>0, NowSame, PlaceFacts, PlaceBack, IdleFacts DEF LocalDoes
<1>8. ASSUME NEW p \in {"apply", "clear", "stop", "refresh"}, WaitDoes(p)
      PROVE  CallFits'
  BY <1>8, <1>0, NowSame, PlaceFacts, PlaceBack, IdleFacts DEF WaitDoes
<1>9. ASSUME NEW p \in {"apply", "clear", "stop", "refresh"}, HelperDoes(p)
      PROVE  CallFits'
  BY <1>9, <1>0, NowSame, PlaceFacts, PlaceBack, IdleFacts DEF HelperDoes
<1>10. ASSUME NEW p \in {"apply", "clear", "stop", "refresh"}, CancelDoes(p)
       PROVE  CallFits'
  BY <1>10, <1>0, NowSame, PlaceFacts, PlaceBack, IdleFacts DEF CancelDoes
<1>11. CASE AlreadyAppliedDoes
  BY <1>11, <1>0, NowSame, PlaceFacts, PlaceBack, IdleFacts DEF AlreadyAppliedDoes
<1>12. CASE AlreadyClearedDoes
  BY <1>12, <1>0, NowSame, PlaceFacts, PlaceBack, IdleFacts DEF AlreadyClearedDoes
<1>13. CASE WaitAgainDoes
  BY <1>13, <1>0, NowSame, PlaceFacts, PlaceBack, IdleFacts DEF WaitAgainDoes
<1>14. ASSUME NEW s \in {"first", "second"}, WriteDoes(s)
       PROVE  CallFits'
  BY <1>14, <1>0, NowSame, PlaceFacts, PlaceBack, IdleFacts DEF WriteDoes
<1>15. ASSUME NEW s \in {"first", "second"}, TurnOffDoes(s)
       PROVE  CallFits'
  BY <1>15, <1>0, NowSame, PlaceFacts, PlaceBack, IdleFacts DEF TurnOffDoes
<1>16. ASSUME NEW s \in {"first", "second"}, NEW partly \in BOOLEAN,
              NEW code \in Codes \cup {"none"}, WriteFailsDoes(s, partly, code)
       PROVE  CallFits'
  BY <1>16, <1>0, NowSame, PlaceFacts, PlaceBack, IdleFacts DEF WriteFailsDoes
<1>17. ASSUME NEW s \in {"first", "second"}, NEW failed \in SUBSET Kinds,
              NEW code \in Codes \cup {"none"}, TurnOffFailsDoes(s, failed, code)
       PROVE  CallFits'
  BY <1>17, <1>0, NowSame, PlaceFacts, PlaceBack, IdleFacts DEF TurnOffFailsDoes
<1>18. ASSUME NEW failed \in SUBSET Kinds, CompensateDoes(failed)
       PROVE  CallFits'
  BY <1>18, <1>0, NowSame, PlaceFacts, PlaceBack, IdleFacts DEF CompensateDoes
<1>19. CASE InvalidateDoes
  BY <1>19, <1>0, NowSame, PlaceFacts, PlaceBack, IdleFacts DEF InvalidateDoes
<1>20. CASE QueueDoes
  BY <1>20, <1>0, NowSame, PlaceFacts, PlaceBack, IdleFacts DEF QueueDoes
<1>21. CASE ReleaseDoes
  BY <1>21, <1>0, NowSame, PlaceFacts, PlaceBack, IdleFacts DEF ReleaseDoes
<1>22. ASSUME NEW landed \in BOOLEAN, NEW answer \in {"applied", "fallback", "error"},
              AskedDoes(landed, answer)
       PROVE  CallFits'
  BY <1>22, <1>0, NowSame, PlaceFacts, PlaceBack, IdleFacts DEF AskedDoes
<1>23. CASE GuardLocallyDoes
  BY <1>23, <1>0, NowSame, PlaceFacts, PlaceBack, IdleFacts DEF GuardLocallyDoes
<1>24. CASE GuardThroughHelperDoes
  BY <1>24, <1>0, NowSame, PlaceFacts, PlaceBack, IdleFacts DEF GuardThroughHelperDoes
<1>25. CASE CheckDoes
  BY <1>25, <1>0, NowSame, PlaceFacts, PlaceBack, IdleFacts DEF CheckDoes
<1>26. CASE FailDoes
  BY <1>26, <1>0, NowSame, PlaceFacts, PlaceBack, IdleFacts DEF FailDoes
<1>27. CASE EndDoes
  BY <1>27, <1>0, NowSame, PlaceFacts, PlaceBack, IdleFacts DEF EndDoes
<1>28. ASSUME NEW l \in loops, LoopAsksDoes(l)
       PROVE  CallFits'
  BY <1>28, <1>0, NowSame, PlaceFacts, PlaceBack, IdleFacts DEF LoopAsksDoes
<1>29. ASSUME NEW l \in loops, LoopReportsDoes(l)
       PROVE  CallFits'
  BY <1>29, <1>0, NowSame, PlaceFacts, PlaceBack, IdleFacts DEF LoopReportsDoes
<1>30. ASSUME NEW l \in loops, NEW landed \in BOOLEAN, NEW ok \in BOOLEAN,
              LoopAnsweredDoes(l, landed, ok)
       PROVE  CallFits'
  BY <1>30, <1>0, NowSame, PlaceFacts, PlaceBack, IdleFacts DEF LoopAnsweredDoes
<1>31. CASE LocalBeginsDoes
  BY <1>31, <1>0, NowSame, PlaceFacts, PlaceBack, IdleFacts DEF LocalBeginsDoes
<1>32. CASE LocalLandsDoes
  BY <1>32, <1>0, NowSame, PlaceFacts, PlaceBack, IdleFacts DEF LocalLandsDoes
<1>33. CASE Elsewhere
  BY <1>33, <1>0, NowSame, PlaceFacts, PlaceBack, IdleFacts DEF Elsewhere
<1> QED BY <1>1, <1>2, <1>3, <1>4, <1>5, <1>6, <1>7, <1>8, <1>9, <1>10, <1>11, <1>12, <1>13, <1>14,
          <1>15, <1>16, <1>17, <1>18, <1>19, <1>20, <1>21, <1>22, <1>23, <1>24, <1>25, <1>26,
          <1>27, <1>28, <1>29, <1>30, <1>31, <1>32, <1>33 DEF Effect

\* Only what the user asks for is filed as a request.
LEMMA RequestStepFits ==
  ASSUME Typed, Typed', CallFits, RequestFits, Effect PROVE RequestFits'
<1> USE DEF Done, Ended, GoesOn, Moves, Does, OneOf, Standing, other, core, watch, RequestFits,
          Requests, Applied, Cleared
<1>0. RequestFits
  OBVIOUS
<1>1. ASSUME NEW m \in {"Service", "Sidecar"}, StartDoes(m)
      PROVE  RequestFits'
  BY <1>1, <1>0, IdleFacts DEF StartDoes
<1>2. ASSUME NEW handOver \in BOOLEAN, StopDoes(handOver)
      PROVE  RequestFits'
  BY <1>2, <1>0, IdleFacts DEF StopDoes
<1>3. CASE RecoverDoes
  BY <1>3, <1>0, IdleFacts DEF RecoverDoes
<1>4. CASE ApplyPatchDoes
  BY <1>4, <1>0, IdleFacts DEF ApplyPatchDoes
<1>5. CASE ReapplyDoes
  BY <1>5, <1>0, IdleFacts DEF ReapplyDoes
<1>6. CASE LoseOwnerDoes
  BY <1>6, <1>0, IdleFacts DEF LoseOwnerDoes
<1>7. ASSUME NEW p \in {"apply", "clear", "stop", "refresh"}, LocalDoes(p)
      PROVE  RequestFits'
  BY <1>7, <1>0, IdleFacts DEF LocalDoes
<1>8. ASSUME NEW p \in {"apply", "clear", "stop", "refresh"}, WaitDoes(p)
      PROVE  RequestFits'
  BY <1>8, <1>0, IdleFacts DEF WaitDoes
<1>9. ASSUME NEW p \in {"apply", "clear", "stop", "refresh"}, HelperDoes(p)
      PROVE  RequestFits'
  BY <1>9, <1>0, IdleFacts DEF HelperDoes
<1>10. ASSUME NEW p \in {"apply", "clear", "stop", "refresh"}, CancelDoes(p)
       PROVE  RequestFits'
  BY <1>10, <1>0, IdleFacts DEF CancelDoes
<1>11. CASE AlreadyAppliedDoes
  BY <1>11, <1>0, IdleFacts DEF AlreadyAppliedDoes
<1>12. CASE AlreadyClearedDoes
  BY <1>12, <1>0, IdleFacts DEF AlreadyClearedDoes
<1>13. CASE WaitAgainDoes
  BY <1>13, <1>0, IdleFacts DEF WaitAgainDoes
<1>14. ASSUME NEW s \in {"first", "second"}, WriteDoes(s)
       PROVE  RequestFits'
  BY <1>14, <1>0, IdleFacts DEF WriteDoes
<1>15. ASSUME NEW s \in {"first", "second"}, TurnOffDoes(s)
       PROVE  RequestFits'
  BY <1>15, <1>0, IdleFacts DEF TurnOffDoes
<1>16. ASSUME NEW s \in {"first", "second"}, NEW partly \in BOOLEAN,
              NEW code \in Codes \cup {"none"}, WriteFailsDoes(s, partly, code)
       PROVE  RequestFits'
  BY <1>16, <1>0, IdleFacts DEF WriteFailsDoes
<1>17. ASSUME NEW s \in {"first", "second"}, NEW failed \in SUBSET Kinds,
              NEW code \in Codes \cup {"none"}, TurnOffFailsDoes(s, failed, code)
       PROVE  RequestFits'
  BY <1>17, <1>0, IdleFacts DEF TurnOffFailsDoes
<1>18. ASSUME NEW failed \in SUBSET Kinds, CompensateDoes(failed)
       PROVE  RequestFits'
  BY <1>18, <1>0, IdleFacts DEF CompensateDoes
<1>19. CASE InvalidateDoes
  BY <1>19, <1>0, IdleFacts DEF InvalidateDoes
<1>20. CASE QueueDoes
  BY <1>20, <1>0, IdleFacts DEF QueueDoes
<1>21. CASE ReleaseDoes
  BY <1>21, <1>0, IdleFacts DEF ReleaseDoes
<1>22. ASSUME NEW landed \in BOOLEAN, NEW answer \in {"applied", "fallback", "error"},
              AskedDoes(landed, answer)
       PROVE  RequestFits'
  BY <1>22, <1>0, IdleFacts DEF AskedDoes
<1>23. CASE GuardLocallyDoes
  BY <1>23, <1>0, IdleFacts DEF GuardLocallyDoes
<1>24. CASE GuardThroughHelperDoes
  BY <1>24, <1>0, IdleFacts DEF GuardThroughHelperDoes
<1>25. CASE CheckDoes
  BY <1>25, <1>0, IdleFacts DEF CheckDoes
<1>26. CASE FailDoes
  BY <1>26, <1>0, IdleFacts DEF FailDoes
<1>27. CASE EndDoes
  BY <1>27, <1>0, IdleFacts DEF EndDoes
<1>28. ASSUME NEW l \in loops, LoopAsksDoes(l)
       PROVE  RequestFits'
  BY <1>28, <1>0, IdleFacts DEF LoopAsksDoes
<1>29. ASSUME NEW l \in loops, LoopReportsDoes(l)
       PROVE  RequestFits'
  BY <1>29, <1>0, IdleFacts DEF LoopReportsDoes
<1>30. ASSUME NEW l \in loops, NEW landed \in BOOLEAN, NEW ok \in BOOLEAN,
              LoopAnsweredDoes(l, landed, ok)
       PROVE  RequestFits'
  BY <1>30, <1>0, IdleFacts DEF LoopAnsweredDoes
<1>31. CASE LocalBeginsDoes
  BY <1>31, <1>0, IdleFacts DEF LocalBeginsDoes
<1>32. CASE LocalLandsDoes
  BY <1>32, <1>0, IdleFacts DEF LocalLandsDoes
<1>33. CASE Elsewhere
  BY <1>33, <1>0, IdleFacts DEF Elsewhere
<1> QED BY <1>1, <1>2, <1>3, <1>4, <1>5, <1>6, <1>7, <1>8, <1>9, <1>10, <1>11, <1>12, <1>13, <1>14,
          <1>15, <1>16, <1>17, <1>18, <1>19, <1>20, <1>21, <1>22, <1>23, <1>24, <1>25, <1>26,
          <1>27, <1>28, <1>29, <1>30, <1>31, <1>32, <1>33 DEF Effect

\* Whoever is asking the helper has the operation lock.
LEMMA LockStepFits ==
  ASSUME Typed, Typed', CallFits, LockFits, Effect PROVE LockFits'
<1> USE DEF Done, Ended, GoesOn, Moves, Does, OneOf, Standing, other, core, watch, NowKnown,
          LockFits, Draining, Asking, Applied, Cleared
<1>0. LockFits /\ NowKnown
  BY NowIsKnown
<1>1. ASSUME NEW m \in {"Service", "Sidecar"}, StartDoes(m)
      PROVE  LockFits'
  BY <1>1, <1>0, NowSame, IdleFacts DEF StartDoes
<1>2. ASSUME NEW handOver \in BOOLEAN, StopDoes(handOver)
      PROVE  LockFits'
  BY <1>2, <1>0, NowSame, IdleFacts DEF StopDoes
<1>3. CASE RecoverDoes
  BY <1>3, <1>0, NowSame, IdleFacts DEF RecoverDoes
<1>4. CASE ApplyPatchDoes
  BY <1>4, <1>0, NowSame, IdleFacts DEF ApplyPatchDoes
<1>5. CASE ReapplyDoes
  BY <1>5, <1>0, NowSame, IdleFacts DEF ReapplyDoes
<1>6. CASE LoseOwnerDoes
  BY <1>6, <1>0, NowSame, IdleFacts DEF LoseOwnerDoes
<1>7. ASSUME NEW p \in {"apply", "clear", "stop", "refresh"}, LocalDoes(p)
      PROVE  LockFits'
  BY <1>7, <1>0, NowSame, IdleFacts DEF LocalDoes
<1>8. ASSUME NEW p \in {"apply", "clear", "stop", "refresh"}, WaitDoes(p)
      PROVE  LockFits'
  BY <1>8, <1>0, NowSame, IdleFacts DEF WaitDoes
<1>9. ASSUME NEW p \in {"apply", "clear", "stop", "refresh"}, HelperDoes(p)
      PROVE  LockFits'
  BY <1>9, <1>0, NowSame, IdleFacts DEF HelperDoes
<1>10. ASSUME NEW p \in {"apply", "clear", "stop", "refresh"}, CancelDoes(p)
       PROVE  LockFits'
  BY <1>10, <1>0, NowSame, IdleFacts DEF CancelDoes
<1>11. CASE AlreadyAppliedDoes
  BY <1>11, <1>0, NowSame, IdleFacts DEF AlreadyAppliedDoes
<1>12. CASE AlreadyClearedDoes
  BY <1>12, <1>0, NowSame, IdleFacts DEF AlreadyClearedDoes
<1>13. CASE WaitAgainDoes
  BY <1>13, <1>0, NowSame, IdleFacts DEF WaitAgainDoes
<1>14. ASSUME NEW s \in {"first", "second"}, WriteDoes(s)
       PROVE  LockFits'
  BY <1>14, <1>0, NowSame, IdleFacts DEF WriteDoes
<1>15. ASSUME NEW s \in {"first", "second"}, TurnOffDoes(s)
       PROVE  LockFits'
  BY <1>15, <1>0, NowSame, IdleFacts DEF TurnOffDoes
<1>16. ASSUME NEW s \in {"first", "second"}, NEW partly \in BOOLEAN,
              NEW code \in Codes \cup {"none"}, WriteFailsDoes(s, partly, code)
       PROVE  LockFits'
  BY <1>16, <1>0, NowSame, IdleFacts DEF WriteFailsDoes
<1>17. ASSUME NEW s \in {"first", "second"}, NEW failed \in SUBSET Kinds,
              NEW code \in Codes \cup {"none"}, TurnOffFailsDoes(s, failed, code)
       PROVE  LockFits'
  BY <1>17, <1>0, NowSame, IdleFacts DEF TurnOffFailsDoes
<1>18. ASSUME NEW failed \in SUBSET Kinds, CompensateDoes(failed)
       PROVE  LockFits'
  BY <1>18, <1>0, NowSame, IdleFacts DEF CompensateDoes
<1>19. CASE InvalidateDoes
  BY <1>19, <1>0, NowSame, IdleFacts DEF InvalidateDoes
<1>20. CASE QueueDoes
  BY <1>20, <1>0, NowSame, IdleFacts DEF QueueDoes
<1>21. CASE ReleaseDoes
  BY <1>21, <1>0, NowSame, IdleFacts DEF ReleaseDoes
<1>22. ASSUME NEW landed \in BOOLEAN, NEW answer \in {"applied", "fallback", "error"},
              AskedDoes(landed, answer)
       PROVE  LockFits'
  BY <1>22, <1>0, NowSame, IdleFacts DEF AskedDoes
<1>23. CASE GuardLocallyDoes
  BY <1>23, <1>0, NowSame, IdleFacts DEF GuardLocallyDoes
<1>24. CASE GuardThroughHelperDoes
  BY <1>24, <1>0, NowSame, IdleFacts DEF GuardThroughHelperDoes, NewLoop
<1>25. CASE CheckDoes
  BY <1>25, <1>0, NowSame, IdleFacts DEF CheckDoes
<1>26. CASE FailDoes
  BY <1>26, <1>0, NowSame, IdleFacts DEF FailDoes
<1>27. CASE EndDoes
  BY <1>27, <1>0, NowSame, IdleFacts DEF EndDoes
<1>28. ASSUME NEW l \in loops, LoopAsksDoes(l)
       PROVE  LockFits'
  BY <1>28, <1>0, NowSame, IdleFacts DEF LoopAsksDoes
<1>29. ASSUME NEW l \in loops, LoopReportsDoes(l)
       PROVE  LockFits'
  BY <1>29, <1>0, NowSame, IdleFacts DEF LoopReportsDoes
<1>30. ASSUME NEW l \in loops, NEW landed \in BOOLEAN, NEW ok \in BOOLEAN,
              LoopAnsweredDoes(l, landed, ok)
       PROVE  LockFits'
  BY <1>30, <1>0, NowSame, IdleFacts DEF LoopAnsweredDoes
<1>31. CASE LocalBeginsDoes
  BY <1>31, <1>0, NowSame, IdleFacts DEF LocalBeginsDoes
<1>32. CASE LocalLandsDoes
  BY <1>32, <1>0, NowSame, IdleFacts DEF LocalLandsDoes
<1>33. CASE Elsewhere
  BY <1>33, <1>0, NowSame, IdleFacts DEF Elsewhere
<1> QED BY <1>1, <1>2, <1>3, <1>4, <1>5, <1>6, <1>7, <1>8, <1>9, <1>10, <1>11, <1>12, <1>13, <1>14,
          <1>15, <1>16, <1>17, <1>18, <1>19, <1>20, <1>21, <1>22, <1>23, <1>24, <1>25, <1>26,
          <1>27, <1>28, <1>29, <1>30, <1>31, <1>32, <1>33 DEF Effect

\* The loops are those of the generations there have been.
LEMMA LoopsStepFit ==
  ASSUME Typed, Typed', CallFits, LockFits, LoopsFit, Effect PROVE LoopsFit'
<1> USE DEF Done, Ended, GoesOn, Moves, Does, OneOf, Standing, other, core, watch, NowKnown,
          LoopsFit, LockFits, CallFits, Fresh, Overtaken, NoneAsks, Draining, Asking,
          ThroughHelper, IsMac, Steps, After, Applied, Cleared
<1>0. LoopsFit /\ NowKnown
  BY NowIsKnown
<1>1. ASSUME NEW m \in {"Service", "Sidecar"}, StartDoes(m)
      PROVE  LoopsFit'
  BY <1>1, <1>0, NowSame, IdleFacts, PlaceBack DEF StartDoes
<1>2. ASSUME NEW handOver \in BOOLEAN, StopDoes(handOver)
      PROVE  LoopsFit'
  BY <1>2, <1>0, NowSame, IdleFacts, PlaceBack DEF StopDoes
<1>3. CASE RecoverDoes
  BY <1>3, <1>0, NowSame, IdleFacts, PlaceBack DEF RecoverDoes
<1>4. CASE ApplyPatchDoes
  BY <1>4, <1>0, NowSame, IdleFacts, PlaceBack DEF ApplyPatchDoes
<1>5. CASE ReapplyDoes
  BY <1>5, <1>0, NowSame, IdleFacts, PlaceBack DEF ReapplyDoes
<1>6. CASE LoseOwnerDoes
  BY <1>6, <1>0, NowSame, IdleFacts, PlaceBack DEF LoseOwnerDoes
<1>7. ASSUME NEW p \in {"apply", "clear", "stop", "refresh"}, LocalDoes(p)
      PROVE  LoopsFit'
  BY <1>7, <1>0, NowSame, IdleFacts, PlaceBack DEF LocalDoes
<1>8. ASSUME NEW p \in {"apply", "clear", "stop", "refresh"}, WaitDoes(p)
      PROVE  LoopsFit'
  BY <1>8, <1>0, NowSame, IdleFacts, PlaceBack DEF WaitDoes
<1>9. ASSUME NEW p \in {"apply", "clear", "stop", "refresh"}, HelperDoes(p)
      PROVE  LoopsFit'
  BY <1>9, <1>0, NowSame, IdleFacts, PlaceBack DEF HelperDoes
<1>10. ASSUME NEW p \in {"apply", "clear", "stop", "refresh"}, CancelDoes(p)
       PROVE  LoopsFit'
  BY <1>10, <1>0, NowSame, IdleFacts, PlaceBack DEF CancelDoes, Typed, Loops
<1>11. CASE AlreadyAppliedDoes
  BY <1>11, <1>0, NowSame, IdleFacts, PlaceBack DEF AlreadyAppliedDoes
<1>12. CASE AlreadyClearedDoes
  BY <1>12, <1>0, NowSame, IdleFacts, PlaceBack DEF AlreadyClearedDoes, Here
<1>13. CASE WaitAgainDoes
  BY <1>13, <1>0, NowSame, IdleFacts, PlaceBack DEF WaitAgainDoes
<1>14. ASSUME NEW s \in {"first", "second"}, WriteDoes(s)
       PROVE  LoopsFit'
  BY <1>14, <1>0, NowSame, IdleFacts, PlaceBack DEF WriteDoes
<1>15. ASSUME NEW s \in {"first", "second"}, TurnOffDoes(s)
       PROVE  LoopsFit'
  BY <1>15, <1>0, NowSame, IdleFacts, PlaceBack DEF TurnOffDoes, Here
<1>16. ASSUME NEW s \in {"first", "second"}, NEW partly \in BOOLEAN,
              NEW code \in Codes \cup {"none"}, WriteFailsDoes(s, partly, code)
       PROVE  LoopsFit'
  BY <1>16, <1>0, NowSame, IdleFacts, PlaceBack DEF WriteFailsDoes
<1>17. ASSUME NEW s \in {"first", "second"}, NEW failed \in SUBSET Kinds,
              NEW code \in Codes \cup {"none"}, TurnOffFailsDoes(s, failed, code)
       PROVE  LoopsFit'
  BY <1>17, <1>0, NowSame, IdleFacts, PlaceBack DEF TurnOffFailsDoes
<1>18. ASSUME NEW failed \in SUBSET Kinds, CompensateDoes(failed)
       PROVE  LoopsFit'
  BY <1>18, <1>0, NowSame, IdleFacts, PlaceBack DEF CompensateDoes
<1>19. CASE InvalidateDoes
  BY <1>19, <1>0, NowSame, IdleFacts, PlaceBack DEF InvalidateDoes, Typed, Loops
<1>20. CASE QueueDoes
  BY <1>20, <1>0, NowSame, IdleFacts, PlaceBack DEF QueueDoes
<1>21. CASE ReleaseDoes
  BY <1>21, <1>0, NowSame, IdleFacts, PlaceBack DEF ReleaseDoes
<1>22. ASSUME NEW landed \in BOOLEAN, NEW answer \in {"applied", "fallback", "error"},
              AskedDoes(landed, answer)
       PROVE  LoopsFit'
  BY <1>22, <1>0, NowSame, IdleFacts, PlaceBack DEF AskedDoes
<1>23. CASE GuardLocallyDoes
  BY <1>23, <1>0, NowSame, IdleFacts, PlaceBack DEF GuardLocallyDoes
<1>24. CASE GuardThroughHelperDoes
  BY <1>24, <1>0, NowSame, IdleFacts, PlaceBack DEF GuardThroughHelperDoes, NewLoop, Typed, Loops
<1>25. CASE CheckDoes
  BY <1>25, <1>0, NowSame, IdleFacts, PlaceBack DEF CheckDoes
<1>26. CASE FailDoes
  BY <1>26, <1>0, NowSame, IdleFacts, PlaceBack DEF FailDoes
<1>27. CASE EndDoes
  BY <1>27, <1>0, NowSame, IdleFacts, PlaceBack DEF EndDoes
<1>28. ASSUME NEW l \in loops, LoopAsksDoes(l)
       PROVE  LoopsFit'
  BY <1>28, <1>0, NowSame, IdleFacts, PlaceBack DEF LoopAsksDoes, Current, Typed, Loops
<1>29. ASSUME NEW l \in loops, LoopReportsDoes(l)
       PROVE  LoopsFit'
  BY <1>29, <1>0, NowSame, IdleFacts, PlaceBack DEF LoopReportsDoes
<1>30. ASSUME NEW l \in loops, NEW landed \in BOOLEAN, NEW ok \in BOOLEAN,
              LoopAnsweredDoes(l, landed, ok)
       PROVE  LoopsFit'
  BY <1>30, <1>0, NowSame, IdleFacts, PlaceBack DEF LoopAnsweredDoes
<1>31. CASE LocalBeginsDoes
  BY <1>31, <1>0, NowSame, IdleFacts, PlaceBack DEF LocalBeginsDoes
<1>32. CASE LocalLandsDoes
  BY <1>32, <1>0, NowSame, IdleFacts, PlaceBack DEF LocalLandsDoes
<1>33. CASE Elsewhere
  BY <1>33, <1>0, NowSame, IdleFacts, PlaceBack DEF Elsewhere
<1> QED BY <1>1, <1>2, <1>3, <1>4, <1>5, <1>6, <1>7, <1>8, <1>9, <1>10, <1>11, <1>12, <1>13, <1>14,
          <1>15, <1>16, <1>17, <1>18, <1>19, <1>20, <1>21, <1>22, <1>23, <1>24, <1>25, <1>26,
          <1>27, <1>28, <1>29, <1>30, <1>31, <1>32, <1>33 DEF Effect

\* A guard that has been waited for is not started before the call is done with it.
LEMMA DrainStepFits ==
  ASSUME Typed, Typed', CallFits, DrainFits, Effect PROVE DrainFits'
<1> USE DEF Done, Ended, GoesOn, Moves, Does, OneOf, Standing, other, core, watch, NowKnown,
          DrainFits, Waited, CallFits, Here, There, ThroughHelper, IsMac, Steps, After, Shut,
          Applied, Cleared
<1>0. DrainFits /\ CallFits /\ NowKnown
  BY NowIsKnown
<1>1. ASSUME NEW m \in {"Service", "Sidecar"}, StartDoes(m)
      PROVE  DrainFits'
  BY <1>1, <1>0, NowSame, IdleFacts, PlaceBack, PutTypes DEF StartDoes
<1>2. ASSUME NEW handOver \in BOOLEAN, StopDoes(handOver)
      PROVE  DrainFits'
  BY <1>2, <1>0, NowSame, IdleFacts, PlaceBack, PutTypes DEF StopDoes
<1>3. CASE RecoverDoes
  BY <1>3, <1>0, NowSame, IdleFacts, PlaceBack, PutTypes DEF RecoverDoes
<1>4. CASE ApplyPatchDoes
  BY <1>4, <1>0, NowSame, IdleFacts, PlaceBack, PutTypes DEF ApplyPatchDoes
<1>5. CASE ReapplyDoes
  BY <1>5, <1>0, NowSame, IdleFacts, PlaceBack, PutTypes DEF ReapplyDoes
<1>6. CASE LoseOwnerDoes
  BY <1>6, <1>0, NowSame, IdleFacts, PlaceBack, PutTypes DEF LoseOwnerDoes
<1>7. ASSUME NEW p \in {"apply", "clear", "stop", "refresh"}, LocalDoes(p)
      PROVE  DrainFits'
  BY <1>7, <1>0, NowSame, IdleFacts, PlaceBack, PutTypes DEF LocalDoes
<1>8. ASSUME NEW p \in {"apply", "clear", "stop", "refresh"}, WaitDoes(p)
      PROVE  DrainFits'
  BY <1>8, <1>0, NowSame, IdleFacts, PlaceBack, PutTypes DEF WaitDoes
<1>9. ASSUME NEW p \in {"apply", "clear", "stop", "refresh"}, HelperDoes(p)
      PROVE  DrainFits'
  BY <1>9, <1>0, NowSame, IdleFacts, PlaceBack, PutTypes DEF HelperDoes
<1>10. ASSUME NEW p \in {"apply", "clear", "stop", "refresh"}, CancelDoes(p)
       PROVE  DrainFits'
  BY <1>10, <1>0, NowSame, IdleFacts, PlaceBack, PutTypes DEF CancelDoes
<1>11. CASE AlreadyAppliedDoes
  BY <1>11, <1>0, NowSame, IdleFacts, PlaceBack, PutTypes DEF AlreadyAppliedDoes
<1>12. CASE AlreadyClearedDoes
  BY <1>12, <1>0, NowSame, IdleFacts, PlaceBack, PutTypes DEF AlreadyClearedDoes
<1>13. CASE WaitAgainDoes
  BY <1>13, <1>0, NowSame, IdleFacts, PlaceBack, PutTypes DEF WaitAgainDoes
<1>14. ASSUME NEW s \in {"first", "second"}, WriteDoes(s)
       PROVE  DrainFits'
  BY <1>14, <1>0, NowSame, IdleFacts, PlaceBack, PutTypes DEF WriteDoes
<1>15. ASSUME NEW s \in {"first", "second"}, TurnOffDoes(s)
       PROVE  DrainFits'
  BY <1>15, <1>0, NowSame, IdleFacts, PlaceBack, PutTypes DEF TurnOffDoes
<1>16. ASSUME NEW s \in {"first", "second"}, NEW partly \in BOOLEAN,
              NEW code \in Codes \cup {"none"}, WriteFailsDoes(s, partly, code)
       PROVE  DrainFits'
  BY <1>16, <1>0, NowSame, IdleFacts, PlaceBack, PutTypes DEF WriteFailsDoes
<1>17. ASSUME NEW s \in {"first", "second"}, NEW failed \in SUBSET Kinds,
              NEW code \in Codes \cup {"none"}, TurnOffFailsDoes(s, failed, code)
       PROVE  DrainFits'
  BY <1>17, <1>0, NowSame, IdleFacts, PlaceBack, PutTypes DEF TurnOffFailsDoes
<1>18. ASSUME NEW failed \in SUBSET Kinds, CompensateDoes(failed)
       PROVE  DrainFits'
  BY <1>18, <1>0, NowSame, IdleFacts, PlaceBack, PutTypes DEF CompensateDoes
<1>19. CASE InvalidateDoes
  BY <1>19, <1>0, NowSame, IdleFacts, PlaceBack, PutTypes DEF InvalidateDoes
<1>20. CASE QueueDoes
  BY <1>20, <1>0, NowSame, IdleFacts, PlaceBack, PutTypes DEF QueueDoes
<1>21. CASE ReleaseDoes
  BY <1>21, <1>0, NowSame, IdleFacts, PlaceBack, PutTypes DEF ReleaseDoes
<1>22. ASSUME NEW landed \in BOOLEAN, NEW answer \in {"applied", "fallback", "error"},
              AskedDoes(landed, answer)
       PROVE  DrainFits'
  BY <1>22, <1>0, NowSame, IdleFacts, PlaceBack, PutTypes DEF AskedDoes
<1>23. CASE GuardLocallyDoes
  BY <1>23, <1>0, NowSame, IdleFacts, PlaceBack, PutTypes DEF GuardLocallyDoes
<1>24. CASE GuardThroughHelperDoes
  BY <1>24, <1>0, NowSame, IdleFacts, PlaceBack, PutTypes DEF GuardThroughHelperDoes
<1>25. CASE CheckDoes
  BY <1>25, <1>0, NowSame, IdleFacts, PlaceBack, PutTypes DEF CheckDoes
<1>26. CASE FailDoes
  BY <1>26, <1>0, NowSame, IdleFacts, PlaceBack, PutTypes DEF FailDoes
<1>27. CASE EndDoes
  BY <1>27, <1>0, NowSame, IdleFacts, PlaceBack, PutTypes DEF EndDoes
<1>28. ASSUME NEW l \in loops, LoopAsksDoes(l)
       PROVE  DrainFits'
  BY <1>28, <1>0, NowSame, IdleFacts, PlaceBack, PutTypes DEF LoopAsksDoes
<1>29. ASSUME NEW l \in loops, LoopReportsDoes(l)
       PROVE  DrainFits'
  BY <1>29, <1>0, NowSame, IdleFacts, PlaceBack, PutTypes DEF LoopReportsDoes
<1>30. ASSUME NEW l \in loops, NEW landed \in BOOLEAN, NEW ok \in BOOLEAN,
              LoopAnsweredDoes(l, landed, ok)
       PROVE  DrainFits'
  BY <1>30, <1>0, NowSame, IdleFacts, PlaceBack, PutTypes DEF LoopAnsweredDoes
<1>31. CASE LocalBeginsDoes
  BY <1>31, <1>0, NowSame, IdleFacts, PlaceBack, PutTypes DEF LocalBeginsDoes
<1>32. CASE LocalLandsDoes
  BY <1>32, <1>0, NowSame, IdleFacts, PlaceBack, PutTypes DEF LocalLandsDoes
<1>33. CASE Elsewhere
  BY <1>33, <1>0, NowSame, IdleFacts, PlaceBack, PutTypes DEF Elsewhere
<1> QED BY <1>1, <1>2, <1>3, <1>4, <1>5, <1>6, <1>7, <1>8, <1>9, <1>10, <1>11, <1>12, <1>13, <1>14,
          <1>15, <1>16, <1>17, <1>18, <1>19, <1>20, <1>21, <1>22, <1>23, <1>24, <1>25, <1>26,
          <1>27, <1>28, <1>29, <1>30, <1>31, <1>32, <1>33 DEF Effect

\* Nothing is said of what is being written.
LEMMA QuietStepFits ==
  ASSUME Typed, Typed', CallFits, QuietFits, Effect PROVE QuietFits'
<1> USE DEF Done, Ended, GoesOn, Moves, Does, OneOf, Standing, other, core, watch, NowKnown,
          QuietFits, CallFits, Promises, Vouched, Steps, After, Applied, Cleared
<1>0. QuietFits /\ CallFits /\ NowKnown /\ promise \in Promises
  BY NowIsKnown DEF Typed
<1>1. ASSUME NEW m \in {"Service", "Sidecar"}, StartDoes(m)
      PROVE  QuietFits'
  BY <1>1, <1>0, NowSame, IdleFacts, PlaceBack, PutTypes DEF StartDoes
<1>2. ASSUME NEW handOver \in BOOLEAN, StopDoes(handOver)
      PROVE  QuietFits'
  BY <1>2, <1>0, NowSame, IdleFacts, PlaceBack, PutTypes DEF StopDoes
<1>3. CASE RecoverDoes
  BY <1>3, <1>0, NowSame, IdleFacts, PlaceBack, PutTypes DEF RecoverDoes
<1>4. CASE ApplyPatchDoes
  BY <1>4, <1>0, NowSame, IdleFacts, PlaceBack, PutTypes DEF ApplyPatchDoes
<1>5. CASE ReapplyDoes
  BY <1>5, <1>0, NowSame, IdleFacts, PlaceBack, PutTypes DEF ReapplyDoes
<1>6. CASE LoseOwnerDoes
  BY <1>6, <1>0, NowSame, IdleFacts, PlaceBack, PutTypes DEF LoseOwnerDoes
<1>7. ASSUME NEW p \in {"apply", "clear", "stop", "refresh"}, LocalDoes(p)
      PROVE  QuietFits'
  BY <1>7, <1>0, NowSame, IdleFacts, PlaceBack, PutTypes DEF LocalDoes
<1>8. ASSUME NEW p \in {"apply", "clear", "stop", "refresh"}, WaitDoes(p)
      PROVE  QuietFits'
  BY <1>8, <1>0, NowSame, IdleFacts, PlaceBack, PutTypes DEF WaitDoes
<1>9. ASSUME NEW p \in {"apply", "clear", "stop", "refresh"}, HelperDoes(p)
      PROVE  QuietFits'
  BY <1>9, <1>0, NowSame, IdleFacts, PlaceBack, PutTypes DEF HelperDoes
<1>10. ASSUME NEW p \in {"apply", "clear", "stop", "refresh"}, CancelDoes(p)
       PROVE  QuietFits'
  BY <1>10, <1>0, NowSame, IdleFacts, PlaceBack, PutTypes DEF CancelDoes
<1>11. CASE AlreadyAppliedDoes
  BY <1>11, <1>0, NowSame, IdleFacts, PlaceBack, PutTypes DEF AlreadyAppliedDoes
<1>12. CASE AlreadyClearedDoes
  BY <1>12, <1>0, NowSame, IdleFacts, PlaceBack, PutTypes DEF AlreadyClearedDoes
<1>13. CASE WaitAgainDoes
  BY <1>13, <1>0, NowSame, IdleFacts, PlaceBack, PutTypes DEF WaitAgainDoes
<1>14. ASSUME NEW s \in {"first", "second"}, WriteDoes(s)
       PROVE  QuietFits'
  BY <1>14, <1>0, NowSame, IdleFacts, PlaceBack, PutTypes DEF WriteDoes
<1>15. ASSUME NEW s \in {"first", "second"}, TurnOffDoes(s)
       PROVE  QuietFits'
  BY <1>15, <1>0, NowSame, IdleFacts, PlaceBack, PutTypes DEF TurnOffDoes
<1>16. ASSUME NEW s \in {"first", "second"}, NEW partly \in BOOLEAN,
              NEW code \in Codes \cup {"none"}, WriteFailsDoes(s, partly, code)
       PROVE  QuietFits'
  BY <1>16, <1>0, NowSame, IdleFacts, PlaceBack, PutTypes DEF WriteFailsDoes
<1>17. ASSUME NEW s \in {"first", "second"}, NEW failed \in SUBSET Kinds,
              NEW code \in Codes \cup {"none"}, TurnOffFailsDoes(s, failed, code)
       PROVE  QuietFits'
  BY <1>17, <1>0, NowSame, IdleFacts, PlaceBack, PutTypes DEF TurnOffFailsDoes
<1>18. ASSUME NEW failed \in SUBSET Kinds, CompensateDoes(failed)
       PROVE  QuietFits'
  BY <1>18, <1>0, NowSame, IdleFacts, PlaceBack, PutTypes DEF CompensateDoes
<1>19. CASE InvalidateDoes
  BY <1>19, <1>0, NowSame, IdleFacts, PlaceBack, PutTypes DEF InvalidateDoes
<1>20. CASE QueueDoes
  BY <1>20, <1>0, NowSame, IdleFacts, PlaceBack, PutTypes DEF QueueDoes
<1>21. CASE ReleaseDoes
  BY <1>21, <1>0, NowSame, IdleFacts, PlaceBack, PutTypes DEF ReleaseDoes
<1>22. ASSUME NEW landed \in BOOLEAN, NEW answer \in {"applied", "fallback", "error"},
              AskedDoes(landed, answer)
       PROVE  QuietFits'
  BY <1>22, <1>0, NowSame, IdleFacts, PlaceBack, PutTypes DEF AskedDoes
<1>23. CASE GuardLocallyDoes
  BY <1>23, <1>0, NowSame, IdleFacts, PlaceBack, PutTypes DEF GuardLocallyDoes
<1>24. CASE GuardThroughHelperDoes
  BY <1>24, <1>0, NowSame, IdleFacts, PlaceBack, PutTypes DEF GuardThroughHelperDoes
<1>25. CASE CheckDoes
  BY <1>25, <1>0, NowSame, IdleFacts, PlaceBack, PutTypes DEF CheckDoes
<1>26. CASE FailDoes
  BY <1>26, <1>0, NowSame, IdleFacts, PlaceBack, PutTypes DEF FailDoes
<1>27. CASE EndDoes
  BY <1>27, <1>0, NowSame, IdleFacts, PlaceBack, PutTypes DEF EndDoes
<1>28. ASSUME NEW l \in loops, LoopAsksDoes(l)
       PROVE  QuietFits'
  BY <1>28, <1>0, NowSame, IdleFacts, PlaceBack, PutTypes DEF LoopAsksDoes
<1>29. ASSUME NEW l \in loops, LoopReportsDoes(l)
       PROVE  QuietFits'
  BY <1>29, <1>0, NowSame, IdleFacts, PlaceBack, PutTypes DEF LoopReportsDoes
<1>30. ASSUME NEW l \in loops, NEW landed \in BOOLEAN, NEW ok \in BOOLEAN,
              LoopAnsweredDoes(l, landed, ok)
       PROVE  QuietFits'
  BY <1>30, <1>0, NowSame, IdleFacts, PlaceBack, PutTypes DEF LoopAnsweredDoes
<1>31. CASE LocalBeginsDoes
  BY <1>31, <1>0, NowSame, IdleFacts, PlaceBack, PutTypes DEF LocalBeginsDoes
<1>32. CASE LocalLandsDoes
  BY <1>32, <1>0, NowSame, IdleFacts, PlaceBack, PutTypes DEF LocalLandsDoes
<1>33. CASE Elsewhere
  BY <1>33, <1>0, NowSame, IdleFacts, PlaceBack, PutTypes DEF Elsewhere
<1> QED BY <1>1, <1>2, <1>3, <1>4, <1>5, <1>6, <1>7, <1>8, <1>9, <1>10, <1>11, <1>12, <1>13, <1>14,
          <1>15, <1>16, <1>17, <1>18, <1>19, <1>20, <1>21, <1>22, <1>23, <1>24, <1>25, <1>26,
          <1>27, <1>28, <1>29, <1>30, <1>31, <1>32, <1>33 DEF Effect

\* The two writes of an apply are those of the two kinds.
LEMMA StepFacts ==
  ASSUME NEW c
  PROVE  /\ Step(c, "first") \in Kinds /\ Step(c, "second") \in Kinds
         /\ \A k \in Kinds : k = Step(c, "first") \/ k = Step(c, "second")
BY DEF Step, Kinds

\* Nobody else writes between the two writes of an apply.
LEMMA FirstStepLasts ==
  ASSUME Typed, Typed', CallFits, LockFits, LoopsFit, DrainFits, FirstLasts,
         Effect PROVE FirstLasts'
<1> USE DEF Done, Ended, GoesOn, Moves, Does, OneOf, Standing, other, core, watch, NowKnown,
          FirstLasts, CallFits, DrainFits, LoopsFit, NoneAsks, Waited, Here, ThroughHelper,
          Systems, Steps, After, Applied, Cleared
<1>0. FirstLasts /\ CallFits /\ DrainFits /\ LoopsFit /\ NowKnown /\ os \in Systems
  BY NowIsKnown DEF Typed
<1>1. ASSUME NEW m \in {"Service", "Sidecar"}, StartDoes(m)
      PROVE  FirstLasts'
  BY <1>1, <1>0, NowSame, IdleFacts, StepFacts DEF StartDoes
<1>2. ASSUME NEW handOver \in BOOLEAN, StopDoes(handOver)
      PROVE  FirstLasts'
  BY <1>2, <1>0, NowSame, IdleFacts, StepFacts DEF StopDoes
<1>3. CASE RecoverDoes
  BY <1>3, <1>0, NowSame, IdleFacts, StepFacts DEF RecoverDoes
<1>4. CASE ApplyPatchDoes
  BY <1>4, <1>0, NowSame, IdleFacts, StepFacts DEF ApplyPatchDoes
<1>5. CASE ReapplyDoes
  BY <1>5, <1>0, NowSame, IdleFacts, StepFacts DEF ReapplyDoes
<1>6. CASE LoseOwnerDoes
  BY <1>6, <1>0, NowSame, IdleFacts, StepFacts DEF LoseOwnerDoes
<1>7. ASSUME NEW p \in {"apply", "clear", "stop", "refresh"}, LocalDoes(p)
      PROVE  FirstLasts'
  BY <1>7, <1>0, NowSame, IdleFacts, StepFacts DEF LocalDoes
<1>8. ASSUME NEW p \in {"apply", "clear", "stop", "refresh"}, WaitDoes(p)
      PROVE  FirstLasts'
  BY <1>8, <1>0, NowSame, IdleFacts, StepFacts DEF WaitDoes
<1>9. ASSUME NEW p \in {"apply", "clear", "stop", "refresh"}, HelperDoes(p)
      PROVE  FirstLasts'
  BY <1>9, <1>0, NowSame, IdleFacts, StepFacts DEF HelperDoes
<1>10. ASSUME NEW p \in {"apply", "clear", "stop", "refresh"}, CancelDoes(p)
       PROVE  FirstLasts'
  BY <1>10, <1>0, NowSame, IdleFacts, StepFacts DEF CancelDoes
<1>11. CASE AlreadyAppliedDoes
  BY <1>11, <1>0, NowSame, IdleFacts, StepFacts DEF AlreadyAppliedDoes
<1>12. CASE AlreadyClearedDoes
  BY <1>12, <1>0, NowSame, IdleFacts, StepFacts DEF AlreadyClearedDoes
<1>13. CASE WaitAgainDoes
  BY <1>13, <1>0, NowSame, IdleFacts, StepFacts DEF WaitAgainDoes
<1>14. ASSUME NEW s \in {"first", "second"}, WriteDoes(s)
       PROVE  FirstLasts'
  BY <1>14, <1>0, NowSame, IdleFacts, StepFacts DEF WriteDoes
<1>15. ASSUME NEW s \in {"first", "second"}, TurnOffDoes(s)
       PROVE  FirstLasts'
  BY <1>15, <1>0, NowSame, IdleFacts, StepFacts DEF TurnOffDoes
<1>16. ASSUME NEW s \in {"first", "second"}, NEW partly \in BOOLEAN,
              NEW code \in Codes \cup {"none"}, WriteFailsDoes(s, partly, code)
       PROVE  FirstLasts'
  BY <1>16, <1>0, NowSame, IdleFacts, StepFacts DEF WriteFailsDoes
<1>17. ASSUME NEW s \in {"first", "second"}, NEW failed \in SUBSET Kinds,
              NEW code \in Codes \cup {"none"}, TurnOffFailsDoes(s, failed, code)
       PROVE  FirstLasts'
  BY <1>17, <1>0, NowSame, IdleFacts, StepFacts DEF TurnOffFailsDoes
<1>18. ASSUME NEW failed \in SUBSET Kinds, CompensateDoes(failed)
       PROVE  FirstLasts'
  BY <1>18, <1>0, NowSame, IdleFacts, StepFacts DEF CompensateDoes
<1>19. CASE InvalidateDoes
  BY <1>19, <1>0, NowSame, IdleFacts, StepFacts DEF InvalidateDoes
<1>20. CASE QueueDoes
  BY <1>20, <1>0, NowSame, IdleFacts, StepFacts DEF QueueDoes
<1>21. CASE ReleaseDoes
  BY <1>21, <1>0, NowSame, IdleFacts, StepFacts DEF ReleaseDoes
<1>22. ASSUME NEW landed \in BOOLEAN, NEW answer \in {"applied", "fallback", "error"},
              AskedDoes(landed, answer)
       PROVE  FirstLasts'
  BY <1>22, <1>0, NowSame, IdleFacts, StepFacts DEF AskedDoes
<1>23. CASE GuardLocallyDoes
  BY <1>23, <1>0, NowSame, IdleFacts, StepFacts DEF GuardLocallyDoes
<1>24. CASE GuardThroughHelperDoes
  BY <1>24, <1>0, NowSame, IdleFacts, StepFacts DEF GuardThroughHelperDoes
<1>25. CASE CheckDoes
  BY <1>25, <1>0, NowSame, IdleFacts, StepFacts DEF CheckDoes
<1>26. CASE FailDoes
  BY <1>26, <1>0, NowSame, IdleFacts, StepFacts DEF FailDoes
<1>27. CASE EndDoes
  BY <1>27, <1>0, NowSame, IdleFacts, StepFacts DEF EndDoes
<1>28. ASSUME NEW l \in loops, LoopAsksDoes(l)
       PROVE  FirstLasts'
  BY <1>28, <1>0, NowSame, IdleFacts, StepFacts DEF LoopAsksDoes
<1>29. ASSUME NEW l \in loops, LoopReportsDoes(l)
       PROVE  FirstLasts'
  BY <1>29, <1>0, NowSame, IdleFacts, StepFacts DEF LoopReportsDoes
<1>30. ASSUME NEW l \in loops, NEW landed \in BOOLEAN, NEW ok \in BOOLEAN,
              LoopAnsweredDoes(l, landed, ok)
       PROVE  FirstLasts'
  BY <1>30, <1>0, NowSame, IdleFacts, StepFacts DEF LoopAnsweredDoes
<1>31. CASE LocalBeginsDoes
  BY <1>31, <1>0, NowSame, IdleFacts, StepFacts DEF LocalBeginsDoes
<1>32. CASE LocalLandsDoes
  BY <1>32, <1>0, NowSame, IdleFacts, StepFacts DEF LocalLandsDoes
<1>33. CASE Elsewhere
  BY <1>33, <1>0, NowSame, IdleFacts, StepFacts DEF Elsewhere
<1> QED BY <1>1, <1>2, <1>3, <1>4, <1>5, <1>6, <1>7, <1>8, <1>9, <1>10, <1>11, <1>12, <1>13, <1>14,
          <1>15, <1>16, <1>17, <1>18, <1>19, <1>20, <1>21, <1>22, <1>23, <1>24, <1>25, <1>26,
          <1>27, <1>28, <1>29, <1>30, <1>31, <1>32, <1>33 DEF Effect

\* A guard that has stopped is filed for as long as no other has started.
LEMMA ReportStepFits ==
  ASSUME Typed, Typed', CallFits, LockFits, LoopsFit, ReportFits, Effect PROVE ReportFits'
<1> USE DEF Done, Ended, GoesOn, Moves, Does, OneOf, Standing, other, core, watch, ReportFits,
          LoopsFit, Overtaken, Current, Applied, Cleared
<1>0. /\ ReportFits /\ LoopsFit
      /\ failures \in [Codes -> Operations \cup {"none"}] /\ call \in Calls
      /\ gen \in Nat /\ gen' \in Nat /\ \A l \in loops \cup loops' : l.gen \in Nat
  BY DEF Typed, Loops
<1>1. ASSUME NEW m \in {"Service", "Sidecar"}, StartDoes(m)
      PROVE  ReportFits'
  BY <1>1, <1>0, NowSame, IdleFacts, FiledKeeps, GuardFiled DEF StartDoes
<1>2. ASSUME NEW handOver \in BOOLEAN, StopDoes(handOver)
      PROVE  ReportFits'
  BY <1>2, <1>0, NowSame, IdleFacts, FiledKeeps, GuardFiled DEF StopDoes
<1>3. CASE RecoverDoes
  BY <1>3, <1>0, NowSame, IdleFacts, FiledKeeps, GuardFiled DEF RecoverDoes
<1>4. CASE ApplyPatchDoes
  BY <1>4, <1>0, NowSame, IdleFacts, FiledKeeps, GuardFiled DEF ApplyPatchDoes
<1>5. CASE ReapplyDoes
  BY <1>5, <1>0, NowSame, IdleFacts, FiledKeeps, GuardFiled DEF ReapplyDoes
<1>6. CASE LoseOwnerDoes
  BY <1>6, <1>0, NowSame, IdleFacts, FiledKeeps, GuardFiled DEF LoseOwnerDoes
<1>7. ASSUME NEW p \in {"apply", "clear", "stop", "refresh"}, LocalDoes(p)
      PROVE  ReportFits'
  BY <1>7, <1>0, NowSame, IdleFacts, FiledKeeps, GuardFiled DEF LocalDoes
<1>8. ASSUME NEW p \in {"apply", "clear", "stop", "refresh"}, WaitDoes(p)
      PROVE  ReportFits'
  BY <1>8, <1>0, NowSame, IdleFacts, FiledKeeps, GuardFiled DEF WaitDoes
<1>9. ASSUME NEW p \in {"apply", "clear", "stop", "refresh"}, HelperDoes(p)
      PROVE  ReportFits'
  BY <1>9, <1>0, NowSame, IdleFacts, FiledKeeps, GuardFiled DEF HelperDoes
<1>10. ASSUME NEW p \in {"apply", "clear", "stop", "refresh"}, CancelDoes(p)
       PROVE  ReportFits'
  BY <1>10, <1>0, NowSame, IdleFacts, FiledKeeps, GuardFiled DEF CancelDoes
<1>11. CASE AlreadyAppliedDoes
  BY <1>11, <1>0, NowSame, IdleFacts, FiledKeeps, GuardFiled DEF AlreadyAppliedDoes
<1>12. CASE AlreadyClearedDoes
  BY <1>12, <1>0, NowSame, IdleFacts, FiledKeeps, GuardFiled DEF AlreadyClearedDoes
<1>13. CASE WaitAgainDoes
  BY <1>13, <1>0, NowSame, IdleFacts, FiledKeeps, GuardFiled DEF WaitAgainDoes
<1>14. ASSUME NEW s \in {"first", "second"}, WriteDoes(s)
       PROVE  ReportFits'
  BY <1>14, <1>0, NowSame, IdleFacts, FiledKeeps, GuardFiled DEF WriteDoes
<1>15. ASSUME NEW s \in {"first", "second"}, TurnOffDoes(s)
       PROVE  ReportFits'
  BY <1>15, <1>0, NowSame, IdleFacts, FiledKeeps, GuardFiled DEF TurnOffDoes
<1>16. ASSUME NEW s \in {"first", "second"}, NEW partly \in BOOLEAN,
              NEW code \in Codes \cup {"none"}, WriteFailsDoes(s, partly, code)
       PROVE  ReportFits'
  BY <1>16, <1>0, NowSame, IdleFacts, FiledKeeps, GuardFiled DEF WriteFailsDoes
<1>17. ASSUME NEW s \in {"first", "second"}, NEW failed \in SUBSET Kinds,
              NEW code \in Codes \cup {"none"}, TurnOffFailsDoes(s, failed, code)
       PROVE  ReportFits'
  BY <1>17, <1>0, NowSame, IdleFacts, FiledKeeps, GuardFiled DEF TurnOffFailsDoes
<1>18. ASSUME NEW failed \in SUBSET Kinds, CompensateDoes(failed)
       PROVE  ReportFits'
  BY <1>18, <1>0, NowSame, IdleFacts, FiledKeeps, GuardFiled DEF CompensateDoes
<1>19. CASE InvalidateDoes
  BY <1>19, <1>0, NowSame, IdleFacts, FiledKeeps, GuardFiled DEF InvalidateDoes
<1>20. CASE QueueDoes
  BY <1>20, <1>0, NowSame, IdleFacts, FiledKeeps, GuardFiled DEF QueueDoes
<1>21. CASE ReleaseDoes
  BY <1>21, <1>0, NowSame, IdleFacts, FiledKeeps, GuardFiled DEF ReleaseDoes
<1>22. ASSUME NEW landed \in BOOLEAN, NEW answer \in {"applied", "fallback", "error"},
              AskedDoes(landed, answer)
       PROVE  ReportFits'
  BY <1>22, <1>0, NowSame, IdleFacts, FiledKeeps, GuardFiled DEF AskedDoes
<1>23. CASE GuardLocallyDoes
  BY <1>23, <1>0, NowSame, IdleFacts, FiledKeeps, GuardFiled DEF GuardLocallyDoes
<1>24. CASE GuardThroughHelperDoes
  BY <1>24, <1>0, NowSame, IdleFacts, FiledKeeps, GuardFiled DEF GuardThroughHelperDoes
<1>25. CASE CheckDoes
  BY <1>25, <1>0, NowSame, IdleFacts, FiledKeeps, GuardFiled DEF CheckDoes
<1>26. CASE FailDoes
  BY <1>26, <1>0, NowSame, IdleFacts, FiledKeeps, GuardFiled DEF FailDoes
<1>27. CASE EndDoes
  BY <1>27, <1>0, NowSame, IdleFacts, FiledKeeps, GuardFiled DEF EndDoes
<1>28. ASSUME NEW l \in loops, LoopAsksDoes(l)
       PROVE  ReportFits'
  BY <1>28, <1>0, NowSame, IdleFacts, FiledKeeps, GuardFiled DEF LoopAsksDoes
<1>29. ASSUME NEW l \in loops, LoopReportsDoes(l)
       PROVE  ReportFits'
  BY <1>29, <1>0, NowSame, IdleFacts, FiledKeeps, GuardFiled DEF LoopReportsDoes
<1>30. ASSUME NEW l \in loops, NEW landed \in BOOLEAN, NEW ok \in BOOLEAN,
              LoopAnsweredDoes(l, landed, ok)
       PROVE  ReportFits'
  BY <1>30, <1>0, NowSame, IdleFacts, FiledKeeps, GuardFiled DEF LoopAnsweredDoes
<1>31. CASE LocalBeginsDoes
  BY <1>31, <1>0, NowSame, IdleFacts, FiledKeeps, GuardFiled DEF LocalBeginsDoes
<1>32. CASE LocalLandsDoes
  BY <1>32, <1>0, NowSame, IdleFacts, FiledKeeps, GuardFiled DEF LocalLandsDoes
<1>33. CASE Elsewhere
  BY <1>33, <1>0, NowSame, IdleFacts, FiledKeeps, GuardFiled DEF Elsewhere
<1> QED BY <1>1, <1>2, <1>3, <1>4, <1>5, <1>6, <1>7, <1>8, <1>9, <1>10, <1>11, <1>12, <1>13, <1>14,
          <1>15, <1>16, <1>17, <1>18, <1>19, <1>20, <1>21, <1>22, <1>23, <1>24, <1>25, <1>26,
          <1>27, <1>28, <1>29, <1>30, <1>31, <1>32, <1>33 DEF Effect

\* The latest write is not that of a generation to come.
LEMMA WriterStepFits ==
  ASSUME Typed, Typed', CallFits, LockFits, LoopsFit, WriterFits, Effect PROVE WriterFits'
<1> USE DEF Done, Ended, GoesOn, Moves, Does, OneOf, Standing, other, core, watch, WriterFits,
          LoopsFit, LockFits, Fresh, Overtaken, NoneAsks, Asking, Current, Applied, Cleared
<1>0. /\ WriterFits /\ LoopsFit /\ LockFits /\ CallFits /\ gen \in Nat /\ gen' \in Nat /\ writer \in Nat
      /\ \A l \in loops \cup loops' : l.gen \in Nat
  BY DEF Typed, Loops
<1>1. ASSUME NEW m \in {"Service", "Sidecar"}, StartDoes(m)
      PROVE  WriterFits'
  BY <1>1, <1>0 DEF StartDoes
<1>2. ASSUME NEW handOver \in BOOLEAN, StopDoes(handOver)
      PROVE  WriterFits'
  BY <1>2, <1>0 DEF StopDoes
<1>3. CASE RecoverDoes
  BY <1>3, <1>0 DEF RecoverDoes
<1>4. CASE ApplyPatchDoes
  BY <1>4, <1>0 DEF ApplyPatchDoes
<1>5. CASE ReapplyDoes
  BY <1>5, <1>0 DEF ReapplyDoes
<1>6. CASE LoseOwnerDoes
  BY <1>6, <1>0 DEF LoseOwnerDoes
<1>7. ASSUME NEW p \in {"apply", "clear", "stop", "refresh"}, LocalDoes(p)
      PROVE  WriterFits'
  BY <1>7, <1>0 DEF LocalDoes
<1>8. ASSUME NEW p \in {"apply", "clear", "stop", "refresh"}, WaitDoes(p)
      PROVE  WriterFits'
  BY <1>8, <1>0 DEF WaitDoes
<1>9. ASSUME NEW p \in {"apply", "clear", "stop", "refresh"}, HelperDoes(p)
      PROVE  WriterFits'
  BY <1>9, <1>0 DEF HelperDoes
<1>10. ASSUME NEW p \in {"apply", "clear", "stop", "refresh"}, CancelDoes(p)
       PROVE  WriterFits'
  BY <1>10, <1>0 DEF CancelDoes
<1>11. CASE AlreadyAppliedDoes
  BY <1>11, <1>0 DEF AlreadyAppliedDoes
<1>12. CASE AlreadyClearedDoes
  BY <1>12, <1>0 DEF AlreadyClearedDoes
<1>13. CASE WaitAgainDoes
  BY <1>13, <1>0 DEF WaitAgainDoes
<1>14. ASSUME NEW s \in {"first", "second"}, WriteDoes(s)
       PROVE  WriterFits'
  BY <1>14, <1>0 DEF WriteDoes
<1>15. ASSUME NEW s \in {"first", "second"}, TurnOffDoes(s)
       PROVE  WriterFits'
  BY <1>15, <1>0 DEF TurnOffDoes
<1>16. ASSUME NEW s \in {"first", "second"}, NEW partly \in BOOLEAN,
              NEW code \in Codes \cup {"none"}, WriteFailsDoes(s, partly, code)
       PROVE  WriterFits'
  BY <1>16, <1>0 DEF WriteFailsDoes
<1>17. ASSUME NEW s \in {"first", "second"}, NEW failed \in SUBSET Kinds,
              NEW code \in Codes \cup {"none"}, TurnOffFailsDoes(s, failed, code)
       PROVE  WriterFits'
  BY <1>17, <1>0 DEF TurnOffFailsDoes
<1>18. ASSUME NEW failed \in SUBSET Kinds, CompensateDoes(failed)
       PROVE  WriterFits'
  BY <1>18, <1>0 DEF CompensateDoes
<1>19. CASE InvalidateDoes
  BY <1>19, <1>0 DEF InvalidateDoes
<1>20. CASE QueueDoes
  BY <1>20, <1>0 DEF QueueDoes
<1>21. CASE ReleaseDoes
  BY <1>21, <1>0 DEF ReleaseDoes
<1>22. ASSUME NEW landed \in BOOLEAN, NEW answer \in {"applied", "fallback", "error"},
              AskedDoes(landed, answer)
       PROVE  WriterFits'
  BY <1>22, <1>0 DEF AskedDoes
<1>23. CASE GuardLocallyDoes
  BY <1>23, <1>0 DEF GuardLocallyDoes
<1>24. CASE GuardThroughHelperDoes
  BY <1>24, <1>0 DEF GuardThroughHelperDoes, NewLoop
<1>25. CASE CheckDoes
  BY <1>25, <1>0 DEF CheckDoes
<1>26. CASE FailDoes
  BY <1>26, <1>0 DEF FailDoes
<1>27. CASE EndDoes
  BY <1>27, <1>0 DEF EndDoes
<1>28. ASSUME NEW l \in loops, LoopAsksDoes(l)
       PROVE  WriterFits'
  BY <1>28, <1>0 DEF LoopAsksDoes
<1>29. ASSUME NEW l \in loops, LoopReportsDoes(l)
       PROVE  WriterFits'
  BY <1>29, <1>0 DEF LoopReportsDoes
<1>30. ASSUME NEW l \in loops, NEW landed \in BOOLEAN, NEW ok \in BOOLEAN,
              LoopAnsweredDoes(l, landed, ok)
       PROVE  WriterFits'
  BY <1>30, <1>0 DEF LoopAnsweredDoes
<1>31. CASE LocalBeginsDoes
  BY <1>31, <1>0 DEF LocalBeginsDoes
<1>32. CASE LocalLandsDoes
  BY <1>32, <1>0 DEF LocalLandsDoes
<1>33. CASE Elsewhere
  BY <1>33, <1>0 DEF Elsewhere
<1> QED BY <1>1, <1>2, <1>3, <1>4, <1>5, <1>6, <1>7, <1>8, <1>9, <1>10, <1>11, <1>12, <1>13, <1>14,
          <1>15, <1>16, <1>17, <1>18, <1>19, <1>20, <1>21, <1>22, <1>23, <1>24, <1>25, <1>26,
          <1>27, <1>28, <1>29, <1>30, <1>31, <1>32, <1>33 DEF Effect

\* Where the helper is not in use, and after a generation nobody follows, no loop counts.
LEMMA NoThreat ==
  ASSUME Typed, LoopsFit, ~ThroughHelper \/ (Overtaken /\ NoneAsks)
  PROVE  \A l \in loops : ~Threat(l)
<1>1. gen \in Nat /\ \A l \in loops : l.gen \in Nat
  BY DEF Typed, Loops
<1> QED BY <1>1 DEF LoopsFit, ThroughHelper, Overtaken, NoneAsks, Threat, Current

\* What a guard writes is what the settings it has been started with ask for.
LEMMA TargetFacts ==
  ASSUME NEW c
  PROVE  /\ ~c.sys => Target(c) = Off
         /\ GuardType(c) # "none" => Target(c) = On(GuardType(c))
<1>1. ~c.sys => Wanted(c) = "none"
  BY DEF Wanted
<1>2. Wanted(c) = "none" => Target(c) = Off
  BY DEF Target, Off, Kinds
<1>3. GuardType(c) # "none" => GuardType(c) = Wanted(c) /\ Wanted(c) \in Kinds
  BY DEF GuardType, Wanted, Kinds
<1>4. ASSUME NEW k \in Kinds, Wanted(c) = k PROVE Target(c) = On(k)
  BY <1>4 DEF Target, On, Off
<1> QED BY <1>1, <1>2, <1>3, <1>4

\* A call that is about to start the guard has not started it yet.
LEMMA GuardingFacts ==
  ASSUME call \in Calls
  PROVE  /\ Now = "refresh" => call.todo \in Guarding
         /\ call.todo \in Guarding => Now \in {"check", "refresh"}
<1>1. call.todo \in Todos
  BY DEF Calls
<1> QED BY <1>1, NowFacts DEF Todos, Guarding, Now

\* No loop counts that did not, and no local guard may run that might not.
Threats == \A l \in loops' : Threat(l)' => \E m \in loops : Threat(m) /\ m.cfg = l.cfg
Meek == Threats /\ (GuardMayRun' => GuardMayRun)

\* A promise lasts while neither it nor the OS changes.
LEMMA PromiseLasts ==
  ASSUME PromiseFits, Meek, UNCHANGED <<os, promise>>, UNCHANGED local \/ Shut
  PROVE  PromiseFits'
BY DEF PromiseFits, Meek, Threats, Told, Shut

\* A new promise is that of what has just been written, with nobody else at work.
LEMMA PromiseMade ==
  ASSUME NEW t, promise'.os \in {{}, {t}}, promise'.guard = {}, promise'.os # {} => os' = t,
         \A l \in loops' : ~Threat(l)',
         promise'.os # {} => local'.run = "stopped",
         local'.type # "none" /\ call'.todo \in Guarding /\ ~ThroughHelper' => t = On(local'.type)
  PROVE  PromiseFits'
BY DEF PromiseFits, Told, GuardMayRun

\* Writing a kind that is on already changes nothing.
LEMMA WrittenAgain ==
  ASSUME NEW k \in Kinds PROVE [On(k) EXCEPT ![k] = "on"] = On(k)
BY DEF On, Off

\* What is promised is there, and stays.
LEMMA PromiseStepFits ==
  ASSUME Typed, Typed', CallFits, LockFits, LoopsFit, DrainFits, QuietFits, FirstLasts,
         PromiseFits, Effect PROVE PromiseFits'
<1> USE DEF Done, Ended, GoesOn, Moves, Does, OneOf, Standing, other, core, watch
<1>0. /\ PromiseFits /\ QuietFits /\ DrainFits /\ CallFits /\ NowKnown
      /\ LoopsFit /\ LockFits /\ FirstLasts
      /\ promise \in Promises /\ os \in Systems /\ local \in Locals /\ call \in Calls
  BY NowIsKnown DEF Typed
<1>l. /\ gen \in Nat /\ gen' \in Nat /\ \A l \in loops \cup loops' : l.gen \in Nat
      /\ ~ThroughHelper \/ (Overtaken /\ NoneAsks) => \A l \in loops : ~Threat(l)
  BY NoThreat DEF Typed, Loops
<1>g. /\ call.todo \in Guarding => Now \in {"check", "refresh"}
      /\ call'.todo \in Guarding => Now' \in {"check", "refresh"}
  <2>1. (call \in Calls => (call.todo \in Guarding => Now \in {"check", "refresh"}))'
    BY GuardingFacts, PTL
  <2> QED BY <2>1, GuardingFacts DEF Typed
<1>a. ASSUME promise'.os = {} PROVE PromiseFits'
  BY <1>a DEF PromiseFits
<1>1. ASSUME NEW m \in {"Service", "Sidecar"}, StartDoes(m)
      PROVE  PromiseFits'
  <2>1. Threats
    BY <1>1, <1>l, <1>0
    DEF StartDoes, ThroughHelper, IsMac, LoopsFit, Overtaken, NoneAsks, Threats, Threat, Current,
        Asking
  <2>2. GuardMayRun' => GuardMayRun
    BY <1>1, <1>g DEF StartDoes, GuardMayRun, ThroughHelper, IsMac, Shut
  <2> QED BY <1>1, <2>1, <2>2, <1>a, PutTypes, PromiseLasts DEF StartDoes, Meek
<1>2. ASSUME NEW handOver \in BOOLEAN, StopDoes(handOver)
      PROVE  PromiseFits'
  <2>1. Threats
    BY <1>2, <1>l DEF StopDoes, ThroughHelper, IsMac, Threats, Threat, Current, Asking
  <2>2. GuardMayRun' => GuardMayRun
    BY <1>2, <1>g DEF StopDoes, GuardMayRun, ThroughHelper, IsMac, Shut
  <2> QED BY <1>2, <2>1, <2>2, <1>a, PutTypes, PromiseLasts DEF StopDoes, Meek
<1>3. CASE RecoverDoes
  <2>1. Threats
    BY <1>3, <1>l DEF RecoverDoes, ThroughHelper, IsMac, Threats, Threat, Current, Asking
  <2>2. GuardMayRun' => GuardMayRun
    BY <1>3, <1>g DEF RecoverDoes, GuardMayRun, ThroughHelper, IsMac, Shut
  <2> QED BY <1>3, <2>1, <2>2, <1>a, PutTypes, PromiseLasts DEF RecoverDoes, Meek
<1>4. CASE ApplyPatchDoes
  <2>1. Threats
    BY <1>4, <1>l DEF ApplyPatchDoes, ThroughHelper, IsMac, Threats, Threat, Current, Asking
  <2>2. GuardMayRun' => GuardMayRun
    BY <1>4, <1>g DEF ApplyPatchDoes, GuardMayRun, ThroughHelper, IsMac, Shut
  <2> QED BY <1>4, <2>1, <2>2, <1>a, PutTypes, PromiseLasts DEF ApplyPatchDoes, Meek
<1>5. CASE ReapplyDoes
  <2>1. Threats
    BY <1>5, <1>l DEF ReapplyDoes, ThroughHelper, IsMac, Threats, Threat, Current, Asking
  <2>2. GuardMayRun' => GuardMayRun
    BY <1>5, <1>g DEF ReapplyDoes, GuardMayRun, ThroughHelper, IsMac, Shut
  <2> QED BY <1>5, <2>1, <2>2, <1>a, PutTypes, PromiseLasts DEF ReapplyDoes, Meek
<1>6. CASE LoseOwnerDoes
  <2>1. Threats
    BY <1>6, <1>l DEF LoseOwnerDoes, ThroughHelper, IsMac, Threats, Threat, Current, Asking
  <2>2. GuardMayRun' => GuardMayRun
    BY <1>6, <1>g DEF LoseOwnerDoes, GuardMayRun, ThroughHelper, IsMac, Shut
  <2> QED BY <1>6, <2>1, <2>2, <1>a, PutTypes, PromiseLasts DEF LoseOwnerDoes, Meek
<1>7. ASSUME NEW p \in {"apply", "clear", "stop", "refresh"}, LocalDoes(p)
      PROVE  PromiseFits'
  <2>1. Threats
    BY <1>7, <1>l DEF LocalDoes, ThroughHelper, IsMac, Threats, Threat, Current, Asking
  <2>2. GuardMayRun' => GuardMayRun
    BY <1>7, <1>g DEF LocalDoes, GuardMayRun, ThroughHelper, IsMac, Shut
  <2> QED BY <1>7, <2>1, <2>2, <1>a, PutTypes, PromiseLasts DEF LocalDoes, Meek
<1>8. ASSUME NEW p \in {"apply", "clear", "stop", "refresh"}, WaitDoes(p)
      PROVE  PromiseFits'
  <2>1. Threats
    BY <1>8, <1>l DEF WaitDoes, ThroughHelper, IsMac, Threats, Threat, Current, Asking
  <2>2. GuardMayRun' => GuardMayRun
    BY <1>8, <1>g DEF WaitDoes, GuardMayRun, ThroughHelper, IsMac, Shut
  <2> QED BY <1>8, <2>1, <2>2, <1>a, PutTypes, PromiseLasts DEF WaitDoes, Meek
<1>9. ASSUME NEW p \in {"apply", "clear", "stop", "refresh"}, HelperDoes(p)
      PROVE  PromiseFits'
  <2>1. Threats
    BY <1>9, <1>l DEF HelperDoes, ThroughHelper, IsMac, Threats, Threat, Current, Asking
  <2>2. GuardMayRun' => GuardMayRun
    BY <1>9, <1>g DEF HelperDoes, GuardMayRun, ThroughHelper, IsMac, Shut
  <2> QED BY <1>9, <2>1, <2>2, <1>a, PutTypes, PromiseLasts DEF HelperDoes, Meek
<1>10. ASSUME NEW p \in {"apply", "clear", "stop", "refresh"}, CancelDoes(p)
       PROVE  PromiseFits'
  <2>1. Threats
    BY <1>10, <1>l, <1>0
    DEF CancelDoes, ThroughHelper, IsMac, LoopsFit, Overtaken, NoneAsks, Threats, Threat, Current,
        Asking
  <2>2. GuardMayRun' => GuardMayRun
    BY <1>10, <1>g DEF CancelDoes, GuardMayRun, ThroughHelper, IsMac, Shut
  <2> QED BY <1>10, <2>1, <2>2, <1>a, PutTypes, PromiseLasts DEF CancelDoes, Meek
<1>11. CASE AlreadyAppliedDoes
  <2>1. /\ promise'.os = (IF call.drained /\ Written THEN {Target(call.cfg)} ELSE {}) \/ promise' = promise
        /\ promise'.guard = {} /\ promise.os = {}
    <3>1. promise' = promise \/ Vouched(Target(call.cfg), Written)
      BY <1>11 DEF AlreadyAppliedDoes, Applied, Cleared
    <3>2. promise.os = {} /\ promise.guard = {}
      BY <1>11, <1>0, PlaceBack DEF AlreadyAppliedDoes, QuietFits, CallFits, NowKnown
    <3> QED BY <3>1, <3>2, <1>0 DEF Vouched, Promises
  <2>2. \A l \in loops' : ~Threat(l)'
    BY <1>11, <1>l, <1>0
    DEF AlreadyAppliedDoes, CallFits, Here, LoopsFit, LockFits, Fresh, NoneAsks, ThroughHelper,
        IsMac, Threat, Current, Asking
  <2>3. promise'.os # {} => local'.run = "stopped"
    BY <1>11, <2>1, <1>0 DEF AlreadyAppliedDoes, DrainFits, Waited, CallFits, Applied
  <2>4. local'.type # "none" => Target(call.cfg) = On(local'.type)
    BY <1>11, TargetFacts DEF AlreadyAppliedDoes, Applied
  <2> QED BY <1>11, <2>1, <2>2, <2>3, <2>4, PromiseMade, <1>a DEF AlreadyAppliedDoes
<1>12. CASE AlreadyClearedDoes
  <2>1. /\ promise'.os = (IF call.drained /\ Written THEN {Off} ELSE {}) \/ promise' = promise
        /\ promise'.guard = {} /\ promise.os = {}
    <3>1. promise' = promise \/ Vouched(Off, Written)
      BY <1>12 DEF AlreadyClearedDoes, Applied, Cleared
    <3>2. promise.os = {} /\ promise.guard = {}
      BY <1>12, <1>0, PlaceBack DEF AlreadyClearedDoes, QuietFits, CallFits, NowKnown
    <3> QED BY <3>1, <3>2, <1>0 DEF Vouched, Promises
  <2>2. \A l \in loops' : ~Threat(l)'
    BY <1>12, <1>l, <1>0
    DEF AlreadyClearedDoes, CallFits, Here, LoopsFit, LockFits, Fresh, NoneAsks, ThroughHelper,
        IsMac, Threat, Current, Asking
  <2>3. promise'.os # {} => local'.run = "stopped"
    BY <1>12, <2>1, <1>0 DEF AlreadyClearedDoes, DrainFits, Waited, CallFits, Applied
  <2>4. call'.todo \notin Guarding
    BY <1>12, <1>g DEF AlreadyClearedDoes, Cleared, After
  <2> QED BY <1>12, <2>1, <2>2, <2>3, <2>4, PromiseMade, <1>a DEF AlreadyClearedDoes
<1>13. CASE WaitAgainDoes
  <2>1. Threats
    BY <1>13, <1>l DEF WaitAgainDoes, ThroughHelper, IsMac, Threats, Threat, Current, Asking
  <2>2. GuardMayRun' => GuardMayRun
    BY <1>13, <1>g DEF WaitAgainDoes, GuardMayRun, ThroughHelper, IsMac, Shut
  <2> QED BY <1>13, <2>1, <2>2, <1>a, PutTypes, PromiseLasts DEF WaitAgainDoes, Meek
<1>14. ASSUME NEW s \in {"first", "second"}, WriteDoes(s)
       PROVE  PromiseFits'
  <2>1. /\ promise'.os = (IF call.drained /\ Written THEN {Target(call.cfg)} ELSE {}) \/ promise' = promise
        /\ promise'.guard = {} /\ promise.os = {}
    <3>1. promise' = promise \/ Vouched(Target(call.cfg), Written)
      BY <1>14 DEF WriteDoes, Applied, Cleared
    <3>2. promise.os = {} /\ promise.guard = {}
      BY <1>14, <1>0, PlaceBack DEF WriteDoes, QuietFits, CallFits, NowKnown
    <3> QED BY <3>1, <3>2, <1>0 DEF Vouched, Promises
  <2>2. \A l \in loops' : ~Threat(l)'
    BY <1>14, <1>l, <1>0
    DEF WriteDoes, CallFits, Here, LoopsFit, LockFits, Fresh, NoneAsks, ThroughHelper, IsMac,
        Threat, Current, Asking
  <2>3. promise'.os # {} => local'.run = "stopped"
    BY <1>14, <2>1, <1>0 DEF WriteDoes, DrainFits, Waited, CallFits, Applied
  <2>4. CASE s = "first"
    BY <1>14, <2>1, <2>4, <1>a DEF WriteDoes
  <2>5. CASE s = "second"
    <3>1. local'.type # "none" => Target(call.cfg) = On(local'.type)
      BY <1>14, <2>5, TargetFacts DEF WriteDoes, Applied
    <3>2. promise'.os # {} => os' = Target(call.cfg)
      <4>1. Target(call.cfg) \in Systems
        BY SystemTypes
      <4>2. SUFFICES ASSUME promise'.os # {}, promise' # promise PROVE os' = Target(call.cfg)
        BY <2>1
      <4>3. call.drained /\ ~call.skipped /\ (IsMac => net)
        BY <2>1, <4>2 DEF Written
      <4>4. os[Step(call.cfg, "first")] = Target(call.cfg)[Step(call.cfg, "first")]
        BY <1>14, <1>0, <2>5, <4>3 DEF FirstLasts, WriteDoes
      <4>5. os' = [os EXCEPT ![Step(call.cfg, "second")] = Target(call.cfg)[Step(call.cfg, "second")]]
        BY <1>14, <2>5, <4>3 DEF WriteDoes
      <4> QED BY <4>1, <4>4, <4>5, <1>0, StepFacts DEF Systems
    <3> QED BY <2>1, <2>2, <2>3, <3>1, <3>2, PromiseMade, <1>a
  <2> QED BY <2>4, <2>5
<1>15. ASSUME NEW s \in {"first", "second"}, TurnOffDoes(s)
       PROVE  PromiseFits'
  <2>1. /\ promise'.os = (IF call.drained /\ Written THEN {Off} ELSE {}) \/ promise' = promise
        /\ promise'.guard = {} /\ promise.os = {}
    <3>1. promise' = promise \/ Vouched(Off, Written)
      BY <1>15 DEF TurnOffDoes, Applied, Cleared
    <3>2. promise.os = {} /\ promise.guard = {}
      BY <1>15, <1>0, PlaceBack DEF TurnOffDoes, QuietFits, CallFits, NowKnown
    <3> QED BY <3>1, <3>2, <1>0 DEF Vouched, Promises
  <2>2. \A l \in loops' : ~Threat(l)'
    BY <1>15, <1>l, <1>0
    DEF TurnOffDoes, CallFits, Here, LoopsFit, LockFits, Fresh, NoneAsks, ThroughHelper, IsMac,
        Threat, Current, Asking
  <2>3. promise'.os # {} => local'.run = "stopped"
    BY <1>15, <2>1, <1>0 DEF TurnOffDoes, DrainFits, Waited, CallFits, Applied
  <2>4. call'.todo \notin Guarding \/ promise' = promise
    BY <1>15, <1>g DEF TurnOffDoes, Cleared, After
  <2>5. promise' # promise /\ promise'.os # {} => os' = Off
    BY <1>15, <2>1 DEF TurnOffDoes, Written
  <2> QED BY <2>1, <2>2, <2>3, <2>4, <2>5, PromiseMade, <1>a
<1>16. ASSUME NEW s \in {"first", "second"}, NEW partly \in BOOLEAN,
              NEW code \in Codes \cup {"none"}, WriteFailsDoes(s, partly, code)
       PROVE  PromiseFits'
  BY <1>16, <1>0, <1>a DEF WriteFailsDoes, QuietFits
<1>17. ASSUME NEW s \in {"first", "second"}, NEW failed \in SUBSET Kinds,
              NEW code \in Codes \cup {"none"}, TurnOffFailsDoes(s, failed, code)
       PROVE  PromiseFits'
  BY <1>17, <1>0, <1>a DEF TurnOffFailsDoes, QuietFits
<1>18. ASSUME NEW failed \in SUBSET Kinds, CompensateDoes(failed)
       PROVE  PromiseFits'
  BY <1>18, <1>0, <1>a DEF CompensateDoes, QuietFits
<1>19. CASE InvalidateDoes
  <2>1. Threats
    BY <1>19, <1>l, <1>0
    DEF InvalidateDoes, ThroughHelper, IsMac, LoopsFit, Overtaken, NoneAsks, Threats, Threat,
        Current, Asking
  <2>2. GuardMayRun' => GuardMayRun
    BY <1>19, <1>g DEF InvalidateDoes, GuardMayRun, ThroughHelper, IsMac, Shut
  <2> QED BY <1>19, <2>1, <2>2, <1>a, PutTypes, PromiseLasts DEF InvalidateDoes, Meek
<1>20. CASE QueueDoes
  <2>1. Threats
    BY <1>20, <1>l DEF QueueDoes, ThroughHelper, IsMac, Threats, Threat, Current, Asking
  <2>2. GuardMayRun' => GuardMayRun
    BY <1>20, <1>g DEF QueueDoes, GuardMayRun, ThroughHelper, IsMac, Shut
  <2> QED BY <1>20, <2>1, <2>2, <1>a, PutTypes, PromiseLasts DEF QueueDoes, Meek
<1>21. CASE ReleaseDoes
  BY <1>21, <1>0, <1>l, <1>g, <1>a, GuardingFacts, PutTypes
  DEF ReleaseDoes, PromiseFits, QuietFits, DrainFits, GuardMayRun, Waited, Told, Promises, Vouched,
      ThroughHelper, IsMac, Shut, Threat, Current, Applied, Cleared
<1>22. ASSUME NEW landed \in BOOLEAN, NEW answer \in {"applied", "fallback", "error"},
              AskedDoes(landed, answer)
       PROVE  PromiseFits'
  <2>1. /\ promise'.os = (IF call.drained THEN {Target(call.cfg)} ELSE {}) \/ promise' = promise
        /\ promise'.guard = {} /\ promise.os = {}
    <3>1. promise' = promise \/ Vouched(Target(call.cfg), TRUE)
      BY <1>22 DEF AskedDoes, Applied, Cleared
    <3>2. promise.os = {} /\ promise.guard = {}
      BY <1>22, <1>0, PlaceBack DEF AskedDoes, QuietFits, CallFits, NowKnown
    <3> QED BY <3>1, <3>2, <1>0 DEF Vouched, Promises
  <2>2. \A l \in loops' : ~Threat(l)'
    BY <1>22, <1>l, <1>0
    DEF AskedDoes, CallFits, Here, LoopsFit, LockFits, Fresh, NoneAsks, ThroughHelper, IsMac,
        Threat, Current, Asking
  <2>3. promise'.os # {} => local'.run = "stopped"
    BY <1>22, <2>1, <1>0, PlaceBack
    DEF AskedDoes, DrainFits, Waited, NowKnown, There, ThroughHelper, IsMac, CallFits, Applied
  <2>4. promise' # promise => os' = Target(call.cfg)
    BY <1>22, TargetFacts DEF AskedDoes
  <2>5. ThroughHelper' = ThroughHelper /\ ThroughHelper
    BY <1>22, <1>0, PlaceBack DEF AskedDoes, CallFits, NowKnown, There, ThroughHelper, IsMac
  <2> QED BY <2>1, <2>2, <2>3, <2>4, <2>5, PromiseMade, <1>a
<1>23. CASE GuardLocallyDoes
  BY <1>23, <1>0, <1>l, <1>g, <1>a, GuardingFacts, PutTypes
  DEF GuardLocallyDoes, PromiseFits, QuietFits, DrainFits, GuardMayRun, Waited, Told, Promises,
      Vouched, ThroughHelper, IsMac, Shut, Threat, Current, Applied, Cleared
<1>24. CASE GuardThroughHelperDoes
  <2>1. CASE UNCHANGED <<loops, promise>>
    <3>1. Threats
      BY <1>24, <2>1 DEF GuardThroughHelperDoes, Threats, Threat, Current, Asking
    <3>2. GuardMayRun' => GuardMayRun
      BY <1>24, <1>g DEF GuardThroughHelperDoes, GuardMayRun, ThroughHelper, IsMac
    <3> QED BY <1>24, <2>1, <3>1, <3>2, PromiseLasts DEF GuardThroughHelperDoes, Meek
  <2>2. CASE loops' = loops \cup {NewLoop} /\ promise' = [promise EXCEPT !.guard = {Target(verge)}]
    <3>1. \A l \in loops : ~Threat(l)'
      BY <1>24, <1>l, <1>0
      DEF GuardThroughHelperDoes, LoopsFit, Fresh, NoneAsks, Threat, Current, Asking
    <3>2. promise'.os = promise.os /\ promise'.guard = {Target(verge)} /\ promise.guard = {}
      BY <1>24, <2>2, <1>0 DEF Promises, QuietFits, GuardThroughHelperDoes
    <3>3. promise.os # {} => ~GuardMayRun' /\ local'.run = "stopped"
      BY <1>24, <1>0 DEF GuardThroughHelperDoes, DrainFits, GuardMayRun, ThroughHelper, IsMac
    <3>4. os' = os /\ NewLoop.cfg = verge
      BY <1>24 DEF GuardThroughHelperDoes, NewLoop
    <3> QED BY <2>2, <3>1, <3>2, <3>3, <3>4, <1>0 DEF PromiseFits, Told
  <2> QED BY <1>24, <2>1, <2>2 DEF GuardThroughHelperDoes
<1>25. CASE CheckDoes
  <2>1. Threats
    BY <1>25, <1>l DEF CheckDoes, ThroughHelper, IsMac, Threats, Threat, Current, Asking
  <2>2. GuardMayRun' => GuardMayRun
    BY <1>25, <1>g DEF CheckDoes, GuardMayRun, ThroughHelper, IsMac, Shut
  <2> QED BY <1>25, <2>1, <2>2, <1>a, PutTypes, PromiseLasts DEF CheckDoes, Meek
<1>26. CASE FailDoes
  <2>1. Threats
    BY <1>26, <1>l DEF FailDoes, ThroughHelper, IsMac, Threats, Threat, Current, Asking
  <2>2. GuardMayRun' => GuardMayRun
    BY <1>26, <1>g DEF FailDoes, GuardMayRun, ThroughHelper, IsMac, Shut
  <2> QED BY <1>26, <2>1, <2>2, <1>a, PutTypes, PromiseLasts DEF FailDoes, Meek
<1>27. CASE EndDoes
  BY <1>27, <1>0, <1>l, <1>g, <1>a, GuardingFacts, PutTypes
  DEF EndDoes, PromiseFits, QuietFits, DrainFits, GuardMayRun, Waited, Told, Promises, Vouched,
      ThroughHelper, IsMac, Shut, Threat, Current, Applied, Cleared
<1>28. ASSUME NEW l \in loops, LoopAsksDoes(l)
       PROVE  PromiseFits'
  <2>1. Threats
    BY <1>28, <1>l DEF LoopAsksDoes, ThroughHelper, IsMac, Threats, Threat, Current, Asking
  <2>2. GuardMayRun' => GuardMayRun
    BY <1>28, <1>g DEF LoopAsksDoes, GuardMayRun, ThroughHelper, IsMac, Shut
  <2> QED BY <1>28, <2>1, <2>2, <1>a, PutTypes, PromiseLasts DEF LoopAsksDoes, Meek
<1>29. ASSUME NEW l \in loops, LoopReportsDoes(l)
       PROVE  PromiseFits'
  <2>1. Threats
    BY <1>29, <1>l DEF LoopReportsDoes, ThroughHelper, IsMac, Threats, Threat, Current, Asking
  <2>2. GuardMayRun' => GuardMayRun
    BY <1>29, <1>g DEF LoopReportsDoes, GuardMayRun, ThroughHelper, IsMac, Shut
  <2> QED BY <1>29, <2>1, <2>2, <1>a, PutTypes, PromiseLasts DEF LoopReportsDoes, Meek
<1>30. ASSUME NEW l \in loops, NEW landed \in BOOLEAN, NEW ok \in BOOLEAN,
              LoopAnsweredDoes(l, landed, ok)
       PROVE  PromiseFits'
  BY <1>30, <1>0, <1>l, <1>g, <1>a, GuardingFacts, PutTypes
  DEF LoopAnsweredDoes, PromiseFits, QuietFits, DrainFits, GuardMayRun, Waited, Told, Promises,
      Vouched, ThroughHelper, IsMac, Shut, Threat, Current, Applied, Cleared
<1>31. CASE LocalBeginsDoes
  BY <1>31, <1>0, <1>l, <1>g, <1>a, GuardingFacts, PutTypes
  DEF LocalBeginsDoes, PromiseFits, QuietFits, DrainFits, GuardMayRun, Waited, Told, Promises,
      Vouched, ThroughHelper, IsMac, Shut, Threat, Current, Applied, Cleared
<1>32. CASE LocalLandsDoes
  <2>1. Threats
    BY <1>32 DEF LocalLandsDoes, Threats, Threat, Current, Asking
  <2>2. promise.os # {} => os' = os
    <3>1. SUFFICES ASSUME promise.os # {} PROVE os' = os
      OBVIOUS
    <3>2. local.writes = local.type /\ local.type # "none" /\ os = On(local.type)
      BY <1>32, <3>1, <1>0 DEF PromiseFits, GuardMayRun, LocalLandsDoes
    <3>3. local.type \in Kinds
      BY <3>2, <1>0 DEF Locals
    <3> QED BY <1>32, <3>2, <3>3, WrittenAgain DEF LocalLandsDoes
  <2> QED BY <1>32, <2>1, <2>2, <1>0
        DEF LocalLandsDoes, PromiseFits, Threats, Told, GuardMayRun, ThroughHelper, IsMac
<1>33. CASE Elsewhere
  <2>1. Threats
    BY <1>33, <1>l DEF Elsewhere, ThroughHelper, IsMac, Threats, Threat, Current, Asking
  <2>2. GuardMayRun' => GuardMayRun
    BY <1>33, <1>g DEF Elsewhere, GuardMayRun, ThroughHelper, IsMac, Shut
  <2> QED BY <1>33, <2>1, <2>2, <1>a, PutTypes, PromiseLasts DEF Elsewhere, Meek
<1> QED BY <1>1, <1>2, <1>3, <1>4, <1>5, <1>6, <1>7, <1>8, <1>9, <1>10, <1>11, <1>12, <1>13, <1>14,
          <1>15, <1>16, <1>17, <1>18, <1>19, <1>20, <1>21, <1>22, <1>23, <1>24, <1>25, <1>26,
          <1>27, <1>28, <1>29, <1>30, <1>31, <1>32, <1>33 DEF Effect

-----------------------------------------------------------------------------
(* What the theorems need besides.                                         *)

\* Only an answer of the helper is a write through it.
WriterGoes ==
  \/ writer' = writer
  \/ call.at = "ask" /\ writer' = call.mine
  \/ \E l \in loops : Asking(l) /\ writer' = l.gen

\* The writes through the helper, in each step.
LEMMA WriterMoves ==
  ASSUME Effect PROVE WriterGoes
<1> USE DEF Done, Ended, GoesOn, Moves, Does, OneOf, Standing, other, core, watch, WriterGoes,
          Applied, Cleared
<1>1. ASSUME NEW m \in {"Service", "Sidecar"}, StartDoes(m)
      PROVE  WriterGoes
  BY <1>1 DEF StartDoes
<1>2. ASSUME NEW handOver \in BOOLEAN, StopDoes(handOver)
      PROVE  WriterGoes
  BY <1>2 DEF StopDoes
<1>3. CASE RecoverDoes
  BY <1>3 DEF RecoverDoes
<1>4. CASE ApplyPatchDoes
  BY <1>4 DEF ApplyPatchDoes
<1>5. CASE ReapplyDoes
  BY <1>5 DEF ReapplyDoes
<1>6. CASE LoseOwnerDoes
  BY <1>6 DEF LoseOwnerDoes
<1>7. ASSUME NEW p \in {"apply", "clear", "stop", "refresh"}, LocalDoes(p)
      PROVE  WriterGoes
  BY <1>7 DEF LocalDoes
<1>8. ASSUME NEW p \in {"apply", "clear", "stop", "refresh"}, WaitDoes(p)
      PROVE  WriterGoes
  BY <1>8 DEF WaitDoes
<1>9. ASSUME NEW p \in {"apply", "clear", "stop", "refresh"}, HelperDoes(p)
      PROVE  WriterGoes
  BY <1>9 DEF HelperDoes
<1>10. ASSUME NEW p \in {"apply", "clear", "stop", "refresh"}, CancelDoes(p)
       PROVE  WriterGoes
  BY <1>10 DEF CancelDoes
<1>11. CASE AlreadyAppliedDoes
  BY <1>11 DEF AlreadyAppliedDoes
<1>12. CASE AlreadyClearedDoes
  BY <1>12 DEF AlreadyClearedDoes
<1>13. CASE WaitAgainDoes
  BY <1>13 DEF WaitAgainDoes
<1>14. ASSUME NEW s \in {"first", "second"}, WriteDoes(s)
       PROVE  WriterGoes
  BY <1>14 DEF WriteDoes
<1>15. ASSUME NEW s \in {"first", "second"}, TurnOffDoes(s)
       PROVE  WriterGoes
  BY <1>15 DEF TurnOffDoes
<1>16. ASSUME NEW s \in {"first", "second"}, NEW partly \in BOOLEAN,
              NEW code \in Codes \cup {"none"}, WriteFailsDoes(s, partly, code)
       PROVE  WriterGoes
  BY <1>16 DEF WriteFailsDoes
<1>17. ASSUME NEW s \in {"first", "second"}, NEW failed \in SUBSET Kinds,
              NEW code \in Codes \cup {"none"}, TurnOffFailsDoes(s, failed, code)
       PROVE  WriterGoes
  BY <1>17 DEF TurnOffFailsDoes
<1>18. ASSUME NEW failed \in SUBSET Kinds, CompensateDoes(failed)
       PROVE  WriterGoes
  BY <1>18 DEF CompensateDoes
<1>19. CASE InvalidateDoes
  BY <1>19 DEF InvalidateDoes
<1>20. CASE QueueDoes
  BY <1>20 DEF QueueDoes
<1>21. CASE ReleaseDoes
  BY <1>21 DEF ReleaseDoes
<1>22. ASSUME NEW landed \in BOOLEAN, NEW answer \in {"applied", "fallback", "error"},
              AskedDoes(landed, answer)
       PROVE  WriterGoes
  BY <1>22 DEF AskedDoes
<1>23. CASE GuardLocallyDoes
  BY <1>23 DEF GuardLocallyDoes
<1>24. CASE GuardThroughHelperDoes
  BY <1>24 DEF GuardThroughHelperDoes
<1>25. CASE CheckDoes
  BY <1>25 DEF CheckDoes
<1>26. CASE FailDoes
  BY <1>26 DEF FailDoes
<1>27. CASE EndDoes
  BY <1>27 DEF EndDoes
<1>28. ASSUME NEW l \in loops, LoopAsksDoes(l)
       PROVE  WriterGoes
  BY <1>28 DEF LoopAsksDoes
<1>29. ASSUME NEW l \in loops, LoopReportsDoes(l)
       PROVE  WriterGoes
  BY <1>29 DEF LoopReportsDoes
<1>30. ASSUME NEW l \in loops, NEW landed \in BOOLEAN, NEW ok \in BOOLEAN,
              LoopAnsweredDoes(l, landed, ok)
       PROVE  WriterGoes
  BY <1>30 DEF LoopAnsweredDoes
<1>31. CASE LocalBeginsDoes
  BY <1>31 DEF LocalBeginsDoes
<1>32. CASE LocalLandsDoes
  BY <1>32 DEF LocalLandsDoes
<1>33. CASE Elsewhere
  BY <1>33 DEF Elsewhere
<1> QED BY <1>1, <1>2, <1>3, <1>4, <1>5, <1>6, <1>7, <1>8, <1>9, <1>10, <1>11, <1>12, <1>13, <1>14,
          <1>15, <1>16, <1>17, <1>18, <1>19, <1>20, <1>21, <1>22, <1>23, <1>24, <1>25, <1>26,
          <1>27, <1>28, <1>29, <1>30, <1>31, <1>32, <1>33 DEF Effect

\* What the user is owed is not lost to a step that answers something else.
OwedStays ==
  \A c \in Codes : failures[c] \in Requests /\ failures'[c] \notin Requests
    => call.why = "patch" /\ call.asked \in Requests
\* A call takes away a request only when it answers one.
LEMMA FiledOwes ==
  ASSUME RequestFits, call \in Calls, Filed \/ UNCHANGED failures PROVE OwedStays
<1>1. CASE UNCHANGED failures
  BY <1>1 DEF OwedStays
<1>2. CASE Filed
  <2>1. PICK code \in (Codes \ {"GuardStopped"}) \cup {"none"} : Settled(code)
    BY <1>2 DEF Filed
  <2>2. call.asked \in Requests \cup {"Restore"}
    BY DEF Calls
  <2>3. CASE code # "none"
    <3>1. failures' = Recorded(failures, call.asked, code)
      BY <2>1, <2>3 DEF Settled
    <3> QED BY <2>2, <3>1 DEF OwedStays, Recorded, Outranks
  <2>4. CASE code = "none" /\ Head(call.todo) = "apply"
    <3>1. failures' = Retired(failures, call.asked)
      BY <2>1, <2>4 DEF Settled
    <3> QED BY <3>1 DEF OwedStays, Retired, RetiredBy, Requests, RequestFits
  <2>5. CASE code = "none" /\ Head(call.todo) # "apply"
    BY <1>1, <2>1, <2>5 DEF Settled, OwedStays
  <2> QED BY <2>3, <2>4, <2>5
<1> QED BY <1>1, <1>2
\* Neither the report of a guard nor its start takes one away.
LEMMA GuardOwes ==
  ASSUME failures \in [Codes -> Operations \cup {"none"}]
  PROVE
  /\ failures' = GuardRetired(failures) => OwedStays
  /\ failures' = Recorded(failures, "Guard", "GuardStopped") /\ failures["GuardStopped"] \in {"none", "Guard"}
       => OwedStays
BY DEF OwedStays, Outranks, GuardRetired, Recorded, Requests, Codes

\* What is owed, in each step.
LEMMA OwedMoves ==
  ASSUME Typed, RequestFits, ReportFits, Effect PROVE OwedStays
<1> USE DEF Done, Ended, GoesOn, Moves, Does, OneOf, Standing, other, core, watch, Applied,
          Cleared, ReportFits
<1>0. call \in Calls /\ failures \in [Codes -> Operations \cup {"none"}] /\ RequestFits /\ ReportFits
  BY DEF Typed
<1>1. ASSUME NEW m \in {"Service", "Sidecar"}, StartDoes(m)
      PROVE  OwedStays
  BY <1>1, <1>0, FiledOwes, GuardOwes DEF StartDoes
<1>2. ASSUME NEW handOver \in BOOLEAN, StopDoes(handOver)
      PROVE  OwedStays
  BY <1>2, <1>0, FiledOwes, GuardOwes DEF StopDoes
<1>3. CASE RecoverDoes
  BY <1>3, <1>0, FiledOwes, GuardOwes DEF RecoverDoes
<1>4. CASE ApplyPatchDoes
  BY <1>4, <1>0, FiledOwes, GuardOwes DEF ApplyPatchDoes
<1>5. CASE ReapplyDoes
  BY <1>5, <1>0, FiledOwes, GuardOwes DEF ReapplyDoes
<1>6. CASE LoseOwnerDoes
  BY <1>6, <1>0, FiledOwes, GuardOwes DEF LoseOwnerDoes
<1>7. ASSUME NEW p \in {"apply", "clear", "stop", "refresh"}, LocalDoes(p)
      PROVE  OwedStays
  BY <1>7, <1>0, FiledOwes, GuardOwes DEF LocalDoes
<1>8. ASSUME NEW p \in {"apply", "clear", "stop", "refresh"}, WaitDoes(p)
      PROVE  OwedStays
  BY <1>8, <1>0, FiledOwes, GuardOwes DEF WaitDoes
<1>9. ASSUME NEW p \in {"apply", "clear", "stop", "refresh"}, HelperDoes(p)
      PROVE  OwedStays
  BY <1>9, <1>0, FiledOwes, GuardOwes DEF HelperDoes
<1>10. ASSUME NEW p \in {"apply", "clear", "stop", "refresh"}, CancelDoes(p)
       PROVE  OwedStays
  BY <1>10, <1>0, FiledOwes, GuardOwes DEF CancelDoes
<1>11. CASE AlreadyAppliedDoes
  BY <1>11, <1>0, FiledOwes, GuardOwes DEF AlreadyAppliedDoes
<1>12. CASE AlreadyClearedDoes
  BY <1>12, <1>0, FiledOwes, GuardOwes DEF AlreadyClearedDoes
<1>13. CASE WaitAgainDoes
  BY <1>13, <1>0, FiledOwes, GuardOwes DEF WaitAgainDoes
<1>14. ASSUME NEW s \in {"first", "second"}, WriteDoes(s)
       PROVE  OwedStays
  BY <1>14, <1>0, FiledOwes, GuardOwes DEF WriteDoes
<1>15. ASSUME NEW s \in {"first", "second"}, TurnOffDoes(s)
       PROVE  OwedStays
  BY <1>15, <1>0, FiledOwes, GuardOwes DEF TurnOffDoes
<1>16. ASSUME NEW s \in {"first", "second"}, NEW partly \in BOOLEAN,
              NEW code \in Codes \cup {"none"}, WriteFailsDoes(s, partly, code)
       PROVE  OwedStays
  BY <1>16, <1>0, FiledOwes, GuardOwes DEF WriteFailsDoes
<1>17. ASSUME NEW s \in {"first", "second"}, NEW failed \in SUBSET Kinds,
              NEW code \in Codes \cup {"none"}, TurnOffFailsDoes(s, failed, code)
       PROVE  OwedStays
  BY <1>17, <1>0, FiledOwes, GuardOwes DEF TurnOffFailsDoes
<1>18. ASSUME NEW failed \in SUBSET Kinds, CompensateDoes(failed)
       PROVE  OwedStays
  BY <1>18, <1>0, FiledOwes, GuardOwes DEF CompensateDoes
<1>19. CASE InvalidateDoes
  BY <1>19, <1>0, FiledOwes, GuardOwes DEF InvalidateDoes
<1>20. CASE QueueDoes
  BY <1>20, <1>0, FiledOwes, GuardOwes DEF QueueDoes
<1>21. CASE ReleaseDoes
  BY <1>21, <1>0, FiledOwes, GuardOwes DEF ReleaseDoes
<1>22. ASSUME NEW landed \in BOOLEAN, NEW answer \in {"applied", "fallback", "error"},
              AskedDoes(landed, answer)
       PROVE  OwedStays
  BY <1>22, <1>0, FiledOwes, GuardOwes DEF AskedDoes
<1>23. CASE GuardLocallyDoes
  BY <1>23, <1>0, FiledOwes, GuardOwes DEF GuardLocallyDoes
<1>24. CASE GuardThroughHelperDoes
  BY <1>24, <1>0, FiledOwes, GuardOwes DEF GuardThroughHelperDoes
<1>25. CASE CheckDoes
  BY <1>25, <1>0, FiledOwes, GuardOwes DEF CheckDoes
<1>26. CASE FailDoes
  BY <1>26, <1>0, FiledOwes, GuardOwes DEF FailDoes
<1>27. CASE EndDoes
  BY <1>27, <1>0, FiledOwes, GuardOwes DEF EndDoes
<1>28. ASSUME NEW l \in loops, LoopAsksDoes(l)
       PROVE  OwedStays
  BY <1>28, <1>0, FiledOwes, GuardOwes DEF LoopAsksDoes
<1>29. ASSUME NEW l \in loops, LoopReportsDoes(l)
       PROVE  OwedStays
  BY <1>29, <1>0, FiledOwes, GuardOwes DEF LoopReportsDoes
<1>30. ASSUME NEW l \in loops, NEW landed \in BOOLEAN, NEW ok \in BOOLEAN,
              LoopAnsweredDoes(l, landed, ok)
       PROVE  OwedStays
  BY <1>30, <1>0, FiledOwes, GuardOwes DEF LoopAnsweredDoes
<1>31. CASE LocalBeginsDoes
  BY <1>31, <1>0, FiledOwes, GuardOwes DEF LocalBeginsDoes
<1>32. CASE LocalLandsDoes
  BY <1>32, <1>0, FiledOwes, GuardOwes DEF LocalLandsDoes
<1>33. CASE Elsewhere
  BY <1>33, <1>0, FiledOwes, GuardOwes DEF Elsewhere
<1> QED BY <1>1, <1>2, <1>3, <1>4, <1>5, <1>6, <1>7, <1>8, <1>9, <1>10, <1>11, <1>12, <1>13, <1>14,
          <1>15, <1>16, <1>17, <1>18, <1>19, <1>20, <1>21, <1>22, <1>23, <1>24, <1>25, <1>26,
          <1>27, <1>28, <1>29, <1>30, <1>31, <1>32, <1>33 DEF Effect

-----------------------------------------------------------------------------
(* The theorems.                                                           *)

\* The invariant holds at the start.
LEMMA InitFits ==
  ASSUME Init PROVE IInv
<1>1. Now = "nothing" /\ call = Idle
  BY IdleFacts DEF Init, Now
<1>2. Typed
  BY <1>1, IdleFacts, SystemTypes, PutTypes DEF Init, Typed, AnyConfig, Locals, Kinds, Operations
<1>3. CallFits /\ RequestFits
  BY <1>1, IdleFacts, PlaceFacts DEF Init, CallFits, RequestFits, Here, There, Requests
<1>4. LockFits /\ LoopsFit /\ DrainFits
  BY <1>1, IdleFacts, PutTypes
  DEF Init, LockFits, LoopsFit, DrainFits, Draining, Fresh, Overtaken, NoneAsks, Waited
<1>5. QuietFits /\ FirstLasts /\ PromiseFits
  BY <1>1, IdleFacts, PutTypes DEF Init, QuietFits, FirstLasts, PromiseFits
<1>6. ReportFits /\ WriterFits
  BY DEF Init, ReportFits, WriterFits, Codes
<1> QED BY <1>2, <1>3, <1>4, <1>5, <1>6 DEF IInv

\* Every step keeps the invariant.
LEMMA StepFits ==
  ASSUME IInv, [Next]_vars PROVE IInv'
<1>1. CASE UNCHANGED vars
  <2>1. Now' = Now
    BY <1>1 DEF vars, Now
  <2>2. Typed' /\ ThroughHelper' = ThroughHelper /\ Waited' = Waited /\ GuardMayRun' = GuardMayRun
        /\ Draining' = Draining
    BY <1>1, <2>1, TypeStep DEF vars, IInv, ThroughHelper, IsMac, Waited, GuardMayRun, Draining
  <2>3. CallFits' /\ RequestFits' /\ LockFits' /\ LoopsFit' /\ DrainFits'
    BY <1>1, <2>1, <2>2 DEF vars, IInv, CallFits, RequestFits, LockFits, LoopsFit, DrainFits,
       Overtaken, NoneAsks, Fresh, Asking, IsMac
  <2>4. QuietFits' /\ FirstLasts' /\ PromiseFits' /\ ReportFits' /\ WriterFits'
    BY <1>1, <2>1, <2>2 DEF vars, IInv, QuietFits, FirstLasts, PromiseFits, ReportFits, WriterFits,
       Told, Threat, Asking, Current
  <2> QED BY <2>2, <2>3, <2>4 DEF IInv
<1>2. CASE Next
  <2>1. Typed' /\ Effect
    BY <1>2, TypeStep, Effects DEF IInv
  <2> QED BY <2>1, CallStepFits, RequestStepFits, LockStepFits, LoopsStepFit, DrainStepFits,
             QuietStepFits, FirstStepLasts, PromiseStepFits, ReportStepFits, WriterStepFits DEF IInv
<1> QED BY <1>1, <1>2

\* What the proofs below rest on always holds.
THEOREM Invariant == Spec => []IInv
<1>1. Init => IInv
  BY InitFits
<1>2. IInv /\ [Next]_vars => IInv'
  BY StepFits
<1> QED BY <1>1, <1>2, PTL DEF Spec

\* What an apply or a clear put in the OS stays there until the next one begins: no guard of
\* an earlier call, in this process or asking the helper, writes anything else meanwhile.
THEOREM LastStands == Spec => []LastWriteStands
<1>1. IInv => LastWriteStands
  BY DEF IInv, PromiseFits, Told, LastWriteStands
<1> QED BY <1>1, Invariant, PTL

\* The window is not told that the guard has stopped while the loop of the last generation
\* is at work.
THEOREM StoppedIsStopped == Spec => []StoppedMeansStopped
<1>1. IInv => StoppedMeansStopped
  BY DEF IInv, ReportFits, StoppedMeansStopped
<1> QED BY <1>1, Invariant, PTL

\* Through the helper, nothing an earlier generation asks for lands after what a later one
\* has asked for.
THEOREM InOrder == Spec => WritesInOrder
<1>1. IInv /\ [Next]_vars => [writer' >= writer]_vars
  <2> SUFFICES ASSUME IInv, Next PROVE writer' >= writer
    OBVIOUS
  <2>1. gen \in Nat /\ writer \in Nat /\ \A l \in loops : l.gen \in Nat
    BY DEF IInv, Typed, Loops
  <2>2. Effect
    BY Effects DEF IInv
  <2>3. WriterGoes
    BY <2>2, WriterMoves
  <2> QED BY <2>1, <2>3 DEF IInv, WriterGoes, WriterFits, LoopsFit, Fresh
<1> QED BY <1>1, Invariant, PTL DEF Spec, WritesInOrder

\* The failure of what the user asked for stays filed until the user's next request is
\* answered: neither a restore, nor the guard, nor a stop takes its place.
THEOREM StaysOwed == Spec => RequestStaysOwed
<1>1. IInv /\ [Next]_vars
        => [\A c \in Codes : failures[c] \in Requests /\ failures'[c] \notin Requests
              => call.why = "patch" /\ call.asked \in Requests]_vars
  <2> SUFFICES ASSUME IInv, Next PROVE OwedStays
    BY DEF OwedStays
  <2> QED BY Effects, OwedMoves DEF IInv
<1> QED BY <1>1, Invariant, PTL DEF Spec, RequestStaysOwed
===============================================================================
