-------------------------------- MODULE MCTasks --------------------------------
(*****************************************************************************)
(* Parts that share no state with one another and of which liveness is      *)
(* checked.  A behaviour is one of a single part, the same throughout.      *)
(*****************************************************************************)
EXTENDS Naturals, TLC
CONSTANTS tray, second   \* threads or tasks
VARIABLE part

VARIABLES lMode, lWindow, lLimited, lAuto, lTx, lTimers, lArming, lCall, lAsks
lightVars == <<lMode, lWindow, lLimited, lAuto, lTx, lTimers, lArming, lCall, lAsks>>
Light == INSTANCE Lightweight WITH mode <- lMode, window <- lWindow, limited <- lLimited,
    auto <- lAuto, tx <- lTx, timers <- lTimers, arming <- lArming, call <- lCall,
    asks <- lAsks, Threads <- {tray, second}, MaxAsks <- 2, MaxTimers <- 2

VARIABLES rNow, rFile, rWriter, rLoaded, rSession, rDeclared, rCache, rQueued, rSerial, rTask,
          rOwed, rAsked
requestsVars == <<rNow, rFile, rWriter, rLoaded, rSession, rDeclared, rCache, rQueued, rSerial,
      rTask, rOwed, rAsked>>
Requests == INSTANCE ProviderSync WITH now <- rNow, file <- rFile, writer <- rWriter,
    loaded <- rLoaded, session <- rSession, declared <- rDeclared, cache <- rCache,
    queued <- rQueued, serial <- rSerial, task <- rTask, owed <- rOwed, asked <- rAsked,
    Tasks <- {tray, second}, Attempts <- 2, Size <- 2, MaxRequests <- 2, MaxWrites <- 1,
    MaxNow <- 2, MaxSessions <- 1

-----------------------------------------------------------------------------
allVars == <<part, lightVars, requestsVars>>
Init ==
  /\ part \in {"light", "requests"}
  /\ Light!Init /\ (part # "light" => ~lAuto)
  /\ Requests!Init

\* The parts that a behaviour is not of stay as they are.
Rest ==
  /\ UNCHANGED part
  /\ IF part = "light" THEN TRUE ELSE UNCHANGED lightVars
  /\ IF part = "requests" THEN TRUE ELSE UNCHANGED requestsVars
LightOnly == part = "light" /\ Rest
RequestsOnly == part = "requests" /\ Rest
Next ==
  \/ part = "light" /\ Rest /\ Light!Next
  \/ part = "requests" /\ Rest /\ Requests!Next
Spec ==
  /\ Init /\ [][Next]_allVars
  /\ \A c \in {tray, second} : WF_allVars(LightOnly /\ Light!Step(c))
  /\ \A t \in {tray, second} : /\ SF_allVars(RequestsOnly /\ Requests!BeginSync(t))
                                /\ WF_allVars(RequestsOnly /\ Requests!Sync(t))

\* Whoever leaves lightweight mode gets its answer.
LeavingEnds == Light!LeavingEnds
\* Every request to publish the providers is served in the end.
EveryRequestServed == Requests!EveryRequestServed
==============================================================================
