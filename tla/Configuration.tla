----------------------------- MODULE Configuration ------------------------------
(*****************************************************************************)
(* Parts of System that make the configuration of the core and keep what    *)
(* belongs to it: its update, the nodes selected in it, the override of its *)
(* DNS, its providers. Each comes with its inductive invariant and its      *)
(* proof; System puts them together with the others.                        *)
(*****************************************************************************)
EXTENDS Integers, Sequences, TLC, SequenceTheorems, TLAPS

CONSTANTS
  \* Tasks that publish provider files, and chunks of one.
  SyncTasks, Attempts, Size, MaxRequests, MaxWrites, MaxNow, MaxSessions,
  \* Providers of a configuration.
  Count, Urls, ProviderNames, Outside, NoUrl,
  \* Who updates, contents of files, how they look and which are accepted, items; calls and faults.
  UpdateTasks, Docs, DefaultDoc, DocLooks, AcceptedDocs, SavedItems, MaxUpdateCalls,
  MaxUpdateFaults,
  \* Groups and nodes of the core, profiles and their records; restorations, selections, changes.
  SelectorGroups, Selectable, ProxyNodes, NodeProfiles, NoProxyNode, SavedSelections,
  MaxRestorations, MaxSelections, MaxChanges,
  \* Ports, those of the other listeners, starts that are retried, changes of the mixed port.
  LastPort, ReservedPorts, MaxPortRetries, MaxPortSaves, MaxForeign, MaxCrashes,
  \* Platforms and ports of listeners, and those asked for.
  ProbedPlatforms, ListenerPorts, AskedPorts,
  \* Who overrides the DNS, profiles and what their files set; choices, configurations, files, restarts.
  DnsTasks, DnsProfiles, FirstProfile, DnsSources, NoDns, SavedSources, MaxAsks, MaxMakes,
  MaxNews, MaxDnsStarts

-----------------------------------------------------------------------------
(* The update of the configuration.                                         *)

VARIABLES zKind, zExt, zInUse, zFile, zData, zDraft, zRun, zCore, zVersion, zKnown, zUpdating,
          zLife, zExiting, zTask, zAccepted, zAgreed, zSavers, zCrossed, zCalls, zFaults
updateVars == <<zKind, zExt, zInUse, zFile, zData, zDraft, zRun, zCore, zVersion, zKnown,
      zUpdating, zLife, zExiting, zTask, zAccepted, zAgreed, zSavers, zCrossed, zCalls,
      zFaults>>
Update == INSTANCE ConfigUpdate WITH kind <- zKind, ext <- zExt, inUse <- zInUse, file <- zFile,
    data <- zData, draft <- zDraft, run <- zRun, core <- zCore, version <- zVersion,
    known <- zKnown, updating <- zUpdating, life <- zLife, exiting <- zExiting, task <- zTask,
    accepted <- zAccepted, agreed <- zAgreed, savers <- zSavers, crossed <- zCrossed,
    calls <- zCalls, faults <- zFaults, Tasks <- UpdateTasks, Default <- DefaultDoc,
    MaxCalls <- MaxUpdateCalls, MaxFaults <- MaxUpdateFaults, Accepts <- AcceptedDocs,
    Looks <- DocLooks

\* "none" names no task and no content.
UpdateGiven == Update!None \notin UpdateTasks /\ Update!None \notin Docs \cup {DefaultDoc}

ASSUME UpdateAssumption == UpdateGiven

UpdateDocs == Docs \cup {DefaultDoc}
UpdatePlaces == {"idle", "file check", "enter", "make", "check", "core check", "write", "apply", "stage", "reload",
                 "replace", "commit", "answer", "restart"}
UpdateCalls == {Update!None, "save", "update", "edit", "restart"}
UpdateAnswers == {Update!None, "valid", "invalid", "skipped", "failed"}
UpdateOperations == [at : UpdatePlaces, does : UpdateCalls, doc : UpdateDocs, version : Nat, orig : UpdateDocs,
    asked : {0, 1},
                     answer : UpdateAnswers]
UpdateCores == [mode : {Update!None, "service", "sidecar"}, doc : UpdateDocs, by : {Update!None, "start", "update",
    "restart"}]

UpdateTyped ==
  /\ zFile \in UpdateDocs /\ zData \in UpdateDocs /\ zDraft \in UpdateDocs \cup {Update!None} /\ zRun \in UpdateDocs
  /\ zCore \in UpdateCores /\ zVersion \in Nat /\ zKnown \in [doc : UpdateDocs, version : Nat \cup {-1}]
  /\ zUpdating \in UpdateTasks \cup {Update!None} /\ zLife \in UpdateTasks \cup {Update!None} /\ zExiting \in BOOLEAN
  /\ zTask \in [UpdateTasks -> UpdateOperations] /\ zAccepted \in [UpdateDocs -> Nat \cup {-1}] /\
       zAgreed \in UpdateDocs
  /\ zSavers \in BOOLEAN /\ zCrossed \in BOOLEAN

\* Whoever is in an update holds it; the lock of the lifecycle is taken for the service alone.
Held == {"make", "check", "core check", "write", "apply", "stage", "reload", "replace", "commit"}
HoldFits(t) == zUpdating = t <=> zTask[t].at \in Held
LifeFits(t) == zLife = t => zTask[t].at \in {"stage", "reload", "replace", "commit"} /\ zTask[t].does # "restart"
\* A call is where its kind goes.
CallFits(t) ==
  /\ zTask[t].at = "idle" <=> zTask[t].does = Update!None
  /\ zTask[t].at = "restart" => zTask[t].does = "restart"
  /\ zTask[t].does = "restart" => zTask[t].at \in {"restart", "replace", "commit", "answer"}

\* What was accepted once was so by a version that there was, and what is about to run was
\* accepted by the version that the update has found or by a later one.
Checked(t) == zTask[t].at \in {"write", "apply", "stage", "reload", "replace"} /\ zTask[t].does # "restart"
Written(t) == zTask[t].at \in {"apply", "stage", "reload", "replace"} /\ zTask[t].does # "restart"
CheckingFits(t) == /\ zTask[t].version <= zVersion
                   /\ Checked(t) => zAccepted[zTask[t].doc] >= zTask[t].version
KnownFits == /\ \A d \in UpdateDocs : zAccepted[d] <= zVersion
             /\ zAccepted[zKnown.doc] >= zKnown.version

\* Without two saves at once the one that saves has put its content into the file, in the
\* place of what was agreed last.
SavingFits(t) ==
  zTask[t].does = "save" =>
    /\ zTask[t].doc = zFile /\ zTask[t].orig = zAgreed
    /\ zTask[t].at = "check" => zDraft = zFile
    /\ \A u \in UpdateTasks : zTask[u].does = "save" => u = t
AllSaved == /\ (\A t \in UpdateTasks : zTask[t].does # "save") => zFile = zAgreed
            /\ \A t \in UpdateTasks : SavingFits(t)

\* As long as nobody crosses an update: what is made is what is checked, written and
\* applied, and the core that is committed runs it.
RunFits(t) ==
  /\ Checked(t) \/ zTask[t].at = "core check" => zTask[t].doc = Update!Latest
  /\ Written(t) => zRun = zTask[t].doc
  /\ zTask[t].at = "commit" => zCore.mode = Update!None \/ zCore.doc = Update!Latest
CommittedFits == /\ Update!Resting => zCore.mode = Update!None \/ zCore.doc = Update!Latest
                 /\ zCore.by = "update" => zAccepted[zCore.doc] >= 0
AllRun == CommittedFits /\ \A t \in UpdateTasks : RunFits(t)

HoldsFit == \A t \in UpdateTasks : HoldFits(t)
LivesFit == \A t \in UpdateTasks : LifeFits(t)
UpdateCallsFit == \A t \in UpdateTasks : CallFits(t)
ChecksFit == KnownFits /\ \A t \in UpdateTasks : CheckingFits(t)
SavesFit == zSavers \/ AllSaved
RunsFit == zCrossed \/ AllRun

UpdateInv == UpdateTyped /\ HoldsFit /\ LivesFit /\ UpdateCallsFit /\ ChecksFit /\ SavesFit /\ RunsFit

Others(t) == /\ \A u \in UpdateTasks : u # t => zTask'[u] = zTask[u]
             /\ zTask' \in [UpdateTasks -> UpdateOperations]
Kept(t) == Others(t) /\ zTask'[t].does = zTask[t].does /\ zTask'[t].orig = zTask[t].orig
TaskMoved(t, place) == /\ Kept(t) /\ zTask'[t].at = place
                       /\ zTask'[t].doc = zTask[t].doc /\ zTask'[t].version = zTask[t].version

\* A task that has become another operation; the others are what they were.
LEMMA OneMoves ==
  ASSUME UpdateTyped, NEW t \in UpdateTasks, NEW r \in UpdateOperations, zTask' = [zTask EXCEPT ![t] = r]
  PROVE  Others(t) /\ zTask'[t] = r
BY DEF Others, UpdateTyped

\* A task that goes to a place changes nothing else of it.
LEMMA GotoMoves ==
  ASSUME UpdateTyped, NEW t \in UpdateTasks, NEW place \in UpdatePlaces, Update!To(t, place)
  PROVE  TaskMoved(t, place)
<1>1. zTask \in [UpdateTasks -> UpdateOperations]
  BY DEF UpdateTyped
<1>2. zTask[t] \in UpdateOperations
  BY <1>1
<1>3. PICK r : r = [zTask[t] EXCEPT !.at = place]
  OBVIOUS
<1>4. /\ r \in UpdateOperations /\ r.at = place /\ r.does = zTask[t].does /\ r.orig = zTask[t].orig
      /\ r.doc = zTask[t].doc /\ r.version = zTask[t].version
  BY <1>2, <1>3 DEF UpdateOperations
<1>5. zTask' = [zTask EXCEPT ![t] = r]
  BY <1>3 DEF Update!To
<1> QED BY <1>4, <1>5, OneMoves DEF TaskMoved, Kept

\* So does one that goes to a place with an answer.
LEMMA AnswerMoves ==
  ASSUME UpdateTyped, NEW t \in UpdateTasks, NEW place \in UpdatePlaces, NEW answer \in UpdateAnswers,
         zTask' = [zTask EXCEPT ![t].at = place, ![t].answer = answer]
  PROVE  TaskMoved(t, place)
<1>1. zTask \in [UpdateTasks -> UpdateOperations]
  BY DEF UpdateTyped
<1>2. zTask[t] \in UpdateOperations
  BY <1>1
<1>3. PICK r : r = [zTask[t] EXCEPT !.at = place, !.answer = answer]
  OBVIOUS
<1>4. /\ r \in UpdateOperations /\ r.at = place /\ r.does = zTask[t].does /\ r.orig = zTask[t].orig
      /\ r.doc = zTask[t].doc /\ r.version = zTask[t].version
  BY <1>2, <1>3 DEF UpdateOperations, UpdateAnswers
<1>5. zTask' = [zTask EXCEPT ![t] = r]
  BY <1>1, <1>3
<1> QED BY <1>4, <1>5, OneMoves DEF TaskMoved, Kept

\* A call that ends is at its answer.
LEMMA EndMoves ==
  ASSUME UpdateTyped, NEW t \in UpdateTasks, NEW answer \in UpdateAnswers, Update!Ends(t,
           answer) PROVE TaskMoved(t, "answer")
BY AnswerMoves DEF Update!Ends, UpdatePlaces

\* A call that is not there is typed.
LEMMA IdleFacts ==
  /\ Update!Idle \in UpdateOperations /\ Update!Idle.at = "idle" /\ Update!Idle.does = Update!None /\
       Update!Idle.doc = DefaultDoc /\ Update!Idle.version = 0
  /\ Update!Idle.orig = DefaultDoc
BY DEF Update!Idle, UpdateOperations, UpdatePlaces, UpdateCalls, UpdateDocs, UpdateAnswers

\* Begun at a place, as a call of a kind.
CallBegun(t, place, does) ==
  /\ zTask[t].at = "idle" /\ Others(t)
  /\ zTask'[t].at = place /\ zTask'[t].does = does /\ zTask'[t].doc = DefaultDoc /\ zTask'[t].version = 0

\* A call begins.
LEMMA StartMoves ==
  ASSUME UpdateTyped, NEW t \in UpdateTasks, NEW place \in UpdatePlaces, NEW does \in UpdateCalls,
           zTask[t].at = "idle",
         zTask' = [zTask EXCEPT ![t] = [Update!Idle EXCEPT !.at = place, !.does = does]]
  PROVE  CallBegun(t, place, does)
<1>1. PICK r : r = [Update!Idle EXCEPT !.at = place, !.does = does]
  OBVIOUS
<1>2. PICK i : i = Update!Idle
  OBVIOUS
<1>3. r = [i EXCEPT !.at = place, !.does = does]
  BY Zenon, <1>1, <1>2
<1>4. r \in UpdateOperations /\ r.at = place /\ r.does = does /\ r.doc = DefaultDoc /\ r.version = 0
  BY <1>2, <1>3, IdleFacts DEF UpdateOperations
<1>5. zTask' = [zTask EXCEPT ![t] = r]
  BY Zenon, <1>1
<1> QED BY <1>4, <1>5, OneMoves DEF CallBegun

BeginSaveDoes(t, d) ==
  /\ zTask[t].at = "idle" /\ Others(t) /\ zFile' = d
  /\ zTask'[t].at = "file check" /\ zTask'[t].does = "save" /\ zTask'[t].doc = d /\ zTask'[t].orig = zFile
  /\ zTask'[t].version = 0
  /\ zSavers' = (zSavers \/ Update!Saving # {})
  /\ UNCHANGED <<zData, zDraft, zRun, zCore, zVersion, zKnown, zUpdating, zLife, zExiting, zAccepted, zAgreed,
       zCrossed>>
\* A save puts its content into the file.
LEMMA BeginSaveMoves ==
  ASSUME UpdateTyped, NEW t \in UpdateTasks, NEW d \in Docs, Update!BeginSave(t, d)
  PROVE  BeginSaveDoes(t, d)
<1>1. zFile \in UpdateDocs /\ d \in UpdateDocs
  BY DEF UpdateTyped, UpdateDocs
<1>2. PICK r : r = [Update!Idle EXCEPT !.at = "file check", !.does = "save", !.orig = zFile, !.doc = d]
  OBVIOUS
<1>3. PICK i : i = Update!Idle
  OBVIOUS
<1>4. r = [i EXCEPT !.at = "file check", !.does = "save", !.orig = zFile, !.doc = d]
  BY Zenon, <1>2, <1>3
<1>5. r \in UpdateOperations /\ r.at = "file check" /\ r.does = "save" /\ r.doc = d /\ r.orig = zFile /\ r.version = 0
  BY <1>1, <1>3, <1>4, IdleFacts DEF UpdateOperations, UpdatePlaces, UpdateCalls
<1>6. zTask' = [zTask EXCEPT ![t] = r]
  BY Zenon, <1>2 DEF Update!BeginSave
<1>7. Others(t) /\ zTask'[t] = r
  BY <1>5, <1>6, OneMoves
<1>8. /\ zTask[t].at = "idle" /\ zFile' = d /\ zSavers' = (zSavers \/ Update!Saving # {})
      /\ UNCHANGED <<zData, zDraft, zRun, zCore, zVersion, zKnown, zUpdating, zLife, zExiting, zAccepted, zAgreed,
           zCrossed>>
  BY Zenon DEF Update!BeginSave
<1> QED BY <1>5, <1>7, <1>8 DEF BeginSaveDoes

CheckFileDoes(t) ==
  /\ zTask[t].at = "file check"
  /\ TaskMoved(t, "enter") \/ TaskMoved(t, "answer")
  /\ UNCHANGED <<zFile, zData, zDraft, zRun, zCore, zVersion, zKnown, zUpdating, zLife, zExiting, zAccepted,
       zAgreed, zSavers,
                 zCrossed>>
\* A file is checked, and updated with if it is in use.
LEMMA CheckFileMoves == ASSUME UpdateTyped, NEW t \in UpdateTasks, Update!CheckFile(t) PROVE CheckFileDoes(t)
<1>1. PICK valid : /\ valid \in BOOLEAN
                   /\ zTask' = [zTask EXCEPT ![t].at = IF valid /\ zInUse THEN "enter" ELSE "answer",
                                             ![t].answer = IF valid THEN "valid" ELSE "invalid"]
  <2>1. (~zExiting /\ Update!FilePasses(zFile)) \in BOOLEAN
    BY Zenon
  <2> QED BY <2>1, Zenon DEF Update!CheckFile
<1>2. PICK place : place = IF valid /\ zInUse THEN "enter" ELSE "answer"
  OBVIOUS
<1>3. PICK answer : answer = IF valid THEN "valid" ELSE "invalid"
  OBVIOUS
<1>4. place \in {"enter", "answer"} /\ answer \in UpdateAnswers
  BY <1>2, <1>3 DEF UpdateAnswers
<1>5. zTask' = [zTask EXCEPT ![t].at = place, ![t].answer = answer]
  BY Zenon, <1>1, <1>2, <1>3
<1>6. TaskMoved(t, place)
  BY <1>4, <1>5, AnswerMoves DEF UpdatePlaces
<1> QED BY <1>4, <1>6 DEF Update!CheckFile, CheckFileDoes, Update!Item, Update!Ghosts

AnswerDoes(t) ==
  /\ zTask[t].at = "answer" /\ Others(t)
  /\ zTask'[t].at = "idle" /\ zTask'[t].does = Update!None /\ zTask'[t].doc = DefaultDoc /\ zTask'[t].version = 0
  /\ \/ zTask[t].does # "save" /\ UNCHANGED <<zFile, zAgreed>>
     \/ zTask[t].does = "save" /\ zAgreed' = zTask[t].doc /\ zFile' = zFile
     \/ zTask[t].does = "save" /\ zFile' = zTask[t].orig /\ zAgreed' = zAgreed
  /\ UNCHANGED <<zData, zDraft, zRun, zCore, zVersion, zKnown, zUpdating, zLife, zExiting, zAccepted, zSavers,
       zCrossed>>
\* A save that was refused puts the file back.
LEMMA AnswerPuts == ASSUME UpdateTyped, NEW t \in UpdateTasks, Update!Answer(t) PROVE AnswerDoes(t)
<1>1. zTask' = [zTask EXCEPT ![t] = Update!Idle]
  BY DEF Update!Answer
<1>2. /\ Others(t) /\ zTask'[t].at = "idle" /\ zTask'[t].does = Update!None /\ zTask'[t].doc = DefaultDoc
      /\ zTask'[t].version = 0
  BY <1>1, IdleFacts, OneMoves
<1> QED BY <1>2 DEF Update!Answer, AnswerDoes, Update!Item

BeginUpdateDoes(t) ==
  /\ CallBegun(t, "enter", "update") \/ CallBegun(t, "enter", "edit")
  /\ zDraft' \in {zDraft, Update!Latest}
  /\ UNCHANGED <<zFile, zData, zRun, zCore, zVersion, zKnown, zUpdating, zLife, zExiting, zAccepted, zAgreed,
       zSavers, zCrossed>>
\* An update is asked for.
LEMMA BeginUpdateMoves ==
  ASSUME UpdateTyped, NEW t \in UpdateTasks, NEW does \in {"update", "edit"}, Update!BeginUpdate(t, does)
  PROVE  BeginUpdateDoes(t)
<1>1. CallBegun(t, "enter", does)
  BY StartMoves DEF Update!BeginUpdate, UpdatePlaces, UpdateCalls
<1> QED BY <1>1 DEF Update!BeginUpdate, BeginUpdateDoes, Update!Item, Update!Ghosts

\* So it is by the page of DNS.
LEMMA ApplyDnsMoves == ASSUME UpdateTyped, NEW t \in UpdateTasks, Update!ApplyDns(t) PROVE BeginUpdateDoes(t)
<1>1. CallBegun(t, "enter", "update")
  BY StartMoves DEF Update!ApplyDns, UpdatePlaces, UpdateCalls
<1> QED BY <1>1 DEF Update!ApplyDns, BeginUpdateDoes, Update!Item, Update!Ghosts

EnterDoes(t) ==
  /\ zTask[t].at = "enter"
  /\ \/ zUpdating = Update!None /\ zUpdating' = t /\ TaskMoved(t, "make")
     \/ TaskMoved(t, "answer") /\ zUpdating' = zUpdating
  /\ UNCHANGED <<zFile, zData, zDraft, zRun, zCore, zVersion, zKnown, zLife, zExiting, zAccepted, zAgreed, zSavers,
       zCrossed>>
\* An update has its turn or is dropped.
LEMMA EnterMoves == ASSUME UpdateTyped, NEW t \in UpdateTasks, Update!Enter(t) PROVE EnterDoes(t)
<1>1. CASE zUpdating = Update!None /\ zUpdating' = t /\ Update!To(t, "make")
  BY <1>1, GotoMoves DEF Update!Enter, EnterDoes, UpdatePlaces, Update!Item, Update!Ghosts
<1>2. CASE Update!Ends(t, "skipped") /\ zUpdating' = zUpdating
  BY <1>2, EndMoves DEF Update!Enter, EnterDoes, UpdateAnswers, Update!Item, Update!Ghosts
<1> QED BY <1>1, <1>2, Zenon DEF Update!Enter

\* An update is over; a configuration that was staged is dropped, and the core does not run
\* one that was given up.
Dropped == zDraft' = Update!None /\ (zCrossed' \/ zCore.mode = Update!None \/ zCore.doc = zData)

MakeDoes(t) ==
  /\ zTask[t].at = "make"
  /\ \/ /\ TaskMoved(t, "check") /\ zDraft' \in Docs \cup {zFile} /\ (zTask[t].does # "edit" => zDraft' = zFile)
        /\ UNCHANGED <<zUpdating, zCrossed>>
     \/ TaskMoved(t, "answer") /\ zUpdating' = Update!None /\ Dropped
  /\ zCrossed' \in BOOLEAN /\ (zCrossed => zCrossed')
  /\ UNCHANGED <<zFile, zData, zRun, zCore, zVersion, zKnown, zLife, zExiting, zAccepted, zAgreed, zSavers>>

\* An update that gives up drops its draft.
LEMMA GivesUp ==
  ASSUME UpdateTyped, NEW t \in UpdateTasks, Update!GiveUp(t), Update!Loses
  PROVE  /\ TaskMoved(t, "answer") /\ zUpdating' = Update!None /\ Dropped
         /\ zCrossed' \in BOOLEAN /\ (zCrossed => zCrossed')
<1>1. TaskMoved(t, "answer")
  BY EndMoves DEF Update!GiveUp, UpdateAnswers
<1>2. /\ zCrossed' \in BOOLEAN /\ (zCrossed => zCrossed')
      /\ zCrossed' \/ zCore.mode = Update!None \/ zCore.doc = zData
  BY Zenon DEF Update!Loses
<1> QED BY <1>1, <1>2 DEF Update!GiveUp, Dropped

\* The configuration is made of the file, or of the user's edit.
LEMMA MakeMoves == ASSUME UpdateTyped, NEW t \in UpdateTasks, Update!Make(t) PROVE MakeDoes(t)
<1>1. zTask[t].at = "make"
      /\ UNCHANGED <<zFile, zData, zRun, zCore, zVersion, zKnown, zLife, zExiting, zAccepted, zAgreed, zSavers>>
  BY DEF Update!Make, Update!Item
<1>2. CASE /\ IF zTask[t].does = "edit" THEN \E d \in Docs : zDraft' = d ELSE zDraft' = zFile
           /\ Update!To(t, "check") /\ UNCHANGED <<zUpdating, zFaults, zCrossed>>
  <2>1. TaskMoved(t, "check")
    BY <1>2, GotoMoves DEF UpdatePlaces
  <2>2. zCrossed' \in BOOLEAN /\ (zCrossed => zCrossed')
    BY <1>2 DEF UpdateTyped
  <2> QED BY <1>1, <1>2, <2>1, <2>2 DEF MakeDoes
<1>3. CASE zTask[t].does # "edit" /\ Update!Fault /\ Update!GiveUp(t) /\ Update!Loses
  BY <1>1, <1>3, GivesUp DEF MakeDoes
<1> QED BY <1>2, <1>3, Zenon DEF Update!Make

CheckBytesDoes(t) ==
  /\ zTask[t].at = "check" /\ Kept(t) /\ zTask'[t].doc = Update!Latest /\ zTask'[t].version = zVersion
  /\ \/ zTask'[t].at = "write" /\ zKnown.doc = Update!Latest /\ zKnown.version = zVersion
     \/ zTask'[t].at = "core check"
  /\ UNCHANGED <<zFile, zData, zDraft, zRun, zCore, zVersion, zKnown, zUpdating, zLife, zExiting, zAccepted,
       zAgreed, zSavers,
                 zCrossed>>
\* The bytes are made, and were accepted before or are to be checked.
LEMMA CheckBytesMoves == ASSUME UpdateTyped, NEW t \in UpdateTasks, Update!CheckBytes(t) PROVE CheckBytesDoes(t)
<1>1. PICK place : place = IF zKnown = [doc |-> Update!Latest, version |-> zVersion] THEN "write" ELSE "core check"
  OBVIOUS
<1>2. PICK latest : latest = Update!Latest
  OBVIOUS
<1>3. zTask \in [UpdateTasks -> UpdateOperations] /\ zVersion \in Nat /\ latest \in UpdateDocs
  BY <1>2 DEF UpdateTyped, Update!Latest
<1>4. zTask[t] \in UpdateOperations
  BY <1>3
<1>5. place \in {"write", "core check"} /\ (place = "write" => zKnown = [doc |-> latest, version |-> zVersion])
  BY <1>1, <1>2
<1>6. PICK r : r = [zTask[t] EXCEPT !.at = place, !.doc = latest, !.version = zVersion]
  OBVIOUS
<1>7. /\ r \in UpdateOperations /\ r.at = place /\ r.does = zTask[t].does /\ r.orig = zTask[t].orig
      /\ r.doc = latest /\ r.version = zVersion
  BY <1>3, <1>4, <1>5, <1>6 DEF UpdateOperations, UpdatePlaces
<1>8. zTask' = [zTask EXCEPT ![t].at = place, ![t].doc = latest, ![t].version = zVersion]
  BY Zenon, <1>1, <1>2 DEF Update!CheckBytes
<1>9. zTask' = [zTask EXCEPT ![t] = r]
  BY <1>3, <1>6, <1>8
<1>10. Others(t) /\ zTask'[t] = r
  BY <1>7, <1>9, OneMoves
<1>11. place = "write" => zKnown.doc = latest /\ zKnown.version = zVersion
  BY <1>5
<1>12. zTask[t].at = "check"
       /\ UNCHANGED <<zFile, zData, zDraft, zRun, zCore, zVersion, zKnown, zUpdating, zLife, zExiting, zAccepted,
            zAgreed,
                      zSavers, zCrossed>>
  BY DEF Update!CheckBytes, Update!Item, Update!Ghosts
<1> QED BY <1>2, <1>5, <1>7, <1>10, <1>11, <1>12 DEF CheckBytesDoes, Kept

CheckByCoreDoes(t) ==
  /\ zTask[t].at = "core check"
  /\ \/ /\ TaskMoved(t, "write") /\ zKnown' = [doc |-> zTask[t].doc, version |-> zTask[t].version]
        /\ zAccepted' = [zAccepted EXCEPT ![zTask[t].doc] = zVersion]
        /\ UNCHANGED <<zDraft, zUpdating, zCrossed>>
     \/ TaskMoved(t, "answer") /\ zUpdating' = Update!None /\ Dropped /\ UNCHANGED <<zKnown, zAccepted>>
  /\ zCrossed' \in BOOLEAN /\ (zCrossed => zCrossed')
  /\ UNCHANGED <<zFile, zData, zRun, zCore, zVersion, zLife, zExiting, zAgreed, zSavers>>
\* The core accepts the bytes, or the update gives up.
LEMMA CheckByCoreMoves == ASSUME UpdateTyped, NEW t \in UpdateTasks, Update!CheckByCore(t) PROVE CheckByCoreDoes(t)
<1>1. zTask[t].at = "core check" /\ UNCHANGED <<zFile, zData, zRun, zCore, zVersion, zLife, zExiting, zAgreed,
        zSavers>>
  BY DEF Update!CheckByCore, Update!Item
<1>2. CASE /\ zKnown' = [doc |-> zTask[t].doc, version |-> zTask[t].version]
           /\ zAccepted' = [zAccepted EXCEPT ![zTask[t].doc] = zVersion]
           /\ Update!To(t, "write") /\ UNCHANGED <<zDraft, zUpdating, zCrossed>>
  <2>1. TaskMoved(t, "write")
    BY <1>2, GotoMoves DEF UpdatePlaces
  <2>2. zCrossed' \in BOOLEAN /\ (zCrossed => zCrossed')
    BY <1>2 DEF UpdateTyped
  <2> QED BY <1>1, <1>2, <2>1, <2>2 DEF CheckByCoreDoes
<1>3. CASE Update!GiveUp(t) /\ Update!Loses /\ UNCHANGED <<zKnown, zAccepted>>
  BY <1>1, <1>3, GivesUp DEF CheckByCoreDoes
<1> QED BY <1>2, <1>3, Zenon DEF Update!CheckByCore

WriteRunDoes(t) ==
  /\ zTask[t].at = "write"
  /\ \/ TaskMoved(t, "apply") /\ zRun' = zTask[t].doc /\ UNCHANGED <<zDraft, zUpdating, zCrossed>>
     \/ TaskMoved(t, "answer") /\ zUpdating' = Update!None /\ Dropped /\ UNCHANGED zRun
  /\ zCrossed' \in BOOLEAN /\ (zCrossed => zCrossed')
  /\ UNCHANGED <<zFile, zData, zCore, zVersion, zKnown, zLife, zExiting, zAccepted, zAgreed, zSavers>>
\* The bytes are written to the run file.
LEMMA WriteRunMoves == ASSUME UpdateTyped, NEW t \in UpdateTasks, Update!WriteRun(t) PROVE WriteRunDoes(t)
<1>1. zTask[t].at = "write"
      /\ UNCHANGED <<zFile, zData, zCore, zVersion, zKnown, zLife, zExiting, zAccepted, zAgreed, zSavers>>
  BY DEF Update!WriteRun, Update!Item
<1>2. CASE zRun' = zTask[t].doc /\ Update!To(t, "apply") /\ UNCHANGED <<zDraft, zUpdating, zCrossed, zFaults>>
  <2>1. TaskMoved(t, "apply")
    BY <1>2, GotoMoves DEF UpdatePlaces
  <2>2. zCrossed' \in BOOLEAN /\ (zCrossed => zCrossed')
    BY <1>2 DEF UpdateTyped
  <2> QED BY <1>1, <1>2, <2>1, <2>2 DEF WriteRunDoes
<1>3. CASE Update!Fault /\ Update!GiveUp(t) /\ Update!Loses /\ UNCHANGED zRun
  BY <1>1, <1>3, GivesUp DEF WriteRunDoes
<1> QED BY <1>2, <1>3, Zenon DEF Update!WriteRun

ApplyDoes(t) ==
  /\ zTask[t].at = "apply"
  /\ \/ zLife = Update!None /\ zLife' = t /\ TaskMoved(t, "stage")
     \/ TaskMoved(t, "reload") /\ zLife' = zLife
  /\ UNCHANGED <<zFile, zData, zDraft, zRun, zCore, zVersion, zKnown, zUpdating, zExiting, zAccepted, zAgreed,
       zSavers, zCrossed>>
\* The service is asked under the lock of the lifecycle.
LEMMA ApplyMoves == ASSUME UpdateTyped, NEW t \in UpdateTasks, Update!Apply(t) PROVE ApplyDoes(t)
<1>1. CASE zLife = Update!None /\ zLife' = t /\ Update!To(t, "stage")
  BY <1>1, GotoMoves DEF Update!Apply, ApplyDoes, UpdatePlaces, Update!Item, Update!Ghosts
<1>2. CASE Update!To(t, "reload") /\ zLife' = zLife
  BY <1>2, GotoMoves DEF Update!Apply, ApplyDoes, UpdatePlaces, Update!Item, Update!Ghosts
<1> QED BY <1>1, <1>2, Zenon DEF Update!Apply

StageDoes(t) ==
  /\ zTask[t].at = "stage"
  /\ \/ /\ TaskMoved(t, "stage") \/ TaskMoved(t, "reload") \/ TaskMoved(t, "replace")
        /\ UNCHANGED <<zDraft, zUpdating, zLife, zCrossed>>
     \/ TaskMoved(t, "answer") /\ zUpdating' = Update!None /\ Dropped /\ zLife' = Update!None
  /\ zCrossed' \in BOOLEAN /\ (zCrossed => zCrossed')
  /\ UNCHANGED <<zFile, zData, zRun, zCore, zVersion, zKnown, zExiting, zAccepted, zAgreed, zSavers>>
\* The service answers, or is asked once more.
LEMMA StageMoves == ASSUME UpdateTyped, NEW t \in UpdateTasks, Update!Stage(t) PROVE StageDoes(t)
<1>1. zTask[t].at = "stage" /\ UNCHANGED <<zFile, zData, zRun, zCore, zVersion, zKnown, zExiting, zAccepted,
        zAgreed, zSavers>>
  BY DEF Update!Stage, Update!Item
<1>2. PICK answer \in Update!Answers :
        \/ zTask' = [zTask EXCEPT ![t].asked = 1] /\ UNCHANGED <<zDraft, zUpdating, zLife, zCrossed>>
        \/ Update!GiveUp(t) /\ Update!Loses /\ zLife' = Update!None
        \/ Update!Plan(answer) # "fail" /\ Update!To(t, Update!Plan(answer)) /\
             UNCHANGED <<zDraft, zUpdating, zLife, zCrossed>>
  BY Zenon DEF Update!Stage
<1>3. UNCHANGED zCrossed => zCrossed' \in BOOLEAN /\ (zCrossed => zCrossed')
  BY DEF UpdateTyped
<1>4. CASE zTask' = [zTask EXCEPT ![t].asked = 1] /\ UNCHANGED <<zDraft, zUpdating, zLife, zCrossed>>
  <2>1. zTask \in [UpdateTasks -> UpdateOperations]
    BY DEF UpdateTyped
  <2>2. zTask[t] \in UpdateOperations
    BY <2>1
  <2>3. PICK r : r = [zTask[t] EXCEPT !.asked = 1]
    OBVIOUS
  <2>4. /\ r \in UpdateOperations /\ r.at = zTask[t].at /\ r.does = zTask[t].does /\ r.orig = zTask[t].orig
        /\ r.doc = zTask[t].doc /\ r.version = zTask[t].version
    BY <2>2, <2>3 DEF UpdateOperations
  <2>5. zTask' = [zTask EXCEPT ![t] = r]
    BY <1>4, <2>3
  <2>6. TaskMoved(t, "stage")
    BY <1>1, <2>4, <2>5, OneMoves DEF TaskMoved, Kept
  <2> QED BY <1>1, <1>3, <1>4, <2>6 DEF StageDoes
<1>5. CASE Update!GiveUp(t) /\ Update!Loses /\ zLife' = Update!None
  BY <1>1, <1>5, GivesUp DEF StageDoes
<1>6. CASE Update!Plan(answer) # "fail" /\ Update!To(t, Update!Plan(answer)) /\
             UNCHANGED <<zDraft, zUpdating, zLife, zCrossed>>
  <2>1. Update!Plan(answer) \in {"reload", "replace"}
    BY <1>6 DEF Update!Plan, Update!Answers
  <2>2. TaskMoved(t, Update!Plan(answer))
    BY <1>6, <2>1, GotoMoves DEF UpdatePlaces
  <2> QED BY <1>1, <1>3, <1>6, <2>1, <2>2 DEF StageDoes
<1> QED BY <1>2, <1>4, <1>5, <1>6

ReloadDoes(t) ==
  /\ zTask[t].at = "reload"
  /\ \/ /\ zCore' \in UpdateCores /\ zCore'.doc = zRun /\ zCore'.by = "update"
        /\ TaskMoved(t, "commit") \/ TaskMoved(t, "replace")
     \/ zCore' = zCore /\ TaskMoved(t, "replace")
  /\ UNCHANGED <<zFile, zData, zDraft, zRun, zVersion, zKnown, zUpdating, zLife, zExiting, zAccepted, zAgreed,
       zSavers, zCrossed>>
\* The core that is up has read the run file, whether or not it has said so.
LEMMA ReloadMoves == ASSUME UpdateTyped, NEW t \in UpdateTasks, Update!Reload(t) PROVE ReloadDoes(t)
<1>1. zTask[t].at = "reload" /\ UNCHANGED <<zFile, zData, zDraft, zRun, zVersion, zKnown, zUpdating, zLife, zExiting,
                                            zAccepted, zAgreed, zSavers, zCrossed>>
  BY DEF Update!Reload, Update!Item, Update!Ghosts
<1>2. Update!To(t, "replace") => TaskMoved(t, "replace")
  BY GotoMoves DEF UpdatePlaces
<1>3. Update!To(t, "commit") => TaskMoved(t, "commit")
  BY GotoMoves DEF UpdatePlaces
<1>4. zCore \in UpdateCores /\ zRun \in UpdateDocs
  BY DEF UpdateTyped
<1>5. zCore' = [zCore EXCEPT !.doc = zRun, !.by = "update"]
        => zCore' \in UpdateCores /\ zCore'.doc = zRun /\ zCore'.by = "update"
  BY <1>4 DEF UpdateCores
<1>6. \/ zCore' = [zCore EXCEPT !.doc = zRun, !.by = "update"] /\ (Update!To(t, "commit") \/ Update!To(t, "replace"))
      \/ zCore' = zCore /\ Update!To(t, "replace")
  BY Zenon DEF Update!Reload
<1> QED BY <1>1, <1>2, <1>3, <1>5, <1>6, Zenon DEF ReloadDoes

ReplaceDoes(t) ==
  /\ zTask[t].at = "replace" /\ zLife \in {Update!None, t} /\ zLife' = Update!None
  /\ zRun' = IF zLife = t THEN zRun ELSE Update!Latest
  /\ zCore' \in UpdateCores
  /\ \/ zCore'.doc = zRun' /\ zCore'.by \in {"update", "restart"} /\
          (zTask[t].does = "restart" => zCore'.by = "restart")
     \/ zCore'.mode = Update!None /\ zCore'.by = Update!None
  /\ \/ TaskMoved(t, "commit") /\ UNCHANGED <<zDraft, zUpdating, zCrossed>>
     \/ /\ TaskMoved(t, "answer") /\ zUpdating' = Update!None
        /\ zTask[t].does = "restart" => zDraft' = zDraft
        /\ zTask[t].does # "restart" => zDraft' = Update!None /\ (zCrossed' \/ zCore'.mode = Update!None)
  /\ zCrossed' \in BOOLEAN /\ (zCrossed => zCrossed')
  /\ UNCHANGED <<zFile, zData, zVersion, zKnown, zExiting, zAccepted, zAgreed, zSavers>>
\* The core is replaced by one that runs the latest configuration, or is down.
LEMMA ReplaceMoves == ASSUME UpdateTyped, NEW t \in UpdateTasks, Update!Replace(t) PROVE ReplaceDoes(t)
<1>1. /\ zTask[t].at = "replace" /\ zLife \in {Update!None, t} /\ zLife' = Update!None
      /\ zRun' = IF zLife = t THEN zRun ELSE Update!Latest
      /\ UNCHANGED <<zFile, zData, zVersion, zKnown, zExiting, zAccepted, zAgreed, zSavers>>
  BY DEF Update!Replace, Update!Item
<1> DEFINE modes == IF zLife = t THEN {"service"} ELSE {"service", "sidecar"}
           restart == zTask[t].does = "restart"
           up == {Update!Running(m, zRun', IF restart THEN "restart" ELSE "update") : m \in modes}
<1>2. zRun' \in UpdateDocs
  BY <1>1 DEF UpdateTyped, Update!Latest
<1>3. zCore' \in up => /\ zCore' \in UpdateCores /\ zCore'.doc = zRun' /\ zCore'.by \in {"update", "restart"}
                       /\ zTask[t].does = "restart" => zCore'.by = "restart"
  BY <1>2 DEF Update!Running, UpdateCores
<1>4. zCore' = Update!Down => zCore' \in UpdateCores /\ zCore'.mode = Update!None /\ zCore'.by = Update!None
  BY DEF Update!Down, Update!Running, UpdateCores, UpdateDocs
<1>5. \/ zCore' \in up /\ Update!To(t, "commit") /\ UNCHANGED <<zDraft, zUpdating, zCrossed>>
      \/ /\ \/ zCore' = Update!Down /\ UNCHANGED zCrossed
            \/ zCore' \in up /\ zCrossed' = (zCrossed \/ ~restart)
         /\ IF restart THEN zUpdating' = Update!None /\ UNCHANGED zDraft /\
              Update!Ends(t, "failed") ELSE Update!GiveUp(t)
  BY Zenon DEF Update!Replace
<1>6. Update!To(t, "commit") => TaskMoved(t, "commit")
  BY GotoMoves DEF UpdatePlaces
<1>7. Update!Ends(t, "failed") => TaskMoved(t, "answer")
  BY EndMoves DEF UpdateAnswers
<1>8. zCrossed \in BOOLEAN
  BY DEF UpdateTyped
<1>9. CASE zCore' \in up /\ Update!To(t, "commit") /\ UNCHANGED <<zDraft, zUpdating, zCrossed>>
  <2> HIDE DEF up
  <2> QED BY <1>1, <1>3, <1>6, <1>8, <1>9 DEF ReplaceDoes
<1>10. CASE /\ \/ zCore' = Update!Down /\ UNCHANGED zCrossed
               \/ zCore' \in up /\ zCrossed' = (zCrossed \/ ~restart)
            /\ IF restart THEN zUpdating' = Update!None /\ UNCHANGED zDraft /\
                 Update!Ends(t, "failed") ELSE Update!GiveUp(t)
  <2> HIDE DEF up
  <2>1. zCrossed' \in BOOLEAN /\ (zCrossed => zCrossed')
    <3>1. zCrossed' = (zCrossed \/ ~restart) => zCrossed' \in BOOLEAN /\ (zCrossed => zCrossed')
      BY Zenon
    <3>2. zCrossed' = zCrossed => zCrossed' \in BOOLEAN /\ (zCrossed => zCrossed')
      BY <1>8
    <3>3. zCrossed' = zCrossed \/ zCrossed' = (zCrossed \/ ~restart)
      BY Zenon, <1>10
    <3> QED BY Zenon, <3>1, <3>2, <3>3
  <2>2. zCore' = Update!Down \/ (zCore' \in up /\ (zCrossed' \/ restart))
    BY Zenon, <1>10
  <2>3. TaskMoved(t, "answer") /\ zUpdating' = Update!None /\ (restart => zDraft' = zDraft) /\
          (~restart => zDraft' = Update!None)
    BY Zenon, <1>7, <1>10 DEF Update!GiveUp
  <2> QED BY <1>1, <1>3, <1>4, <2>1, <2>2, <2>3 DEF ReplaceDoes
<1> QED BY <1>5, <1>9, <1>10

CommitDoes(t) ==
  /\ zTask[t].at = "commit" /\ zUpdating' = Update!None /\ TaskMoved(t, "answer")
  /\ zLife' = IF zLife = t THEN Update!None ELSE zLife
  /\ \/ zTask[t].does = "restart" /\ UNCHANGED <<zData, zDraft>>
     \/ zTask[t].does # "restart" /\ zData' = Update!Latest /\ zDraft' = Update!None
  /\ UNCHANGED <<zFile, zRun, zCore, zVersion, zKnown, zExiting, zAccepted, zAgreed, zSavers, zCrossed>>
\* What was staged is the runtime configuration.
LEMMA CommitMoves == ASSUME UpdateTyped, NEW t \in UpdateTasks, Update!Commit(t) PROVE CommitDoes(t)
<1>1. TaskMoved(t, "answer")
  BY EndMoves DEF Update!Commit, UpdateAnswers
<1>2. \/ zTask[t].does = "restart" /\ zData' = zData /\ zDraft' = zDraft
      \/ zTask[t].does # "restart" /\ zData' = Update!Latest /\ zDraft' = Update!None
  BY Zenon DEF Update!Commit
<1> QED BY <1>1, <1>2 DEF Update!Commit, CommitDoes, Update!Item, Update!Ghosts

BeginRestartDoes(t) ==
  /\ CallBegun(t, "restart", "restart") /\ zDraft' = zFile
  /\ zCrossed' \in BOOLEAN /\ (zCrossed => zCrossed') /\ (zCrossed' \/ zUpdating = Update!None)
  /\ UNCHANGED <<zFile, zData, zRun, zCore, zVersion, zKnown, zUpdating, zLife, zExiting, zAccepted, zAgreed,
       zSavers>>
\* A restart is asked for with a configuration of its own.
LEMMA BeginRestartMoves == ASSUME UpdateTyped, NEW t \in UpdateTasks, Update!BeginRestart(t) PROVE BeginRestartDoes(t)
<1>1. CallBegun(t, "restart", "restart")
  BY StartMoves DEF Update!BeginRestart, UpdatePlaces, UpdateCalls
<1>2. zCrossed' \in BOOLEAN /\ (zCrossed => zCrossed') /\ (zCrossed' \/ zUpdating = Update!None)
  BY Zenon DEF Update!BeginRestart
<1> QED BY <1>1, <1>2 DEF Update!BeginRestart, BeginRestartDoes, Update!Item

RestartDoes(t) ==
  /\ zTask[t].at = "restart"
  /\ \/ zUpdating = Update!None /\ zUpdating' = t /\ TaskMoved(t, "replace") /\ UNCHANGED zCrossed
     \/ TaskMoved(t, "answer") /\ zCrossed' = TRUE /\ zUpdating' = zUpdating
  /\ UNCHANGED <<zFile, zData, zDraft, zRun, zCore, zVersion, zKnown, zLife, zExiting, zAccepted, zAgreed, zSavers>>
\* A restart has its turn or is dropped.
LEMMA RestartMoves == ASSUME UpdateTyped, NEW t \in UpdateTasks, Update!Restart(t) PROVE RestartDoes(t)
<1>1. zTask[t].at = "restart" /\ UNCHANGED <<zFile, zData, zDraft, zRun, zCore, zVersion, zKnown, zLife, zExiting,
        zAccepted,
                                             zAgreed, zSavers>>
  BY DEF Update!Restart, Update!Item
<1>2. CASE zUpdating = Update!None /\ zUpdating' = t /\ Update!To(t, "replace") /\ UNCHANGED zCrossed
  BY <1>1, <1>2, GotoMoves DEF RestartDoes, UpdatePlaces
<1>3. CASE Update!Ends(t, "skipped") /\ zCrossed' = TRUE /\ zUpdating' = zUpdating
  BY <1>1, <1>3, EndMoves DEF RestartDoes, UpdateAnswers
<1> QED BY <1>2, <1>3, Zenon DEF Update!Restart

WorldDoes ==
  /\ \/ zCore' \in UpdateCores /\ zCore'.mode = Update!None /\ zCore'.by = Update!None /\
          UNCHANGED <<zRun, zVersion, zExiting, zCrossed>>
     \/ /\ zRun' = Update!Latest /\ zCore' \in UpdateCores /\ zCore'.doc = Update!Latest /\ zCore'.by = "start"
        /\ (zCrossed' \/ zUpdating = Update!None) /\ UNCHANGED <<zVersion, zExiting>>
     \/ zVersion' = zVersion + 1 /\ UNCHANGED <<zRun, zCore, zExiting, zCrossed>>
     \/ zExiting' \in BOOLEAN /\ UNCHANGED <<zRun, zCore, zVersion, zCrossed>>
  /\ zCrossed' \in BOOLEAN /\ (zCrossed => zCrossed')
  /\ UNCHANGED <<zFile, zData, zDraft, zKnown, zUpdating, zLife, zTask, zAccepted, zAgreed, zSavers>>
\* The core dies or is started, it or the geo files change, the application exits.
LEMMA WorldMoves ==
  ASSUME UpdateTyped, Update!Crash \/ Update!Recover \/ Update!NewVersion \/ Update!Exit
  PROVE  WorldDoes
<1>1. UNCHANGED zCrossed => zCrossed' \in BOOLEAN /\ (zCrossed => zCrossed')
  BY DEF UpdateTyped
<1>2. Update!Latest \in UpdateDocs
  BY DEF UpdateTyped, Update!Latest
<1>3. CASE Update!Crash
  BY <1>1, <1>3 DEF Update!Crash, WorldDoes, Update!Item, Update!Ghosts, Update!Down, Update!Running, UpdateCores,
     UpdateDocs
<1>4. CASE Update!Recover
  <2>1. zCrossed' \in BOOLEAN /\ (zCrossed => zCrossed') /\ (zCrossed' \/ zUpdating = Update!None)
    BY Zenon, <1>4 DEF Update!Recover
  <2>2. zRun' = Update!Latest /\ zCore' \in UpdateCores /\ zCore'.doc = Update!Latest /\ zCore'.by = "start"
    BY <1>2, <1>4 DEF Update!Recover, Update!Running, UpdateCores
  <2> QED BY <1>4, <2>1, <2>2 DEF Update!Recover, WorldDoes, Update!Item
<1>5. CASE Update!NewVersion
  BY <1>1, <1>5 DEF Update!NewVersion, WorldDoes, Update!Item, Update!Ghosts
<1>6. CASE Update!Exit
  BY <1>1, <1>6 DEF Update!Exit, WorldDoes, Update!Item, Update!Ghosts
<1> QED BY <1>3, <1>4, <1>5, <1>6

TaskDoes(t) ==
  \/ \E d \in Docs : BeginSaveDoes(t, d)
  \/ CheckFileDoes(t) \/ AnswerDoes(t) \/ BeginUpdateDoes(t) \/ EnterDoes(t)
  \/ MakeDoes(t) \/ CheckBytesDoes(t) \/ CheckByCoreDoes(t) \/ WriteRunDoes(t)
  \/ ApplyDoes(t) \/ StageDoes(t) \/ ReloadDoes(t) \/ ReplaceDoes(t)
  \/ CommitDoes(t) \/ BeginRestartDoes(t) \/ RestartDoes(t)
Still == UNCHANGED <<zFile, zData, zDraft, zRun, zCore, zVersion, zKnown, zUpdating, zLife, zExiting, zTask,
    zAccepted, zAgreed,
                     zSavers, zCrossed>>
Steps == (\E t \in UpdateTasks : TaskDoes(t)) \/ WorldDoes \/ Still

\* Every step is one of these.
LEMMA StepsDo == ASSUME UpdateTyped, [Update!Next]_(Update!vars) PROVE Steps
<1>1. ASSUME NEW t \in UpdateTasks, NEW d \in Docs, Update!BeginSave(t, d) PROVE TaskDoes(t)
  BY <1>1, BeginSaveMoves DEF TaskDoes
<1>2. ASSUME NEW t \in UpdateTasks, NEW does \in {"update", "edit"}, Update!BeginUpdate(t, does) PROVE TaskDoes(t)
  BY <1>2, BeginUpdateMoves DEF TaskDoes
<1>3. ASSUME NEW t \in UpdateTasks, Update!ApplyDns(t) PROVE TaskDoes(t)
  BY <1>3, ApplyDnsMoves DEF TaskDoes
<1>4. ASSUME NEW t \in UpdateTasks, Update!CheckFile(t) PROVE TaskDoes(t)
  BY <1>4, CheckFileMoves DEF TaskDoes
<1>5. ASSUME NEW t \in UpdateTasks, Update!Answer(t) PROVE TaskDoes(t)
  BY <1>5, AnswerPuts DEF TaskDoes
<1>6. ASSUME NEW t \in UpdateTasks, Update!Enter(t) PROVE TaskDoes(t)
  BY <1>6, EnterMoves DEF TaskDoes
<1>7. ASSUME NEW t \in UpdateTasks, Update!Make(t) PROVE TaskDoes(t)
  BY <1>7, MakeMoves DEF TaskDoes
<1>8. ASSUME NEW t \in UpdateTasks, Update!CheckBytes(t) PROVE TaskDoes(t)
  BY <1>8, CheckBytesMoves DEF TaskDoes
<1>9. ASSUME NEW t \in UpdateTasks, Update!CheckByCore(t) PROVE TaskDoes(t)
  BY <1>9, CheckByCoreMoves DEF TaskDoes
<1>10. ASSUME NEW t \in UpdateTasks, Update!WriteRun(t) PROVE TaskDoes(t)
  BY <1>10, WriteRunMoves DEF TaskDoes
<1>11. ASSUME NEW t \in UpdateTasks, Update!Apply(t) PROVE TaskDoes(t)
  BY <1>11, ApplyMoves DEF TaskDoes
<1>12. ASSUME NEW t \in UpdateTasks, Update!Stage(t) PROVE TaskDoes(t)
  BY <1>12, StageMoves DEF TaskDoes
<1>13. ASSUME NEW t \in UpdateTasks, Update!Reload(t) PROVE TaskDoes(t)
  BY <1>13, ReloadMoves DEF TaskDoes
<1>14. ASSUME NEW t \in UpdateTasks, Update!Replace(t) PROVE TaskDoes(t)
  BY <1>14, ReplaceMoves DEF TaskDoes
<1>15. ASSUME NEW t \in UpdateTasks, Update!Commit(t) PROVE TaskDoes(t)
  BY <1>15, CommitMoves DEF TaskDoes
<1>16. ASSUME NEW t \in UpdateTasks, Update!BeginRestart(t) PROVE TaskDoes(t)
  BY <1>16, BeginRestartMoves DEF TaskDoes
<1>17. ASSUME NEW t \in UpdateTasks, Update!Restart(t) PROVE TaskDoes(t)
  BY <1>17, RestartMoves DEF TaskDoes
<1>18. CASE Update!Crash \/ Update!Recover \/ Update!NewVersion \/ Update!Exit
  BY <1>18, WorldMoves DEF Steps
<1>19. CASE UNCHANGED Update!vars
  BY <1>19 DEF Update!vars, Update!Item, Update!Ghosts, Steps, Still
<1> QED BY <1>1, <1>2, <1>3, <1>4, <1>5, <1>6, <1>7, <1>8, <1>9, <1>10, <1>11, <1>12, <1>13, <1>14, <1>15,
         <1>16, <1>17, <1>18, <1>19 DEF Update!Next, Steps

\* An update is held by the task that is in it.
LEMMA HoldStep ==
  ASSUME UpdateGiven, UpdateInv, Steps
  PROVE  HoldsFit'
<1>1. HoldsFit
  BY DEF UpdateInv
<1>2. ASSUME NEW t \in UpdateTasks, NEW d \in Docs, BeginSaveDoes(t, d) PROVE HoldsFit'
  <2>1. HoldFits(t)'
    BY <1>1, <1>2 DEF HoldFits, Held, UpdateGiven, HoldsFit, BeginSaveDoes, Others
  <2>2. ASSUME NEW u \in UpdateTasks, u # t PROVE HoldFits(u)'
    BY <1>1, <1>2, <2>2 DEF HoldFits, Held, UpdateGiven, HoldsFit, BeginSaveDoes, Others
  <2> QED BY <2>1, <2>2 DEF HoldsFit
<1>3. ASSUME NEW t \in UpdateTasks, CheckFileDoes(t) PROVE HoldsFit'
  <2>1. HoldFits(t)'
    BY <1>1, <1>3 DEF HoldFits, Held, UpdateGiven, HoldsFit, CheckFileDoes, TaskMoved, Kept, Others
  <2>2. ASSUME NEW u \in UpdateTasks, u # t PROVE HoldFits(u)'
    BY <1>1, <1>3, <2>2 DEF HoldFits, Held, UpdateGiven, HoldsFit, CheckFileDoes, TaskMoved, Kept, Others
  <2> QED BY <2>1, <2>2 DEF HoldsFit
<1>4. ASSUME NEW t \in UpdateTasks, AnswerDoes(t) PROVE HoldsFit'
  <2>1. HoldFits(t)'
    BY <1>1, <1>4 DEF HoldFits, Held, UpdateGiven, HoldsFit, AnswerDoes, Others
  <2>2. ASSUME NEW u \in UpdateTasks, u # t PROVE HoldFits(u)'
    BY <1>1, <1>4, <2>2 DEF HoldFits, Held, UpdateGiven, HoldsFit, AnswerDoes, Others
  <2> QED BY <2>1, <2>2 DEF HoldsFit
<1>5. ASSUME NEW t \in UpdateTasks, BeginUpdateDoes(t) PROVE HoldsFit'
  <2>1. HoldFits(t)'
    BY <1>1, <1>5 DEF HoldFits, Held, UpdateGiven, HoldsFit, BeginUpdateDoes, CallBegun, Others
  <2>2. ASSUME NEW u \in UpdateTasks, u # t PROVE HoldFits(u)'
    BY <1>1, <1>5, <2>2 DEF HoldFits, Held, UpdateGiven, HoldsFit, BeginUpdateDoes, CallBegun, Others
  <2> QED BY <2>1, <2>2 DEF HoldsFit
<1>6. ASSUME NEW t \in UpdateTasks, EnterDoes(t) PROVE HoldsFit'
  <2>1. HoldFits(t)'
    BY <1>1, <1>6 DEF HoldFits, Held, UpdateGiven, HoldsFit, EnterDoes, TaskMoved, Kept, Others
  <2>2. ASSUME NEW u \in UpdateTasks, u # t PROVE HoldFits(u)'
    BY <1>1, <1>6, <2>2 DEF HoldFits, Held, UpdateGiven, HoldsFit, EnterDoes, TaskMoved, Kept, Others
  <2> QED BY <2>1, <2>2 DEF HoldsFit
<1>7. ASSUME NEW t \in UpdateTasks, MakeDoes(t) PROVE HoldsFit'
  <2>1. HoldFits(t)'
    BY <1>1, <1>7 DEF HoldFits, Held, UpdateGiven, HoldsFit, MakeDoes, TaskMoved, Kept, Others
  <2>2. ASSUME NEW u \in UpdateTasks, u # t PROVE HoldFits(u)'
    <3>1. zUpdating = t
      BY <1>1, <1>7 DEF HoldsFit, HoldFits, Held, MakeDoes
    <3>2. zUpdating' \in {zUpdating, Update!None}
      BY <1>7 DEF MakeDoes
    <3>3. zTask'[u] = zTask[u]
      BY <1>7, <2>2 DEF MakeDoes, TaskMoved, Kept, Others
    <3> QED BY <1>1, <2>2, <3>1, <3>2, <3>3 DEF HoldsFit, HoldFits, UpdateGiven
  <2> QED BY <2>1, <2>2 DEF HoldsFit
<1>8. ASSUME NEW t \in UpdateTasks, CheckBytesDoes(t) PROVE HoldsFit'
  <2>1. HoldFits(t)'
    BY <1>1, <1>8 DEF HoldFits, Held, UpdateGiven, HoldsFit, CheckBytesDoes, Kept, Others
  <2>2. ASSUME NEW u \in UpdateTasks, u # t PROVE HoldFits(u)'
    BY <1>1, <1>8, <2>2 DEF HoldFits, Held, UpdateGiven, HoldsFit, CheckBytesDoes, Kept, Others
  <2> QED BY <2>1, <2>2 DEF HoldsFit
<1>9. ASSUME NEW t \in UpdateTasks, CheckByCoreDoes(t) PROVE HoldsFit'
  <2>1. HoldFits(t)'
    BY <1>1, <1>9 DEF HoldFits, Held, UpdateGiven, HoldsFit, CheckByCoreDoes, TaskMoved, Kept, Others
  <2>2. ASSUME NEW u \in UpdateTasks, u # t PROVE HoldFits(u)'
    <3>1. zUpdating = t
      BY <1>1, <1>9 DEF HoldsFit, HoldFits, Held, CheckByCoreDoes
    <3>2. zUpdating' \in {zUpdating, Update!None}
      BY <1>9 DEF CheckByCoreDoes
    <3>3. zTask'[u] = zTask[u]
      BY <1>9, <2>2 DEF CheckByCoreDoes, TaskMoved, Kept, Others
    <3> QED BY <1>1, <2>2, <3>1, <3>2, <3>3 DEF HoldsFit, HoldFits, UpdateGiven
  <2> QED BY <2>1, <2>2 DEF HoldsFit
<1>10. ASSUME NEW t \in UpdateTasks, WriteRunDoes(t) PROVE HoldsFit'
  <2>1. HoldFits(t)'
    BY <1>1, <1>10 DEF HoldFits, Held, UpdateGiven, HoldsFit, WriteRunDoes, TaskMoved, Kept, Others
  <2>2. ASSUME NEW u \in UpdateTasks, u # t PROVE HoldFits(u)'
    <3>1. zUpdating = t
      BY <1>1, <1>10 DEF HoldsFit, HoldFits, Held, WriteRunDoes
    <3>2. zUpdating' \in {zUpdating, Update!None}
      BY <1>10 DEF WriteRunDoes
    <3>3. zTask'[u] = zTask[u]
      BY <1>10, <2>2 DEF WriteRunDoes, TaskMoved, Kept, Others
    <3> QED BY <1>1, <2>2, <3>1, <3>2, <3>3 DEF HoldsFit, HoldFits, UpdateGiven
  <2> QED BY <2>1, <2>2 DEF HoldsFit
<1>11. ASSUME NEW t \in UpdateTasks, ApplyDoes(t) PROVE HoldsFit'
  <2>1. HoldFits(t)'
    BY <1>1, <1>11 DEF HoldFits, Held, UpdateGiven, HoldsFit, ApplyDoes, TaskMoved, Kept, Others
  <2>2. ASSUME NEW u \in UpdateTasks, u # t PROVE HoldFits(u)'
    BY <1>1, <1>11, <2>2 DEF HoldFits, Held, UpdateGiven, HoldsFit, ApplyDoes, TaskMoved, Kept, Others
  <2> QED BY <2>1, <2>2 DEF HoldsFit
<1>12. ASSUME NEW t \in UpdateTasks, StageDoes(t) PROVE HoldsFit'
  <2>1. HoldFits(t)'
    BY <1>1, <1>12 DEF HoldFits, Held, UpdateGiven, HoldsFit, StageDoes, TaskMoved, Kept, Others
  <2>2. ASSUME NEW u \in UpdateTasks, u # t PROVE HoldFits(u)'
    <3>1. zUpdating = t
      BY <1>1, <1>12 DEF HoldsFit, HoldFits, Held, StageDoes
    <3>2. zUpdating' \in {zUpdating, Update!None}
      BY <1>12 DEF StageDoes
    <3>3. zTask'[u] = zTask[u]
      BY <1>12, <2>2 DEF StageDoes, TaskMoved, Kept, Others
    <3> QED BY <1>1, <2>2, <3>1, <3>2, <3>3 DEF HoldsFit, HoldFits, UpdateGiven
  <2> QED BY <2>1, <2>2 DEF HoldsFit
<1>13. ASSUME NEW t \in UpdateTasks, ReloadDoes(t) PROVE HoldsFit'
  <2>1. HoldFits(t)'
    BY <1>1, <1>13 DEF HoldFits, Held, UpdateGiven, HoldsFit, ReloadDoes, TaskMoved, Kept, Others
  <2>2. ASSUME NEW u \in UpdateTasks, u # t PROVE HoldFits(u)'
    BY <1>1, <1>13, <2>2 DEF HoldFits, Held, UpdateGiven, HoldsFit, ReloadDoes, TaskMoved, Kept, Others
  <2> QED BY <2>1, <2>2 DEF HoldsFit
<1>14. ASSUME NEW t \in UpdateTasks, ReplaceDoes(t) PROVE HoldsFit'
  <2>1. HoldFits(t)'
    BY <1>1, <1>14 DEF HoldFits, Held, UpdateGiven, HoldsFit, ReplaceDoes, TaskMoved, Kept, Others
  <2>2. ASSUME NEW u \in UpdateTasks, u # t PROVE HoldFits(u)'
    BY <1>1, <1>14, <2>2 DEF HoldFits, Held, UpdateGiven, HoldsFit, ReplaceDoes, TaskMoved, Kept, Others
  <2> QED BY <2>1, <2>2 DEF HoldsFit
<1>15. ASSUME NEW t \in UpdateTasks, CommitDoes(t) PROVE HoldsFit'
  <2>1. HoldFits(t)'
    BY <1>1, <1>15 DEF HoldFits, Held, UpdateGiven, HoldsFit, CommitDoes, TaskMoved, Kept, Others
  <2>2. ASSUME NEW u \in UpdateTasks, u # t PROVE HoldFits(u)'
    BY <1>1, <1>15, <2>2 DEF HoldFits, Held, UpdateGiven, HoldsFit, CommitDoes, TaskMoved, Kept, Others
  <2> QED BY <2>1, <2>2 DEF HoldsFit
<1>16. ASSUME NEW t \in UpdateTasks, BeginRestartDoes(t) PROVE HoldsFit'
  <2>1. HoldFits(t)'
    BY <1>1, <1>16 DEF HoldFits, Held, UpdateGiven, HoldsFit, BeginRestartDoes, CallBegun, Others
  <2>2. ASSUME NEW u \in UpdateTasks, u # t PROVE HoldFits(u)'
    BY <1>1, <1>16, <2>2 DEF HoldFits, Held, UpdateGiven, HoldsFit, BeginRestartDoes, CallBegun, Others
  <2> QED BY <2>1, <2>2 DEF HoldsFit
<1>17. ASSUME NEW t \in UpdateTasks, RestartDoes(t) PROVE HoldsFit'
  <2>1. HoldFits(t)'
    BY <1>1, <1>17 DEF HoldFits, Held, UpdateGiven, HoldsFit, RestartDoes, TaskMoved, Kept, Others
  <2>2. ASSUME NEW u \in UpdateTasks, u # t PROVE HoldFits(u)'
    BY <1>1, <1>17, <2>2 DEF HoldFits, Held, UpdateGiven, HoldsFit, RestartDoes, TaskMoved, Kept, Others
  <2> QED BY <2>1, <2>2 DEF HoldsFit
<1>18. ASSUME WorldDoes PROVE HoldsFit'
  BY <1>1, <1>18 DEF HoldFits, Held, UpdateGiven, HoldsFit, WorldDoes
<1>19. ASSUME Still PROVE HoldsFit'
  BY <1>1, <1>19 DEF HoldFits, Held, UpdateGiven, HoldsFit, Still
<1> QED BY <1>2, <1>3, <1>4, <1>5, <1>6, <1>7, <1>8, <1>9, <1>10, <1>11, <1>12, <1>13, <1>14, <1>15, <1>16,
         <1>17, <1>18, <1>19 DEF Steps, TaskDoes

\* The lock of the lifecycle is taken for the service alone.
LEMMA LifeStep ==
  ASSUME UpdateGiven, UpdateInv, Steps
  PROVE  LivesFit'
<1>1. LivesFit /\ UpdateCallsFit /\ HoldsFit
  BY DEF UpdateInv
<1>2. ASSUME NEW t \in UpdateTasks, NEW d \in Docs, BeginSaveDoes(t, d) PROVE LivesFit'
  <2>1. LifeFits(t)'
    BY <1>1, <1>2 DEF LifeFits, CallFits, HoldFits, Held, UpdateGiven, LivesFit, UpdateCallsFit, HoldsFit,
       BeginSaveDoes,
       Others
  <2>2. ASSUME NEW u \in UpdateTasks, u # t PROVE LifeFits(u)'
    BY <1>1, <1>2, <2>2 DEF LifeFits, CallFits, HoldFits, Held, UpdateGiven, LivesFit, UpdateCallsFit, HoldsFit,
       BeginSaveDoes, Others
  <2> QED BY <2>1, <2>2 DEF LivesFit
<1>3. ASSUME NEW t \in UpdateTasks, CheckFileDoes(t) PROVE LivesFit'
  <2>1. LifeFits(t)'
    BY <1>1, <1>3 DEF LifeFits, CallFits, HoldFits, Held, UpdateGiven, LivesFit, UpdateCallsFit, HoldsFit,
       CheckFileDoes,
       TaskMoved, Kept,
       Others
  <2>2. ASSUME NEW u \in UpdateTasks, u # t PROVE LifeFits(u)'
    BY <1>1, <1>3, <2>2 DEF LifeFits, CallFits, HoldFits, Held, UpdateGiven, LivesFit, UpdateCallsFit, HoldsFit,
       CheckFileDoes, TaskMoved, Kept,
       Others
  <2> QED BY <2>1, <2>2 DEF LivesFit
<1>4. ASSUME NEW t \in UpdateTasks, AnswerDoes(t) PROVE LivesFit'
  <2>1. LifeFits(t)'
    BY <1>1, <1>4 DEF LifeFits, CallFits, HoldFits, Held, UpdateGiven, LivesFit, UpdateCallsFit, HoldsFit,
       AnswerDoes,
       Others
  <2>2. ASSUME NEW u \in UpdateTasks, u # t PROVE LifeFits(u)'
    BY <1>1, <1>4, <2>2 DEF LifeFits, CallFits, HoldFits, Held, UpdateGiven, LivesFit, UpdateCallsFit, HoldsFit,
       AnswerDoes, Others
  <2> QED BY <2>1, <2>2 DEF LivesFit
<1>5. ASSUME NEW t \in UpdateTasks, BeginUpdateDoes(t) PROVE LivesFit'
  <2>1. LifeFits(t)'
    BY <1>1, <1>5 DEF LifeFits, CallFits, HoldFits, Held, UpdateGiven, LivesFit, UpdateCallsFit, HoldsFit,
       BeginUpdateDoes, CallBegun, Others
  <2>2. ASSUME NEW u \in UpdateTasks, u # t PROVE LifeFits(u)'
    BY <1>1, <1>5, <2>2 DEF LifeFits, CallFits, HoldFits, Held, UpdateGiven, LivesFit, UpdateCallsFit, HoldsFit,
       BeginUpdateDoes, CallBegun, Others
  <2> QED BY <2>1, <2>2 DEF LivesFit
<1>6. ASSUME NEW t \in UpdateTasks, EnterDoes(t) PROVE LivesFit'
  <2>1. LifeFits(t)'
    BY <1>1, <1>6 DEF LifeFits, CallFits, HoldFits, Held, UpdateGiven, LivesFit, UpdateCallsFit, HoldsFit,
       EnterDoes,
       TaskMoved, Kept, Others
  <2>2. ASSUME NEW u \in UpdateTasks, u # t PROVE LifeFits(u)'
    BY <1>1, <1>6, <2>2 DEF LifeFits, CallFits, HoldFits, Held, UpdateGiven, LivesFit, UpdateCallsFit, HoldsFit,
       EnterDoes, TaskMoved, Kept, Others
  <2> QED BY <2>1, <2>2 DEF LivesFit
<1>7. ASSUME NEW t \in UpdateTasks, MakeDoes(t) PROVE LivesFit'
  <2>1. LifeFits(t)'
    BY <1>1, <1>7 DEF LifeFits, CallFits, HoldFits, Held, UpdateGiven, LivesFit, UpdateCallsFit, HoldsFit, MakeDoes,
       TaskMoved, Kept, Others
  <2>2. ASSUME NEW u \in UpdateTasks, u # t PROVE LifeFits(u)'
    BY <1>1, <1>7, <2>2 DEF LifeFits, CallFits, HoldFits, Held, UpdateGiven, LivesFit, UpdateCallsFit, HoldsFit,
       MakeDoes,
       TaskMoved, Kept, Others
  <2> QED BY <2>1, <2>2 DEF LivesFit
<1>8. ASSUME NEW t \in UpdateTasks, CheckBytesDoes(t) PROVE LivesFit'
  <2>1. LifeFits(t)'
    BY <1>1, <1>8 DEF LifeFits, CallFits, HoldFits, Held, UpdateGiven, LivesFit, UpdateCallsFit, HoldsFit,
       CheckBytesDoes,
       Kept, Others
  <2>2. ASSUME NEW u \in UpdateTasks, u # t PROVE LifeFits(u)'
    BY <1>1, <1>8, <2>2 DEF LifeFits, CallFits, HoldFits, Held, UpdateGiven, LivesFit, UpdateCallsFit, HoldsFit,
       CheckBytesDoes, Kept, Others
  <2> QED BY <2>1, <2>2 DEF LivesFit
<1>9. ASSUME NEW t \in UpdateTasks, CheckByCoreDoes(t) PROVE LivesFit'
  <2>1. LifeFits(t)'
    BY <1>1, <1>9 DEF LifeFits, CallFits, HoldFits, Held, UpdateGiven, LivesFit, UpdateCallsFit, HoldsFit,
       CheckByCoreDoes, TaskMoved, Kept,
       Others
  <2>2. ASSUME NEW u \in UpdateTasks, u # t PROVE LifeFits(u)'
    BY <1>1, <1>9, <2>2 DEF LifeFits, CallFits, HoldFits, Held, UpdateGiven, LivesFit, UpdateCallsFit, HoldsFit,
       CheckByCoreDoes, TaskMoved, Kept,
       Others
  <2> QED BY <2>1, <2>2 DEF LivesFit
<1>10. ASSUME NEW t \in UpdateTasks, WriteRunDoes(t) PROVE LivesFit'
  <2>1. LifeFits(t)'
    BY <1>1, <1>10 DEF LifeFits, CallFits, HoldFits, Held, UpdateGiven, LivesFit, UpdateCallsFit, HoldsFit,
       WriteRunDoes,
       TaskMoved, Kept,
       Others
  <2>2. ASSUME NEW u \in UpdateTasks, u # t PROVE LifeFits(u)'
    BY <1>1, <1>10, <2>2 DEF LifeFits, CallFits, HoldFits, Held, UpdateGiven, LivesFit, UpdateCallsFit, HoldsFit,
       WriteRunDoes, TaskMoved, Kept,
       Others
  <2> QED BY <2>1, <2>2 DEF LivesFit
<1>11. ASSUME NEW t \in UpdateTasks, ApplyDoes(t) PROVE LivesFit'
  <2>1. LifeFits(t)'
    BY <1>1, <1>11 DEF LifeFits, CallFits, HoldFits, Held, UpdateGiven, LivesFit, UpdateCallsFit, HoldsFit,
       ApplyDoes,
       TaskMoved, Kept, Others
  <2>2. ASSUME NEW u \in UpdateTasks, u # t PROVE LifeFits(u)'
    BY <1>1, <1>11, <2>2 DEF LifeFits, CallFits, HoldFits, Held, UpdateGiven, LivesFit, UpdateCallsFit, HoldsFit,
       ApplyDoes, TaskMoved, Kept, Others
  <2> QED BY <2>1, <2>2 DEF LivesFit
<1>12. ASSUME NEW t \in UpdateTasks, StageDoes(t) PROVE LivesFit'
  <2>1. LifeFits(t)'
    BY <1>1, <1>12 DEF LifeFits, CallFits, HoldFits, Held, UpdateGiven, LivesFit, UpdateCallsFit, HoldsFit,
       StageDoes,
       TaskMoved, Kept, Others
  <2>2. ASSUME NEW u \in UpdateTasks, u # t PROVE LifeFits(u)'
    BY <1>1, <1>12, <2>2 DEF LifeFits, CallFits, HoldFits, Held, UpdateGiven, LivesFit, UpdateCallsFit, HoldsFit,
       StageDoes, TaskMoved, Kept, Others
  <2> QED BY <2>1, <2>2 DEF LivesFit
<1>13. ASSUME NEW t \in UpdateTasks, ReloadDoes(t) PROVE LivesFit'
  <2>1. LifeFits(t)'
    BY <1>1, <1>13 DEF LifeFits, CallFits, HoldFits, Held, UpdateGiven, LivesFit, UpdateCallsFit, HoldsFit,
       ReloadDoes,
       TaskMoved, Kept,
       Others
  <2>2. ASSUME NEW u \in UpdateTasks, u # t PROVE LifeFits(u)'
    BY <1>1, <1>13, <2>2 DEF LifeFits, CallFits, HoldFits, Held, UpdateGiven, LivesFit, UpdateCallsFit, HoldsFit,
       ReloadDoes, TaskMoved, Kept,
       Others
  <2> QED BY <2>1, <2>2 DEF LivesFit
<1>14. ASSUME NEW t \in UpdateTasks, ReplaceDoes(t) PROVE LivesFit'
  <2>1. LifeFits(t)'
    BY <1>1, <1>14 DEF LifeFits, CallFits, HoldFits, Held, UpdateGiven, LivesFit, UpdateCallsFit, HoldsFit,
       ReplaceDoes,
       TaskMoved, Kept,
       Others
  <2>2. ASSUME NEW u \in UpdateTasks, u # t PROVE LifeFits(u)'
    BY <1>1, <1>14, <2>2 DEF LifeFits, CallFits, HoldFits, Held, UpdateGiven, LivesFit, UpdateCallsFit, HoldsFit,
       ReplaceDoes, TaskMoved, Kept,
       Others
  <2> QED BY <2>1, <2>2 DEF LivesFit
<1>15. ASSUME NEW t \in UpdateTasks, CommitDoes(t) PROVE LivesFit'
  <2>1. LifeFits(t)'
    BY <1>1, <1>15 DEF LifeFits, CallFits, HoldFits, Held, UpdateGiven, LivesFit, UpdateCallsFit, HoldsFit,
       CommitDoes,
       TaskMoved, Kept,
       Others
  <2>2. ASSUME NEW u \in UpdateTasks, u # t PROVE LifeFits(u)'
    BY <1>1, <1>15, <2>2 DEF LifeFits, CallFits, HoldFits, Held, UpdateGiven, LivesFit, UpdateCallsFit, HoldsFit,
       CommitDoes, TaskMoved, Kept,
       Others
  <2> QED BY <2>1, <2>2 DEF LivesFit
<1>16. ASSUME NEW t \in UpdateTasks, BeginRestartDoes(t) PROVE LivesFit'
  <2>1. LifeFits(t)'
    BY <1>1, <1>16 DEF LifeFits, CallFits, HoldFits, Held, UpdateGiven, LivesFit, UpdateCallsFit, HoldsFit,
       BeginRestartDoes, CallBegun,
       Others
  <2>2. ASSUME NEW u \in UpdateTasks, u # t PROVE LifeFits(u)'
    BY <1>1, <1>16, <2>2 DEF LifeFits, CallFits, HoldFits, Held, UpdateGiven, LivesFit, UpdateCallsFit, HoldsFit,
       BeginRestartDoes, CallBegun,
       Others
  <2> QED BY <2>1, <2>2 DEF LivesFit
<1>17. ASSUME NEW t \in UpdateTasks, RestartDoes(t) PROVE LivesFit'
  <2>1. LifeFits(t)'
    BY <1>1, <1>17 DEF LifeFits, CallFits, HoldFits, Held, UpdateGiven, LivesFit, UpdateCallsFit, HoldsFit,
       RestartDoes,
       TaskMoved, Kept,
       Others
  <2>2. ASSUME NEW u \in UpdateTasks, u # t PROVE LifeFits(u)'
    BY <1>1, <1>17, <2>2 DEF LifeFits, CallFits, HoldFits, Held, UpdateGiven, LivesFit, UpdateCallsFit, HoldsFit,
       RestartDoes, TaskMoved, Kept,
       Others
  <2> QED BY <2>1, <2>2 DEF LivesFit
<1>18. ASSUME WorldDoes PROVE LivesFit'
  BY <1>1, <1>18 DEF LifeFits, CallFits, HoldFits, Held, UpdateGiven, LivesFit, UpdateCallsFit, HoldsFit, WorldDoes
<1>19. ASSUME Still PROVE LivesFit'
  BY <1>1, <1>19 DEF LifeFits, CallFits, HoldFits, Held, UpdateGiven, LivesFit, UpdateCallsFit, HoldsFit, Still
<1> QED BY <1>2, <1>3, <1>4, <1>5, <1>6, <1>7, <1>8, <1>9, <1>10, <1>11, <1>12, <1>13, <1>14, <1>15, <1>16,
         <1>17, <1>18, <1>19 DEF Steps, TaskDoes

\* A call is where its kind goes.
LEMMA CallStep ==
  ASSUME UpdateGiven, UpdateInv, Steps
  PROVE  UpdateCallsFit'
<1> USE DEF Update!None
<1>1. UpdateCallsFit
  BY DEF UpdateInv
<1>2. ASSUME NEW t \in UpdateTasks, NEW d \in Docs, BeginSaveDoes(t, d) PROVE UpdateCallsFit'
  <2>1. CallFits(t)'
    BY <1>1, <1>2 DEF CallFits, UpdateCallsFit, BeginSaveDoes, Others
  <2>2. ASSUME NEW u \in UpdateTasks, u # t PROVE CallFits(u)'
    BY <1>1, <1>2, <2>2 DEF CallFits, UpdateCallsFit, BeginSaveDoes, Others
  <2> QED BY <2>1, <2>2 DEF UpdateCallsFit
<1>3. ASSUME NEW t \in UpdateTasks, CheckFileDoes(t) PROVE UpdateCallsFit'
  <2>1. CallFits(t)'
    BY <1>1, <1>3 DEF CallFits, UpdateCallsFit, CheckFileDoes, TaskMoved, Kept, Others
  <2>2. ASSUME NEW u \in UpdateTasks, u # t PROVE CallFits(u)'
    BY <1>1, <1>3, <2>2 DEF CallFits, UpdateCallsFit, CheckFileDoes, TaskMoved, Kept, Others
  <2> QED BY <2>1, <2>2 DEF UpdateCallsFit
<1>4. ASSUME NEW t \in UpdateTasks, AnswerDoes(t) PROVE UpdateCallsFit'
  <2>1. CallFits(t)'
    BY <1>1, <1>4 DEF CallFits, UpdateCallsFit, AnswerDoes, Others
  <2>2. ASSUME NEW u \in UpdateTasks, u # t PROVE CallFits(u)'
    BY <1>1, <1>4, <2>2 DEF CallFits, UpdateCallsFit, AnswerDoes, Others
  <2> QED BY <2>1, <2>2 DEF UpdateCallsFit
<1>5. ASSUME NEW t \in UpdateTasks, BeginUpdateDoes(t) PROVE UpdateCallsFit'
  <2>1. CallFits(t)'
    BY <1>1, <1>5 DEF CallFits, UpdateCallsFit, BeginUpdateDoes, CallBegun, Others
  <2>2. ASSUME NEW u \in UpdateTasks, u # t PROVE CallFits(u)'
    BY <1>1, <1>5, <2>2 DEF CallFits, UpdateCallsFit, BeginUpdateDoes, CallBegun, Others
  <2> QED BY <2>1, <2>2 DEF UpdateCallsFit
<1>6. ASSUME NEW t \in UpdateTasks, EnterDoes(t) PROVE UpdateCallsFit'
  <2>1. CallFits(t)'
    BY <1>1, <1>6 DEF CallFits, UpdateCallsFit, EnterDoes, TaskMoved, Kept, Others
  <2>2. ASSUME NEW u \in UpdateTasks, u # t PROVE CallFits(u)'
    BY <1>1, <1>6, <2>2 DEF CallFits, UpdateCallsFit, EnterDoes, TaskMoved, Kept, Others
  <2> QED BY <2>1, <2>2 DEF UpdateCallsFit
<1>7. ASSUME NEW t \in UpdateTasks, MakeDoes(t) PROVE UpdateCallsFit'
  <2>1. CallFits(t)'
    BY <1>1, <1>7 DEF CallFits, UpdateCallsFit, MakeDoes, TaskMoved, Kept, Others
  <2>2. ASSUME NEW u \in UpdateTasks, u # t PROVE CallFits(u)'
    BY <1>1, <1>7, <2>2 DEF CallFits, UpdateCallsFit, MakeDoes, TaskMoved, Kept, Others
  <2> QED BY <2>1, <2>2 DEF UpdateCallsFit
<1>8. ASSUME NEW t \in UpdateTasks, CheckBytesDoes(t) PROVE UpdateCallsFit'
  <2>1. CallFits(t)'
    BY <1>1, <1>8 DEF CallFits, UpdateCallsFit, CheckBytesDoes, Kept, Others
  <2>2. ASSUME NEW u \in UpdateTasks, u # t PROVE CallFits(u)'
    BY <1>1, <1>8, <2>2 DEF CallFits, UpdateCallsFit, CheckBytesDoes, Kept, Others
  <2> QED BY <2>1, <2>2 DEF UpdateCallsFit
<1>9. ASSUME NEW t \in UpdateTasks, CheckByCoreDoes(t) PROVE UpdateCallsFit'
  <2>1. CallFits(t)'
    BY <1>1, <1>9 DEF CallFits, UpdateCallsFit, CheckByCoreDoes, TaskMoved, Kept, Others
  <2>2. ASSUME NEW u \in UpdateTasks, u # t PROVE CallFits(u)'
    BY <1>1, <1>9, <2>2 DEF CallFits, UpdateCallsFit, CheckByCoreDoes, TaskMoved, Kept, Others
  <2> QED BY <2>1, <2>2 DEF UpdateCallsFit
<1>10. ASSUME NEW t \in UpdateTasks, WriteRunDoes(t) PROVE UpdateCallsFit'
  <2>1. CallFits(t)'
    BY <1>1, <1>10 DEF CallFits, UpdateCallsFit, WriteRunDoes, TaskMoved, Kept, Others
  <2>2. ASSUME NEW u \in UpdateTasks, u # t PROVE CallFits(u)'
    BY <1>1, <1>10, <2>2 DEF CallFits, UpdateCallsFit, WriteRunDoes, TaskMoved, Kept, Others
  <2> QED BY <2>1, <2>2 DEF UpdateCallsFit
<1>11. ASSUME NEW t \in UpdateTasks, ApplyDoes(t) PROVE UpdateCallsFit'
  <2>1. CallFits(t)'
    BY <1>1, <1>11 DEF CallFits, UpdateCallsFit, ApplyDoes, TaskMoved, Kept, Others
  <2>2. ASSUME NEW u \in UpdateTasks, u # t PROVE CallFits(u)'
    BY <1>1, <1>11, <2>2 DEF CallFits, UpdateCallsFit, ApplyDoes, TaskMoved, Kept, Others
  <2> QED BY <2>1, <2>2 DEF UpdateCallsFit
<1>12. ASSUME NEW t \in UpdateTasks, StageDoes(t) PROVE UpdateCallsFit'
  <2>1. CallFits(t)'
    BY <1>1, <1>12 DEF CallFits, UpdateCallsFit, StageDoes, TaskMoved, Kept, Others
  <2>2. ASSUME NEW u \in UpdateTasks, u # t PROVE CallFits(u)'
    BY <1>1, <1>12, <2>2 DEF CallFits, UpdateCallsFit, StageDoes, TaskMoved, Kept, Others
  <2> QED BY <2>1, <2>2 DEF UpdateCallsFit
<1>13. ASSUME NEW t \in UpdateTasks, ReloadDoes(t) PROVE UpdateCallsFit'
  <2>1. CallFits(t)'
    BY <1>1, <1>13 DEF CallFits, UpdateCallsFit, ReloadDoes, TaskMoved, Kept, Others
  <2>2. ASSUME NEW u \in UpdateTasks, u # t PROVE CallFits(u)'
    BY <1>1, <1>13, <2>2 DEF CallFits, UpdateCallsFit, ReloadDoes, TaskMoved, Kept, Others
  <2> QED BY <2>1, <2>2 DEF UpdateCallsFit
<1>14. ASSUME NEW t \in UpdateTasks, ReplaceDoes(t) PROVE UpdateCallsFit'
  <2>1. CallFits(t)'
    BY <1>1, <1>14 DEF CallFits, UpdateCallsFit, ReplaceDoes, TaskMoved, Kept, Others
  <2>2. ASSUME NEW u \in UpdateTasks, u # t PROVE CallFits(u)'
    BY <1>1, <1>14, <2>2 DEF CallFits, UpdateCallsFit, ReplaceDoes, TaskMoved, Kept, Others
  <2> QED BY <2>1, <2>2 DEF UpdateCallsFit
<1>15. ASSUME NEW t \in UpdateTasks, CommitDoes(t) PROVE UpdateCallsFit'
  <2>1. CallFits(t)'
    BY <1>1, <1>15 DEF CallFits, UpdateCallsFit, CommitDoes, TaskMoved, Kept, Others
  <2>2. ASSUME NEW u \in UpdateTasks, u # t PROVE CallFits(u)'
    BY <1>1, <1>15, <2>2 DEF CallFits, UpdateCallsFit, CommitDoes, TaskMoved, Kept, Others
  <2> QED BY <2>1, <2>2 DEF UpdateCallsFit
<1>16. ASSUME NEW t \in UpdateTasks, BeginRestartDoes(t) PROVE UpdateCallsFit'
  <2>1. CallFits(t)'
    BY <1>1, <1>16 DEF CallFits, UpdateCallsFit, BeginRestartDoes, CallBegun, Others
  <2>2. ASSUME NEW u \in UpdateTasks, u # t PROVE CallFits(u)'
    BY <1>1, <1>16, <2>2 DEF CallFits, UpdateCallsFit, BeginRestartDoes, CallBegun, Others
  <2> QED BY <2>1, <2>2 DEF UpdateCallsFit
<1>17. ASSUME NEW t \in UpdateTasks, RestartDoes(t) PROVE UpdateCallsFit'
  <2>1. CallFits(t)'
    BY <1>1, <1>17 DEF CallFits, UpdateCallsFit, RestartDoes, TaskMoved, Kept, Others
  <2>2. ASSUME NEW u \in UpdateTasks, u # t PROVE CallFits(u)'
    BY <1>1, <1>17, <2>2 DEF CallFits, UpdateCallsFit, RestartDoes, TaskMoved, Kept, Others
  <2> QED BY <2>1, <2>2 DEF UpdateCallsFit
<1>18. ASSUME WorldDoes PROVE UpdateCallsFit'
  BY <1>1, <1>18 DEF CallFits, UpdateCallsFit, WorldDoes
<1>19. ASSUME Still PROVE UpdateCallsFit'
  BY <1>1, <1>19 DEF CallFits, UpdateCallsFit, Still
<1> QED BY <1>2, <1>3, <1>4, <1>5, <1>6, <1>7, <1>8, <1>9, <1>10, <1>11, <1>12, <1>13, <1>14, <1>15, <1>16,
         <1>17, <1>18, <1>19 DEF Steps, TaskDoes

\* What the types say.
LEMMA TypedFacts ==
  ASSUME UpdateTyped
  PROVE  /\ Update!Latest \in UpdateDocs
         /\ \A u \in UpdateTasks : /\ zTask[u].doc \in UpdateDocs /\ zTask[u].orig \in UpdateDocs
                                   /\ zTask[u].version \in Nat
         /\ \A d \in UpdateDocs : zAccepted[d] \in Nat \cup {-1}
         /\ zKnown.doc \in UpdateDocs /\ zKnown.version \in Nat \cup {-1} /\ zCore.doc \in UpdateDocs
<1>1. \A u \in UpdateTasks : zTask[u] \in UpdateOperations
  BY DEF UpdateTyped
<1>2. \A u \in UpdateTasks : zTask[u].doc \in UpdateDocs /\ zTask[u].orig \in UpdateDocs /\ zTask[u].version \in Nat
  BY <1>1 DEF UpdateOperations
<1>3. \A d \in UpdateDocs : zAccepted[d] \in Nat \cup {-1}
  BY DEF UpdateTyped
<1>4. zKnown.doc \in UpdateDocs /\ zKnown.version \in Nat \cup {-1} /\ zCore.doc \in UpdateDocs
  BY DEF UpdateTyped, UpdateCores
<1> QED BY <1>2, <1>3, <1>4 DEF UpdateTyped, Update!Latest

\* Everything is of its type.
LEMMA TypeStep == ASSUME UpdateGiven, UpdateInv, Steps PROVE UpdateTyped'
<1>1. UpdateTyped
  BY DEF UpdateInv
<1>2. ASSUME NEW t \in UpdateTasks, NEW d \in Docs, BeginSaveDoes(t, d) PROVE UpdateTyped'
  <2>1. zSavers' \in BOOLEAN
    BY Zenon, <1>2 DEF BeginSaveDoes
  <2> QED BY <1>1, <1>2, <2>1 DEF UpdateTyped, BeginSaveDoes, Others, UpdateDocs
<1>3. ASSUME NEW t \in UpdateTasks, CheckFileDoes(t) PROVE UpdateTyped'
  BY <1>1, <1>3, TypedFacts DEF UpdateTyped, CheckFileDoes, TaskMoved, Kept, Others
<1>4. ASSUME NEW t \in UpdateTasks, AnswerDoes(t) PROVE UpdateTyped'
  BY <1>1, <1>4, TypedFacts DEF UpdateTyped, AnswerDoes, Others
<1>5. ASSUME NEW t \in UpdateTasks, BeginUpdateDoes(t) PROVE UpdateTyped'
  BY <1>1, <1>5, TypedFacts DEF UpdateTyped, BeginUpdateDoes, CallBegun, Others
<1>6. ASSUME NEW t \in UpdateTasks, EnterDoes(t) PROVE UpdateTyped'
  BY <1>1, <1>6, TypedFacts DEF UpdateTyped, EnterDoes, TaskMoved, Kept, Others
<1>7. ASSUME NEW t \in UpdateTasks, MakeDoes(t) PROVE UpdateTyped'
  BY <1>1, <1>7, TypedFacts DEF UpdateTyped, MakeDoes, TaskMoved, Kept, Others, Dropped, UpdateDocs
<1>8. ASSUME NEW t \in UpdateTasks, CheckBytesDoes(t) PROVE UpdateTyped'
  BY <1>1, <1>8, TypedFacts DEF UpdateTyped, CheckBytesDoes, Kept, Others
<1>9. ASSUME NEW t \in UpdateTasks, CheckByCoreDoes(t) PROVE UpdateTyped'
  <2>1. zAccepted' \in [UpdateDocs -> Nat \cup {-1}]
    BY <1>1, <1>9 DEF UpdateTyped, CheckByCoreDoes
  <2>2. zKnown' \in [doc : UpdateDocs, version : Nat \cup {-1}]
    <3>1. zKnown \in [doc : UpdateDocs, version : Nat \cup {-1}]
      BY <1>1 DEF UpdateTyped
    <3>2. zTask[t].doc \in UpdateDocs /\ zTask[t].version \in Nat
      BY <1>1, TypedFacts
    <3>3. [doc |-> zTask[t].doc, version |-> zTask[t].version] \in [doc : UpdateDocs, version : Nat \cup {-1}]
      BY <3>2
    <3>4. zKnown' = zKnown \/ zKnown' = [doc |-> zTask[t].doc, version |-> zTask[t].version]
      BY <1>9 DEF CheckByCoreDoes
    <3> QED BY <3>1, <3>3, <3>4
  <2>3. zTask' \in [UpdateTasks -> UpdateOperations]
    BY <1>9 DEF CheckByCoreDoes, TaskMoved, Kept, Others
  <2>4. zDraft' \in UpdateDocs \cup {Update!None} /\ zUpdating' \in UpdateTasks \cup {Update!None}
    BY <1>1, <1>9 DEF UpdateTyped, CheckByCoreDoes, Dropped
  <2> QED BY <1>1, <1>9, <2>1, <2>2, <2>3, <2>4 DEF UpdateTyped, CheckByCoreDoes
<1>10. ASSUME NEW t \in UpdateTasks, WriteRunDoes(t) PROVE UpdateTyped'
  BY <1>1, <1>10, TypedFacts DEF UpdateTyped, WriteRunDoes, TaskMoved, Kept, Others, Dropped
<1>11. ASSUME NEW t \in UpdateTasks, ApplyDoes(t) PROVE UpdateTyped'
  BY <1>1, <1>11, TypedFacts DEF UpdateTyped, ApplyDoes, TaskMoved, Kept, Others
<1>12. ASSUME NEW t \in UpdateTasks, StageDoes(t) PROVE UpdateTyped'
  BY <1>1, <1>12, TypedFacts DEF UpdateTyped, StageDoes, TaskMoved, Kept, Others, Dropped
<1>13. ASSUME NEW t \in UpdateTasks, ReloadDoes(t) PROVE UpdateTyped'
  BY <1>1, <1>13, TypedFacts DEF UpdateTyped, ReloadDoes, TaskMoved, Kept, Others
<1>14. ASSUME NEW t \in UpdateTasks, ReplaceDoes(t) PROVE UpdateTyped'
  BY <1>1, <1>14, TypedFacts DEF UpdateTyped, ReplaceDoes, TaskMoved, Kept, Others
<1>15. ASSUME NEW t \in UpdateTasks, CommitDoes(t) PROVE UpdateTyped'
  BY <1>1, <1>15, TypedFacts DEF UpdateTyped, CommitDoes, TaskMoved, Kept, Others
<1>16. ASSUME NEW t \in UpdateTasks, BeginRestartDoes(t) PROVE UpdateTyped'
  BY <1>1, <1>16, TypedFacts DEF UpdateTyped, BeginRestartDoes, CallBegun, Others
<1>17. ASSUME NEW t \in UpdateTasks, RestartDoes(t) PROVE UpdateTyped'
  BY <1>1, <1>17, TypedFacts DEF UpdateTyped, RestartDoes, TaskMoved, Kept, Others
<1>18. ASSUME WorldDoes PROVE UpdateTyped'
  BY <1>1, <1>18, TypedFacts DEF UpdateTyped, WorldDoes
<1>19. ASSUME Still PROVE UpdateTyped'
  BY <1>1, <1>19 DEF UpdateTyped, Still
<1> QED BY <1>2, <1>3, <1>4, <1>5, <1>6, <1>7, <1>8, <1>9, <1>10, <1>11, <1>12, <1>13, <1>14, <1>15, <1>16,
         <1>17, <1>18, <1>19 DEF Steps, TaskDoes

\* What is known to be accepted was accepted.
LEMMA KnownStep == ASSUME UpdateGiven, UpdateInv, Steps PROVE KnownFits'
<1>1. UpdateTyped /\ KnownFits /\ \A t \in UpdateTasks : CheckingFits(t)
  BY DEF UpdateInv, ChecksFit
<1>2. ASSUME NEW t \in UpdateTasks, NEW d \in Docs, BeginSaveDoes(t, d) PROVE KnownFits'
  BY <1>1, <1>2 DEF KnownFits, BeginSaveDoes
<1>3. ASSUME NEW t \in UpdateTasks, CheckFileDoes(t) PROVE KnownFits'
  BY <1>1, <1>3 DEF KnownFits, CheckFileDoes
<1>4. ASSUME NEW t \in UpdateTasks, AnswerDoes(t) PROVE KnownFits'
  BY <1>1, <1>4 DEF KnownFits, AnswerDoes
<1>5. ASSUME NEW t \in UpdateTasks, BeginUpdateDoes(t) PROVE KnownFits'
  BY <1>1, <1>5 DEF KnownFits, BeginUpdateDoes
<1>6. ASSUME NEW t \in UpdateTasks, EnterDoes(t) PROVE KnownFits'
  BY <1>1, <1>6 DEF KnownFits, EnterDoes
<1>7. ASSUME NEW t \in UpdateTasks, MakeDoes(t) PROVE KnownFits'
  BY <1>1, <1>7 DEF KnownFits, MakeDoes
<1>8. ASSUME NEW t \in UpdateTasks, CheckBytesDoes(t) PROVE KnownFits'
  BY <1>1, <1>8 DEF KnownFits, CheckBytesDoes
<1>9. ASSUME NEW t \in UpdateTasks, CheckByCoreDoes(t) PROVE KnownFits'
  <2>1. CASE UNCHANGED <<zKnown, zAccepted>>
    BY <1>1, <1>9, <2>1 DEF KnownFits, CheckByCoreDoes
  <2>2. CASE /\ zKnown' = [doc |-> zTask[t].doc, version |-> zTask[t].version]
             /\ zAccepted' = [zAccepted EXCEPT ![zTask[t].doc] = zVersion]
    <3>1. zTask[t].doc \in UpdateDocs /\ zAccepted \in [UpdateDocs -> Nat \cup {-1}] /\ zVersion \in Nat
      BY <1>1, TypedFacts DEF UpdateTyped
    <3>2. \A d \in UpdateDocs : zAccepted'[d] <= zVersion
      BY <1>1, <2>2, <3>1 DEF KnownFits
    <3>3. zAccepted'[zTask[t].doc] = zVersion
      BY <2>2, <3>1
    <3>4. zKnown'.doc = zTask[t].doc /\ zKnown'.version = zTask[t].version
      BY <2>2
    <3> QED BY <1>1, <1>9, <3>2, <3>3, <3>4 DEF KnownFits, CheckingFits, CheckByCoreDoes
  <2> QED BY <1>9, <2>1, <2>2 DEF CheckByCoreDoes
<1>10. ASSUME NEW t \in UpdateTasks, WriteRunDoes(t) PROVE KnownFits'
  BY <1>1, <1>10 DEF KnownFits, WriteRunDoes
<1>11. ASSUME NEW t \in UpdateTasks, ApplyDoes(t) PROVE KnownFits'
  BY <1>1, <1>11 DEF KnownFits, ApplyDoes
<1>12. ASSUME NEW t \in UpdateTasks, StageDoes(t) PROVE KnownFits'
  BY <1>1, <1>12 DEF KnownFits, StageDoes
<1>13. ASSUME NEW t \in UpdateTasks, ReloadDoes(t) PROVE KnownFits'
  BY <1>1, <1>13 DEF KnownFits, ReloadDoes
<1>14. ASSUME NEW t \in UpdateTasks, ReplaceDoes(t) PROVE KnownFits'
  BY <1>1, <1>14 DEF KnownFits, ReplaceDoes
<1>15. ASSUME NEW t \in UpdateTasks, CommitDoes(t) PROVE KnownFits'
  BY <1>1, <1>15 DEF KnownFits, CommitDoes
<1>16. ASSUME NEW t \in UpdateTasks, BeginRestartDoes(t) PROVE KnownFits'
  BY <1>1, <1>16 DEF KnownFits, BeginRestartDoes
<1>17. ASSUME NEW t \in UpdateTasks, RestartDoes(t) PROVE KnownFits'
  BY <1>1, <1>17 DEF KnownFits, RestartDoes
<1>18. ASSUME WorldDoes PROVE KnownFits'
  BY <1>1, <1>18, TypedFacts DEF UpdateTyped, KnownFits, WorldDoes
<1>19. ASSUME Still PROVE KnownFits'
  BY <1>1, <1>19 DEF KnownFits, Still
<1> QED BY <1>2, <1>3, <1>4, <1>5, <1>6, <1>7, <1>8, <1>9, <1>10, <1>11, <1>12, <1>13, <1>14, <1>15, <1>16,
         <1>17, <1>18, <1>19 DEF Steps, TaskDoes

\* What is about to run was accepted.
LEMMA CheckStep == ASSUME UpdateGiven, UpdateInv, Steps PROVE \A t \in UpdateTasks : CheckingFits(t)'
<1>1. UpdateTyped /\ KnownFits /\ UpdateCallsFit /\ \A t \in UpdateTasks : CheckingFits(t)
  BY DEF UpdateInv, ChecksFit
<1>2. ASSUME NEW u \in UpdateTasks, zTask'[u] = zTask[u], zVersion' = zVersion,
               zAccepted' = zAccepted PROVE CheckingFits(u)'
  BY <1>1, <1>2 DEF CheckingFits, Checked
<1>3. ASSUME NEW t \in UpdateTasks, NEW d \in Docs, BeginSaveDoes(t, d) PROVE \A u \in UpdateTasks : CheckingFits(u)'
  <2>1. CheckingFits(t)'
    <3>1. 0 <= zVersion /\ zVersion <= zVersion
      BY <1>1 DEF UpdateTyped
    <3> QED BY <3>1, <1>3 DEF CheckingFits, Checked, BeginSaveDoes
  <2>2. ASSUME NEW u \in UpdateTasks, u # t PROVE CheckingFits(u)'
    BY <1>2, <1>3, <2>2 DEF BeginSaveDoes, Others
  <2> QED BY <2>1, <2>2
<1>4. ASSUME NEW t \in UpdateTasks, CheckFileDoes(t) PROVE \A u \in UpdateTasks : CheckingFits(u)'
  <2>1. CheckingFits(t)'
    BY <1>1, <1>4 DEF CheckingFits, Checked, CheckFileDoes, TaskMoved, Kept, Others
  <2>2. ASSUME NEW u \in UpdateTasks, u # t PROVE CheckingFits(u)'
    BY <1>2, <1>4, <2>2 DEF CheckFileDoes, TaskMoved, Kept, Others
  <2> QED BY <2>1, <2>2
<1>5. ASSUME NEW t \in UpdateTasks, AnswerDoes(t) PROVE \A u \in UpdateTasks : CheckingFits(u)'
  <2>1. CheckingFits(t)'
    <3>1. 0 <= zVersion /\ zVersion <= zVersion
      BY <1>1 DEF UpdateTyped
    <3> QED BY <3>1, <1>5 DEF CheckingFits, Checked, AnswerDoes
  <2>2. ASSUME NEW u \in UpdateTasks, u # t PROVE CheckingFits(u)'
    BY <1>2, <1>5, <2>2 DEF AnswerDoes, Others
  <2> QED BY <2>1, <2>2
<1>6. ASSUME NEW t \in UpdateTasks, BeginUpdateDoes(t) PROVE \A u \in UpdateTasks : CheckingFits(u)'
  <2>1. CheckingFits(t)'
    <3>1. 0 <= zVersion /\ zVersion <= zVersion
      BY <1>1 DEF UpdateTyped
    <3> QED BY <3>1, <1>6 DEF CheckingFits, Checked, BeginUpdateDoes, CallBegun
  <2>2. ASSUME NEW u \in UpdateTasks, u # t PROVE CheckingFits(u)'
    BY <1>2, <1>6, <2>2 DEF BeginUpdateDoes, CallBegun, Others
  <2> QED BY <2>1, <2>2
<1>7. ASSUME NEW t \in UpdateTasks, EnterDoes(t) PROVE \A u \in UpdateTasks : CheckingFits(u)'
  <2>1. CheckingFits(t)'
    BY <1>1, <1>7 DEF CheckingFits, Checked, EnterDoes, TaskMoved, Kept, Others
  <2>2. ASSUME NEW u \in UpdateTasks, u # t PROVE CheckingFits(u)'
    BY <1>2, <1>7, <2>2 DEF EnterDoes, TaskMoved, Kept, Others
  <2> QED BY <2>1, <2>2
<1>8. ASSUME NEW t \in UpdateTasks, MakeDoes(t) PROVE \A u \in UpdateTasks : CheckingFits(u)'
  <2>1. CheckingFits(t)'
    BY <1>1, <1>8 DEF CheckingFits, Checked, MakeDoes, TaskMoved, Kept, Others
  <2>2. ASSUME NEW u \in UpdateTasks, u # t PROVE CheckingFits(u)'
    BY <1>2, <1>8, <2>2 DEF MakeDoes, TaskMoved, Kept, Others
  <2> QED BY <2>1, <2>2
<1>9. ASSUME NEW t \in UpdateTasks, CheckBytesDoes(t) PROVE \A u \in UpdateTasks : CheckingFits(u)'
  <2>1. CheckingFits(t)'
    <3>1. 0 <= zVersion /\ zVersion <= zVersion
      BY <1>1 DEF UpdateTyped
    <3>2. zKnown.version = zVersion /\ zKnown.doc = Update!Latest => zAccepted[Update!Latest] >= zVersion
      BY <1>1 DEF KnownFits
    <3>3. /\ zTask'[t].version = zVersion /\ zTask'[t].doc = Update!Latest /\ zAccepted' = zAccepted /\
               zVersion' = zVersion
          /\ zTask'[t].at \in {"write", "core check"}
          /\ zTask'[t].at = "write" => zKnown.version = zVersion /\ zKnown.doc = Update!Latest
      BY <1>9 DEF CheckBytesDoes
    <3> QED BY <3>1, <3>2, <3>3 DEF CheckingFits, Checked
  <2>2. ASSUME NEW u \in UpdateTasks, u # t PROVE CheckingFits(u)'
    BY <1>2, <1>9, <2>2 DEF CheckBytesDoes, Kept, Others
  <2> QED BY <2>1, <2>2
<1>10. ASSUME NEW t \in UpdateTasks, CheckByCoreDoes(t) PROVE \A u \in UpdateTasks : CheckingFits(u)'
  <2>1. /\ zTask[t].doc \in UpdateDocs /\ zTask[t].version \in Nat /\ zVersion \in Nat
        /\ zTask[t].version <= zVersion
        /\ zAccepted \in [UpdateDocs -> Nat \cup {-1}]
    BY <1>1, TypedFacts DEF UpdateTyped, CheckingFits
  <2>2. CASE zAccepted' = [zAccepted EXCEPT ![zTask[t].doc] = zVersion] /\ TaskMoved(t, "write")
    <3>1. CheckingFits(t)'
      BY <1>10, <2>1, <2>2 DEF CheckByCoreDoes, CheckingFits, TaskMoved
    <3>2. ASSUME NEW u \in UpdateTasks, u # t PROVE CheckingFits(u)'
      <4>1. zTask'[u] = zTask[u] /\ zVersion' = zVersion /\ CheckingFits(u) /\ zTask[u].doc \in UpdateDocs
        BY <1>1, <1>10, <2>2, <3>2, TypedFacts DEF CheckByCoreDoes, TaskMoved, Kept, Others
      <4>2. zAccepted[zTask[u].doc] <= zVersion /\ zTask[u].version <= zVersion
        BY <1>1, <4>1 DEF KnownFits, CheckingFits
      <4>3. zAccepted'[zTask[u].doc] \in {zAccepted[zTask[u].doc], zVersion}
        BY <2>1, <2>2, <4>1
      <4> QED BY <4>1, <4>2, <4>3 DEF CheckingFits, Checked
    <3> QED BY <3>1, <3>2
  <2>3. CASE zAccepted' = zAccepted /\ TaskMoved(t, "answer")
    BY <1>1, <1>2, <1>10, <2>3 DEF CheckByCoreDoes, CheckingFits, Checked, TaskMoved, Kept, Others
  <2> QED BY <1>10, <2>2, <2>3 DEF CheckByCoreDoes
<1>11. ASSUME NEW t \in UpdateTasks, WriteRunDoes(t) PROVE \A u \in UpdateTasks : CheckingFits(u)'
  <2>1. CheckingFits(t)'
    BY <1>1, <1>11 DEF CheckingFits, Checked, WriteRunDoes, TaskMoved, Kept, Others
  <2>2. ASSUME NEW u \in UpdateTasks, u # t PROVE CheckingFits(u)'
    BY <1>2, <1>11, <2>2 DEF WriteRunDoes, TaskMoved, Kept, Others
  <2> QED BY <2>1, <2>2
<1>12. ASSUME NEW t \in UpdateTasks, ApplyDoes(t) PROVE \A u \in UpdateTasks : CheckingFits(u)'
  <2>1. CheckingFits(t)'
    BY <1>1, <1>12 DEF CheckingFits, Checked, ApplyDoes, TaskMoved, Kept, Others
  <2>2. ASSUME NEW u \in UpdateTasks, u # t PROVE CheckingFits(u)'
    BY <1>2, <1>12, <2>2 DEF ApplyDoes, TaskMoved, Kept, Others
  <2> QED BY <2>1, <2>2
<1>13. ASSUME NEW t \in UpdateTasks, StageDoes(t) PROVE \A u \in UpdateTasks : CheckingFits(u)'
  <2>1. CheckingFits(t)'
    BY <1>1, <1>13 DEF CheckingFits, Checked, StageDoes, TaskMoved, Kept, Others
  <2>2. ASSUME NEW u \in UpdateTasks, u # t PROVE CheckingFits(u)'
    BY <1>2, <1>13, <2>2 DEF StageDoes, TaskMoved, Kept, Others
  <2> QED BY <2>1, <2>2
<1>14. ASSUME NEW t \in UpdateTasks, ReloadDoes(t) PROVE \A u \in UpdateTasks : CheckingFits(u)'
  <2>1. CheckingFits(t)'
    BY <1>1, <1>14 DEF CheckingFits, Checked, ReloadDoes, TaskMoved, Kept, Others
  <2>2. ASSUME NEW u \in UpdateTasks, u # t PROVE CheckingFits(u)'
    BY <1>2, <1>14, <2>2 DEF ReloadDoes, TaskMoved, Kept, Others
  <2> QED BY <2>1, <2>2
<1>15. ASSUME NEW t \in UpdateTasks, ReplaceDoes(t) PROVE \A u \in UpdateTasks : CheckingFits(u)'
  <2>1. CheckingFits(t)'
    BY <1>1, <1>15 DEF CheckingFits, Checked, ReplaceDoes, TaskMoved, Kept, Others
  <2>2. ASSUME NEW u \in UpdateTasks, u # t PROVE CheckingFits(u)'
    BY <1>2, <1>15, <2>2 DEF ReplaceDoes, TaskMoved, Kept, Others
  <2> QED BY <2>1, <2>2
<1>16. ASSUME NEW t \in UpdateTasks, CommitDoes(t) PROVE \A u \in UpdateTasks : CheckingFits(u)'
  <2>1. CheckingFits(t)'
    BY <1>1, <1>16 DEF CheckingFits, Checked, CommitDoes, TaskMoved, Kept, Others
  <2>2. ASSUME NEW u \in UpdateTasks, u # t PROVE CheckingFits(u)'
    BY <1>2, <1>16, <2>2 DEF CommitDoes, TaskMoved, Kept, Others
  <2> QED BY <2>1, <2>2
<1>17. ASSUME NEW t \in UpdateTasks, BeginRestartDoes(t) PROVE \A u \in UpdateTasks : CheckingFits(u)'
  <2>1. CheckingFits(t)'
    <3>1. 0 <= zVersion /\ zVersion <= zVersion
      BY <1>1 DEF UpdateTyped
    <3> QED BY <3>1, <1>17 DEF CheckingFits, Checked, BeginRestartDoes, CallBegun
  <2>2. ASSUME NEW u \in UpdateTasks, u # t PROVE CheckingFits(u)'
    BY <1>2, <1>17, <2>2 DEF BeginRestartDoes, CallBegun, Others
  <2> QED BY <2>1, <2>2
<1>18. ASSUME NEW t \in UpdateTasks, RestartDoes(t) PROVE \A u \in UpdateTasks : CheckingFits(u)'
  <2>1. CheckingFits(t)'
    BY <1>1, <1>18 DEF UpdateCallsFit, CallFits, CheckingFits, Checked, RestartDoes, TaskMoved, Kept, Others
  <2>2. ASSUME NEW u \in UpdateTasks, u # t PROVE CheckingFits(u)'
    BY <1>2, <1>18, <2>2 DEF RestartDoes, TaskMoved, Kept, Others
  <2> QED BY <2>1, <2>2
<1>19. ASSUME WorldDoes PROVE \A u \in UpdateTasks : CheckingFits(u)'
  BY <1>1, <1>19, TypedFacts DEF UpdateTyped, CheckingFits, Checked, WorldDoes
<1>20. ASSUME Still PROVE \A u \in UpdateTasks : CheckingFits(u)'
  BY <1>2, <1>20 DEF Still
<1> QED BY <1>3, <1>4, <1>5, <1>6, <1>7, <1>8, <1>9, <1>10, <1>11, <1>12, <1>13, <1>14, <1>15, <1>16, <1>17,
         <1>18, <1>19, <1>20 DEF Steps, TaskDoes

\* As long as what saves is as it was, and what is staged for its check is the file, the saves
\* fit.
LEMMA SavesKept ==
  ASSUME NEW t \in UpdateTasks, AllSaved, Kept(t), UNCHANGED <<zFile, zAgreed>>,
         zTask[t].does = "save" => zTask'[t].doc = zTask[t].doc,
         \A u \in UpdateTasks : zTask[u].does = "save" /\ zTask'[u].at = "check" => zDraft' = zFile
  PROVE  AllSaved'
<1>1. \A u \in UpdateTasks : zTask'[u].does = zTask[u].does /\ zTask'[u].orig = zTask[u].orig
  BY DEF Kept, Others
<1>2. \A u \in UpdateTasks : zTask[u].does = "save" => zTask'[u].doc = zTask[u].doc
  BY DEF Kept, Others
<1>3. (\A u \in UpdateTasks : zTask'[u].does # "save") => zFile' = zAgreed'
  BY <1>1 DEF AllSaved
<1>4. ASSUME NEW u \in UpdateTasks PROVE SavingFits(u)'
  BY <1>1, <1>2 DEF AllSaved, SavingFits
<1> QED BY <1>3, <1>4 DEF AllSaved

\* Who is in an update is there alone.
LEMMA HeldByOne ==
  ASSUME HoldsFit, NEW t \in UpdateTasks, zTask[t].at \in Held
  PROVE  zUpdating = t /\ \A u \in UpdateTasks : u # t => zTask[u].at \notin Held
BY DEF HoldsFit, HoldFits

\* Who saves has put its content in the place of what was agreed.
LEMMA SaveStep == ASSUME UpdateGiven, UpdateInv, Steps PROVE SavesFit'
<1> SUFFICES ASSUME ~zSavers' PROVE AllSaved'
  BY DEF SavesFit
<1> USE DEF Update!None
<1>1. UpdateTyped /\ HoldsFit /\ UpdateCallsFit /\ (zSavers \/ AllSaved)
  BY DEF UpdateInv, SavesFit
<1>2. ASSUME NEW t \in UpdateTasks, NEW d \in Docs, BeginSaveDoes(t, d) PROVE AllSaved'
  <2>1. ~zSavers /\ Update!Saving = {}
    BY Zenon, <1>2 DEF BeginSaveDoes
  <2>2. AllSaved /\ \A u \in UpdateTasks : zTask[u].does # "save"
    BY <1>1, <2>1 DEF Update!Saving
  <2>3. zFile = zAgreed
    BY <2>2 DEF AllSaved
  <2>4. \A u \in UpdateTasks : u # t => zTask'[u].does # "save"
    BY <1>2, <2>2 DEF BeginSaveDoes, Others
  <2>5. zTask'[t].does = "save" /\ SavingFits(t)'
    BY <1>2, <2>3, <2>4 DEF BeginSaveDoes, SavingFits
  <2> QED BY <2>4, <2>5 DEF AllSaved, SavingFits
<1>3. ASSUME NEW t \in UpdateTasks, AnswerDoes(t) PROVE AllSaved'
  <2>1. AllSaved
    BY <1>1, <1>3 DEF AnswerDoes
  <2>2. CASE zTask[t].does = "save"
    <3>1. SavingFits(t)
      BY <2>1 DEF AllSaved
    <3>2. \A u \in UpdateTasks : zTask'[u].does # "save"
      BY <1>3, <2>2, <3>1 DEF AnswerDoes, Others, SavingFits
    <3>3. zFile' = zAgreed'
      BY <1>3, <2>2, <3>1 DEF AnswerDoes, SavingFits
    <3> QED BY <3>2, <3>3 DEF AllSaved, SavingFits
  <2>3. CASE zTask[t].does # "save"
    <3>1. \A u \in UpdateTasks : zTask[u].does = "save" <=> zTask'[u].does = "save"
      BY <1>3, <2>3 DEF AnswerDoes, Others
    <3>2. \A u \in UpdateTasks : zTask[u].does = "save" => zTask'[u] = zTask[u]
      BY <1>3, <2>3 DEF AnswerDoes, Others
    <3> QED BY <1>3, <2>1, <2>3, <3>1, <3>2 DEF AllSaved, SavingFits, AnswerDoes
  <2> QED BY <2>2, <2>3
<1>4. ASSUME NEW t \in UpdateTasks, BeginUpdateDoes(t) PROVE AllSaved'
  <2>1. AllSaved /\ UNCHANGED <<zFile, zAgreed>>
    BY <1>1, <1>4 DEF BeginUpdateDoes
  <2>2. \A u \in UpdateTasks : zTask[u].does = "save" <=> zTask'[u].does = "save"
    BY <1>1, <1>4 DEF UpdateCallsFit, CallFits, BeginUpdateDoes, CallBegun, Others
  <2>3. \A u \in UpdateTasks : zTask[u].does = "save" => zTask'[u] = zTask[u]
    BY <1>1, <1>4 DEF UpdateCallsFit, CallFits, BeginUpdateDoes, CallBegun, Others
  <2>4. zDraft = zFile => zDraft' = zFile
    BY <1>1, <1>4 DEF BeginUpdateDoes, Update!Latest, UpdateGiven, UpdateTyped, UpdateDocs
  <2> QED BY <2>1, <2>2, <2>3, <2>4 DEF AllSaved, SavingFits
<1>5. ASSUME NEW t \in UpdateTasks, BeginRestartDoes(t) PROVE AllSaved'
  <2>1. AllSaved /\ UNCHANGED <<zFile, zAgreed>>
    BY <1>1, <1>5 DEF BeginRestartDoes
  <2>2. \A u \in UpdateTasks : zTask[u].does = "save" <=> zTask'[u].does = "save"
    BY <1>1, <1>5 DEF UpdateCallsFit, CallFits, BeginRestartDoes, CallBegun, Others
  <2>3. \A u \in UpdateTasks : zTask[u].does = "save" => zTask'[u] = zTask[u]
    BY <1>1, <1>5 DEF UpdateCallsFit, CallFits, BeginRestartDoes, CallBegun, Others
  <2>4. zDraft = zFile => zDraft' = zFile
    BY <1>1, <1>5 DEF BeginRestartDoes, Update!Latest, UpdateGiven, UpdateTyped, UpdateDocs
  <2> QED BY <2>1, <2>2, <2>3, <2>4 DEF AllSaved, SavingFits
<1>6. ASSUME NEW t \in UpdateTasks, CheckFileDoes(t) PROVE AllSaved'
  <2>1. AllSaved /\ UNCHANGED <<zFile, zAgreed>> /\ Kept(t)
    BY <1>1, <1>6 DEF CheckFileDoes, TaskMoved
  <2>2. zTask'[t].doc = zTask[t].doc
    BY <1>6 DEF CheckFileDoes, TaskMoved
  <2>3. ASSUME NEW u \in UpdateTasks, zTask[u].does = "save", zTask'[u].at = "check" PROVE zDraft' = zFile
    <3>1. u # t /\ zDraft' = zDraft
      BY <1>6, <2>3 DEF CheckFileDoes, TaskMoved
    <3>2. zTask[u].at = "check"
      BY <2>1, <2>3, <3>1 DEF Kept, Others
    <3> QED BY <2>1, <2>3, <3>1, <3>2 DEF AllSaved, SavingFits
  <2> QED BY <2>1, <2>2, <2>3, SavesKept
<1>7. ASSUME NEW t \in UpdateTasks, EnterDoes(t) PROVE AllSaved'
  <2>1. AllSaved /\ UNCHANGED <<zFile, zAgreed>> /\ Kept(t)
    BY <1>1, <1>7 DEF EnterDoes, TaskMoved
  <2>2. zTask'[t].doc = zTask[t].doc
    BY <1>7 DEF EnterDoes, TaskMoved
  <2>3. ASSUME NEW u \in UpdateTasks, zTask[u].does = "save", zTask'[u].at = "check" PROVE zDraft' = zFile
    <3>1. u # t /\ zDraft' = zDraft
      BY <1>7, <2>3 DEF EnterDoes, TaskMoved
    <3>2. zTask[u].at = "check"
      BY <2>1, <2>3, <3>1 DEF Kept, Others
    <3> QED BY <2>1, <2>3, <3>1, <3>2 DEF AllSaved, SavingFits
  <2> QED BY <2>1, <2>2, <2>3, SavesKept
<1>8. ASSUME NEW t \in UpdateTasks, MakeDoes(t) PROVE AllSaved'
  <2>1. AllSaved /\ UNCHANGED <<zFile, zAgreed>> /\ Kept(t)
    BY <1>1, <1>8 DEF MakeDoes, TaskMoved
  <2>2. zTask'[t].doc = zTask[t].doc
    BY <1>8 DEF MakeDoes, TaskMoved
  <2>3. ASSUME NEW u \in UpdateTasks, zTask[u].does = "save", zTask'[u].at = "check" PROVE zDraft' = zFile
    <3>1. \A v \in UpdateTasks : v # t => zTask[v].at \notin Held
      BY <1>1, <1>8, HeldByOne DEF MakeDoes, Held
    <3>2. u = t
      BY <2>1, <2>3, <3>1 DEF Kept, Others, Held
    <3> QED BY <1>8, <2>3, <3>2 DEF MakeDoes, TaskMoved
  <2> QED BY <2>1, <2>2, <2>3, SavesKept
<1>9. ASSUME NEW t \in UpdateTasks, CheckBytesDoes(t) PROVE AllSaved'
  <2>1. AllSaved /\ UNCHANGED <<zFile, zAgreed>> /\ Kept(t)
    BY <1>1, <1>9 DEF CheckBytesDoes, TaskMoved
  <2>2. zTask[t].does = "save" => zTask'[t].doc = zTask[t].doc
    <3>1. zTask[t].does = "save" => zTask[t].doc = zFile /\ zDraft = zFile
      BY <1>9, <2>1 DEF AllSaved, SavingFits, CheckBytesDoes
    <3>2. zDraft = zFile => Update!Latest = zFile
      BY <1>1 DEF Update!Latest, UpdateTyped, UpdateGiven, UpdateDocs
    <3> QED BY <1>9, <3>1, <3>2 DEF CheckBytesDoes
  <2>3. ASSUME NEW u \in UpdateTasks, zTask[u].does = "save", zTask'[u].at = "check" PROVE zDraft' = zFile
    <3>1. u # t /\ zDraft' = zDraft
      BY <1>9, <2>3 DEF CheckBytesDoes, TaskMoved
    <3>2. zTask[u].at = "check"
      BY <2>1, <2>3, <3>1 DEF Kept, Others
    <3> QED BY <2>1, <2>3, <3>1, <3>2 DEF AllSaved, SavingFits
  <2> QED BY <2>1, <2>2, <2>3, SavesKept
<1>10. ASSUME NEW t \in UpdateTasks, CheckByCoreDoes(t) PROVE AllSaved'
  <2>1. AllSaved /\ UNCHANGED <<zFile, zAgreed>> /\ Kept(t)
    BY <1>1, <1>10 DEF CheckByCoreDoes, TaskMoved
  <2>2. zTask'[t].doc = zTask[t].doc
    BY <1>10 DEF CheckByCoreDoes, TaskMoved
  <2>3. ASSUME NEW u \in UpdateTasks, zTask[u].does = "save", zTask'[u].at = "check" PROVE zDraft' = zFile
    <3>1. \A v \in UpdateTasks : v # t => zTask[v].at \notin Held
      BY <1>1, <1>10, HeldByOne DEF CheckByCoreDoes, Held
    <3>2. u = t
      BY <2>1, <2>3, <3>1 DEF Kept, Others, Held
    <3> QED BY <1>10, <2>3, <3>2 DEF CheckByCoreDoes, TaskMoved
  <2> QED BY <2>1, <2>2, <2>3, SavesKept
<1>11. ASSUME NEW t \in UpdateTasks, WriteRunDoes(t) PROVE AllSaved'
  <2>1. AllSaved /\ UNCHANGED <<zFile, zAgreed>> /\ Kept(t)
    BY <1>1, <1>11 DEF WriteRunDoes, TaskMoved
  <2>2. zTask'[t].doc = zTask[t].doc
    BY <1>11 DEF WriteRunDoes, TaskMoved
  <2>3. ASSUME NEW u \in UpdateTasks, zTask[u].does = "save", zTask'[u].at = "check" PROVE zDraft' = zFile
    <3>1. \A v \in UpdateTasks : v # t => zTask[v].at \notin Held
      BY <1>1, <1>11, HeldByOne DEF WriteRunDoes, Held
    <3>2. u = t
      BY <2>1, <2>3, <3>1 DEF Kept, Others, Held
    <3> QED BY <1>11, <2>3, <3>2 DEF WriteRunDoes, TaskMoved
  <2> QED BY <2>1, <2>2, <2>3, SavesKept
<1>12. ASSUME NEW t \in UpdateTasks, ApplyDoes(t) PROVE AllSaved'
  <2>1. AllSaved /\ UNCHANGED <<zFile, zAgreed>> /\ Kept(t)
    BY <1>1, <1>12 DEF ApplyDoes, TaskMoved
  <2>2. zTask'[t].doc = zTask[t].doc
    BY <1>12 DEF ApplyDoes, TaskMoved
  <2>3. ASSUME NEW u \in UpdateTasks, zTask[u].does = "save", zTask'[u].at = "check" PROVE zDraft' = zFile
    <3>1. u # t /\ zDraft' = zDraft
      BY <1>12, <2>3 DEF ApplyDoes, TaskMoved
    <3>2. zTask[u].at = "check"
      BY <2>1, <2>3, <3>1 DEF Kept, Others
    <3> QED BY <2>1, <2>3, <3>1, <3>2 DEF AllSaved, SavingFits
  <2> QED BY <2>1, <2>2, <2>3, SavesKept
<1>13. ASSUME NEW t \in UpdateTasks, StageDoes(t) PROVE AllSaved'
  <2>1. AllSaved /\ UNCHANGED <<zFile, zAgreed>> /\ Kept(t)
    BY <1>1, <1>13 DEF StageDoes, TaskMoved
  <2>2. zTask'[t].doc = zTask[t].doc
    BY <1>13 DEF StageDoes, TaskMoved
  <2>3. ASSUME NEW u \in UpdateTasks, zTask[u].does = "save", zTask'[u].at = "check" PROVE zDraft' = zFile
    <3>1. \A v \in UpdateTasks : v # t => zTask[v].at \notin Held
      BY <1>1, <1>13, HeldByOne DEF StageDoes, Held
    <3>2. u = t
      BY <2>1, <2>3, <3>1 DEF Kept, Others, Held
    <3> QED BY <1>13, <2>3, <3>2 DEF StageDoes, TaskMoved
  <2> QED BY <2>1, <2>2, <2>3, SavesKept
<1>14. ASSUME NEW t \in UpdateTasks, ReloadDoes(t) PROVE AllSaved'
  <2>1. AllSaved /\ UNCHANGED <<zFile, zAgreed>> /\ Kept(t)
    BY <1>1, <1>14 DEF ReloadDoes, TaskMoved
  <2>2. zTask'[t].doc = zTask[t].doc
    BY <1>14 DEF ReloadDoes, TaskMoved
  <2>3. ASSUME NEW u \in UpdateTasks, zTask[u].does = "save", zTask'[u].at = "check" PROVE zDraft' = zFile
    <3>1. u # t /\ zDraft' = zDraft
      BY <1>14, <2>3 DEF ReloadDoes, TaskMoved
    <3>2. zTask[u].at = "check"
      BY <2>1, <2>3, <3>1 DEF Kept, Others
    <3> QED BY <2>1, <2>3, <3>1, <3>2 DEF AllSaved, SavingFits
  <2> QED BY <2>1, <2>2, <2>3, SavesKept
<1>15. ASSUME NEW t \in UpdateTasks, ReplaceDoes(t) PROVE AllSaved'
  <2>1. AllSaved /\ UNCHANGED <<zFile, zAgreed>> /\ Kept(t)
    BY <1>1, <1>15 DEF ReplaceDoes, TaskMoved
  <2>2. zTask'[t].doc = zTask[t].doc
    BY <1>15 DEF ReplaceDoes, TaskMoved
  <2>3. ASSUME NEW u \in UpdateTasks, zTask[u].does = "save", zTask'[u].at = "check" PROVE zDraft' = zFile
    <3>1. \A v \in UpdateTasks : v # t => zTask[v].at \notin Held
      BY <1>1, <1>15, HeldByOne DEF ReplaceDoes, Held
    <3>2. u = t
      BY <2>1, <2>3, <3>1 DEF Kept, Others, Held
    <3> QED BY <1>15, <2>3, <3>2 DEF ReplaceDoes, TaskMoved
  <2> QED BY <2>1, <2>2, <2>3, SavesKept
<1>16. ASSUME NEW t \in UpdateTasks, CommitDoes(t) PROVE AllSaved'
  <2>1. AllSaved /\ UNCHANGED <<zFile, zAgreed>> /\ Kept(t)
    BY <1>1, <1>16 DEF CommitDoes, TaskMoved
  <2>2. zTask'[t].doc = zTask[t].doc
    BY <1>16 DEF CommitDoes, TaskMoved
  <2>3. ASSUME NEW u \in UpdateTasks, zTask[u].does = "save", zTask'[u].at = "check" PROVE zDraft' = zFile
    <3>1. \A v \in UpdateTasks : v # t => zTask[v].at \notin Held
      BY <1>1, <1>16, HeldByOne DEF CommitDoes, Held
    <3>2. u = t
      BY <2>1, <2>3, <3>1 DEF Kept, Others, Held
    <3> QED BY <1>16, <2>3, <3>2 DEF CommitDoes, TaskMoved
  <2> QED BY <2>1, <2>2, <2>3, SavesKept
<1>17. ASSUME NEW t \in UpdateTasks, RestartDoes(t) PROVE AllSaved'
  <2>1. AllSaved /\ UNCHANGED <<zFile, zAgreed>> /\ Kept(t)
    BY <1>1, <1>17 DEF RestartDoes, TaskMoved
  <2>2. zTask'[t].doc = zTask[t].doc
    BY <1>17 DEF RestartDoes, TaskMoved
  <2>3. ASSUME NEW u \in UpdateTasks, zTask[u].does = "save", zTask'[u].at = "check" PROVE zDraft' = zFile
    <3>1. u # t /\ zDraft' = zDraft
      BY <1>17, <2>3 DEF RestartDoes, TaskMoved
    <3>2. zTask[u].at = "check"
      BY <2>1, <2>3, <3>1 DEF Kept, Others
    <3> QED BY <2>1, <2>3, <3>1, <3>2 DEF AllSaved, SavingFits
  <2> QED BY <2>1, <2>2, <2>3, SavesKept
<1>18. ASSUME WorldDoes PROVE AllSaved'
  BY <1>1, <1>18 DEF AllSaved, SavingFits, WorldDoes
<1>19. ASSUME Still PROVE AllSaved'
  BY <1>1, <1>19 DEF AllSaved, SavingFits, Still
<1> QED BY <1>2, <1>3, <1>4, <1>5, <1>6, <1>7, <1>8, <1>9, <1>10, <1>11, <1>12, <1>13, <1>14, <1>15, <1>16,
         <1>17, <1>18, <1>19 DEF Steps, TaskDoes

\* Of a task that is not in an update nothing is said.
LEMMA NotHeldFits ==
  ASSUME UpdateCallsFit, NEW u \in UpdateTasks, zTask[u].at \notin Held, zTask'[u] = zTask[u] PROVE RunFits(u)'
BY DEF RunFits, Checked, Written, Held

\* As long as what is staged, written and run is as it was, so is what is said of a task.
LEMMA StillFits ==
  ASSUME NEW u \in UpdateTasks, RunFits(u), zTask'[u] = zTask[u], Update!Latest' = Update!Latest, UNCHANGED <<zRun,
           zCore>>
  PROVE  RunFits(u)'
BY DEF RunFits, Checked, Written

\* What is made is what runs.
LEMMA RunStep == ASSUME UpdateGiven, UpdateInv, Steps PROVE RunsFit'
<1> SUFFICES ASSUME ~zCrossed' PROVE AllRun'
  BY DEF RunsFit
<1>1. UpdateTyped /\ HoldsFit /\ LivesFit /\ UpdateCallsFit /\ (\A t \in UpdateTasks : CheckingFits(t)) /\
        (zCrossed \/ AllRun)
  BY DEF UpdateInv, RunsFit, ChecksFit
<1>2. ASSUME NEW t \in UpdateTasks, NEW d \in Docs, BeginSaveDoes(t, d) PROVE AllRun'
  <2>1. AllRun
    BY <1>1, <1>2 DEF BeginSaveDoes
  <2>2. /\ zTask[t].at \notin Held \cup {"restart"} /\ zTask'[t].at \notin Held \cup {"restart"}
        /\ \A u \in UpdateTasks : u # t => zTask'[u] = zTask[u]
    BY <1>2 DEF BeginSaveDoes, Others, Held
  <2>3. Update!Latest' = Update!Latest
    BY <1>2 DEF BeginSaveDoes, Update!Latest
  <2>4. ASSUME NEW u \in UpdateTasks PROVE RunFits(u)'
    <3>1. CASE u = t
      BY <2>2, <3>1 DEF RunFits, Checked, Written, Held
    <3>2. CASE u # t
      BY <1>2, <2>1, <2>2, <2>3, <3>2, StillFits DEF AllRun, BeginSaveDoes
    <3> QED BY <3>1, <3>2
  <2>5. Update!Resting' => Update!Resting
    BY <1>2, <2>2 DEF Update!Resting, BeginSaveDoes
  <2>6. CommittedFits'
    BY <1>2, <2>1, <2>3, <2>5 DEF AllRun, CommittedFits, BeginSaveDoes
  <2> QED BY <2>4, <2>6 DEF AllRun
<1>3. ASSUME NEW t \in UpdateTasks, CheckFileDoes(t) PROVE AllRun'
  <2>1. AllRun
    BY <1>1, <1>3 DEF CheckFileDoes
  <2>2. /\ zTask[t].at \notin Held \cup {"restart"} /\ zTask'[t].at \notin Held \cup {"restart"}
        /\ \A u \in UpdateTasks : u # t => zTask'[u] = zTask[u]
    BY <1>3 DEF CheckFileDoes, TaskMoved, Kept, Others, Held
  <2>3. Update!Latest' = Update!Latest
    BY <1>3 DEF CheckFileDoes, Update!Latest
  <2>4. ASSUME NEW u \in UpdateTasks PROVE RunFits(u)'
    <3>1. CASE u = t
      BY <2>2, <3>1 DEF RunFits, Checked, Written, Held
    <3>2. CASE u # t
      BY <1>3, <2>1, <2>2, <2>3, <3>2, StillFits DEF AllRun, CheckFileDoes
    <3> QED BY <3>1, <3>2
  <2>5. Update!Resting' => Update!Resting
    BY <1>3, <2>2 DEF Update!Resting, CheckFileDoes
  <2>6. CommittedFits'
    BY <1>3, <2>1, <2>3, <2>5 DEF AllRun, CommittedFits, CheckFileDoes
  <2> QED BY <2>4, <2>6 DEF AllRun
<1>4. ASSUME NEW t \in UpdateTasks, AnswerDoes(t) PROVE AllRun'
  <2>1. AllRun
    BY <1>1, <1>4 DEF AnswerDoes
  <2>2. /\ zTask[t].at \notin Held \cup {"restart"} /\ zTask'[t].at \notin Held \cup {"restart"}
        /\ \A u \in UpdateTasks : u # t => zTask'[u] = zTask[u]
    BY <1>4 DEF AnswerDoes, Others, Held
  <2>3. Update!Latest' = Update!Latest
    BY <1>4 DEF AnswerDoes, Update!Latest
  <2>4. ASSUME NEW u \in UpdateTasks PROVE RunFits(u)'
    <3>1. CASE u = t
      BY <2>2, <3>1 DEF RunFits, Checked, Written, Held
    <3>2. CASE u # t
      BY <1>4, <2>1, <2>2, <2>3, <3>2, StillFits DEF AllRun, AnswerDoes
    <3> QED BY <3>1, <3>2
  <2>5. Update!Resting' => Update!Resting
    BY <1>4, <2>2 DEF Update!Resting, AnswerDoes
  <2>6. CommittedFits'
    BY <1>4, <2>1, <2>3, <2>5 DEF AllRun, CommittedFits, AnswerDoes
  <2> QED BY <2>4, <2>6 DEF AllRun
<1>5. ASSUME NEW t \in UpdateTasks, BeginUpdateDoes(t) PROVE AllRun'
  <2>1. AllRun
    BY <1>1, <1>5 DEF BeginUpdateDoes
  <2>2. /\ zTask[t].at \notin Held \cup {"restart"} /\ zTask'[t].at \notin Held \cup {"restart"}
        /\ \A u \in UpdateTasks : u # t => zTask'[u] = zTask[u]
    BY <1>5 DEF BeginUpdateDoes, CallBegun, Others, Held
  <2>3. Update!Latest' = Update!Latest
    BY <1>5 DEF BeginUpdateDoes, Update!Latest
  <2>4. ASSUME NEW u \in UpdateTasks PROVE RunFits(u)'
    <3>1. CASE u = t
      BY <2>2, <3>1 DEF RunFits, Checked, Written, Held
    <3>2. CASE u # t
      BY <1>5, <2>1, <2>2, <2>3, <3>2, StillFits DEF AllRun, BeginUpdateDoes
    <3> QED BY <3>1, <3>2
  <2>5. Update!Resting' => Update!Resting
    BY <1>5, <2>2 DEF Update!Resting, BeginUpdateDoes
  <2>6. CommittedFits'
    BY <1>5, <2>1, <2>3, <2>5 DEF AllRun, CommittedFits, BeginUpdateDoes
  <2> QED BY <2>4, <2>6 DEF AllRun
<1>6. ASSUME NEW t \in UpdateTasks, EnterDoes(t) PROVE AllRun'
  <2>1. AllRun
    BY <1>1, <1>6 DEF EnterDoes
  <2>2. /\ zTask[t].at = "enter" /\ zTask'[t].at \in {"make", "answer"}
        /\ \A u \in UpdateTasks : u # t => zTask'[u] = zTask[u]
    BY <1>6 DEF EnterDoes, TaskMoved, Kept, Others
  <2>3. Update!Latest' = Update!Latest
    BY <1>6 DEF EnterDoes, Update!Latest
  <2>4. ASSUME NEW u \in UpdateTasks PROVE RunFits(u)'
    <3>1. CASE u = t
      BY <2>2, <3>1 DEF RunFits, Checked, Written
    <3>2. CASE u # t
      BY <1>6, <2>1, <2>2, <2>3, <3>2, StillFits DEF AllRun, EnterDoes
    <3> QED BY <3>1, <3>2
  <2>5. Update!Resting' => Update!Resting
    <3>1. t # Update!None
      BY DEF UpdateGiven
    <3>2. zUpdating' = t \/ zUpdating' = zUpdating
      BY <1>6 DEF EnterDoes
    <3> QED BY <2>2, <3>1, <3>2 DEF Update!Resting
  <2>6. CommittedFits'
    BY <1>6, <2>1, <2>3, <2>5 DEF AllRun, CommittedFits, EnterDoes
  <2> QED BY <2>4, <2>6 DEF AllRun
<1>7. ASSUME NEW t \in UpdateTasks, MakeDoes(t) PROVE AllRun'
  <2>1. AllRun
    BY <1>1, <1>7 DEF MakeDoes
  <2>2. RunFits(t) /\ CheckingFits(t) /\ CommittedFits /\ CallFits(t) /\ LifeFits(t)
    BY <1>1, <2>1 DEF AllRun, UpdateCallsFit, LivesFit
  <2>3. zUpdating = t /\ t # Update!None /\ \A u \in UpdateTasks : u # t => zTask[u].at \notin Held
    BY <1>1, <1>7, HeldByOne DEF MakeDoes, Held, UpdateGiven
  <2>4. \A u \in UpdateTasks : u # t => zTask'[u] = zTask[u]
    BY <1>7 DEF MakeDoes, TaskMoved, Kept, Others
  <2>5. ASSUME NEW u \in UpdateTasks, u # t PROVE RunFits(u)'
    BY <1>1, <2>3, <2>4, <2>5, NotHeldFits
  <2>6. RunFits(t)'
    BY <1>7, <2>2 DEF RunFits, CallFits, Checked, Written, MakeDoes, TaskMoved, Kept, Update!Latest
  <2>7. CommittedFits'
    <3>1. CASE TaskMoved(t, "answer") /\ zUpdating' = Update!None /\ Dropped
      <4>1. Update!Latest' = zData /\ zCore' = zCore /\ zAccepted' = zAccepted
        BY <1>7, <3>1 DEF Dropped, Update!Latest, MakeDoes, TaskMoved
      <4> QED BY <2>2, <3>1, <4>1 DEF CommittedFits, Dropped
    <3>2. CASE zUpdating' = zUpdating
      <4>1. zCore' = zCore /\ (zCore.by = "update" => zAccepted'[zCore.doc] >= 0)
        BY <1>7, <2>2, <3>2 DEF CommittedFits, MakeDoes, TaskMoved
      <4> QED BY <2>3, <3>2, <4>1 DEF CommittedFits, Update!Resting
    <3> QED BY <1>7, <3>1, <3>2 DEF MakeDoes
  <2> QED BY <2>5, <2>6, <2>7 DEF AllRun
<1>8. ASSUME NEW t \in UpdateTasks, CheckBytesDoes(t) PROVE AllRun'
  <2>1. AllRun
    BY <1>1, <1>8 DEF CheckBytesDoes
  <2>2. RunFits(t) /\ CheckingFits(t) /\ CommittedFits /\ CallFits(t) /\ LifeFits(t)
    BY <1>1, <2>1 DEF AllRun, UpdateCallsFit, LivesFit
  <2>3. zUpdating = t /\ t # Update!None /\ \A u \in UpdateTasks : u # t => zTask[u].at \notin Held
    BY <1>1, <1>8, HeldByOne DEF CheckBytesDoes, Held, UpdateGiven
  <2>4. \A u \in UpdateTasks : u # t => zTask'[u] = zTask[u]
    BY <1>8 DEF CheckBytesDoes, TaskMoved, Kept, Others
  <2>5. ASSUME NEW u \in UpdateTasks, u # t PROVE RunFits(u)'
    BY <1>1, <2>3, <2>4, <2>5, NotHeldFits
  <2>6. RunFits(t)'
    BY <1>8, <2>2 DEF RunFits, CallFits, Checked, Written, CheckBytesDoes, Kept, Update!Latest
  <2>7. CommittedFits'
    BY <1>8, <2>2, <2>3 DEF CommittedFits, Update!Resting, CheckBytesDoes
  <2> QED BY <2>5, <2>6, <2>7 DEF AllRun
<1>9. ASSUME NEW t \in UpdateTasks, CheckByCoreDoes(t) PROVE AllRun'
  <2>1. AllRun
    BY <1>1, <1>9 DEF CheckByCoreDoes
  <2>2. RunFits(t) /\ CheckingFits(t) /\ CommittedFits /\ CallFits(t) /\ LifeFits(t)
    BY <1>1, <2>1 DEF AllRun, UpdateCallsFit, LivesFit
  <2>3. zUpdating = t /\ t # Update!None /\ \A u \in UpdateTasks : u # t => zTask[u].at \notin Held
    BY <1>1, <1>9, HeldByOne DEF CheckByCoreDoes, Held, UpdateGiven
  <2>4. \A u \in UpdateTasks : u # t => zTask'[u] = zTask[u]
    BY <1>9 DEF CheckByCoreDoes, TaskMoved, Kept, Others
  <2>5. ASSUME NEW u \in UpdateTasks, u # t PROVE RunFits(u)'
    BY <1>1, <2>3, <2>4, <2>5, NotHeldFits
  <2>6. RunFits(t)'
    BY <1>9, <2>2 DEF RunFits, CallFits, Checked, Written, CheckByCoreDoes, TaskMoved, Kept, Update!Latest
  <2>7. CommittedFits'
    <3>1. CASE TaskMoved(t, "answer") /\ zUpdating' = Update!None /\ Dropped
      <4>1. Update!Latest' = zData /\ zCore' = zCore /\ zAccepted' = zAccepted
        BY <1>9, <3>1 DEF Dropped, Update!Latest, CheckByCoreDoes, TaskMoved
      <4> QED BY <2>2, <3>1, <4>1 DEF CommittedFits, Dropped
    <3>2. CASE zUpdating' = zUpdating
      <4>1. zCore' = zCore /\ (zCore.by = "update" => zAccepted'[zCore.doc] >= 0)
        <5>1. zCore' = zCore /\ zCore.doc \in UpdateDocs /\ zTask[t].doc \in UpdateDocs
          BY <1>1, <1>9, TypedFacts DEF CheckByCoreDoes
        <5>2. zAccepted \in [UpdateDocs -> Nat \cup {-1}] /\ 0 <= zVersion /\ zVersion >= 0
          BY <1>1 DEF UpdateTyped
        <5>3. zAccepted' = [zAccepted EXCEPT ![zTask[t].doc] = zVersion] \/ zAccepted' = zAccepted
          BY <1>9 DEF CheckByCoreDoes
        <5>4. zAccepted'[zCore.doc] \in {zAccepted[zCore.doc], zVersion}
          BY <5>1, <5>2, <5>3
        <5> QED BY <2>2, <5>1, <5>2, <5>4 DEF CommittedFits
      <4> QED BY <2>3, <3>2, <4>1 DEF CommittedFits, Update!Resting
    <3> QED BY <1>9, <3>1, <3>2 DEF CheckByCoreDoes
  <2> QED BY <2>5, <2>6, <2>7 DEF AllRun
<1>10. ASSUME NEW t \in UpdateTasks, WriteRunDoes(t) PROVE AllRun'
  <2>1. AllRun
    BY <1>1, <1>10 DEF WriteRunDoes
  <2>2. RunFits(t) /\ CheckingFits(t) /\ CommittedFits /\ CallFits(t) /\ LifeFits(t)
    BY <1>1, <2>1 DEF AllRun, UpdateCallsFit, LivesFit
  <2>3. zUpdating = t /\ t # Update!None /\ \A u \in UpdateTasks : u # t => zTask[u].at \notin Held
    BY <1>1, <1>10, HeldByOne DEF WriteRunDoes, Held, UpdateGiven
  <2>4. \A u \in UpdateTasks : u # t => zTask'[u] = zTask[u]
    BY <1>10 DEF WriteRunDoes, TaskMoved, Kept, Others
  <2>5. ASSUME NEW u \in UpdateTasks, u # t PROVE RunFits(u)'
    BY <1>1, <2>3, <2>4, <2>5, NotHeldFits
  <2>6. RunFits(t)'
    BY <1>10, <2>2 DEF RunFits, CallFits, Checked, Written, WriteRunDoes, TaskMoved, Kept, Update!Latest
  <2>7. CommittedFits'
    <3>1. CASE TaskMoved(t, "answer") /\ zUpdating' = Update!None /\ Dropped
      <4>1. Update!Latest' = zData /\ zCore' = zCore /\ zAccepted' = zAccepted
        BY <1>10, <3>1 DEF Dropped, Update!Latest, WriteRunDoes, TaskMoved
      <4> QED BY <2>2, <3>1, <4>1 DEF CommittedFits, Dropped
    <3>2. CASE zUpdating' = zUpdating
      <4>1. zCore' = zCore /\ (zCore.by = "update" => zAccepted'[zCore.doc] >= 0)
        BY <1>10, <2>2, <3>2 DEF CommittedFits, WriteRunDoes, TaskMoved
      <4> QED BY <2>3, <3>2, <4>1 DEF CommittedFits, Update!Resting
    <3> QED BY <1>10, <3>1, <3>2 DEF WriteRunDoes
  <2> QED BY <2>5, <2>6, <2>7 DEF AllRun
<1>11. ASSUME NEW t \in UpdateTasks, ApplyDoes(t) PROVE AllRun'
  <2>1. AllRun
    BY <1>1, <1>11 DEF ApplyDoes
  <2>2. RunFits(t) /\ CheckingFits(t) /\ CommittedFits /\ CallFits(t) /\ LifeFits(t)
    BY <1>1, <2>1 DEF AllRun, UpdateCallsFit, LivesFit
  <2>3. zUpdating = t /\ t # Update!None /\ \A u \in UpdateTasks : u # t => zTask[u].at \notin Held
    BY <1>1, <1>11, HeldByOne DEF ApplyDoes, Held, UpdateGiven
  <2>4. \A u \in UpdateTasks : u # t => zTask'[u] = zTask[u]
    BY <1>11 DEF ApplyDoes, TaskMoved, Kept, Others
  <2>5. ASSUME NEW u \in UpdateTasks, u # t PROVE RunFits(u)'
    BY <1>1, <2>3, <2>4, <2>5, NotHeldFits
  <2>6. RunFits(t)'
    BY <1>11, <2>2 DEF RunFits, CallFits, Checked, Written, ApplyDoes, TaskMoved, Kept, Update!Latest
  <2>7. CommittedFits'
    BY <1>11, <2>2, <2>3 DEF CommittedFits, Update!Resting, ApplyDoes
  <2> QED BY <2>5, <2>6, <2>7 DEF AllRun
<1>12. ASSUME NEW t \in UpdateTasks, StageDoes(t) PROVE AllRun'
  <2>1. AllRun
    BY <1>1, <1>12 DEF StageDoes
  <2>2. RunFits(t) /\ CheckingFits(t) /\ CommittedFits /\ CallFits(t) /\ LifeFits(t)
    BY <1>1, <2>1 DEF AllRun, UpdateCallsFit, LivesFit
  <2>3. zUpdating = t /\ t # Update!None /\ \A u \in UpdateTasks : u # t => zTask[u].at \notin Held
    BY <1>1, <1>12, HeldByOne DEF StageDoes, Held, UpdateGiven
  <2>4. \A u \in UpdateTasks : u # t => zTask'[u] = zTask[u]
    BY <1>12 DEF StageDoes, TaskMoved, Kept, Others
  <2>5. ASSUME NEW u \in UpdateTasks, u # t PROVE RunFits(u)'
    BY <1>1, <2>3, <2>4, <2>5, NotHeldFits
  <2>6. RunFits(t)'
    BY <1>12, <2>2 DEF RunFits, CallFits, Checked, Written, StageDoes, TaskMoved, Kept, Update!Latest
  <2>7. CommittedFits'
    <3>1. CASE TaskMoved(t, "answer") /\ zUpdating' = Update!None /\ Dropped
      <4>1. Update!Latest' = zData /\ zCore' = zCore /\ zAccepted' = zAccepted
        BY <1>12, <3>1 DEF Dropped, Update!Latest, StageDoes, TaskMoved
      <4> QED BY <2>2, <3>1, <4>1 DEF CommittedFits, Dropped
    <3>2. CASE zUpdating' = zUpdating
      <4>1. zCore' = zCore /\ (zCore.by = "update" => zAccepted'[zCore.doc] >= 0)
        BY <1>12, <2>2, <3>2 DEF CommittedFits, StageDoes, TaskMoved
      <4> QED BY <2>3, <3>2, <4>1 DEF CommittedFits, Update!Resting
    <3> QED BY <1>12, <3>1, <3>2 DEF StageDoes
  <2> QED BY <2>5, <2>6, <2>7 DEF AllRun
<1>13. ASSUME NEW t \in UpdateTasks, ReloadDoes(t) PROVE AllRun'
  <2>1. AllRun
    BY <1>1, <1>13 DEF ReloadDoes
  <2>2. RunFits(t) /\ CheckingFits(t) /\ CommittedFits /\ CallFits(t) /\ LifeFits(t)
    BY <1>1, <2>1 DEF AllRun, UpdateCallsFit, LivesFit
  <2>3. zUpdating = t /\ t # Update!None /\ \A u \in UpdateTasks : u # t => zTask[u].at \notin Held
    BY <1>1, <1>13, HeldByOne DEF ReloadDoes, Held, UpdateGiven
  <2>4. \A u \in UpdateTasks : u # t => zTask'[u] = zTask[u]
    BY <1>13 DEF ReloadDoes, TaskMoved, Kept, Others
  <2>5. ASSUME NEW u \in UpdateTasks, u # t PROVE RunFits(u)'
    BY <1>1, <2>3, <2>4, <2>5, NotHeldFits
  <2>6. RunFits(t)'
    BY <1>13, <2>2 DEF RunFits, CallFits, Checked, Written, ReloadDoes, TaskMoved, Kept, Update!Latest
  <2>7. CommittedFits'
    <3>1. ~Update!Resting'
      BY <1>13, <2>3 DEF Update!Resting, ReloadDoes
    <3>2. zTask[t].doc = zRun /\ zAccepted[zRun] >= zTask[t].version /\ zTask[t].version \in Nat /\
            zRun \in UpdateDocs
      BY <1>1, <1>13, <2>2, TypedFacts DEF RunFits, CheckingFits, CallFits, Checked, Written, ReloadDoes,
         UpdateTyped
    <3>3. zAccepted[zRun] \in Nat \cup {-1}
      BY <1>1, <3>2, TypedFacts
    <3>4. zAccepted[zRun] >= 0
      BY <3>2, <3>3
    <3>5. zCore'.by = "update" => zAccepted'[zCore'.doc] >= 0
      BY <1>13, <2>2, <3>4 DEF CommittedFits, ReloadDoes
    <3> QED BY <3>1, <3>5 DEF CommittedFits
  <2> QED BY <2>5, <2>6, <2>7 DEF AllRun
<1>14. ASSUME NEW t \in UpdateTasks, ReplaceDoes(t) PROVE AllRun'
  <2>1. AllRun
    BY <1>1, <1>14 DEF ReplaceDoes
  <2>2. RunFits(t) /\ CheckingFits(t) /\ CommittedFits /\ CallFits(t) /\ LifeFits(t)
    BY <1>1, <2>1 DEF AllRun, UpdateCallsFit, LivesFit
  <2>3. zUpdating = t /\ t # Update!None /\ \A u \in UpdateTasks : u # t => zTask[u].at \notin Held
    BY <1>1, <1>14, HeldByOne DEF ReplaceDoes, Held, UpdateGiven
  <2>4. \A u \in UpdateTasks : u # t => zTask'[u] = zTask[u]
    BY <1>14 DEF ReplaceDoes, TaskMoved, Kept, Others
  <2>5. ASSUME NEW u \in UpdateTasks, u # t PROVE RunFits(u)'
    BY <1>1, <2>3, <2>4, <2>5, NotHeldFits
  <2>6. RunFits(t)'
    <3>1. zRun' = Update!Latest
      BY <1>14, <2>2 DEF ReplaceDoes, RunFits, Checked, Written, LifeFits
    <3>2. CASE TaskMoved(t, "commit") /\ UNCHANGED <<zDraft, zUpdating, zCrossed>>
      <4>1. Update!Latest' = Update!Latest
        BY <1>14, <3>2 DEF Update!Latest, ReplaceDoes
      <4> QED BY <1>14, <3>1, <3>2, <4>1 DEF RunFits, Checked, Written, ReplaceDoes, TaskMoved
    <3>3. CASE TaskMoved(t, "answer")
      BY <3>3 DEF RunFits, Checked, Written, TaskMoved
    <3> QED BY <1>14, <3>2, <3>3 DEF ReplaceDoes
  <2>7. CommittedFits'
    <3>1. zRun' = Update!Latest
      BY <1>14, <2>2 DEF ReplaceDoes, RunFits, Checked, Written, LifeFits
    <3>2. Update!Resting' => zCore'.mode = Update!None \/ zCore'.doc = Update!Latest'
      <4>1. CASE zUpdating' = zUpdating
        BY <2>3, <4>1 DEF Update!Resting
      <4>2. CASE zTask[t].does = "restart" /\ zDraft' = zDraft
        <5>1. Update!Latest' = Update!Latest
          BY <1>14, <4>2 DEF Update!Latest, ReplaceDoes
        <5> QED BY <1>14, <3>1, <5>1 DEF ReplaceDoes
      <4>3. CASE zCore'.mode = Update!None
        BY <4>3
      <4> QED BY <1>14, <4>1, <4>2, <4>3 DEF ReplaceDoes
    <3>3. zCore'.by = "update" => zAccepted'[zCore'.doc] >= 0
      <4>1. CASE zTask[t].does = "restart"
        BY <1>14, <4>1 DEF ReplaceDoes, Update!None
      <4>2. CASE zTask[t].does # "restart"
        <5>1. /\ zTask[t].doc = Update!Latest /\ zAccepted[Update!Latest] >= zTask[t].version /\
                   zTask[t].version \in Nat
              /\ Update!Latest \in UpdateDocs
          BY <1>1, <1>14, <2>2, <4>2, TypedFacts DEF RunFits, CheckingFits, Checked, ReplaceDoes
        <5>2. zAccepted[Update!Latest] \in Nat \cup {-1}
          BY <1>1, <5>1, TypedFacts
        <5>3. zAccepted[Update!Latest] >= 0
          BY <5>1, <5>2
        <5> QED BY <1>14, <3>1, <5>3 DEF ReplaceDoes, Update!None
      <4> QED BY <4>1, <4>2
    <3> QED BY <3>2, <3>3 DEF CommittedFits
  <2> QED BY <2>5, <2>6, <2>7 DEF AllRun
<1>15. ASSUME NEW t \in UpdateTasks, CommitDoes(t) PROVE AllRun'
  <2>1. AllRun
    BY <1>1, <1>15 DEF CommitDoes
  <2>2. RunFits(t) /\ CheckingFits(t) /\ CommittedFits /\ CallFits(t) /\ LifeFits(t)
    BY <1>1, <2>1 DEF AllRun, UpdateCallsFit, LivesFit
  <2>3. zUpdating = t /\ t # Update!None /\ \A u \in UpdateTasks : u # t => zTask[u].at \notin Held
    BY <1>1, <1>15, HeldByOne DEF CommitDoes, Held, UpdateGiven
  <2>4. \A u \in UpdateTasks : u # t => zTask'[u] = zTask[u]
    BY <1>15 DEF CommitDoes, TaskMoved, Kept, Others
  <2>5. ASSUME NEW u \in UpdateTasks, u # t PROVE RunFits(u)'
    BY <1>1, <2>3, <2>4, <2>5, NotHeldFits
  <2>6. RunFits(t)'
    BY <1>15 DEF RunFits, Checked, Written, CommitDoes, TaskMoved
  <2>7. CommittedFits'
    <3>1. Update!Latest' = Update!Latest
      BY <1>15 DEF CommitDoes, Update!Latest
    <3>2. zCore.mode = Update!None \/ zCore.doc = Update!Latest
      BY <1>15, <2>2 DEF RunFits, CommitDoes
    <3> QED BY <1>15, <2>2, <3>1, <3>2 DEF CommittedFits, CommitDoes
  <2> QED BY <2>5, <2>6, <2>7 DEF AllRun
<1>16. ASSUME NEW t \in UpdateTasks, BeginRestartDoes(t) PROVE AllRun'
  <2>1. AllRun /\ zUpdating = Update!None
    BY <1>1, <1>16 DEF BeginRestartDoes
  <2>2. \A u \in UpdateTasks : zTask[u].at \notin Held
    BY <1>1, <2>1 DEF HoldsFit, HoldFits, UpdateGiven
  <2>3. zTask'[t].at = "restart" /\ \A u \in UpdateTasks : u # t => zTask'[u] = zTask[u]
    BY <1>16 DEF BeginRestartDoes, CallBegun, Others
  <2>4. ASSUME NEW u \in UpdateTasks PROVE RunFits(u)'
    <3>1. CASE u = t
      BY <2>3, <3>1 DEF RunFits, Checked, Written
    <3>2. CASE u # t
      BY <1>1, <2>2, <2>3, <3>2, NotHeldFits
    <3> QED BY <3>1, <3>2
  <2>5. CommittedFits'
    BY <1>16, <2>1, <2>3 DEF AllRun, CommittedFits, Update!Resting, BeginRestartDoes
  <2> QED BY <2>4, <2>5 DEF AllRun
<1>17. ASSUME NEW t \in UpdateTasks, RestartDoes(t) PROVE AllRun'
  <2>1. AllRun /\ zUpdating = Update!None /\ zUpdating' = t /\ TaskMoved(t, "replace")
    BY <1>1, <1>17 DEF RestartDoes
  <2>2. t # Update!None /\ \A u \in UpdateTasks : zTask[u].at \notin Held
    BY <1>1, <2>1 DEF HoldsFit, HoldFits, UpdateGiven
  <2>3. zTask'[t].does = "restart" /\ zTask'[t].at = "replace" /\ \A u \in UpdateTasks : u # t => zTask'[u] = zTask[u]
    BY <1>1, <1>17, <2>1 DEF UpdateCallsFit, CallFits, RestartDoes, TaskMoved, Kept, Others
  <2>4. ASSUME NEW u \in UpdateTasks PROVE RunFits(u)'
    <3>1. CASE u = t
      BY <2>3, <3>1 DEF RunFits, Checked, Written
    <3>2. CASE u # t
      BY <1>1, <2>2, <2>3, <3>2, NotHeldFits
    <3> QED BY <3>1, <3>2
  <2>5. CommittedFits'
    BY <1>17, <2>1, <2>2 DEF AllRun, CommittedFits, Update!Resting, RestartDoes
  <2> QED BY <2>4, <2>5 DEF AllRun
<1>18. ASSUME WorldDoes PROVE AllRun'
  <2>1. AllRun /\ Update!Latest' = Update!Latest /\ (Update!Resting' => Update!Resting)
    BY <1>1, <1>18 DEF WorldDoes, Update!Latest, Update!Resting
  <2>2. CASE UNCHANGED <<zRun, zCore>>
    BY <1>18, <2>1, <2>2, StillFits DEF AllRun, CommittedFits, WorldDoes
  <2>3. CASE zCore'.mode = Update!None /\ zCore'.by = Update!None /\ zRun' = zRun
    BY <1>18, <2>1, <2>3 DEF AllRun, CommittedFits, RunFits, Checked, Written, WorldDoes, Update!None
  <2>4. CASE zCore'.doc = Update!Latest /\ zCore'.by = "start" /\ zUpdating = Update!None
    <3>1. \A u \in UpdateTasks : zTask[u].at \notin Held /\ zTask'[u] = zTask[u]
      BY <1>1, <1>18, <2>4 DEF HoldsFit, HoldFits, UpdateGiven, WorldDoes
    <3>2. \A u \in UpdateTasks : RunFits(u)'
      BY <1>1, <3>1, NotHeldFits
    <3> QED BY <2>1, <2>4, <3>2 DEF AllRun, CommittedFits
  <2> QED BY <1>18, <2>2, <2>3, <2>4 DEF WorldDoes
<1>19. ASSUME Still PROVE AllRun'
  <2>1. AllRun /\ Update!Latest' = Update!Latest /\ (Update!Resting' => Update!Resting)
    BY <1>1, <1>19 DEF Still, Update!Latest, Update!Resting
  <2> QED BY <1>19, <2>1, StillFits DEF AllRun, CommittedFits, Still
<1> QED BY <1>2, <1>3, <1>4, <1>5, <1>6, <1>7, <1>8, <1>9, <1>10, <1>11, <1>12, <1>13, <1>14, <1>15, <1>16,
         <1>17, <1>18, <1>19 DEF Steps, TaskDoes

\* It holds at the start.
LEMMA InitFits == ASSUME UpdateGiven, Update!Init PROVE UpdateInv
<1> USE DEF Update!None
<1>1. zFile \in UpdateDocs /\ zData \in UpdateDocs /\ zAgreed = zFile /\ zVersion = 0
  BY DEF Update!Init, Update!FirstRuntime, UpdateDocs
<1>2. \A t \in UpdateTasks : zTask[t] = Update!Idle
  BY DEF Update!Init
<1>3. PICK m \in {"service", "sidecar"} : zCore = Update!Running(m, zData, "start")
  BY DEF Update!Init
<1>4. zCore \in UpdateCores /\ zCore.doc = zData /\ zCore.by = "start"
  BY <1>1, <1>3 DEF Update!Running, UpdateCores
<1>5. PICK v \in {-1, 0} : v = IF zData = DefaultDoc THEN -1 ELSE 0
  OBVIOUS
<1>6. zKnown = [doc |-> zData, version |-> v]
  BY <1>5 DEF Update!Init
<1>7. zKnown \in [doc : UpdateDocs, version : Nat \cup {-1}] /\ zKnown.doc = zData /\ zKnown.version = v
  BY <1>1, <1>6
<1>8. zAccepted = [d \in UpdateDocs |-> IF d = zData /\ d # DefaultDoc THEN 0 ELSE -1]
  BY DEF Update!Init, UpdateDocs
<1>9. zAccepted \in [UpdateDocs -> Nat \cup {-1}] /\ (\A d \in UpdateDocs : zAccepted[d] \in {-1, 0}) /\
        zAccepted[zData] = v
  BY <1>1, <1>5, <1>8
<1>10. zTask \in [UpdateTasks -> UpdateOperations]
  BY IdleFacts DEF Update!Init
<1>11. UpdateTyped
  <2>1. zExiting \in BOOLEAN /\ zSavers \in BOOLEAN /\ zCrossed \in BOOLEAN
    BY DEF Update!Init
  <2>2. zDraft = Update!None /\ zRun = zData /\ zUpdating = Update!None /\ zLife = Update!None
    BY DEF Update!Init
  <2>3. zVersion \in Nat
    BY <1>1
  <2> QED BY <1>1, <1>4, <1>7, <1>9, <1>10, <2>1, <2>2, <2>3 DEF UpdateTyped
<1>12. HoldsFit /\ LivesFit /\ UpdateCallsFit
  BY <1>2, IdleFacts DEF Update!Init, HoldsFit, HoldFits, Held, LivesFit, LifeFits, UpdateCallsFit, CallFits,
     UpdateGiven
<1>13. KnownFits
  BY <1>1, <1>7, <1>9 DEF KnownFits
<1>14. \A t \in UpdateTasks : CheckingFits(t)
  BY <1>1, <1>2, IdleFacts DEF CheckingFits, Checked
<1>15. AllSaved
  BY <1>1, <1>2, IdleFacts DEF AllSaved, SavingFits
<1>16. AllRun
  BY <1>2, <1>4, IdleFacts DEF Update!Init, AllRun, CommittedFits, RunFits, Checked, Written, Update!Latest
<1> QED BY <1>11, <1>12, <1>13, <1>14, <1>15, <1>16 DEF UpdateInv, ChecksFit, SavesFit, RunsFit

\* Every step keeps it.
LEMMA StepFits == ASSUME UpdateGiven, UpdateInv, [Update!Next]_(Update!vars) PROVE UpdateInv'
<1>1. Steps
  BY StepsDo DEF UpdateInv
<1>2. UpdateTyped' /\ HoldsFit' /\ LivesFit' /\ UpdateCallsFit'
  BY <1>1, TypeStep, HoldStep, LifeStep, CallStep
<1>3. ChecksFit'
  BY <1>1, KnownStep, CheckStep DEF ChecksFit
<1>4. SavesFit' /\ RunsFit'
  BY <1>1, SaveStep, RunStep
<1> QED BY <1>2, <1>3, <1>4 DEF UpdateInv

\* Who is in an update, what was accepted by which version, what a save will put back and
\* what is about to run, at every moment of any number of calls.
THEOREM UpdateInvariant == ASSUME UpdateGiven PROVE Update!Spec => []UpdateInv
<1>1. Update!Init => UpdateInv
  BY InitFits
<1>2. UpdateInv /\ [Update!Next]_(Update!vars) => UpdateInv'
  BY StepFits
<1> QED BY <1>1, <1>2, PTL DEF Update!Spec

\* When nobody updates the core runs the latest runtime configuration: an update that failed,
\* wherever it failed, has left no trace, and one that was valid is what runs (RunsTheLatest).
THEOREM NoTraceLeft == ASSUME UpdateGiven PROVE Update!Spec => []Update!RunsTheLatest
<1>1. UpdateInv => Update!RunsTheLatest
  BY DEF UpdateInv, RunsFit, AllRun, CommittedFits, Update!RunsTheLatest
<1> QED BY <1>1, UpdateInvariant, PTL

\* With every save answered, the file holds what was last answered to be valid (SavesStand):
\* what was refused is put back.
THEOREM RefusedIsPutBack == ASSUME UpdateGiven PROVE Update!Spec => []Update!SavesStand
<1>1. UpdateInv => Update!SavesStand
  BY DEF UpdateInv, SavesFit, AllSaved, Update!SavesStand, Update!Saving
<1> QED BY <1>1, UpdateInvariant, PTL

\* What an update writes for the core was accepted by a check, not before the core and the geo
\* files that the update has found; and what an update has put in the core, by some check
\* (Vouched).
THEOREM OnlyChecked == ASSUME UpdateGiven PROVE Update!Spec => []Update!Vouched
<1>1. ASSUME UpdateInv PROVE Update!Vouched
  <2>1. ASSUME NEW t \in UpdateTasks, zTask[t].at \in {"apply", "stage", "reload"}
        PROVE  zAccepted[zTask[t].doc] >= zTask[t].version
    BY <1>1, <2>1 DEF UpdateInv, UpdateCallsFit, CallFits, ChecksFit, CheckingFits, Checked
  <2>2. zCore.by = "update" /\ ~zCrossed => zAccepted[zCore.doc] >= 0
    BY <1>1 DEF UpdateInv, RunsFit, AllRun, CommittedFits
  <2> QED BY <2>1, <2>2 DEF Update!Vouched
<1> QED BY <1>1, UpdateInvariant, PTL

\* So the configuration stands, whatever fails on its way (ConfigStands).
THEOREM UpdateHolds == ASSUME UpdateGiven PROVE Update!Spec => []Update!ConfigStands
<1>1. Update!RunsTheLatest /\ Update!SavesStand /\ Update!Vouched => Update!ConfigStands
  BY DEF Update!ConfigStands
<1> QED BY <1>1, NoTraceLeft, RefusedIsPutBack, OnlyChecked, PTL

-----------------------------------------------------------------------------
(* The mixed port.                                                          *)

VARIABLES pFile, pData, pDraft, pSession, pCore, pRelic, pPac, pProxy, pTaken, pLaunch, pTried,
          pSave, pLeft
portsVars == <<pFile, pData, pDraft, pSession, pCore, pRelic, pPac, pProxy, pTaken, pLaunch,
      pTried, pSave, pLeft>>
Port == INSTANCE Ports WITH file <- pFile, data <- pData, draft <- pDraft, session <- pSession,
    core <- pCore, relic <- pRelic, pac <- pPac, proxy <- pProxy, taken <- pTaken,
    launch <- pLaunch, tried <- pTried, save <- pSave, left <- pLeft, Last <- LastPort,
    Reserved <- ReservedPorts, MaxRetries <- MaxPortRetries, MaxSaves <- MaxPortSaves

\* Stages of a change of the port: with the port staged, with a runtime configuration of it, with
\* the files remembered, with nothing staged any more, and with the core as it was before.
Before == {"idle", "stage", "close"}
Generating == {"generate", "probe", "validate", "write", "stop", "start", "persistClash", "persistVerge", "commit",
               "giveUp", "writeBack"}
Staging == {"close"} \cup Generating
Candidate == {"probe", "validate", "write", "stop", "start", "persistClash", "persistVerge", "commit"}
Remembered == {"write", "stop", "start", "persistClash", "persistVerge", "giveUp", "putBack", "writeBack"}
Undoing == {"putBack", "stopOld", "startOld"}
Ending == {"settle", "settling", "drop"}
Untouched == Before \cup Ending \cup {"generate", "probe", "validate", "write", "stop", "writeBack", "unborrow"}
SaveAt == Before \cup Generating \cup Undoing \cup Ending \cup {"unborrow"}

IsLayers(f) == f = [l \in Port!Layers |-> f[l]]
PortTyped ==
  /\ IsLayers(pFile) /\ IsLayers(pData) /\ IsLayers(pDraft) /\ IsLayers(pSave.snap)
  /\ pFile["clash"] # Port!None /\ pData["clash"] # Port!None
  /\ pLaunch = [at |-> pLaunch.at, retries |-> pLaunch.retries, next |-> pLaunch.next]
  /\ pSave = [at |-> pSave.at, want |-> pSave.want, was |-> pSave.was, borrowed |-> pSave.borrowed,
              snap |-> pSave.snap, seen |-> pSave.seen, outcome |-> pSave.outcome]
  /\ pSave.at \in SaveAt

\* A startup has no core yet, and no change of the port with it.
LaunchFits == ~Port!Quiet => pSave.at = "idle" /\ pCore = Port!None
\* What is staged is what is wanted, or nothing.
DraftFits ==
  /\ pSave.at \in {"idle", "stage"} \cup Undoing => pDraft = [l \in Port!Layers |-> Port!None]
  /\ pSave.at # "idle" => pSave.want # Port!None
  /\ pSave.at \in Staging => pDraft["clash"] = pSave.want /\ pDraft["verge"] = pSave.want
  /\ pSave.at \in Candidate => pDraft["runtime"] = pSave.want
\* The files say what memory says until the change is written, and what is remembered of them does
\* then; of a change that could not be undone nothing is said.
SameSources(f) == f["clash"] = pData["clash"] /\ f["verge"] = pData["verge"]
SourcesFit ==
  /\ pSave.at \in Remembered => SameSources(pSave.snap)
  /\ pSave.at \in Generating \cup {"stage", "close", "putBack"} => pSave.outcome # "broken"
  /\ pSave.outcome # "broken" /\ pSave.at \notin {"persistVerge", "commit", "giveUp", "putBack"} => SameSources(pFile)
  /\ pSave.at \in {"persistVerge", "commit"} => pFile["clash"] = pSave.want
  /\ pSave.at = "commit" => pFile["verge"] = pSave.want
  /\ pSave.at \in {"giveUp", "putBack"} => pSave.snap["clash"] # Port!None
\* The runtime configuration names the port of the session or that of the core's file; a change gives
\* up the borrowed port and has it back unless it is saved.
NamedBy(s) == Port!Either(s, pData["clash"])
SessionFits ==
  /\ pSave.at \in Before \cup Ending => pData["runtime"] \in {Port!None, NamedBy(pSession)}
  /\ pSave.at \in Generating \cup Undoing \cup {"unborrow"} => pData["runtime"] \in {Port!None,
       NamedBy(pSave.borrowed)}
  /\ pSave.at \in Generating => pSession = Port!None
  /\ pSave.at \in {"stopOld", "startOld"} => pSession = pSave.borrowed
\* The core serves the port that the runtime configuration names, and so does the system proxy where
\* the sources agree; the changed port once it was started for it.
InStep(v, c) == v \in {Port!None, c}
Serving == pCore # Port!None => pCore = pData["runtime"] /\ (InStep(pData["verge"], pData["clash"]) => pProxy = pCore)
ServedFits ==
  /\ pSave.at \in Untouched /\ pSave.outcome # "broken" => Serving
  /\ pSave.at \in {"start", "startOld"} => pCore = Port!None
  /\ pSave.at \in {"persistClash", "persistVerge", "commit"} /\ pCore # Port!None =>
       pCore = pSave.want /\ pProxy = pCore
  /\ pSave.at \in {"stop", "start"} => pSave.was
  /\ pSave.at \in {"validate"} \cup Remembered /\ ~pSave.was => pCore = Port!None
PortInv == PortTyped /\ LaunchFits /\ DraftFits /\ SourcesFit /\ SessionFits /\ ServedFits

\* The layers.
LEMMA TheLayers ==
  /\ Port!Layers = {"clash", "verge", "runtime"}
  /\ "clash" \in Port!Layers /\ "verge" \in Port!Layers /\ "runtime" \in Port!Layers
BY DEF Port!Layers

SetsLayer(f, l, v, g) == g = [f EXCEPT ![l] = v]
\* One layer is set.
LEMMA LayerSet ==
  ASSUME NEW f, IsLayers(f), NEW l \in Port!Layers, NEW v, NEW g, SetsLayer(f, l, v, g)
  PROVE  IsLayers(g) /\ g[l] = v /\ \A m \in Port!Layers : m # l => g[m] = f[m]
BY DEF IsLayers, SetsLayer
\* The runtime configuration is set.
LEMMA RuntimeSet ==
  ASSUME NEW f, IsLayers(f), NEW v, NEW g, SetsLayer(f, "runtime", v, g)
  PROVE  IsLayers(g) /\ g["runtime"] = v /\ g["clash"] = f["clash"] /\ g["verge"] = f["verge"]
BY LayerSet, TheLayers
\* Nothing is staged.
LEMMA NoLayers ==
  /\ IsLayers([l \in Port!Layers |-> Port!None])
  /\ \A l \in Port!Layers : [m \in Port!Layers |-> Port!None][l] = Port!None
BY DEF IsLayers

\* A change of the port goes on.
SaveTyped == pSave = [at |-> pSave.at, want |-> pSave.want, was |-> pSave.was, borrowed |-> pSave.borrowed,
                      snap |-> pSave.snap, seen |-> pSave.seen, outcome |-> pSave.outcome]
SaveKept == SaveTyped' /\ pSave'.want = pSave.want /\ pSave'.borrowed = pSave.borrowed /\ pSave'.snap = pSave.snap
\* It goes on to another step.
LEMMA SaveGoes ==
  ASSUME PortTyped, NEW to, Port!Goes(to)
  PROVE  SaveKept /\ pSave'.at = to /\ pSave'.was = pSave.was /\ pSave'.outcome = pSave.outcome
BY DEF PortTyped, Port!Goes, SaveKept, SaveTyped
\* One that has failed ends.
LEMMA SaveEnds ==
  ASSUME PortTyped, NEW outcome, Port!Ends(outcome)
  PROVE  SaveKept /\ pSave'.at = "unborrow" /\ pSave'.was = pSave.was /\ pSave'.outcome = outcome
BY DEF PortTyped, Port!Ends, SaveKept, SaveTyped

\* The core is started: it serves the runtime configuration, and the system proxy what the settings name.
LEMMA ServesIs ==
  ASSUME PortTyped, Port!Serves
  PROVE  /\ IsLayers(pFile') /\ pFile'["clash"] = pFile["clash"] /\ pFile'["verge"] = pFile["verge"]
         /\ pData' = pData /\ pDraft' = pDraft /\ pCore' = Port!Latest("runtime") /\ pCore' # Port!None /\
              pProxy' = Port!Desired
<1>1. PICK v : v = Port!Latest("runtime")
  OBVIOUS
<1>2. SetsLayer(pFile, "runtime", v, pFile')
  BY <1>1 DEF Port!Serves, SetsLayer
<1>3. IsLayers(pFile') /\ pFile'["clash"] = pFile["clash"] /\ pFile'["verge"] = pFile["verge"]
  BY <1>2, RuntimeSet DEF PortTyped
<1> QED BY <1>3 DEF Port!Serves

\* The files are put back.
LEMMA PutsBack ==
  ASSUME PortTyped, pSave.snap["clash"] # Port!None, NEW ok, Port!Restored(ok)
  PROVE  IsLayers(pFile') /\ pFile'["clash"] # Port!None /\ (ok => pFile' = pSave.snap)
<1>1. CASE ok
  BY <1>1 DEF PortTyped, Port!Restored
<1>2. CASE ~ok
  BY <1>2, TheLayers DEF PortTyped, Port!Restored, IsLayers
<1> QED BY <1>1, <1>2

\* With nothing staged, the core is started for what is settled.
LEMMA ServesSettled ==
  ASSUME PortTyped, pDraft = [l \in Port!Layers |-> Port!None], Port!Serves
  PROVE  /\ IsLayers(pFile') /\ pFile'["clash"] = pFile["clash"] /\ pFile'["verge"] = pFile["verge"]
         /\ pData' = pData /\ pDraft' = pDraft /\ pCore' = pData["runtime"] /\ pCore' # Port!None
         /\ pProxy' = Port!Either(pSession, Port!Either(pData["verge"], pData["clash"]))
<1>1. pDraft["clash"] = Port!None /\ pDraft["verge"] = Port!None /\ pDraft["runtime"] = Port!None
  BY NoLayers, TheLayers
<1> QED BY <1>1, ServesIs DEF Port!Latest, Port!Desired

\* At first nothing runs and nothing is staged.
LEMMA PortStarts == Port!Init => PortInv
<1> SUFFICES ASSUME Port!Init PROVE PortInv
  OBVIOUS
<1>1. PICK v : pFile = [l \in Port!Layers |-> CASE l = "clash" -> 1 [] l = "verge" -> v [] OTHER -> Port!None]
  BY DEF Port!Init
<1>2. IsLayers(pFile) /\ pFile["clash"] = 1
  BY <1>1, TheLayers DEF IsLayers
<1>3. IsLayers(pData) /\ pData["clash"] = 1 /\ pData["verge"] = pFile["verge"] /\ pData["runtime"] = Port!None
  <2>1. SetsLayer(pFile, "runtime", Port!None, pData)
    BY DEF Port!Init, SetsLayer
  <2> QED BY <1>2, <2>1, RuntimeSet
<1>4. IsLayers(pDraft) /\ IsLayers(pSave.snap)
  BY NoLayers DEF Port!Init, Port!NoSave
<1>5. /\ pSave.at = "idle" /\ pSave.outcome = "none" /\ pCore = Port!None /\ pSession = Port!None
      /\ pDraft = [l \in Port!Layers |-> Port!None] /\ pLaunch.at = "look"
      /\ pLaunch = [at |-> pLaunch.at, retries |-> pLaunch.retries, next |-> pLaunch.next]
      /\ pSave = [at |-> pSave.at, want |-> pSave.want, was |-> pSave.was, borrowed |-> pSave.borrowed,
                  snap |-> pSave.snap, seen |-> pSave.seen, outcome |-> pSave.outcome]
  BY DEF Port!Init, Port!NoSave
<1>6. PortTyped
  BY <1>2, <1>3, <1>4, <1>5 DEF PortTyped, Port!None, SaveAt, Before
<1>7. LaunchFits /\ DraftFits /\ SourcesFit /\ SessionFits /\ ServedFits
  BY <1>2, <1>3, <1>5 DEF LaunchFits, DraftFits, SourcesFit, SessionFits, ServedFits, SameSources, Serving,
     Remembered,
     Generating, Undoing, Staging, Candidate, Untouched, Before, Ending
<1> QED BY <1>6, <1>7 DEF PortInv

\* Startup looks.
LEMMA PortLook == PortInv /\ Port!Look => PortInv'
<1> SUFFICES ASSUME PortInv, Port!Look PROVE PortInv'
  OBVIOUS
<1> USE DEF SaveKept, SaveTyped, Port!None, Before, Generating, Staging, Candidate, Remembered, Undoing, Ending,
   Untouched, SaveAt
<1>1. pFile' = pFile /\ pData' = pData /\ pDraft' = pDraft /\ pSession' = pSession /\ pCore' = pCore /\
        pProxy' = pProxy /\ pSave' = pSave
  BY DEF Port!Look, Port!layers, Port!serving
<1>2. pLaunch' = [at |-> pLaunch'.at, retries |-> pLaunch'.retries, next |-> pLaunch'.next] /\ ~Port!Quiet
  BY DEF PortInv, PortTyped, Port!Look, Port!LaunchGoes, Port!Quiet
<1>3. PortTyped' /\ LaunchFits'
  BY <1>1, <1>2 DEF PortInv, PortTyped, LaunchFits, Port!Quiet
<1>4. DraftFits'
  BY <1>1, <1>2 DEF PortInv, PortTyped, DraftFits
<1>5. SourcesFit'
  BY <1>1, <1>2 DEF PortInv, PortTyped, DraftFits, SourcesFit, SameSources
<1>6. SessionFits'
  BY <1>1, <1>2 DEF PortInv, PortTyped, DraftFits, SessionFits, NamedBy, Port!Either
<1>7. ServedFits'
  BY <1>1, <1>2 DEF PortInv, PortTyped, DraftFits, SessionFits, ServedFits, Serving, InStep, NamedBy, Port!Either
<1> QED BY <1>3, <1>4, <1>5, <1>6, <1>7 DEF PortInv

\* Startup borrows a port.
LEMMA PortBorrow == PortInv /\ Port!Borrow => PortInv'
<1> SUFFICES ASSUME PortInv, Port!Borrow PROVE PortInv'
  OBVIOUS
<1> USE DEF SaveKept, SaveTyped, Port!None, Before, Generating, Staging, Candidate, Remembered, Undoing, Ending,
   Untouched, SaveAt
<1>1. pDraft' = pDraft /\ pCore' = pCore /\ pProxy' = pProxy /\ pSave' = pSave
  BY DEF Port!Borrow, Port!layers, Port!serving
<1>2. pLaunch' = [at |-> pLaunch'.at, retries |-> pLaunch'.retries, next |-> pLaunch'.next] /\ ~Port!Quiet
  BY DEF PortInv, PortTyped, Port!Borrow, Port!LaunchGoes, Port!Quiet
<1>3. pSave.at = "idle" /\ pCore = Port!None /\ pDraft = [l \in Port!Layers |-> Port!None]
  BY <1>2 DEF PortInv, LaunchFits, DraftFits
<1>4. /\ IsLayers(pFile') /\ pFile'["clash"] = pFile["clash"] /\ pFile'["verge"] = pFile["verge"]
      /\ IsLayers(pData') /\ pData'["clash"] = pData["clash"] /\ pData'["verge"] = pData["verge"]
      /\ pData'["runtime"] = pSession' \/ (pSession' = pSession /\ pData' = pData)
  <2>1. PICK v : v = pLaunch.next
    OBVIOUS
  <2>2. \/ pSession' = v /\ SetsLayer(pData, "runtime", v, pData') /\ SetsLayer(pFile, "runtime", v, pFile')
        \/ UNCHANGED <<pSession, pData, pFile>>
    BY <2>1 DEF Port!Borrow, SetsLayer
  <2>3. IsLayers(pData) /\ IsLayers(pFile)
    BY DEF PortInv, PortTyped
  <2>4. CASE pSession' = v /\ SetsLayer(pData, "runtime", v, pData') /\ SetsLayer(pFile, "runtime", v, pFile')
    <3>1. IsLayers(pFile') /\ pFile'["clash"] = pFile["clash"] /\ pFile'["verge"] = pFile["verge"]
      BY <2>3, <2>4, RuntimeSet
    <3>2. IsLayers(pData') /\ pData'["runtime"] = v /\ pData'["clash"] = pData["clash"] /\
            pData'["verge"] = pData["verge"]
      BY <2>3, <2>4, RuntimeSet
    <3> QED BY <2>4, <3>1, <3>2
  <2>5. CASE UNCHANGED <<pSession, pData, pFile>>
    BY <2>3, <2>5
  <2> QED BY <2>2, <2>4, <2>5
<1>5. PortTyped' /\ LaunchFits'
  BY <1>1, <1>2, <1>3, <1>4 DEF PortInv, PortTyped, LaunchFits, Port!Quiet
<1>6. DraftFits'
  BY <1>1, <1>2, <1>3, <1>4 DEF PortInv, PortTyped, DraftFits
<1>7. SourcesFit'
  BY <1>1, <1>2, <1>3, <1>4 DEF PortInv, PortTyped, DraftFits, SourcesFit, SameSources
<1>8. SessionFits'
  BY <1>1, <1>2, <1>3, <1>4 DEF PortInv, PortTyped, DraftFits, SessionFits, NamedBy, Port!Either
<1>9. ServedFits'
  BY <1>1, <1>2, <1>3, <1>4 DEF PortInv, PortTyped, DraftFits, SessionFits, ServedFits, Serving, InStep, NamedBy,
     Port!Either
<1> QED BY <1>5, <1>6, <1>7, <1>8, <1>9 DEF PortInv

\* Startup generates the runtime configuration.
LEMMA PortMaterialize == PortInv /\ Port!Materialize => PortInv'
<1> SUFFICES ASSUME PortInv, Port!Materialize PROVE PortInv'
  OBVIOUS
<1> USE DEF SaveKept, SaveTyped, Port!None, Before, Generating, Staging, Candidate, Remembered, Undoing, Ending,
   Untouched, SaveAt
<1>1. pDraft' = pDraft /\ pSession' = pSession /\ pCore' = pCore /\ pProxy' = pProxy /\ pSave' = pSave
  BY DEF Port!Materialize, Port!layers, Port!serving
<1>2. pLaunch' = [at |-> pLaunch'.at, retries |-> pLaunch'.retries, next |-> pLaunch'.next] /\ ~Port!Quiet
  BY DEF PortInv, PortTyped, Port!Materialize, Port!LaunchGoes, Port!Quiet
<1>3. pSave.at = "idle" /\ pCore = Port!None /\ pDraft = [l \in Port!Layers |-> Port!None]
  BY <1>2 DEF PortInv, LaunchFits, DraftFits
<1>4. PICK v : v = Port!Generated
  OBVIOUS
<1>5. v = Port!Either(pSession, pData["clash"])
  <2>1. pDraft["clash"] = Port!None
    BY <1>3, NoLayers, TheLayers
  <2> QED BY <1>4, <2>1 DEF Port!Generated, Port!Latest
<1>6. IsLayers(pData') /\ pData'["runtime"] = v /\ pData'["clash"] = pData["clash"] /\
        pData'["verge"] = pData["verge"]
  <2>1. SetsLayer(pData, "runtime", v, pData')
    BY <1>4 DEF Port!Materialize, SetsLayer
  <2> QED BY <2>1, RuntimeSet DEF PortInv, PortTyped
<1>7. IsLayers(pFile') /\ pFile'["runtime"] = v /\ pFile'["clash"] = pFile["clash"] /\
        pFile'["verge"] = pFile["verge"]
  <2>1. SetsLayer(pFile, "runtime", v, pFile')
    BY <1>4 DEF Port!Materialize, SetsLayer
  <2> QED BY <2>1, RuntimeSet DEF PortInv, PortTyped
<1>8. PortTyped' /\ LaunchFits'
  BY <1>1, <1>2, <1>3, <1>4, <1>5, <1>6, <1>7 DEF PortInv, PortTyped, LaunchFits, Port!Quiet
<1>9. DraftFits'
  BY <1>1, <1>2, <1>3, <1>4, <1>5, <1>6, <1>7 DEF PortInv, PortTyped, DraftFits
<1>10. SourcesFit'
  BY <1>1, <1>2, <1>3, <1>4, <1>5, <1>6, <1>7 DEF PortInv, PortTyped, DraftFits, SourcesFit, SameSources
<1>11. SessionFits'
  BY <1>1, <1>2, <1>3, <1>4, <1>5, <1>6, <1>7 DEF PortInv, PortTyped, DraftFits, SessionFits, NamedBy, Port!Either
<1>12. ServedFits'
  BY <1>1, <1>2, <1>3, <1>4, <1>5, <1>6, <1>7 DEF PortInv, PortTyped, DraftFits, SessionFits, ServedFits, Serving,
     InStep, NamedBy, Port!Either
<1> QED BY <1>8, <1>9, <1>10, <1>11, <1>12 DEF PortInv

\* Startup starts the core.
LEMMA PortStartCore == PortInv /\ Port!StartCore => PortInv'
<1> SUFFICES ASSUME PortInv, Port!StartCore PROVE PortInv'
  OBVIOUS
<1> USE DEF SaveKept, SaveTyped, Port!None, Before, Generating, Staging, Candidate, Remembered, Undoing, Ending,
   Untouched, SaveAt
<1>1. pSession' = pSession /\ pSave' = pSave
  BY DEF Port!StartCore, Port!layers, Port!serving
<1>2. ~Port!Quiet
  BY DEF Port!StartCore, Port!Quiet
<1>3. pSave.at = "idle" /\ pCore = Port!None /\ pDraft = [l \in Port!Layers |-> Port!None]
  BY <1>2 DEF PortInv, LaunchFits, DraftFits
<1>4. pLaunch' = [at |-> pLaunch'.at, retries |-> pLaunch'.retries, next |-> pLaunch'.next]
      /\ (pCore' # Port!None => pLaunch'.at = "up")
  BY ServesIs DEF PortInv, PortTyped, Port!StartCore, Port!LaunchGoes, Port!Stopped
<1>5. /\ IsLayers(pFile') /\ pFile'["clash"] = pFile["clash"] /\ pFile'["verge"] = pFile["verge"] /\
           pData' = pData /\ pDraft' = pDraft
      /\ \/ pCore' = Port!None
         \/ pCore' = pData["runtime"] /\ pCore' # Port!None /\ pProxy' = Port!Either(pSession,
              Port!Either(pData["verge"], pData["clash"]))
  BY <1>3, ServesSettled DEF PortInv, PortTyped, Port!StartCore, Port!Stopped, Port!layers
<1>6. PortTyped' /\ LaunchFits'
  BY <1>1, <1>2, <1>3, <1>4, <1>5 DEF PortInv, PortTyped, LaunchFits, Port!Quiet
<1>7. DraftFits'
  BY <1>1, <1>2, <1>3, <1>4, <1>5 DEF PortInv, PortTyped, DraftFits
<1>8. SourcesFit'
  BY <1>1, <1>2, <1>3, <1>4, <1>5 DEF PortInv, PortTyped, DraftFits, SourcesFit, SameSources
<1>9. SessionFits'
  BY <1>1, <1>2, <1>3, <1>4, <1>5 DEF PortInv, PortTyped, DraftFits, SessionFits, NamedBy, Port!Either
<1>10. ServedFits'
  BY <1>1, <1>2, <1>3, <1>4, <1>5 DEF PortInv, PortTyped, DraftFits, SessionFits, ServedFits, Serving, InStep,
     NamedBy, Port!Either
<1> QED BY <1>6, <1>7, <1>8, <1>9, <1>10 DEF PortInv

\* The user starts the core.
LEMMA PortUserStarts == PortInv /\ Port!UserStarts => PortInv'
<1> SUFFICES ASSUME PortInv, Port!UserStarts PROVE PortInv'
  OBVIOUS
<1> USE DEF SaveKept, SaveTyped, Port!None, Before, Generating, Staging, Candidate, Remembered, Undoing, Ending,
   Untouched, SaveAt
<1>1. pSession' = pSession /\ pSave' = pSave /\ pLaunch' = pLaunch
  BY DEF Port!UserStarts, Port!layers, Port!serving
<1>2. pSave.at = "idle" /\ Port!Quiet /\ pDraft = [l \in Port!Layers |-> Port!None]
  BY DEF PortInv, DraftFits, Port!UserStarts
<1>3. /\ IsLayers(pFile') /\ pFile'["clash"] = pFile["clash"] /\ pFile'["verge"] = pFile["verge"] /\
           pData' = pData /\ pDraft' = pDraft
      /\ pCore' = pData["runtime"] /\ pCore' # Port!None /\ pProxy' = Port!Either(pSession,
           Port!Either(pData["verge"], pData["clash"]))
  BY <1>2, ServesSettled DEF PortInv, PortTyped, Port!UserStarts
<1>4. PortTyped' /\ LaunchFits'
  BY <1>1, <1>2, <1>3 DEF PortInv, PortTyped, LaunchFits, Port!Quiet
<1>5. DraftFits'
  BY <1>1, <1>2, <1>3 DEF PortInv, PortTyped, DraftFits
<1>6. SourcesFit'
  BY <1>1, <1>2, <1>3 DEF PortInv, PortTyped, DraftFits, SourcesFit, SameSources
<1>7. SessionFits'
  BY <1>1, <1>2, <1>3 DEF PortInv, PortTyped, DraftFits, SessionFits, NamedBy, Port!Either
<1>8. ServedFits'
  BY <1>1, <1>2, <1>3 DEF PortInv, PortTyped, DraftFits, SessionFits, ServedFits, Serving, InStep, NamedBy,
     Port!Either
<1> QED BY <1>4, <1>5, <1>6, <1>7, <1>8 DEF PortInv

\* A change of the port begins.
LEMMA PortBeginSave == PortInv /\ Port!BeginSave => PortInv'
<1> SUFFICES ASSUME PortInv, Port!BeginSave PROVE PortInv'
  OBVIOUS
<1> USE DEF SaveKept, SaveTyped, Port!None, Before, Generating, Staging, Candidate, Remembered, Undoing, Ending,
   Untouched, SaveAt
<1>1. pFile' = pFile /\ pData' = pData /\ pDraft' = pDraft /\ pSession' = pSession /\ pCore' = pCore /\
        pProxy' = pProxy /\ pLaunch' = pLaunch
  BY DEF Port!BeginSave, Port!layers, Port!serving
<1>2. pSave.at = "idle" /\ Port!Quiet /\ pSave.outcome # "broken" /\ pDraft = [l \in Port!Layers |-> Port!None]
  BY DEF PortInv, DraftFits, Port!BeginSave
<1>3. SaveTyped' /\ pSave'.at = "stage" /\ pSave'.want # Port!None /\ pSave'.outcome = "none" /\ IsLayers(pSave'.snap)
  <2>1. PICK p \in Port!AllPorts : pSave' = [Port!NoSave EXCEPT !.at = "stage", !.want = p]
    BY DEF Port!BeginSave
  <2>2. p # Port!None
    BY DEF Port!AllPorts, Port!None
  <2>3. IsLayers(Port!NoSave.snap) /\ Port!NoSave.outcome = "none"
    BY NoLayers DEF Port!NoSave
  <2>4. SaveTyped' /\ pSave'.at = "stage" /\ pSave'.want = p /\ pSave'.outcome = Port!NoSave.outcome /\
          pSave'.snap = Port!NoSave.snap
    BY <2>1 DEF Port!NoSave, SaveTyped
  <2> QED BY <2>2, <2>3, <2>4
<1>4. PortTyped' /\ LaunchFits'
  BY <1>1, <1>2, <1>3 DEF PortInv, PortTyped, LaunchFits, Port!Quiet
<1>5. DraftFits'
  BY <1>1, <1>2, <1>3 DEF PortInv, PortTyped, DraftFits
<1>6. SourcesFit'
  BY <1>1, <1>2, <1>3 DEF PortInv, PortTyped, DraftFits, SourcesFit, SameSources
<1>7. SessionFits'
  BY <1>1, <1>2, <1>3 DEF PortInv, PortTyped, DraftFits, SessionFits, NamedBy, Port!Either
<1>8. ServedFits'
  BY <1>1, <1>2, <1>3 DEF PortInv, PortTyped, DraftFits, SessionFits, ServedFits, Serving, InStep, NamedBy,
     Port!Either
<1> QED BY <1>4, <1>5, <1>6, <1>7, <1>8 DEF PortInv

\* The port is staged.
LEMMA PortStage == PortInv /\ Port!Stage => PortInv'
<1> SUFFICES ASSUME PortInv, Port!Stage PROVE PortInv'
  OBVIOUS
<1> USE DEF SaveKept, SaveTyped, Port!None, Before, Generating, Staging, Candidate, Remembered, Undoing, Ending,
   Untouched, SaveAt
<1>1. pFile' = pFile /\ pData' = pData /\ pSession' = pSession /\ pCore' = pCore /\ pProxy' = pProxy /\
        pLaunch' = pLaunch
  BY DEF Port!Stage, Port!layers, Port!serving
<1>2. pSave.at = "stage"
  BY DEF Port!Stage
<1>3. SaveKept /\ pSave'.at = "close" /\ pSave'.was = pSave.was /\ pSave'.outcome = pSave.outcome
  BY SaveGoes DEF PortInv, Port!Stage
<1>4. IsLayers(pDraft') /\ pDraft'["clash"] = pSave.want /\ pDraft'["verge"] = pSave.want
  <2>1. pDraft' = [pDraft EXCEPT !["clash"] = pSave.want, !["verge"] = pSave.want]
    BY DEF Port!Stage
  <2>2. IsLayers(pDraft)
    BY DEF PortInv, PortTyped
  <2> QED BY <2>1, <2>2, TheLayers DEF IsLayers
<1>5. PortTyped' /\ LaunchFits'
  BY <1>1, <1>2, <1>3, <1>4 DEF PortInv, PortTyped, LaunchFits, Port!Quiet
<1>6. DraftFits'
  BY <1>1, <1>2, <1>3, <1>4 DEF PortInv, PortTyped, DraftFits
<1>7. SourcesFit'
  BY <1>1, <1>2, <1>3, <1>4 DEF PortInv, PortTyped, DraftFits, SourcesFit, SameSources
<1>8. SessionFits'
  BY <1>1, <1>2, <1>3, <1>4 DEF PortInv, PortTyped, DraftFits, SessionFits, NamedBy, Port!Either
<1>9. ServedFits'
  BY <1>1, <1>2, <1>3, <1>4 DEF PortInv, PortTyped, DraftFits, SessionFits, ServedFits, Serving, InStep, NamedBy,
     Port!Either
<1> QED BY <1>5, <1>6, <1>7, <1>8, <1>9 DEF PortInv

\* PAC is closed, and the borrowed port is given up.
LEMMA PortClosePac == PortInv /\ Port!ClosePac => PortInv'
<1> SUFFICES ASSUME PortInv, Port!ClosePac PROVE PortInv'
  OBVIOUS
<1> USE DEF SaveKept, SaveTyped, Port!None, Before, Generating, Staging, Candidate, Remembered, Undoing, Ending,
   Untouched, SaveAt
<1>1. pFile' = pFile /\ pData' = pData /\ pDraft' = pDraft /\ pCore' = pCore /\ pProxy' = pProxy /\ pLaunch' = pLaunch
  BY DEF Port!ClosePac, Port!layers, Port!serving
<1>2. pSave.at = "close" /\ pSession' = Port!None
  BY DEF Port!ClosePac, Port!layers
<1>3. /\ SaveTyped' /\ pSave'.at = "generate" /\ pSave'.was = pSave.was /\ pSave'.outcome = pSave.outcome
      /\ pSave'.want = pSave.want /\ pSave'.borrowed = pSession /\ pSave'.snap = pSave.snap
  BY DEF PortInv, PortTyped, SaveTyped, Port!ClosePac
<1>4. PortTyped' /\ LaunchFits'
  BY <1>1, <1>2, <1>3 DEF PortInv, PortTyped, LaunchFits, Port!Quiet
<1>5. DraftFits'
  BY <1>1, <1>2, <1>3 DEF PortInv, PortTyped, DraftFits
<1>6. SourcesFit'
  BY <1>1, <1>2, <1>3 DEF PortInv, PortTyped, DraftFits, SourcesFit, SameSources
<1>7. SessionFits'
  BY <1>1, <1>2, <1>3 DEF PortInv, PortTyped, DraftFits, SessionFits, NamedBy, Port!Either
<1>8. ServedFits'
  BY <1>1, <1>2, <1>3 DEF PortInv, PortTyped, DraftFits, SessionFits, ServedFits, Serving, InStep, NamedBy,
     Port!Either
<1> QED BY <1>4, <1>5, <1>6, <1>7, <1>8 DEF PortInv

\* The candidate is generated.
LEMMA PortGenerateCandidate == PortInv /\ Port!GenerateCandidate => PortInv'
<1> SUFFICES ASSUME PortInv, Port!GenerateCandidate PROVE PortInv'
  OBVIOUS
<1> USE DEF SaveKept, SaveTyped, Port!None, Before, Generating, Staging, Candidate, Remembered, Undoing, Ending,
   Untouched, SaveAt
<1>1. pFile' = pFile /\ pData' = pData /\ pSession' = pSession /\ pCore' = pCore /\ pProxy' = pProxy /\
        pLaunch' = pLaunch
  BY DEF Port!GenerateCandidate, Port!layers, Port!serving
<1>2. pSave.at = "generate" /\ pSession = Port!None /\ pDraft["clash"] = pSave.want /\ pSave.want # Port!None
  BY DEF PortInv, DraftFits, SessionFits, Port!GenerateCandidate, Generating, Staging
<1>3. PICK v : v = Port!Generated
  OBVIOUS
<1>4. v = pSave.want
  BY <1>2, <1>3 DEF Port!Generated, Port!Either, Port!Latest
<1>5. /\ SaveKept /\ pSave'.was = pSave.was
      /\ \/ pSave'.at = "probe" /\ pSave'.outcome = pSave.outcome /\ SetsLayer(pDraft, "runtime", v, pDraft')
         \/ pSave'.at = "unborrow" /\ pSave'.outcome = "failed" /\ pDraft' = pDraft
  BY <1>3, SaveGoes, SaveEnds DEF PortInv, Port!GenerateCandidate, SetsLayer
<1>6. IsLayers(pDraft') /\ pDraft'["clash"] = pDraft["clash"] /\ pDraft'["verge"] = pDraft["verge"]
      /\ (pSave'.at = "probe" => pDraft'["runtime"] = v)
  BY <1>5, RuntimeSet DEF PortInv, PortTyped
<1>7. PortTyped' /\ LaunchFits'
  BY <1>1, <1>2, <1>3, <1>4, <1>5, <1>6 DEF PortInv, PortTyped, LaunchFits, Port!Quiet
<1>8. DraftFits'
  BY <1>1, <1>2, <1>3, <1>4, <1>5, <1>6 DEF PortInv, PortTyped, DraftFits
<1>9. SourcesFit'
  BY <1>1, <1>2, <1>3, <1>4, <1>5, <1>6 DEF PortInv, PortTyped, DraftFits, SourcesFit, SameSources
<1>10. SessionFits'
  BY <1>1, <1>2, <1>3, <1>4, <1>5, <1>6 DEF PortInv, PortTyped, DraftFits, SessionFits, NamedBy, Port!Either
<1>11. ServedFits'
  <2>1. pCore' = pCore /\ pData' = pData /\ pProxy' = pProxy /\ Serving => Serving'
    BY DEF Serving, InStep
  <2>2. CASE pSave'.at = "probe"
    BY <2>1, <2>2, <1>1, <1>2, <1>3, <1>4, <1>5, <1>6 DEF PortInv, SourcesFit, ServedFits
  <2>3. CASE pSave'.at = "unborrow"
    BY <2>1, <2>3, <1>1, <1>2, <1>3, <1>4, <1>5, <1>6 DEF PortInv, SourcesFit, ServedFits
  <2> QED BY <2>2, <2>3, <1>1, <1>2, <1>3, <1>4, <1>5, <1>6
<1> QED BY <1>7, <1>8, <1>9, <1>10, <1>11 DEF PortInv

\* The candidate is probed.
LEMMA PortProbeCandidate == PortInv /\ Port!ProbeCandidate => PortInv'
<1> SUFFICES ASSUME PortInv, Port!ProbeCandidate PROVE PortInv'
  OBVIOUS
<1> USE DEF SaveKept, SaveTyped, Port!None, Before, Generating, Staging, Candidate, Remembered, Undoing, Ending,
   Untouched, SaveAt
<1>1. pFile' = pFile /\ pData' = pData /\ pDraft' = pDraft /\ pSession' = pSession /\ pCore' = pCore /\
        pProxy' = pProxy /\ pLaunch' = pLaunch
  BY DEF Port!ProbeCandidate, Port!layers, Port!serving
<1>2. pSave.at = "probe"
  BY DEF Port!ProbeCandidate
<1>3. /\ SaveKept
      /\ \/ pSave'.at = "validate" /\ pSave'.was = (pCore # Port!None) /\ pSave'.outcome = pSave.outcome
         \/ pSave'.at = "unborrow" /\ pSave'.outcome \in {"conflict", "failed"}
  <2>1. ASSUME pSave' = [pSave EXCEPT !.at = "validate", !.was = pCore # Port!None]
        PROVE  SaveKept /\ pSave'.at = "validate" /\ pSave'.was = (pCore # Port!None) /\
                 pSave'.outcome = pSave.outcome
    BY <2>1 DEF PortInv, PortTyped, SaveKept, SaveTyped
  <2> QED BY <2>1, SaveEnds DEF PortInv, Port!ProbeCandidate
<1>4. PortTyped' /\ LaunchFits'
  BY <1>1, <1>2, <1>3 DEF PortInv, PortTyped, LaunchFits, Port!Quiet
<1>5. DraftFits'
  BY <1>1, <1>2, <1>3 DEF PortInv, PortTyped, DraftFits
<1>6. SourcesFit'
  BY <1>1, <1>2, <1>3 DEF PortInv, PortTyped, DraftFits, SourcesFit, SameSources
<1>7. SessionFits'
  BY <1>1, <1>2, <1>3 DEF PortInv, PortTyped, DraftFits, SessionFits, NamedBy, Port!Either
<1>8. ServedFits'
  <2>1. pCore' = pCore /\ pData' = pData /\ pProxy' = pProxy /\ Serving => Serving'
    BY DEF Serving, InStep
  <2>2. CASE pSave'.at = "validate"
    BY <2>1, <2>2, <1>1, <1>2, <1>3 DEF PortInv, SourcesFit, ServedFits
  <2>3. CASE pSave'.at = "unborrow"
    BY <2>1, <2>3, <1>1, <1>2, <1>3 DEF PortInv, SourcesFit, ServedFits
  <2> QED BY <2>2, <2>3, <1>1, <1>2, <1>3
<1> QED BY <1>4, <1>5, <1>6, <1>7, <1>8 DEF PortInv

\* The candidate is validated.
LEMMA PortValidateCandidate == PortInv /\ Port!ValidateCandidate => PortInv'
<1> SUFFICES ASSUME PortInv, Port!ValidateCandidate PROVE PortInv'
  OBVIOUS
<1> USE DEF SaveKept, SaveTyped, Port!None, Before, Generating, Staging, Candidate, Remembered, Undoing, Ending,
   Untouched, SaveAt
<1>1. pFile' = pFile /\ pData' = pData /\ pDraft' = pDraft /\ pSession' = pSession /\ pCore' = pCore /\
        pProxy' = pProxy /\ pLaunch' = pLaunch
  BY DEF Port!ValidateCandidate, Port!layers, Port!serving
<1>2. pSave.at = "validate"
  BY DEF Port!ValidateCandidate
<1>3. /\ SaveTyped' /\ pSave'.want = pSave.want /\ pSave'.borrowed = pSave.borrowed /\ pSave'.was = pSave.was
      /\ \/ pSave'.at = "write" /\ pSave'.snap = pFile /\ pSave'.outcome = pSave.outcome
         \/ pSave'.at = "unborrow" /\ pSave'.snap = pSave.snap /\ pSave'.outcome = "failed"
  <2>1. ASSUME pSave' = [pSave EXCEPT !.at = "write", !.snap = pFile]
        PROVE  /\ SaveTyped' /\ pSave'.want = pSave.want /\ pSave'.borrowed = pSave.borrowed /\ pSave'.was = pSave.was
               /\ pSave'.at = "write" /\ pSave'.snap = pFile /\ pSave'.outcome = pSave.outcome
    BY <2>1 DEF PortInv, PortTyped, SaveTyped
  <2> QED BY <2>1, SaveEnds DEF PortInv, Port!ValidateCandidate, SaveKept
<1>4. PortTyped' /\ LaunchFits'
  BY <1>1, <1>2, <1>3 DEF PortInv, PortTyped, LaunchFits, Port!Quiet
<1>5. DraftFits'
  BY <1>1, <1>2, <1>3 DEF PortInv, PortTyped, DraftFits
<1>6. SourcesFit'
  BY <1>1, <1>2, <1>3 DEF PortInv, PortTyped, DraftFits, SourcesFit, SameSources
<1>7. SessionFits'
  BY <1>1, <1>2, <1>3 DEF PortInv, PortTyped, DraftFits, SessionFits, NamedBy, Port!Either
<1>8. ServedFits'
  <2>1. pCore' = pCore /\ pData' = pData /\ pProxy' = pProxy /\ Serving => Serving'
    BY DEF Serving, InStep
  <2>2. CASE pSave'.at = "write"
    BY <2>1, <2>2, <1>1, <1>2, <1>3 DEF PortInv, SourcesFit, ServedFits
  <2>3. CASE pSave'.at = "unborrow"
    BY <2>1, <2>3, <1>1, <1>2, <1>3 DEF PortInv, SourcesFit, ServedFits
  <2> QED BY <2>2, <2>3, <1>1, <1>2, <1>3
<1> QED BY <1>4, <1>5, <1>6, <1>7, <1>8 DEF PortInv

\* The candidate is written.
LEMMA PortWriteCandidate == PortInv /\ Port!WriteCandidate => PortInv'
<1> SUFFICES ASSUME PortInv, Port!WriteCandidate PROVE PortInv'
  OBVIOUS
<1> USE DEF SaveKept, SaveTyped, Port!None, Before, Generating, Staging, Candidate, Remembered, Undoing, Ending,
   Untouched, SaveAt
<1>1. pData' = pData /\ pDraft' = pDraft /\ pSession' = pSession /\ pCore' = pCore /\ pProxy' = pProxy /\
        pLaunch' = pLaunch
  BY DEF Port!WriteCandidate, Port!layers, Port!serving
<1>2. pSave.at = "write"
  BY DEF Port!WriteCandidate
<1>3. /\ SaveKept /\ pSave'.was = pSave.was /\ pSave'.outcome = pSave.outcome
      /\ pSave'.at \in {"stop", "persistClash", "writeBack"} /\ (pSave'.at = "stop" => pSave.was) /\
           (pSave'.at = "persistClash" => ~pSave.was)
  BY SaveGoes DEF PortInv, Port!WriteCandidate
<1>4. IsLayers(pFile') /\ pFile'["clash"] = pFile["clash"] /\ pFile'["verge"] = pFile["verge"]
  <2>1. PICK v : v = pDraft["runtime"]
    OBVIOUS
  <2>2. SetsLayer(pFile, "runtime", v, pFile') \/ pFile' = pFile
    BY <2>1 DEF Port!WriteCandidate, SetsLayer
  <2> QED BY <2>2, RuntimeSet DEF PortInv, PortTyped
<1>5. PortTyped' /\ LaunchFits'
  BY <1>1, <1>2, <1>3, <1>4 DEF PortInv, PortTyped, LaunchFits, Port!Quiet
<1>6. DraftFits'
  BY <1>1, <1>2, <1>3, <1>4 DEF PortInv, PortTyped, DraftFits
<1>7. SourcesFit'
  BY <1>1, <1>2, <1>3, <1>4 DEF PortInv, PortTyped, DraftFits, SourcesFit, SameSources
<1>8. SessionFits'
  BY <1>1, <1>2, <1>3, <1>4 DEF PortInv, PortTyped, DraftFits, SessionFits, NamedBy, Port!Either
<1>9. ServedFits'
  BY <1>1, <1>2, <1>3, <1>4 DEF PortInv, PortTyped, DraftFits, SessionFits, ServedFits, Serving, InStep, NamedBy,
     Port!Either
<1> QED BY <1>5, <1>6, <1>7, <1>8, <1>9 DEF PortInv

\* A candidate that could not be written is taken back.
LEMMA PortWriteBack == PortInv /\ Port!WriteBack => PortInv'
<1> SUFFICES ASSUME PortInv, Port!WriteBack PROVE PortInv'
  OBVIOUS
<1> USE DEF SaveKept, SaveTyped, Port!None, Before, Generating, Staging, Candidate, Remembered, Undoing, Ending,
   Untouched, SaveAt
<1>1. pData' = pData /\ pSession' = pSession /\ pCore' = pCore /\ pProxy' = pProxy /\ pLaunch' = pLaunch
  BY DEF Port!WriteBack, Port!layers, Port!serving
<1>2. pSave.at = "writeBack" /\ pDraft' = [l \in Port!Layers |-> Port!None]
  BY DEF Port!WriteBack
<1>3. IsLayers(pDraft')
  BY <1>2, NoLayers
<1>4. SameSources(pSave.snap) /\ pSave.snap["clash"] # Port!None
  BY <1>2 DEF PortInv, PortTyped, SourcesFit, SameSources, Remembered
<1>5. PICK ok \in BOOLEAN : Port!Restored(ok) /\ Port!Ends(IF ok THEN "failed" ELSE "broken")
  BY DEF Port!WriteBack
<1>6. SaveKept /\ pSave'.at = "unborrow" /\ pSave'.was = pSave.was /\
        pSave'.outcome = (IF ok THEN "failed" ELSE "broken")
  BY <1>5, SaveEnds DEF PortInv
<1>7. IsLayers(pFile') /\ pFile'["clash"] # Port!None /\ (ok => pFile' = pSave.snap)
  BY <1>4, <1>5, PutsBack DEF PortInv
<1>8. PortTyped' /\ LaunchFits'
  BY <1>1, <1>2, <1>3, <1>4, <1>5, <1>6, <1>7 DEF PortInv, PortTyped, LaunchFits, Port!Quiet
<1>9. DraftFits'
  BY <1>1, <1>2, <1>3, <1>4, <1>5, <1>6, <1>7 DEF PortInv, PortTyped, DraftFits
<1>10. SourcesFit'
  BY <1>1, <1>2, <1>3, <1>4, <1>5, <1>6, <1>7 DEF PortInv, PortTyped, DraftFits, SourcesFit, SameSources
<1>11. SessionFits'
  BY <1>1, <1>2, <1>3, <1>4, <1>5, <1>6, <1>7 DEF PortInv, PortTyped, DraftFits, SessionFits, NamedBy, Port!Either
<1>12. ServedFits'
  <2>1. pCore' = pCore /\ pData' = pData /\ pProxy' = pProxy /\ Serving => Serving'
    BY DEF Serving, InStep
  <2>2. CASE ok
    BY <2>1, <2>2, <1>1, <1>2, <1>3, <1>4, <1>5, <1>6, <1>7 DEF PortInv, SourcesFit, ServedFits
  <2>3. CASE ~ok
    BY <2>1, <2>3, <1>1, <1>2, <1>3, <1>4, <1>5, <1>6, <1>7 DEF PortInv, SourcesFit, ServedFits
  <2> QED BY <2>2, <2>3, <1>1, <1>2, <1>3, <1>4, <1>5, <1>6, <1>7
<1> QED BY <1>8, <1>9, <1>10, <1>11, <1>12 DEF PortInv

\* The core is stopped for the change.
LEMMA PortStopForSave == PortInv /\ Port!StopForSave => PortInv'
<1> SUFFICES ASSUME PortInv, Port!StopForSave PROVE PortInv'
  OBVIOUS
<1> USE DEF SaveKept, SaveTyped, Port!None, Before, Generating, Staging, Candidate, Remembered, Undoing, Ending,
   Untouched, SaveAt
<1>1. pFile' = pFile /\ pData' = pData /\ pDraft' = pDraft /\ pSession' = pSession /\ pLaunch' = pLaunch
  BY DEF Port!StopForSave, Port!layers, Port!serving
<1>2. pSave.at = "stop"
  BY DEF Port!StopForSave
<1>3. /\ SaveKept /\ pSave'.was = pSave.was /\ pSave'.outcome = pSave.outcome
      /\ \/ pSave'.at = "start" /\ pCore' = Port!None
         \/ pSave'.at = "giveUp" /\ pCore' = pCore
  BY SaveGoes DEF PortInv, Port!StopForSave, Port!Stopped, Port!serving
<1>4. PortTyped' /\ LaunchFits'
  BY <1>1, <1>2, <1>3 DEF PortInv, PortTyped, LaunchFits, Port!Quiet
<1>5. DraftFits'
  BY <1>1, <1>2, <1>3 DEF PortInv, PortTyped, DraftFits
<1>6. SourcesFit'
  BY <1>1, <1>2, <1>3 DEF PortInv, PortTyped, DraftFits, SourcesFit, SameSources
<1>7. SessionFits'
  BY <1>1, <1>2, <1>3 DEF PortInv, PortTyped, DraftFits, SessionFits, NamedBy, Port!Either
<1>8. ServedFits'
  BY <1>1, <1>2, <1>3 DEF PortInv, PortTyped, DraftFits, SessionFits, ServedFits, Serving, InStep, NamedBy,
     Port!Either
<1> QED BY <1>4, <1>5, <1>6, <1>7, <1>8 DEF PortInv

\* The core is started for the change.
LEMMA PortStartForSave == PortInv /\ Port!StartForSave => PortInv'
<1> SUFFICES ASSUME PortInv, Port!StartForSave PROVE PortInv'
  OBVIOUS
<1> USE DEF SaveKept, SaveTyped, Port!None, Before, Generating, Staging, Candidate, Remembered, Undoing, Ending,
   Untouched, SaveAt
<1>1. pSession' = pSession /\ pLaunch' = pLaunch
  BY DEF Port!StartForSave, Port!layers, Port!serving
<1>2. pSave.at = "start"
  BY DEF Port!StartForSave
<1>3. /\ pSession = Port!None /\ pSave.want # Port!None
      /\ pDraft["clash"] = pSave.want /\ pDraft["verge"] = pSave.want /\ pDraft["runtime"] = pSave.want
  BY <1>2 DEF PortInv, DraftFits, SessionFits, Generating, Staging, Candidate
<1>4. /\ SaveKept /\ pSave'.was = pSave.was /\ pSave'.outcome = pSave.outcome
      /\ \/ pSave'.at = "persistClash" /\ pCore' = Port!Latest("runtime") /\ pCore' # Port!None /\
              pProxy' = Port!Desired
         \/ pSave'.at = "giveUp" /\ pCore' = pCore
  BY SaveGoes, ServesIs DEF PortInv, Port!StartForSave, Port!serving
<1>5. Port!Latest("runtime") = pSave.want /\ Port!Desired = pSave.want
  BY <1>3 DEF Port!Latest, Port!Desired, Port!Either
<1>6. IsLayers(pFile') /\ pFile'["clash"] = pFile["clash"] /\ pFile'["verge"] = pFile["verge"] /\
        pData' = pData /\ pDraft' = pDraft
  BY ServesIs DEF PortInv, PortTyped, Port!StartForSave, Port!layers
<1>7. PortTyped' /\ LaunchFits'
  BY <1>1, <1>2, <1>3, <1>4, <1>5, <1>6 DEF PortInv, PortTyped, LaunchFits, Port!Quiet
<1>8. DraftFits'
  BY <1>1, <1>2, <1>3, <1>4, <1>5, <1>6 DEF PortInv, PortTyped, DraftFits
<1>9. SourcesFit'
  BY <1>1, <1>2, <1>3, <1>4, <1>5, <1>6 DEF PortInv, PortTyped, DraftFits, SourcesFit, SameSources
<1>10. SessionFits'
  BY <1>1, <1>2, <1>3, <1>4, <1>5, <1>6 DEF PortInv, PortTyped, DraftFits, SessionFits, NamedBy, Port!Either
<1>11. ServedFits'
  <2>1. pCore' = pCore /\ pData' = pData /\ pProxy' = pProxy /\ Serving => Serving'
    BY DEF Serving, InStep
  <2>2. CASE pSave'.at = "persistClash"
    BY <2>1, <2>2, <1>1, <1>2, <1>3, <1>4, <1>5, <1>6 DEF PortInv, SourcesFit, ServedFits
  <2>3. CASE pSave'.at = "giveUp"
    BY <2>1, <2>3, <1>1, <1>2, <1>3, <1>4, <1>5, <1>6 DEF PortInv, SourcesFit, ServedFits
  <2> QED BY <2>2, <2>3, <1>1, <1>2, <1>3, <1>4, <1>5, <1>6
<1> QED BY <1>7, <1>8, <1>9, <1>10, <1>11 DEF PortInv

\* The core's file is written.
LEMMA PortPersistClash == PortInv /\ Port!PersistClash => PortInv'
<1> SUFFICES ASSUME PortInv, Port!PersistClash PROVE PortInv'
  OBVIOUS
<1> USE DEF SaveKept, SaveTyped, Port!None, Before, Generating, Staging, Candidate, Remembered, Undoing, Ending,
   Untouched, SaveAt
<1>1. pData' = pData /\ pDraft' = pDraft /\ pSession' = pSession /\ pCore' = pCore /\ pProxy' = pProxy /\
        pLaunch' = pLaunch
  BY DEF Port!PersistClash, Port!layers, Port!serving
<1>2. pSave.at = "persistClash"
  BY DEF Port!PersistClash
<1>3. pDraft["clash"] = pSave.want /\ pSave.want # Port!None
  BY <1>2 DEF PortInv, DraftFits, Generating, Staging
<1>4. PICK v : v = pDraft["clash"]
  OBVIOUS
<1>5. /\ SaveKept /\ pSave'.was = pSave.was /\ pSave'.outcome = pSave.outcome
      /\ \/ pSave'.at = "persistVerge" /\ SetsLayer(pFile, "clash", v, pFile')
         \/ pSave'.at = "giveUp" /\ pFile' = pFile
  BY <1>4, SaveGoes DEF PortInv, Port!PersistClash, SetsLayer
<1>6. IsLayers(pFile') /\ (pSave'.at = "persistVerge" => pFile'["clash"] = v /\ pFile'["verge"] = pFile["verge"])
  BY <1>5, LayerSet, TheLayers DEF PortInv, PortTyped
<1>7. SameSources(pSave.snap) /\ pSave.snap["clash"] # Port!None
  BY <1>2 DEF PortInv, PortTyped, SourcesFit, SameSources, Remembered
<1>8. PortTyped' /\ LaunchFits'
  BY <1>1, <1>2, <1>3, <1>4, <1>5, <1>6, <1>7 DEF PortInv, PortTyped, LaunchFits, Port!Quiet
<1>9. DraftFits'
  BY <1>1, <1>2, <1>3, <1>4, <1>5, <1>6, <1>7 DEF PortInv, PortTyped, DraftFits
<1>10. SourcesFit'
  BY <1>1, <1>2, <1>3, <1>4, <1>5, <1>6, <1>7 DEF PortInv, PortTyped, DraftFits, SourcesFit, SameSources
<1>11. SessionFits'
  BY <1>1, <1>2, <1>3, <1>4, <1>5, <1>6, <1>7 DEF PortInv, PortTyped, DraftFits, SessionFits, NamedBy, Port!Either
<1>12. ServedFits'
  BY <1>1, <1>2, <1>3, <1>4, <1>5, <1>6, <1>7 DEF PortInv, PortTyped, DraftFits, SessionFits, ServedFits, Serving,
     InStep, NamedBy, Port!Either
<1> QED BY <1>8, <1>9, <1>10, <1>11, <1>12 DEF PortInv

\* The file of the application is written.
LEMMA PortPersistVerge == PortInv /\ Port!PersistVerge => PortInv'
<1> SUFFICES ASSUME PortInv, Port!PersistVerge PROVE PortInv'
  OBVIOUS
<1> USE DEF SaveKept, SaveTyped, Port!None, Before, Generating, Staging, Candidate, Remembered, Undoing, Ending,
   Untouched, SaveAt
<1>1. pData' = pData /\ pDraft' = pDraft /\ pSession' = pSession /\ pCore' = pCore /\ pProxy' = pProxy /\
        pLaunch' = pLaunch
  BY DEF Port!PersistVerge, Port!layers, Port!serving
<1>2. pSave.at = "persistVerge"
  BY DEF Port!PersistVerge
<1>3. pDraft["verge"] = pSave.want /\ pSave.want # Port!None
  BY <1>2 DEF PortInv, DraftFits, Generating, Staging
<1>4. PICK v : v = pDraft["verge"]
  OBVIOUS
<1>5. /\ SaveKept /\ pSave'.was = pSave.was /\ pSave'.outcome = pSave.outcome
      /\ \/ pSave'.at = "commit" /\ SetsLayer(pFile, "verge", v, pFile')
         \/ pSave'.at = "giveUp" /\ pFile' = pFile
  BY <1>4, SaveGoes DEF PortInv, Port!PersistVerge, SetsLayer
<1>6. IsLayers(pFile') /\ (pSave'.at = "commit" => pFile'["verge"] = v /\ pFile'["clash"] = pFile["clash"])
  BY <1>5, LayerSet, TheLayers DEF PortInv, PortTyped
<1>7. SameSources(pSave.snap) /\ pSave.snap["clash"] # Port!None
  BY <1>2 DEF PortInv, PortTyped, SourcesFit, SameSources, Remembered
<1>8. PortTyped' /\ LaunchFits'
  BY <1>1, <1>2, <1>3, <1>4, <1>5, <1>6, <1>7 DEF PortInv, PortTyped, LaunchFits, Port!Quiet
<1>9. DraftFits'
  BY <1>1, <1>2, <1>3, <1>4, <1>5, <1>6, <1>7 DEF PortInv, PortTyped, DraftFits
<1>10. SourcesFit'
  BY <1>1, <1>2, <1>3, <1>4, <1>5, <1>6, <1>7 DEF PortInv, PortTyped, DraftFits, SourcesFit, SameSources
<1>11. SessionFits'
  BY <1>1, <1>2, <1>3, <1>4, <1>5, <1>6, <1>7 DEF PortInv, PortTyped, DraftFits, SessionFits, NamedBy, Port!Either
<1>12. ServedFits'
  BY <1>1, <1>2, <1>3, <1>4, <1>5, <1>6, <1>7 DEF PortInv, PortTyped, DraftFits, SessionFits, ServedFits, Serving,
     InStep, NamedBy, Port!Either
<1> QED BY <1>8, <1>9, <1>10, <1>11, <1>12 DEF PortInv

\* The change is committed.
LEMMA PortCommit == PortInv /\ Port!Commit => PortInv'
<1> SUFFICES ASSUME PortInv, Port!Commit PROVE PortInv'
  OBVIOUS
<1> USE DEF SaveKept, SaveTyped, Port!None, Before, Generating, Staging, Candidate, Remembered, Undoing, Ending,
   Untouched, SaveAt
<1>1. pFile' = pFile /\ pSession' = pSession /\ pCore' = pCore /\ pProxy' = pProxy /\ pLaunch' = pLaunch
  BY DEF Port!Commit, Port!layers, Port!serving
<1>2. pSave.at = "commit" /\ pDraft' = [l \in Port!Layers |-> Port!None]
  BY DEF Port!Commit
<1>3. IsLayers(pDraft')
  BY <1>2, NoLayers
<1>4. /\ pSession = Port!None /\ pSave.want # Port!None
      /\ pDraft["clash"] = pSave.want /\ pDraft["verge"] = pSave.want /\ pDraft["runtime"] = pSave.want
  BY <1>2 DEF PortInv, DraftFits, SessionFits, Generating, Staging, Candidate
<1>5. IsLayers(pData') /\ pData'["clash"] = pSave.want /\ pData'["verge"] = pSave.want /\
        pData'["runtime"] = pSave.want
  <2>1. pData' = [l \in Port!Layers |-> Port!Latest(l)]
    BY DEF Port!Commit
  <2> QED BY <1>4, <2>1, TheLayers DEF IsLayers, Port!Latest
<1>6. SaveKept /\ pSave'.at = "settle" /\ pSave'.was = pSave.was /\ pSave'.outcome = "saved"
  BY DEF PortInv, PortTyped, Port!Commit, SaveKept, SaveTyped
<1>7. PortTyped' /\ LaunchFits'
  BY <1>1, <1>2, <1>3, <1>4, <1>5, <1>6 DEF PortInv, PortTyped, LaunchFits, Port!Quiet
<1>8. DraftFits'
  BY <1>1, <1>2, <1>3, <1>4, <1>5, <1>6 DEF PortInv, PortTyped, DraftFits
<1>9. SourcesFit'
  BY <1>1, <1>2, <1>3, <1>4, <1>5, <1>6 DEF PortInv, PortTyped, DraftFits, SourcesFit, SameSources
<1>10. SessionFits'
  BY <1>1, <1>2, <1>3, <1>4, <1>5, <1>6 DEF PortInv, PortTyped, DraftFits, SessionFits, NamedBy, Port!Either
<1>11. ServedFits'
  BY <1>1, <1>2, <1>3, <1>4, <1>5, <1>6 DEF PortInv, PortTyped, DraftFits, SessionFits, ServedFits, Serving,
     InStep, NamedBy, Port!Either
<1> QED BY <1>7, <1>8, <1>9, <1>10, <1>11 DEF PortInv

\* The change is given up.
LEMMA PortGiveUp == PortInv /\ Port!GiveUp => PortInv'
<1> SUFFICES ASSUME PortInv, Port!GiveUp PROVE PortInv'
  OBVIOUS
<1> USE DEF SaveKept, SaveTyped, Port!None, Before, Generating, Staging, Candidate, Remembered, Undoing, Ending,
   Untouched, SaveAt
<1>1. pSession' = pSession /\ pCore' = pCore /\ pProxy' = pProxy /\ pLaunch' = pLaunch
  BY DEF Port!GiveUp, Port!layers, Port!serving
<1>2. pSave.at = "giveUp" /\ pDraft' = [l \in Port!Layers |-> Port!None] /\ pFile' = pFile /\ pData' = pData
  BY DEF Port!GiveUp, Port!Discard
<1>3. IsLayers(pDraft')
  BY <1>2, NoLayers
<1>4. SaveKept /\ pSave'.at = "putBack" /\ pSave'.was = pSave.was /\ pSave'.outcome = pSave.outcome
  BY SaveGoes DEF PortInv, Port!GiveUp
<1>5. PortTyped' /\ LaunchFits'
  BY <1>1, <1>2, <1>3, <1>4 DEF PortInv, PortTyped, LaunchFits, Port!Quiet
<1>6. DraftFits'
  BY <1>1, <1>2, <1>3, <1>4 DEF PortInv, PortTyped, DraftFits
<1>7. SourcesFit'
  BY <1>1, <1>2, <1>3, <1>4 DEF PortInv, PortTyped, DraftFits, SourcesFit, SameSources
<1>8. SessionFits'
  BY <1>1, <1>2, <1>3, <1>4 DEF PortInv, PortTyped, DraftFits, SessionFits, NamedBy, Port!Either
<1>9. ServedFits'
  BY <1>1, <1>2, <1>3, <1>4 DEF PortInv, PortTyped, DraftFits, SessionFits, ServedFits, Serving, InStep, NamedBy,
     Port!Either
<1> QED BY <1>5, <1>6, <1>7, <1>8, <1>9 DEF PortInv

\* What was written is put back.
LEMMA PortPutBack == PortInv /\ Port!PutBack => PortInv'
<1> SUFFICES ASSUME PortInv, Port!PutBack PROVE PortInv'
  OBVIOUS
<1> USE DEF SaveKept, SaveTyped, Port!None, Before, Generating, Staging, Candidate, Remembered, Undoing, Ending,
   Untouched, SaveAt
<1>1. pData' = pData /\ pDraft' = pDraft /\ pCore' = pCore /\ pProxy' = pProxy /\ pLaunch' = pLaunch
  BY DEF Port!PutBack, Port!layers, Port!serving
<1>2. pSave.at = "putBack" /\ pSession' = pSave.borrowed
  BY DEF Port!PutBack
<1>3. SameSources(pSave.snap) /\ pSave.snap["clash"] # Port!None
  BY <1>2 DEF PortInv, PortTyped, SourcesFit, SameSources, Remembered
<1>4. PICK ok \in BOOLEAN : /\ Port!Restored(ok)
         /\ pSave' = [pSave EXCEPT !.at = IF pSave.was THEN "stopOld" ELSE "unborrow",
                                   !.outcome = IF ok THEN "failed" ELSE "broken"]
  BY DEF Port!PutBack
<1>5. /\ SaveKept /\ pSave'.at = (IF pSave.was THEN "stopOld" ELSE "unborrow") /\ pSave'.was = pSave.was
      /\ pSave'.outcome = (IF ok THEN "failed" ELSE "broken")
  BY <1>4 DEF PortInv, PortTyped, SaveKept, SaveTyped
<1>6. IsLayers(pFile') /\ pFile'["clash"] # Port!None /\ (ok => pFile' = pSave.snap)
  BY <1>3, <1>4, PutsBack DEF PortInv
<1>7. PortTyped' /\ LaunchFits'
  BY <1>1, <1>2, <1>3, <1>4, <1>5, <1>6 DEF PortInv, PortTyped, LaunchFits, Port!Quiet
<1>8. DraftFits'
  BY <1>1, <1>2, <1>3, <1>4, <1>5, <1>6 DEF PortInv, PortTyped, DraftFits
<1>9. SourcesFit'
  BY <1>1, <1>2, <1>3, <1>4, <1>5, <1>6 DEF PortInv, PortTyped, DraftFits, SourcesFit, SameSources
<1>10. SessionFits'
  BY <1>1, <1>2, <1>3, <1>4, <1>5, <1>6 DEF PortInv, PortTyped, DraftFits, SessionFits, NamedBy, Port!Either
<1>11. ServedFits'
  BY <1>1, <1>2, <1>3, <1>4, <1>5, <1>6 DEF PortInv, PortTyped, DraftFits, SessionFits, ServedFits, Serving,
     InStep, NamedBy, Port!Either
<1> QED BY <1>7, <1>8, <1>9, <1>10, <1>11 DEF PortInv

\* The core is stopped to have it as it was.
LEMMA PortStopOld == PortInv /\ Port!StopOld => PortInv'
<1> SUFFICES ASSUME PortInv, Port!StopOld PROVE PortInv'
  OBVIOUS
<1> USE DEF SaveKept, SaveTyped, Port!None, Before, Generating, Staging, Candidate, Remembered, Undoing, Ending,
   Untouched, SaveAt
<1>1. pFile' = pFile /\ pData' = pData /\ pDraft' = pDraft /\ pSession' = pSession /\ pLaunch' = pLaunch
  BY DEF Port!StopOld, Port!layers, Port!serving
<1>2. pSave.at = "stopOld"
  BY DEF Port!StopOld
<1>3. /\ SaveKept /\ pSave'.was = pSave.was
      /\ \/ pSave'.at = "startOld" /\ pCore' = Port!None /\ pSave'.outcome = pSave.outcome
         \/ pSave'.at = "unborrow" /\ pSave'.outcome = "broken" /\ pCore' = pCore
  BY SaveGoes, SaveEnds DEF PortInv, Port!StopOld, Port!Stopped, Port!serving
<1>4. PortTyped' /\ LaunchFits'
  BY <1>1, <1>2, <1>3 DEF PortInv, PortTyped, LaunchFits, Port!Quiet
<1>5. DraftFits'
  BY <1>1, <1>2, <1>3 DEF PortInv, PortTyped, DraftFits
<1>6. SourcesFit'
  BY <1>1, <1>2, <1>3 DEF PortInv, PortTyped, DraftFits, SourcesFit, SameSources
<1>7. SessionFits'
  BY <1>1, <1>2, <1>3 DEF PortInv, PortTyped, DraftFits, SessionFits, NamedBy, Port!Either
<1>8. ServedFits'
  BY <1>1, <1>2, <1>3 DEF PortInv, PortTyped, DraftFits, SessionFits, ServedFits, Serving, InStep, NamedBy,
     Port!Either
<1> QED BY <1>4, <1>5, <1>6, <1>7, <1>8 DEF PortInv

\* The core is started as it was.
LEMMA PortStartOld == PortInv /\ Port!StartOld => PortInv'
<1> SUFFICES ASSUME PortInv, Port!StartOld PROVE PortInv'
  OBVIOUS
<1> USE DEF SaveKept, SaveTyped, Port!None, Before, Generating, Staging, Candidate, Remembered, Undoing, Ending,
   Untouched, SaveAt
<1>1. pSession' = pSession /\ pLaunch' = pLaunch
  BY DEF Port!StartOld, Port!layers, Port!serving
<1>2. pSave.at = "startOld" /\ pDraft = [l \in Port!Layers |-> Port!None] /\ pCore = Port!None
  BY DEF Port!StartOld, PortInv, DraftFits, ServedFits, Undoing
<1>3. SaveKept /\ pSave'.at = "unborrow" /\ pSave'.was = pSave.was /\ pSave'.outcome = pSave.outcome
  BY SaveGoes DEF PortInv, Port!StartOld
<1>4. /\ IsLayers(pFile') /\ pFile'["clash"] = pFile["clash"] /\ pFile'["verge"] = pFile["verge"] /\
           pData' = pData /\ pDraft' = pDraft
      /\ \/ pCore' = Port!None
         \/ pCore' = pData["runtime"] /\ pCore' # Port!None /\ pProxy' = Port!Either(pSession,
              Port!Either(pData["verge"], pData["clash"]))
  BY <1>2, ServesSettled DEF PortInv, PortTyped, Port!StartOld, Port!layers, Port!serving
<1>5. PortTyped' /\ LaunchFits'
  BY <1>1, <1>2, <1>3, <1>4 DEF PortInv, PortTyped, LaunchFits, Port!Quiet
<1>6. DraftFits'
  BY <1>1, <1>2, <1>3, <1>4 DEF PortInv, PortTyped, DraftFits
<1>7. SourcesFit'
  BY <1>1, <1>2, <1>3, <1>4 DEF PortInv, PortTyped, DraftFits, SourcesFit, SameSources
<1>8. SessionFits'
  BY <1>1, <1>2, <1>3, <1>4 DEF PortInv, PortTyped, DraftFits, SessionFits, NamedBy, Port!Either
<1>9. ServedFits'
  BY <1>1, <1>2, <1>3, <1>4 DEF PortInv, PortTyped, DraftFits, SessionFits, ServedFits, Serving, InStep, NamedBy,
     Port!Either
<1> QED BY <1>5, <1>6, <1>7, <1>8, <1>9 DEF PortInv

\* The borrowed port is had back.
LEMMA PortUnborrow == PortInv /\ Port!Unborrow => PortInv'
<1> SUFFICES ASSUME PortInv, Port!Unborrow PROVE PortInv'
  OBVIOUS
<1> USE DEF SaveKept, SaveTyped, Port!None, Before, Generating, Staging, Candidate, Remembered, Undoing, Ending,
   Untouched, SaveAt
<1>1. pFile' = pFile /\ pData' = pData /\ pDraft' = pDraft /\ pCore' = pCore /\ pProxy' = pProxy /\ pLaunch' = pLaunch
  BY DEF Port!Unborrow, Port!layers, Port!serving
<1>2. pSave.at = "unborrow" /\ pSession' = pSave.borrowed
  BY DEF Port!Unborrow
<1>3. SaveKept /\ pSave'.at = "settle" /\ pSave'.was = pSave.was /\ pSave'.outcome = pSave.outcome
  BY SaveGoes DEF PortInv, Port!Unborrow
<1>4. PortTyped' /\ LaunchFits'
  BY <1>1, <1>2, <1>3 DEF PortInv, PortTyped, LaunchFits, Port!Quiet
<1>5. DraftFits'
  BY <1>1, <1>2, <1>3 DEF PortInv, PortTyped, DraftFits
<1>6. SourcesFit'
  BY <1>1, <1>2, <1>3 DEF PortInv, PortTyped, DraftFits, SourcesFit, SameSources
<1>7. SessionFits'
  BY <1>1, <1>2, <1>3 DEF PortInv, PortTyped, DraftFits, SessionFits, NamedBy, Port!Either
<1>8. ServedFits'
  BY <1>1, <1>2, <1>3 DEF PortInv, PortTyped, DraftFits, SessionFits, ServedFits, Serving, InStep, NamedBy,
     Port!Either
<1> QED BY <1>4, <1>5, <1>6, <1>7, <1>8 DEF PortInv

\* It is seen whether the core runs.
LEMMA PortSettleReads == PortInv /\ Port!SettleReads => PortInv'
<1> SUFFICES ASSUME PortInv, Port!SettleReads PROVE PortInv'
  OBVIOUS
<1> USE DEF SaveKept, SaveTyped, Port!None, Before, Generating, Staging, Candidate, Remembered, Undoing, Ending,
   Untouched, SaveAt
<1>1. pFile' = pFile /\ pData' = pData /\ pDraft' = pDraft /\ pSession' = pSession /\ pCore' = pCore /\
        pProxy' = pProxy /\ pLaunch' = pLaunch
  BY DEF Port!SettleReads, Port!layers, Port!serving
<1>2. pSave.at = "settle"
  BY DEF Port!SettleReads
<1>3. SaveKept /\ pSave'.at = "settling" /\ pSave'.was = pSave.was /\ pSave'.outcome = pSave.outcome
  BY DEF PortInv, PortTyped, Port!SettleReads, SaveKept, SaveTyped
<1>4. PortTyped' /\ LaunchFits'
  BY <1>1, <1>2, <1>3 DEF PortInv, PortTyped, LaunchFits, Port!Quiet
<1>5. DraftFits'
  BY <1>1, <1>2, <1>3 DEF PortInv, PortTyped, DraftFits
<1>6. SourcesFit'
  BY <1>1, <1>2, <1>3 DEF PortInv, PortTyped, DraftFits, SourcesFit, SameSources
<1>7. SessionFits'
  BY <1>1, <1>2, <1>3 DEF PortInv, PortTyped, DraftFits, SessionFits, NamedBy, Port!Either
<1>8. ServedFits'
  BY <1>1, <1>2, <1>3 DEF PortInv, PortTyped, DraftFits, SessionFits, ServedFits, Serving, InStep, NamedBy,
     Port!Either
<1> QED BY <1>4, <1>5, <1>6, <1>7, <1>8 DEF PortInv

\* PAC is opened as it was seen.
LEMMA PortSettleOpens == PortInv /\ Port!SettleOpens => PortInv'
<1> SUFFICES ASSUME PortInv, Port!SettleOpens PROVE PortInv'
  OBVIOUS
<1> USE DEF SaveKept, SaveTyped, Port!None, Before, Generating, Staging, Candidate, Remembered, Undoing, Ending,
   Untouched, SaveAt
<1>1. pFile' = pFile /\ pData' = pData /\ pDraft' = pDraft /\ pSession' = pSession /\ pCore' = pCore /\
        pProxy' = pProxy /\ pLaunch' = pLaunch
  BY DEF Port!SettleOpens, Port!layers, Port!serving
<1>2. pSave.at = "settling"
  BY DEF Port!SettleOpens
<1>3. SaveKept /\ pSave'.at = "drop" /\ pSave'.was = pSave.was /\ pSave'.outcome = pSave.outcome
  BY SaveGoes DEF PortInv, Port!SettleOpens
<1>4. PortTyped' /\ LaunchFits'
  BY <1>1, <1>2, <1>3 DEF PortInv, PortTyped, LaunchFits, Port!Quiet
<1>5. DraftFits'
  BY <1>1, <1>2, <1>3 DEF PortInv, PortTyped, DraftFits
<1>6. SourcesFit'
  BY <1>1, <1>2, <1>3 DEF PortInv, PortTyped, DraftFits, SourcesFit, SameSources
<1>7. SessionFits'
  BY <1>1, <1>2, <1>3 DEF PortInv, PortTyped, DraftFits, SessionFits, NamedBy, Port!Either
<1>8. ServedFits'
  BY <1>1, <1>2, <1>3 DEF PortInv, PortTyped, DraftFits, SessionFits, ServedFits, Serving, InStep, NamedBy,
     Port!Either
<1> QED BY <1>4, <1>5, <1>6, <1>7, <1>8 DEF PortInv

\* The transaction ends.
LEMMA PortDropTransaction == PortInv /\ Port!DropTransaction => PortInv'
<1> SUFFICES ASSUME PortInv, Port!DropTransaction PROVE PortInv'
  OBVIOUS
<1> USE DEF SaveKept, SaveTyped, Port!None, Before, Generating, Staging, Candidate, Remembered, Undoing, Ending,
   Untouched, SaveAt
<1>1. pSession' = pSession /\ pCore' = pCore /\ pProxy' = pProxy /\ pLaunch' = pLaunch
  BY DEF Port!DropTransaction, Port!layers, Port!serving
<1>2. pSave.at = "drop" /\ pDraft' = [l \in Port!Layers |-> Port!None] /\ pFile' = pFile /\ pData' = pData
  BY DEF Port!DropTransaction, Port!Discard
<1>3. IsLayers(pDraft')
  BY <1>2, NoLayers
<1>4. SaveTyped' /\ pSave'.at = "idle" /\ pSave'.outcome = pSave.outcome /\ IsLayers(pSave'.snap)
  <2>1. pSave' = [Port!NoSave EXCEPT !.outcome = pSave.outcome]
    BY DEF Port!DropTransaction
  <2> QED BY <2>1, NoLayers DEF Port!NoSave, SaveTyped
<1>5. PortTyped' /\ LaunchFits'
  BY <1>1, <1>2, <1>3, <1>4 DEF PortInv, PortTyped, LaunchFits, Port!Quiet
<1>6. DraftFits'
  BY <1>1, <1>2, <1>3, <1>4 DEF PortInv, PortTyped, DraftFits
<1>7. SourcesFit'
  BY <1>1, <1>2, <1>3, <1>4 DEF PortInv, PortTyped, DraftFits, SourcesFit, SameSources
<1>8. SessionFits'
  BY <1>1, <1>2, <1>3, <1>4 DEF PortInv, PortTyped, DraftFits, SessionFits, NamedBy, Port!Either
<1>9. ServedFits'
  BY <1>1, <1>2, <1>3, <1>4 DEF PortInv, PortTyped, DraftFits, SessionFits, ServedFits, Serving, InStep, NamedBy,
     Port!Either
<1> QED BY <1>5, <1>6, <1>7, <1>8, <1>9 DEF PortInv

\* The core ends by itself.
LEMMA PortCoreDies == PortInv /\ Port!CoreDies => PortInv'
<1> SUFFICES ASSUME PortInv, Port!CoreDies PROVE PortInv'
  OBVIOUS
<1> USE DEF SaveKept, SaveTyped, Port!None, Before, Generating, Staging, Candidate, Remembered, Undoing, Ending,
   Untouched, SaveAt
<1>1. pFile' = pFile /\ pData' = pData /\ pDraft' = pDraft /\ pSession' = pSession /\ pSave' = pSave /\
        pLaunch' = pLaunch
  BY DEF Port!CoreDies, Port!layers, Port!serving
<1>2. pCore' = Port!None
  BY DEF Port!CoreDies, Port!Stopped
<1>3. PortTyped' /\ LaunchFits'
  BY <1>1, <1>2 DEF PortInv, PortTyped, LaunchFits, Port!Quiet
<1>4. DraftFits'
  BY <1>1, <1>2 DEF PortInv, PortTyped, DraftFits
<1>5. SourcesFit'
  BY <1>1, <1>2 DEF PortInv, PortTyped, DraftFits, SourcesFit, SameSources
<1>6. SessionFits'
  BY <1>1, <1>2 DEF PortInv, PortTyped, DraftFits, SessionFits, NamedBy, Port!Either
<1>7. ServedFits'
  BY <1>1, <1>2 DEF PortInv, PortTyped, DraftFits, SessionFits, ServedFits, Serving, InStep, NamedBy, Port!Either
<1> QED BY <1>3, <1>4, <1>5, <1>6, <1>7 DEF PortInv

\* Another program takes a port, or leaves it.
LEMMA PortForeign == PortInv /\ Port!Foreign => PortInv'
<1> SUFFICES ASSUME PortInv, Port!Foreign PROVE PortInv'
  OBVIOUS
<1> USE DEF SaveKept, SaveTyped, Port!None, Before, Generating, Staging, Candidate, Remembered, Undoing, Ending,
   Untouched, SaveAt
<1>1. pFile' = pFile /\ pData' = pData /\ pDraft' = pDraft /\ pSession' = pSession /\ pCore' = pCore /\
        pProxy' = pProxy /\ pSave' = pSave /\ pLaunch' = pLaunch
  BY DEF Port!Foreign, Port!layers, Port!serving
<1>2. PortTyped' /\ LaunchFits'
  BY <1>1 DEF PortInv, PortTyped, LaunchFits, Port!Quiet
<1>3. DraftFits'
  BY <1>1 DEF PortInv, PortTyped, DraftFits
<1>4. SourcesFit'
  BY <1>1 DEF PortInv, PortTyped, DraftFits, SourcesFit, SameSources
<1>5. SessionFits'
  BY <1>1 DEF PortInv, PortTyped, DraftFits, SessionFits, NamedBy, Port!Either
<1>6. ServedFits'
  BY <1>1 DEF PortInv, PortTyped, DraftFits, SessionFits, ServedFits, Serving, InStep, NamedBy, Port!Either
<1> QED BY <1>2, <1>3, <1>4, <1>5, <1>6 DEF PortInv

\* The application ends and is started again.
LEMMA PortCrash == PortInv /\ Port!Crash => PortInv'
<1> SUFFICES ASSUME PortInv, Port!Crash PROVE PortInv'
  OBVIOUS
<1> USE DEF SaveKept, SaveTyped, Port!None, Before, Generating, Staging, Candidate, Remembered, Undoing, Ending,
   Untouched, SaveAt
<1>1. pFile' = pFile
  BY DEF Port!Crash, Port!layers, Port!serving
<1>2. pCore' = Port!None /\ pSession' = Port!None /\ pDraft' = [l \in Port!Layers |-> Port!None] /\
        pSave' = Port!NoSave
      /\ pLaunch' = [at |-> "look", retries |-> 0, next |-> Port!None]
  BY DEF Port!Crash, Port!Stopped
<1>3. IsLayers(pDraft')
  BY <1>2, NoLayers
<1>4. SaveTyped' /\ pSave'.at = "idle" /\ pSave'.outcome = "none" /\ IsLayers(pSave'.snap)
  BY <1>2, NoLayers DEF Port!NoSave, SaveTyped
<1>5. IsLayers(pData') /\ pData'["runtime"] = Port!None /\ pData'["clash"] = pFile["clash"] /\
        pData'["verge"] = pFile["verge"]
  <2>1. SetsLayer(pFile, "runtime", Port!None, pData')
    BY DEF Port!Crash, SetsLayer
  <2> QED BY <2>1, RuntimeSet DEF PortInv, PortTyped
<1>6. pLaunch' = [at |-> pLaunch'.at, retries |-> pLaunch'.retries, next |-> pLaunch'.next]
  BY <1>2
<1>7. PortTyped' /\ LaunchFits'
  BY <1>1, <1>2, <1>3, <1>4, <1>5, <1>6 DEF PortInv, PortTyped, LaunchFits, Port!Quiet
<1>8. DraftFits'
  BY <1>1, <1>2, <1>3, <1>4, <1>5, <1>6 DEF PortInv, PortTyped, DraftFits
<1>9. SourcesFit'
  BY <1>1, <1>2, <1>3, <1>4, <1>5, <1>6 DEF PortInv, PortTyped, DraftFits, SourcesFit, SameSources
<1>10. SessionFits'
  BY <1>1, <1>2, <1>3, <1>4, <1>5, <1>6 DEF PortInv, PortTyped, DraftFits, SessionFits, NamedBy, Port!Either
<1>11. ServedFits'
  BY <1>1, <1>2, <1>3, <1>4, <1>5, <1>6 DEF PortInv, PortTyped, DraftFits, SessionFits, ServedFits, Serving,
     InStep, NamedBy, Port!Either
<1> QED BY <1>7, <1>8, <1>9, <1>10, <1>11 DEF PortInv

\* Each step keeps it.
LEMMA PortNext == PortInv /\ [Port!Next]_(Port!vars) => PortInv'
<1> SUFFICES ASSUME PortInv, [Port!Next]_(Port!vars) PROVE PortInv'
  OBVIOUS
<1>1. CASE UNCHANGED Port!vars
  <2>1. UNCHANGED <<pFile, pData, pDraft, pSession, pCore, pProxy, pSave, pLaunch>>
    BY <1>1 DEF Port!vars, Port!layers, Port!serving
  <2> QED BY <2>1 DEF PortInv, PortTyped, LaunchFits, Port!Quiet, DraftFits, SourcesFit, SameSources, SessionFits,
     NamedBy, ServedFits, Serving, InStep
<1>2. CASE Port!Next
  BY <1>2, PortLook, PortBorrow, PortMaterialize, PortStartCore, PortUserStarts, PortBeginSave, PortStage,
     PortClosePac, PortGenerateCandidate, PortProbeCandidate, PortValidateCandidate, PortWriteCandidate,
     PortWriteBack, PortStopForSave, PortStartForSave, PortPersistClash, PortPersistVerge, PortCommit, PortGiveUp,
     PortPutBack, PortStopOld, PortStartOld, PortUnborrow, PortSettleReads, PortSettleOpens, PortDropTransaction,
     PortCoreDies, PortForeign, PortCrash DEF Port!Next
<1> QED BY <1>1, <1>2

\* What is settled agrees.
LEMMA PortSettled == PortInv => Port!SettledPorts
<1> SUFFICES ASSUME PortInv, pSave.at = "idle", pCore # Port!None, pSave.outcome # "broken",
      Port!Agreed PROVE pCore = Port!Desired /\ pProxy = pCore
  BY DEF Port!SettledPorts
<1>1. pDraft["clash"] = Port!None /\ pDraft["verge"] = Port!None /\ pDraft["runtime"] = Port!None
  BY NoLayers, TheLayers DEF PortInv, DraftFits
<1>2. SameSources(pFile) /\ Serving
  BY DEF PortInv, SourcesFit, ServedFits, Untouched, Before
<1>3. pData["verge"] \in {Port!None, pData["clash"]}
  BY <1>2 DEF Port!Agreed, SameSources
<1>4. pCore = pData["runtime"] /\ pProxy = pCore
  BY <1>2, <1>3 DEF Serving, InStep
<1>5. pData["runtime"] \in {Port!None, NamedBy(pSession)}
  BY DEF PortInv, SessionFits, Before
<1> QED BY <1>1, <1>3, <1>4, <1>5 DEF Port!Desired, Port!Latest, NamedBy, Port!Either

\* With nothing under way, a core that runs serves the port that the system proxy is set to and that the
\* application goes on naming, whatever change of the port, startup or crash came before.
THEOREM PortHolds == Port!Spec => []Port!SettledPorts
<1>1. Port!Init => PortInv
  BY PortStarts
<1>2. PortInv /\ [Port!Next]_(Port!vars) => PortInv'
  BY PortNext
<1>3. PortInv => Port!SettledPorts
  BY PortSettled
<1> QED BY <1>1, <1>2, <1>3, PTL DEF Port!Spec

-----------------------------------------------------------------------------
(* The probe of a listener.                                                 *)

VARIABLES bPlatform, bScope, bForeign, bLingering, bClaims, bNext, bOutcome
probeVars == <<bPlatform, bScope, bForeign, bLingering, bClaims, bNext, bOutcome>>
Probe == INSTANCE ListenerProbe WITH platform <- bPlatform, scope <- bScope,
    foreign <- bForeign, lingering <- bLingering, claims <- bClaims, next <- bNext,
    outcome <- bOutcome, Platforms <- ProbedPlatforms, Ports <- ListenerPorts,
    Candidates <- AskedPorts

ProbeGiven == ProbedPlatforms \subseteq {"linux", "macos", "windows"}
ASSUME ProbeAssumption == ProbeGiven

\* What a claim may be of, the ports that are asked for included.
PortsNamed == ListenerPorts \cup {ports[i] : ports \in AskedPorts, i \in 1..2}
Claimable == {Probe!SocketOf(a, p, t) : a \in Probe!Addresses, p \in PortsNamed, t \in {"tcp", "udp"}}
\* Nothing that another program holds takes what the claim binds, but for link-local addresses on macOS.
IsFree(c) == \A f \in bForeign : Probe!Overlap(c, f) => bPlatform = "macos" /\ f.addr = "linklocal"
ProbeTyped ==
  /\ bPlatform \in {"linux", "macos", "windows"} /\ bScope \in {"any", "loop", "lan"}
  /\ bForeign \subseteq Probe!Sockets /\ bLingering \subseteq {s \in Probe!Sockets : s.addr # "any"}
  /\ bClaims \in Seq({s \in Claimable : s.addr = bScope}) /\ bNext \in Nat \ {0}
\* Every claim that has had its turn was free; one that conflicts overlaps a socket of another program.
HadTurn == \A i \in 1..Len(bClaims) : i < bNext => IsFree(bClaims[i])
ClaimsFit ==
  /\ HadTurn
  /\ bOutcome = "none" => bNext = 1
  /\ bOutcome = "available" => bNext > Len(bClaims)
  /\ bOutcome = "conflict" /\ bClaims # << >> => \E f \in bForeign : Probe!Overlap(bClaims[bNext], f)
ProbeInv == ProbeTyped /\ ClaimsFit

\* What a socket is.
LEMMA SocketIs ==
  ASSUME NEW c \in Claimable
  PROVE  /\ c.addr \in {"any", "loop", "lan", "linklocal"} /\ c.tr \in {"tcp", "udp"}
         /\ c = Probe!SocketOf(c.addr, c.port, c.tr)
<1>1. PICK a \in Probe!Addresses, p \in PortsNamed, t \in {"tcp", "udp"} : c = Probe!SocketOf(a, p, t)
  BY DEF Claimable
<1> QED BY <1>1 DEF Probe!SocketOf, Probe!Addresses
\* What is made is one, with what it is made of.
LEMMA SocketMade ==
  ASSUME NEW a \in Probe!Addresses, NEW p, NEW t \in {"tcp", "udp"}
  PROVE  /\ p \in ListenerPorts => Probe!SocketOf(a, p, t) \in Probe!Sockets
         /\ p \in PortsNamed => Probe!SocketOf(a, p, t) \in Claimable
         /\ Probe!SocketOf(a, p, t).addr = a /\ Probe!SocketOf(a, p, t).port = p /\ Probe!SocketOf(a, p, t).tr = t
BY DEF Probe!Sockets, Claimable, Probe!SocketOf
\* Whatever another program holds is one.
LEMMA ForeignAre == ASSUME NEW c \in Probe!Sockets PROVE c \in Claimable
BY DEF Probe!Sockets, Claimable, PortsNamed

\* The guards of a claim, on macOS.
Beside(c, a) == [c EXCEPT !.addr = a]
\* The same port and transport of another address.
LEMMA BesideIs ==
  ASSUME NEW c \in Claimable, NEW a
  PROVE  Beside(c, a).addr = a /\ Beside(c, a).port = c.port /\ Beside(c, a).tr = c.tr
BY SocketIs DEF Beside, Probe!SocketOf
\* The guards of a claim are few.
LEMMA GuardsAre ==
  ASSUME NEW c \in Claimable
  PROVE  /\ bPlatform # "macos" \/ c.tr = "udp" => Probe!Guards(c) = {}
         /\ bPlatform = "macos" /\ c.tr = "tcp" /\ c.addr = "any" =>
              Probe!Guards(c) = {Beside(c, "loop"), Beside(c, "lan")}
         /\ bPlatform = "macos" /\ c.tr = "tcp" /\ c.addr # "any" => Probe!Guards(c) = {Beside(c, "any")}
<1>1. c.tr \in {"tcp", "udp"}
  BY SocketIs
<1> QED BY <1>1 DEF Probe!Guards, Beside
\* On Windows a wildcard takes what a concrete claim would bind.
LEMMA WildcardIs ==
  ASSUME NEW c \in Claimable
  PROVE  Probe!WildcardOnWindows(c) = (/\ bPlatform = "windows" /\ c.tr = "tcp" /\ c.addr # "any"
                                       /\ \E f \in bForeign : f.addr = "any" /\ f.port = c.port /\ f.tr = c.tr)
<1>1. [c EXCEPT !.addr = "any"].addr = "any" /\ [c EXCEPT !.addr = "any"].port = c.port /\
        [c EXCEPT !.addr = "any"].tr = c.tr
  BY BesideIs DEF Beside
<1> QED BY <1>1 DEF Probe!WildcardOnWindows, Probe!Live

\* What the turn of a claim decides.
Passed(c) == ~((Probe!Conflicting(c) \/ (~Probe!StaleGuard(c) /\
    (Probe!Refused(c) \/ Probe!WildcardOnWindows(c)))) /\ ~Probe!NothingIsServing(c))

\* A claim that passes is free.
LEMMA PassedIsFree == ASSUME ProbeTyped, NEW c \in Claimable, Passed(c) PROVE IsFree(c)
<1> SUFFICES ASSUME NEW f \in bForeign, Probe!Overlap(c, f) PROVE bPlatform = "macos" /\ f.addr = "linklocal"
  BY DEF IsFree
<1>1. /\ f.addr \in {"any", "loop", "lan", "linklocal"} /\ c.addr \in {"any", "loop", "lan", "linklocal"}
      /\ c.tr \in {"tcp", "udp"} /\ f.port = c.port /\ f.tr = c.tr /\
           (f.addr = c.addr \/ f.addr = "any" \/ c.addr = "any")
  BY SocketIs, ForeignAre DEF ProbeTyped, Probe!Overlap
<1>2. Probe!Overlap(f, c) /\ ~Probe!NothingIsServing(c)
  BY <1>1 DEF Probe!Overlap, Probe!NothingIsServing, Probe!Answers
<1>3. ~Probe!Conflicting(c) /\ (Probe!StaleGuard(c) \/ (~Probe!Refused(c) /\ ~Probe!WildcardOnWindows(c)))
  BY <1>2 DEF Passed
<1>4. ~(bPlatform # "macos" \/ c.tr = "udp")
  <2> SUFFICES ASSUME bPlatform # "macos" \/ c.tr = "udp" PROVE FALSE
    OBVIOUS
  <2>1. ~Probe!StaleGuard(c)
    BY GuardsAre DEF Probe!StaleGuard
  <2>2. ~Probe!Refused(c) /\ ~Probe!WildcardOnWindows(c)
    BY <1>3, <2>1
  <2>3. bPlatform = "windows" /\ c.tr = "tcp"
    BY <1>1, <1>2, <2>2 DEF Probe!Refused, ProbeTyped
  <2>4. ~Probe!Live(c) /\ c.addr # "any"
    BY <1>2, <2>2, <2>3 DEF Probe!Refused
  <2>5. f.addr # "any"
    BY <1>1, <2>2, <2>3, <2>4, WildcardIs
  <2> QED BY <1>1, <2>4, <2>5 DEF Probe!Live
<1>5. c.tr = "tcp" /\ bPlatform = "macos"
  BY <1>1, <1>4
<1>6. CASE c.addr # "any"
  <2>1. PICK g : g = Beside(c, "any") /\ Probe!Guards(c) = {g} /\ g.addr = "any" /\ g.port = c.port /\ g.tr = c.tr
    BY <1>5, <1>6, GuardsAre, BesideIs
  <2>2. ~Probe!Refused(g) /\ ~Probe!StaleGuard(c)
    BY <1>3, <2>1 DEF Probe!Conflicting, Probe!StaleGuard, Probe!NothingIsServing
  <2>3. ~Probe!Refused(c)
    BY <1>3, <2>2
  <2>4. ~Probe!Live(g) /\ ~Probe!Live(c)
    BY <1>5, <2>1, <2>2, <2>3 DEF Probe!Refused
  <2> QED BY <1>1, <1>6, <2>1, <2>4 DEF Probe!Live
<1>7. CASE c.addr = "any"
  <2>1. PICK g, h : /\ Probe!Guards(c) = {g, h} /\ g.addr = "loop" /\ g.port = c.port /\ g.tr = c.tr
                    /\ h.addr = "lan" /\ h.port = c.port /\ h.tr = c.tr
    BY <1>5, <1>7, GuardsAre, BesideIs
  <2>2. f.addr # "loop"
    <3>1. ASSUME f.addr = "loop" PROVE FALSE
      <4>1. Probe!Live(g) /\ Probe!Overlap(f, g)
        BY <1>1, <2>1, <3>1 DEF Probe!Live, Probe!Overlap
      <4>2. Probe!Refused(g) /\ ~Probe!NothingIsServing(g)
        BY <1>5, <2>1, <4>1 DEF Probe!Refused, Probe!NothingIsServing, Probe!Answers
      <4> QED BY <1>3, <2>1, <4>2 DEF Probe!Conflicting
    <3> QED BY <3>1
  <2>3. f.addr # "lan"
    <3>1. ASSUME f.addr = "lan" PROVE FALSE
      <4>1. Probe!Live(h) /\ Probe!Overlap(f, h)
        BY <1>1, <2>1, <3>1 DEF Probe!Live, Probe!Overlap
      <4>2. Probe!Refused(h) /\ ~Probe!NothingIsServing(h)
        BY <1>5, <2>1, <4>1 DEF Probe!Refused, Probe!NothingIsServing, Probe!Answers
      <4> QED BY <1>3, <2>1, <4>2 DEF Probe!Conflicting
    <3> QED BY <3>1
  <2>4. f.addr # "any"
    <3>1. ASSUME f.addr = "any" PROVE FALSE
      <4>1. Probe!Overlap(f, g) /\ Probe!Overlap(f, h) /\ Probe!Live(c)
        BY <1>1, <1>7, <2>1, <3>1 DEF Probe!Live, Probe!Overlap
      <4>2. ~Probe!NothingIsServing(g) /\ ~Probe!NothingIsServing(h)
        BY <4>1 DEF Probe!NothingIsServing, Probe!Answers
      <4>3. ~Probe!StaleGuard(c) /\ Probe!Refused(c)
        BY <1>5, <2>1, <4>1, <4>2 DEF Probe!StaleGuard, Probe!Refused
      <4> QED BY <1>3, <4>3
    <3> QED BY <3>1
  <2> QED BY <1>1, <1>5, <2>2, <2>3, <2>4
<1> QED BY <1>6, <1>7

\* A claim that does not pass overlaps a socket of another program.
LEMMA ConflictIsLive ==
  ASSUME ProbeTyped, NEW c \in Claimable, ~Passed(c)
  PROVE  \E f \in bForeign : Probe!Overlap(c, f)
<1>1. /\ c.addr \in {"any", "loop", "lan", "linklocal"} /\ c.tr \in {"tcp", "udp"}
      /\ ~Probe!NothingIsServing(c) /\ (Probe!Conflicting(c) \/ Probe!Refused(c) \/ Probe!WildcardOnWindows(c))
  BY SocketIs DEF Passed
<1>2. SUFFICES \E f \in bForeign : Probe!Overlap(f, c)
  BY DEF Probe!Overlap
<1>3. Probe!Live(c) => \E f \in bForeign : Probe!Overlap(f, c)
  BY DEF Probe!Live, Probe!Overlap
<1>4. CASE c.tr = "tcp" /\ c.addr # "any"
  BY <1>1, <1>4 DEF Probe!NothingIsServing, Probe!Answers
<1>5. CASE c.tr = "udp"
  <2>1. ~Probe!Conflicting(c) /\ ~Probe!WildcardOnWindows(c)
    BY <1>5, GuardsAre DEF Probe!Conflicting, Probe!WildcardOnWindows
  <2> QED BY <1>1, <1>5, <2>1 DEF Probe!Refused
<1>6. CASE c.tr = "tcp" /\ c.addr = "any"
  <2>1. CASE bPlatform # "macos"
    <3>1. ~Probe!Conflicting(c) /\ ~Probe!WildcardOnWindows(c)
      BY <1>6, <2>1, GuardsAre DEF Probe!Conflicting, Probe!WildcardOnWindows
    <3>2. Probe!Refused(c)
      BY <1>1, <3>1
    <3> QED BY <1>3, <1>6, <2>1, <3>2 DEF Probe!Refused, ProbeTyped
  <2>2. CASE bPlatform = "macos"
    <3>1. ~Probe!Lingers(c) /\ ~Probe!WildcardOnWindows(c)
      BY <1>6 DEF Probe!Lingers, ProbeTyped, Probe!WildcardOnWindows
    <3>2. Probe!Refused(c) => Probe!Live(c)
      BY <1>6, <2>2, <3>1 DEF Probe!Refused
    <3>3. CASE Probe!Conflicting(c)
      <4>1. PICK g \in Probe!Guards(c) : Probe!Refused(g) /\ ~Probe!NothingIsServing(g)
        BY <3>3 DEF Probe!Conflicting
      <4>2. g.addr \in {"loop", "lan"} /\ g.port = c.port /\ g.tr = c.tr
        BY <1>6, <2>2, GuardsAre, BesideIs
      <4>3. PICK f \in bForeign : Probe!Overlap(f, g)
        BY <1>6, <4>1, <4>2 DEF Probe!NothingIsServing, Probe!Answers
      <4>4. Probe!Overlap(f, c)
        BY <1>6, <4>2, <4>3 DEF Probe!Overlap
      <4> QED BY <4>4
    <3> QED BY <1>1, <1>3, <3>1, <3>2, <3>3
  <2> QED BY <2>1, <2>2
<1> QED BY <1>1, <1>4, <1>5, <1>6

\* At first nothing is claimed.
LEMMA ProbeStarts == ProbeGiven /\ Probe!Init => ProbeInv
<1> SUFFICES ASSUME ProbeGiven, Probe!Init PROVE ProbeInv
  OBVIOUS
<1>1. ProbeTyped
  BY DEF Probe!Init, ProbeGiven, ProbeTyped
<1>2. ClaimsFit
  BY DEF Probe!Init, ClaimsFit, HadTurn
<1> QED BY <1>1, <1>2 DEF ProbeInv

\* The claims that are left are claims of the scope.
LEMMA RetainedClaims ==
  ASSUME NEW T, NEW s \in Seq(T), Len(s) = 3, NEW current
  PROVE  Probe!Retained(s, current) \in Seq(T)
<1>1. s[1] \in T /\ s[2] \in T /\ s[3] \in T
  OBVIOUS
<1>2. \A c \in T : Probe!Unheld(c, current) \in Seq(T)
  BY DEF Probe!Unheld
<1>3. Probe!Unheld(s[1], current) \in Seq(T) /\ Probe!Unheld(s[2], current) \in Seq(T) /\
        Probe!Unheld(s[3], current) \in Seq(T)
  BY <1>1, <1>2
<1> QED BY <1>3 DEF Probe!Retained
ScopeOf(a) == {s \in Claimable : s.addr = a}
\* A configuration claims three sockets of its scope.
LEMMA ClaimsAre ==
  ASSUME NEW a \in Probe!Addresses, NEW ports, ports[1] \in PortsNamed, ports[2] \in PortsNamed
  PROVE  Probe!ClaimsOf(ports, a) \in Seq(ScopeOf(a)) /\ Len(Probe!ClaimsOf(ports, a)) = 3
<1>1. PICK x, y, z : x = Probe!SocketOf(a, ports[1], "tcp") /\ y = Probe!SocketOf(a, ports[1], "udp") /\
             z = Probe!SocketOf(a, ports[2], "tcp")
  OBVIOUS
<1>2. x \in ScopeOf(a) /\ y \in ScopeOf(a) /\ z \in ScopeOf(a)
  BY <1>1, SocketMade DEF ScopeOf
<1>3. Probe!ClaimsOf(ports, a) = <<x, y, z>>
  BY <1>1 DEF Probe!ClaimsOf
<1> QED BY <1>2, <1>3
\* Those that are left are some of them.
LEMMA AskedAre ==
  ASSUME NEW a \in Probe!Addresses, NEW ports, ports[1] \in PortsNamed, ports[2] \in PortsNamed, NEW held
  PROVE  Probe!Retained(Probe!ClaimsOf(ports, a), held) \in Seq(ScopeOf(a))
BY ClaimsAre, RetainedClaims

\* A probe is asked for.
LEMMA ProbeAskFits == ASSUME ProbeInv, Probe!Ask PROVE ProbeInv'
<1>1. bOutcome = "none" /\ bClaims = << >> /\ bScope' \in {"any", "loop", "lan"} /\ UNCHANGED bPlatform /\
        UNCHANGED bNext
  BY DEF Probe!Ask
<1>2. bForeign' \subseteq Probe!Sockets
  BY DEF Probe!Ask
<1>3. bLingering' \subseteq {s \in Probe!Sockets : s.addr # "any"}
  <2>1. bLingering' \in {{}} \cup {{Probe!SocketOf(b, p, "tcp")} : b \in Probe!Addresses \ {"any"},
          p \in ListenerPorts}
    BY DEF Probe!Ask
  <2> QED BY <2>1, SocketMade
<1>4. bScope' \in Probe!Addresses
  BY <1>1 DEF Probe!Addresses
<1>5. \A ports \in AskedPorts : \A held : Probe!Retained(Probe!ClaimsOf(ports, bScope'),
        held) \in Seq(ScopeOf(bScope'))
  BY <1>4, AskedAre DEF PortsNamed
<1>6. \/ bOutcome' = "conflict" /\ bClaims' = << >>
      \/ bOutcome' = "probing" /\ bClaims' \in Seq(ScopeOf(bScope'))
  BY <1>5 DEF Probe!Ask
<1>7. bClaims' \in Seq(ScopeOf(bScope'))
  <2>1. PICK S : S = ScopeOf(bScope')
    OBVIOUS
  <2>2. << >> \in Seq(S)
    OBVIOUS
  <2> QED BY <1>6, <2>1, <2>2
<1>8. ProbeTyped'
  BY <1>1, <1>2, <1>3, <1>7 DEF ProbeInv, ProbeTyped, ScopeOf
<1>9. HadTurn'
  <2>1. bNext' = 1
    BY <1>1 DEF ProbeInv, ClaimsFit
  <2> QED BY <2>1 DEF HadTurn
<1>10. ClaimsFit'
  BY <1>6, <1>9 DEF ClaimsFit
<1> QED BY <1>8, <1>10 DEF ProbeInv

\* A claim has its turn.
LEMMA BindFits == ASSUME ProbeInv, Probe!Bind PROVE ProbeInv'
<1>1. bOutcome = "probing" /\ bNext <= Len(bClaims) /\ UNCHANGED <<bPlatform, bScope, bForeign, bLingering, bClaims>>
  BY DEF Probe!Bind
<1>2. ProbeTyped /\ bNext \in 1..Len(bClaims) /\ bClaims \in Seq({s \in Claimable : s.addr = bScope}) /\
        bNext \in Nat /\ Len(bClaims) \in Nat
  BY <1>1 DEF ProbeInv, ProbeTyped
<1>3. PICK c \in Claimable : c = bClaims[bNext]
  BY <1>2
<1>4. \/ ~Passed(c) /\ bOutcome' = "conflict" /\ bNext' = bNext
      \/ Passed(c) /\ bOutcome' = "probing" /\ bNext' = bNext + 1
  BY <1>1, <1>3 DEF Probe!Bind, Passed
<1>5. Passed(c) => IsFree(c)
  BY <1>2, PassedIsFree
<1>6. ~Passed(c) => \E f \in bForeign : Probe!Overlap(c, f)
  BY <1>2, ConflictIsLive
<1>7. ProbeTyped'
  BY <1>1, <1>2, <1>4 DEF ProbeTyped
<1>8. HadTurn
  BY DEF ProbeInv, ClaimsFit
<1>9. HadTurn'
  <2> SUFFICES ASSUME NEW i \in 1..Len(bClaims), i < bNext' PROVE IsFree(bClaims[i])'
    BY <1>1 DEF HadTurn
  <2>1. IsFree(bClaims[i])
    <3>1. CASE i < bNext
      BY <1>8, <3>1 DEF HadTurn
    <3>2. CASE ~(i < bNext)
      <4>1. i = bNext /\ Passed(c)
        BY <1>2, <1>4, <3>2
      <4> QED BY <1>3, <1>5, <4>1
    <3> QED BY <3>1, <3>2
  <2> QED BY <1>1, <2>1 DEF IsFree, Probe!Overlap
<1>10. bOutcome' = "conflict" => \E f \in bForeign' : Probe!Overlap(bClaims'[bNext'], f)
  BY <1>1, <1>3, <1>4, <1>6
<1>11. bOutcome' \in {"conflict", "probing"}
  BY <1>4
<1> QED BY <1>7, <1>9, <1>10, <1>11 DEF ProbeInv, ClaimsFit

\* The probe ends, or nothing of it changes.
LEMMA ProbeRests ==
  ASSUME ProbeInv, UNCHANGED <<bPlatform, bScope, bForeign, bLingering, bClaims, bNext>>,
         bOutcome' = bOutcome \/ bOutcome' \in {"invalid", "indeterminate"} \/
             (bOutcome' = "available" /\ bNext > Len(bClaims))
  PROVE  ProbeInv'
<1>1. ProbeTyped'
  BY DEF ProbeInv, ProbeTyped
<1>2. HadTurn'
  BY DEF ProbeInv, ClaimsFit, HadTurn, IsFree, Probe!Overlap
<1>3. bOutcome' = "conflict" => bOutcome = "conflict"
  OBVIOUS
<1> QED BY <1>1, <1>2, <1>3 DEF ProbeInv, ClaimsFit

\* Each step keeps it.
LEMMA ProbeNext == ProbeGiven /\ ProbeInv /\ [Probe!Next]_(Probe!vars) => ProbeInv'
<1> SUFFICES ASSUME ProbeGiven, ProbeInv, [Probe!Next]_(Probe!vars) PROVE ProbeInv'
  OBVIOUS
<1>1. CASE Probe!Ask
  BY <1>1, ProbeAskFits
<1>2. CASE Probe!Bind
  BY <1>2, BindFits
<1>3. CASE Probe!Fail
  BY <1>3, ProbeRests DEF Probe!Fail
<1>4. CASE Probe!Finish
  BY <1>4, ProbeRests DEF Probe!Finish
<1>5. CASE UNCHANGED Probe!vars
  BY <1>5, ProbeRests DEF Probe!vars
<1> QED BY <1>1, <1>2, <1>3, <1>4, <1>5 DEF Probe!Next

\* So the answer is true.
LEMMA ProbeAnswers == ProbeInv => Probe!AnswerIsTrue
<1> SUFFICES ASSUME ProbeInv PROVE Probe!AnswerIsTrue
  OBVIOUS
<1>1. ASSUME bOutcome = "available", NEW c \in Probe!Members(bClaims), NEW f \in bForeign, Probe!Overlap(c, f)
      PROVE  bPlatform = "macos" /\ f.addr = "linklocal"
  <2>1. PICK i \in 1..Len(bClaims) : c = bClaims[i]
    BY DEF Probe!Members, ProbeInv, ProbeTyped
  <2>2. i < bNext /\ IsFree(bClaims[i])
    BY <1>1 DEF ProbeInv, ProbeTyped, ClaimsFit, HadTurn
  <2> QED BY <1>1, <2>1, <2>2 DEF IsFree
<1>2. bOutcome = "conflict" /\ bClaims # << >> => \E f \in bForeign : Probe!Overlap(bClaims[bNext], f)
  BY DEF ProbeInv, ClaimsFit
<1> QED BY <1>1, <1>2 DEF Probe!AnswerIsTrue

\* A probe that says a port is free is right, and so is one that says it is not, on every platform and whatever other programs hold.
THEOREM ProbeHolds == ProbeGiven => (Probe!Spec => []Probe!AnswerIsTrue)
<1> SUFFICES ASSUME ProbeGiven PROVE Probe!Spec => []Probe!AnswerIsTrue
  OBVIOUS
<1>1. Probe!Init => ProbeInv
  BY ProbeStarts
<1>2. ProbeInv /\ [Probe!Next]_(Probe!vars) => ProbeInv'
  BY ProbeNext
<1>3. ProbeInv => Probe!AnswerIsTrue
  BY ProbeAnswers
<1> QED BY <1>1, <1>2, <1>3, PTL DEF Probe!Spec

-----------------------------------------------------------------------------
(* The selected nodes.                                                      *)

VARIABLES lCurrent, lRecords, lPermit, lGeneration, lTasks, lCore, lUser, lSwitch, lChosen,
          lCrossed, lBounds
selectionVars == <<lCurrent, lRecords, lPermit, lGeneration, lTasks, lCore, lUser, lSwitch,
      lChosen, lCrossed, lBounds>>
Selection == INSTANCE Selections WITH current <- lCurrent, records <- lRecords,
    permit <- lPermit, generation <- lGeneration, tasks <- lTasks, core <- lCore, user <- lUser,
    switch <- lSwitch, chosen <- lChosen, crossed <- lCrossed, bounds <- lBounds,
    Groups <- SelectorGroups, Nodes <- ProxyNodes, Profiles <- NodeProfiles,
    NoNode <- NoProxyNode, MaxTasks <- MaxRestorations, MaxChoices <- MaxSelections

SelectionGiven == Selectable \subseteq SelectorGroups

ASSUME SelectionAssumption == SelectionGiven

Choosable == ProxyNodes \cup {NoProxyNode}
CoreGroups == [there : BOOLEAN, all : SUBSET ProxyNodes, now : Choosable]
Snapshots == [SelectorGroups -> CoreGroups]
Selected == [SelectorGroups -> Choosable]
Passing == {"apply", "sent", "second", "settle", "persist", "write"}
Restorations ==
  [gen : Nat, repair : {"keep", "prune"}, at : Passing \cup {"wait", "first"},
      uid : NodeProfiles \cup {Selection!None},
   sel : Selected, first : Seq(Snapshots), todo : SUBSET SelectorGroups, done : Selected, new : Selected,
   group : SelectorGroups \cup {Selection!None}]
UserAt == {"idle", "record", "commit", "supersede"}
SelTyped ==
  /\ lCurrent \in NodeProfiles /\ lRecords \in [NodeProfiles -> Selected] /\ lPermit \in {"nobody", "user", "task"}
  /\ lGeneration \in Nat /\ lTasks \in Seq(Restorations) /\ lCore \in Snapshots
  /\ lUser \in [at : UserAt, group : SelectorGroups \cup {Selection!None}, node : Choosable]
  /\ lSwitch \in NodeProfiles \cup {Selection!None} /\ lChosen \in Selected /\ lCrossed \in BOOLEAN
\* Only the first restoration has begun, none is of a later generation, and the permit is
\* whose turn it is.
TasksFit ==
  /\ \A i \in 1..Len(lTasks) : lTasks[i].gen <= lGeneration /\ (i # 1 => lTasks[i].at = "wait")
  /\ lTasks # << >> /\ Selection!Head1.at \in Passing => Selection!Head1.first # << >>
  /\ Selection!At("sent") => Selection!Head1.group \in SelectorGroups
  /\ lPermit = "user" <=> lUser.at = "commit"
  /\ lPermit = "task" <=> Selection!At("write")
\* What the user has last chosen is what is being recorded.
UserFits ==
  /\ lUser.at = "idle" => lUser = Selection!Idle
  /\ lUser.at # "idle" => lUser.group \in Selectable /\ lChosen[lUser.group] \in {NoProxyNode, lUser.node}
  /\ lUser.at = "supersede" /\ ~lCrossed => lSwitch = Selection!None
\* A restoration that is not superseded has read the records as they are, but for one that
\* the user is about to supersede it for; that one it leaves as it is.
Recording(g) == lUser.at \in {"record", "commit"} /\ lUser.group = g
Superseding(g) == lUser.at = "supersede" /\ lUser.group = g
ReadsRecords(t) ==
  /\ t.uid = lCurrent
  /\ \A g \in SelectorGroups : t.sel[g] = lRecords[lCurrent][g] \/ Superseding(g)
  /\ \A g \in SelectorGroups :
       ~lCrossed /\ Superseding(g) /\ lChosen[g] # NoProxyNode /\ t.at \in Passing /\ t.sel[g] = lUser.node
         => t.new[g] = lUser.node
HeadFits == lTasks # << >> /\ Selection!Head1.at # "wait" /\ Selection!IsCurrent(Selection!Head1) =>
    ReadsRecords(Selection!Head1)
\* What was chosen is what the core is on.  Where the core is about to be restored, or is being,
\* by a restoration that is not superseded, nothing was chosen but what is being recorded, and
\* no select is on its way for anything else that was.
Pending(g) == lUser.at # "idle" /\ lUser.group = g
Restored == lSwitch # Selection!None \/ \E i \in 1..Len(lTasks) : Selection!IsCurrent(lTasks[i])
ChosenFits ==
  ~lCrossed =>
    /\ \A g \in SelectorGroups : lChosen[g] # NoProxyNode => lCore[g].now = lChosen[g] /\
         Selection!Has(lCore, g, lChosen[g])
    /\ Restored => \A g \in SelectorGroups : lChosen[g] # NoProxyNode => Pending(g)
    /\ Selection!At("sent") /\ lChosen[Selection!Head1.group] # NoProxyNode => Pending(Selection!Head1.group)
    /\ \A g \in Selectable : lChosen[g] # NoProxyNode => lRecords[lCurrent][g] = lChosen[g] \/ Recording(g)
SelInv == SelTyped /\ TasksFit /\ UserFits /\ HeadFits /\ ChosenFits

\* The first of a sequence is replaced: the others stay.
LEMMA FirstReplaced ==
  ASSUME NEW S, NEW s \in Seq(S), s # << >>, NEW t \in S, NEW r, r = [s EXCEPT ![1] = t]
  PROVE  /\ r \in Seq(S) /\ r # << >> /\ Len(r) = Len(s) /\ r[1] = t
         /\ \A i \in 1..Len(s) : i # 1 => r[i] = s[i]
OBVIOUS

\* The first of a sequence leaves: the others move up.
LEMMA FirstLeaves ==
  ASSUME NEW S, NEW s \in Seq(S), s # << >>, NEW r, r = Tail(s)
  PROVE  /\ r \in Seq(S) /\ Len(r) + 1 = Len(s) /\ \A i \in 1..Len(r) : r[i] = s[i + 1] /\ i + 1 \in 1..Len(s)
OBVIOUS

\* One more joins a sequence at its end.
LEMMA OneMore ==
  ASSUME NEW S, NEW s \in Seq(S), NEW t \in S, NEW r, r = Append(s, t)
  PROVE  /\ r \in Seq(S) /\ r # << >> /\ Len(r) = Len(s) + 1 /\ r[Len(s) + 1] = t
         /\ \A i \in 1..Len(s) : r[i] = s[i] /\ i \in 1..Len(r)
OBVIOUS

\* The first restoration, when there is one.
LEMMA HeadIs ==
  ASSUME SelInv, lTasks # << >>
  PROVE  /\ Selection!Head1 \in Restorations /\ Selection!Head1.gen <= lGeneration /\
              Selection!Head1.gen \in Nat /\ 1 \in 1..Len(lTasks) /\ Selection!Head1 = lTasks[1]
         /\ Selection!Head1.at \in Passing => Selection!Head1.first # << >>
<1>1. 1 \in 1..Len(lTasks) /\ Selection!Head1 \in Restorations
  BY DEF SelInv, SelTyped, Selection!Head1
<1>2. Selection!Head1.gen <= lGeneration
  BY <1>1 DEF SelInv, TasksFit, Selection!Head1
<1> QED BY <1>1, <1>2 DEF SelInv, TasksFit, Restorations, Selection!Head1

\* It goes on.
LEMMA HeadGoes ==
  ASSUME SelInv, lTasks # << >>, NEW t \in Restorations, Selection!Goto(t), t.gen = Selection!Head1.gen,
           lGeneration' = lGeneration
  PROVE  /\ lTasks' \in Seq(Restorations) /\ lTasks' # << >> /\ Selection!Head1' = t /\ Len(lTasks') = Len(lTasks)
         /\ \A i \in 1..Len(lTasks) : lTasks'[i].gen = lTasks[i].gen /\ (i # 1 => lTasks'[i] = lTasks[i])
         /\ \A i \in 1..Len(lTasks') : lTasks'[i].gen <= lGeneration /\ (i # 1 => lTasks'[i].at = "wait")
         /\ (\E i \in 1..Len(lTasks') : lTasks'[i].gen = lGeneration) =>
              \E i \in 1..Len(lTasks) : Selection!IsCurrent(lTasks[i])
<1>1. lTasks \in Seq(Restorations) /\ lTasks' = [lTasks EXCEPT ![1] = t]
  BY DEF SelInv, SelTyped, Selection!Goto
<1>2. lTasks' \in Seq(Restorations) /\ lTasks' # << >> /\ Len(lTasks') = Len(lTasks) /\ lTasks'[1] = t
      /\ \A i \in 1..Len(lTasks) : i # 1 => lTasks'[i] = lTasks[i]
  BY <1>1, FirstReplaced
<1>3. \A i \in 1..Len(lTasks) : lTasks'[i].gen = lTasks[i].gen
  BY <1>2 DEF Selection!Head1
<1>4. \A i \in 1..Len(lTasks) : lTasks[i].gen <= lGeneration /\ (i # 1 => lTasks[i].at = "wait")
  BY DEF SelInv, TasksFit
<1> QED BY <1>2, <1>3, <1>4 DEF Selection!Head1, Selection!IsCurrent

\* It ends: the others have not begun.
LEMMA HeadEnds ==
  ASSUME SelInv, lTasks # << >>, Selection!Finish, lGeneration' = lGeneration
  PROVE  /\ lTasks' \in Seq(Restorations)
         /\ \A i \in 1..Len(lTasks') : lTasks'[i].gen <= lGeneration /\ lTasks'[i].at = "wait"
         /\ lTasks' # << >> => Selection!Head1'.at = "wait"
         /\ (\E i \in 1..Len(lTasks') : lTasks'[i].gen = lGeneration) =>
              \E i \in 1..Len(lTasks) : Selection!IsCurrent(lTasks[i])
<1>1. lTasks \in Seq(Restorations) /\ lTasks' = Tail(lTasks)
  BY DEF SelInv, SelTyped, Selection!Finish
<1>2. lTasks' \in Seq(Restorations) /\ Len(lTasks') + 1 = Len(lTasks)
      /\ \A i \in 1..Len(lTasks') : lTasks'[i] = lTasks[i + 1] /\ i + 1 \in 1..Len(lTasks)
  BY <1>1, FirstLeaves
<1>3. \A i \in 1..Len(lTasks) : lTasks[i].gen <= lGeneration /\ (i # 1 => lTasks[i].at = "wait")
  BY DEF SelInv, TasksFit
<1>4. \A i \in 1..Len(lTasks') : i + 1 # 1
  BY <1>2
<1>5. \A i \in 1..Len(lTasks') : lTasks'[i].gen <= lGeneration /\ lTasks'[i].at = "wait"
  BY <1>2, <1>3, <1>4
<1>6. lTasks' # << >> => Selection!Head1'.at = "wait"
  BY <1>2, <1>5 DEF Selection!Head1
<1>7. (\E i \in 1..Len(lTasks') : lTasks'[i].gen = lGeneration) =>
        \E i \in 1..Len(lTasks) : Selection!IsCurrent(lTasks[i])
  BY <1>2 DEF Selection!IsCurrent
<1> QED BY <1>2, <1>5, <1>6, <1>7

\* A step of a restoration that touches nothing else.
LEMMA QuietEnds ==
  ASSUME SelInv, lTasks # << >>, Selection!Head1.at # "write", Selection!Finish, Selection!Quiet
  PROVE  SelInv'
<1>1. UNCHANGED <<lCurrent, lRecords, lPermit, lGeneration, lCore, lUser, lSwitch, lChosen, lCrossed, lBounds>>
  BY DEF Selection!Quiet
<1>2. /\ lTasks' \in Seq(Restorations)
      /\ \A i \in 1..Len(lTasks') : lTasks'[i].gen <= lGeneration /\ lTasks'[i].at = "wait"
      /\ lTasks' # << >> => Selection!Head1'.at = "wait"
      /\ (\E i \in 1..Len(lTasks') : lTasks'[i].gen = lGeneration) =>
           \E i \in 1..Len(lTasks) : Selection!IsCurrent(lTasks[i])
  BY <1>1, HeadEnds
<1>3. SelTyped'
  BY <1>1, <1>2 DEF SelInv, SelTyped
<1>4. TasksFit'
  BY <1>1, <1>2 DEF SelInv, TasksFit, Selection!At, Passing
<1>5. UserFits'
  BY <1>1 DEF SelInv, UserFits
<1>6. HeadFits'
  BY <1>2 DEF HeadFits
<1>7. ChosenFits'
  <2>1. Restored' => Restored
    BY <1>1, <1>2 DEF Restored, Selection!IsCurrent
  <2>2. ~Selection!At("sent")'
    BY <1>2 DEF Selection!At
  <2> QED BY <1>1, <2>1, <2>2 DEF SelInv, ChosenFits, Pending, Recording, Selection!Has, Selection!Loaded
<1> QED BY <1>3, <1>4, <1>5, <1>6, <1>7 DEF SelInv

\* The restoration goes on with what it has read: nothing else changes.
LEMMA QuietGoes ==
  ASSUME SelInv, lTasks # << >>, Selection!Head1.at # "write", NEW t \in Restorations, Selection!Goto(t),
           Selection!Quiet,
         t.gen = Selection!Head1.gen, t.at # "write", t.at \in Passing => t.first # << >>, t.at = "sent" =>
             t.group \in SelectorGroups,
         Selection!IsCurrent(t) => ReadsRecords(t),
         ~lCrossed /\ t.at = "sent" /\ lChosen[t.group] # NoProxyNode => Pending(t.group)
  PROVE  SelInv'
<1>1. UNCHANGED <<lCurrent, lRecords, lPermit, lGeneration, lCore, lUser, lSwitch, lChosen, lCrossed, lBounds>>
  BY DEF Selection!Quiet
<1>2. /\ lTasks' \in Seq(Restorations) /\ lTasks' # << >> /\ Selection!Head1' = t
      /\ \A i \in 1..Len(lTasks') : lTasks'[i].gen <= lGeneration /\ (i # 1 => lTasks'[i].at = "wait")
      /\ (\E i \in 1..Len(lTasks') : lTasks'[i].gen = lGeneration) =>
           \E i \in 1..Len(lTasks) : Selection!IsCurrent(lTasks[i])
  BY <1>1, HeadGoes
<1>3. SelTyped'
  BY <1>1, <1>2 DEF SelInv, SelTyped
<1>4. TasksFit'
  BY <1>1, <1>2 DEF SelInv, TasksFit, Selection!At
<1>5. UserFits'
  BY <1>1 DEF SelInv, UserFits
<1>6. HeadFits'
  <2>1. Selection!IsCurrent(t)' <=> Selection!IsCurrent(t)
    BY <1>1 DEF Selection!IsCurrent
  <2>2. ReadsRecords(t)' <=> ReadsRecords(t)
    BY <1>1 DEF ReadsRecords, Superseding
  <2> QED BY <1>1, <1>2, <2>1, <2>2 DEF HeadFits, Selection!IsCurrent, ReadsRecords, Superseding
<1>7. ChosenFits'
  <2>1. Restored' => Restored
    BY <1>1, <1>2 DEF Restored, Selection!IsCurrent
  <2>2. Selection!At("sent")' => t.at = "sent"
    BY <1>2 DEF Selection!At
  <2> QED BY <1>1, <1>2, <2>1, <2>2 DEF SelInv, ChosenFits, Pending, Recording, Selection!Has, Selection!Loaded
<1> QED BY <1>3, <1>4, <1>5, <1>6, <1>7 DEF SelInv

\* What a step makes of it.
IsOf(t, h, at) == t \in Restorations /\ t.at = at /\ t.gen = h.gen
Same(t, h) == t.uid = h.uid /\ t.sel = h.sel

\* The restoration is at another place, and knows what it knew.
LEMMA GoesTo ==
  ASSUME NEW h \in Restorations, NEW p \in Passing, NEW t, t = [h EXCEPT !.at = p]
  PROVE  IsOf(t, h, p) /\ Same(t, h) /\ t.first = h.first /\ t.new = h.new
BY DEF Restorations, IsOf, Same

RestorationBegun(h, u, sel) == [h EXCEPT !.at = "first", !.uid = u, !.sel = sel]
IsBegun(t, h, u, sel) == IsOf(t, h, "first") /\ t.uid = u /\ t.sel = sel

\* A restoration that begins has read the profile in use and its records.
LEMMA Begins ==
  \A h \in Restorations : \A u \in NodeProfiles : \A sel \in Selected : IsBegun(RestorationBegun(h, u, sel), h, u,
      sel)
BY DEF Restorations, RestorationBegun, IsBegun, IsOf

Looking(h, f, todo, new) == [h EXCEPT !.at = "apply", !.first = f, !.todo = todo, !.new = new]
IsLooking(t, h, f, new) == IsOf(t, h, "apply") /\ Same(t, h) /\ t.first = f /\ t.new = new

\* It has looked at the core.
LEMMA LooksFirst ==
  \A h \in Restorations : \A f \in Seq(Snapshots) : \A todo \in SUBSET SelectorGroups : \A new \in Selected :
    IsLooking(Looking(h, f, todo, new), h, f, new)
<1> SUFFICES ASSUME NEW h \in Restorations, NEW f \in Seq(Snapshots), NEW todo \in SUBSET SelectorGroups,
      NEW new \in Selected
             PROVE  IsLooking(Looking(h, f, todo, new), h, f, new)
  OBVIOUS
<1>1. PICK t : t = Looking(h, f, todo, new)
  OBVIOUS
<1>2. t = [h EXCEPT !.at = "apply", !.first = f, !.todo = todo, !.new = new]
  BY <1>1 DEF Looking
<1>3. t \in Restorations /\ t.at = "apply" /\ t.gen = h.gen /\ t.uid = h.uid /\ t.sel = h.sel /\ t.first = f /\
        t.new = new
  BY <1>2 DEF Restorations, Passing
<1> QED BY <1>1, <1>3 DEF IsLooking, IsOf, Same

Sending(h, g, todo) == [h EXCEPT !.at = "sent", !.group = g, !.todo = todo]
IsSending(t, h, g) == IsOf(t, h, "sent") /\ Same(t, h) /\ t.first = h.first /\ t.new = h.new /\ t.group = g

\* It sends the node of a group.
LEMMA Sends ==
  \A h \in Restorations : \A g \in SelectorGroups : \A todo \in SUBSET SelectorGroups : IsSending(Sending(h, g,
      todo), h, g)
<1> SUFFICES ASSUME NEW h \in Restorations, NEW g \in SelectorGroups, NEW todo \in SUBSET SelectorGroups
             PROVE  IsSending(Sending(h, g, todo), h, g)
  OBVIOUS
<1>1. PICK t : t = Sending(h, g, todo)
  OBVIOUS
<1>2. t = [h EXCEPT !.at = "sent", !.group = g, !.todo = todo]
  BY <1>1 DEF Sending
<1>3. /\ t \in Restorations /\ t.at = "sent" /\ t.gen = h.gen /\ t.uid = h.uid /\ t.sel = h.sel /\ t.first = h.first
      /\ t.new = h.new /\ t.group = g
  BY <1>2 DEF Restorations, Passing
<1> QED BY <1>1, <1>3 DEF IsSending, IsOf, Same

SelectAnswered(h, done) == [h EXCEPT !.at = "apply", !.done = done]
IsAnswered(t, h) == IsOf(t, h, "apply") /\ Same(t, h) /\ t.first = h.first /\ t.new = h.new

\* It has had the answer.
LEMMA Answers ==
  \A h \in Restorations : \A done \in Selected : IsAnswered(SelectAnswered(h, done), h)
BY DEF Restorations, Passing, SelectAnswered, IsAnswered, IsOf, Same

\* The snapshots of the core are such, and what is repaired is a selection.
LEMMA SnapshotIs ==
  ASSUME NEW snap \in Snapshots, NEW g \in SelectorGroups
  PROVE  snap[g].there \in BOOLEAN /\ snap[g].all \in SUBSET ProxyNodes /\ snap[g].now \in Choosable
BY DEF Snapshots, CoreGroups

\* What is repaired is a selection, and keeps the nodes that are there.
LEMMA RepairedIs ==
  ASSUME NEW sel \in Selected, NEW before, NEW snap \in Snapshots
  PROVE  /\ Selection!Repaired(sel, before, snap) \in Selected
         /\ \A g \in Selectable \cap SelectorGroups :
              sel[g] # NoProxyNode /\ Selection!Has(snap, g, sel[g]) =>
                  Selection!Repaired(sel, before, snap)[g] = sel[g]
<1>1. ASSUME NEW g \in SelectorGroups PROVE Selection!Kept(sel, before, snap, g) \in Choosable
  <2>1. sel[g] \in Choosable /\ snap[g].now \in Choosable /\ NoProxyNode \in Choosable
    BY SnapshotIs DEF Selected, Choosable
  <2>2. Selection!Valid(snap, g) \in Choosable
    BY <2>1 DEF Selection!Valid
  <2> QED BY <2>1, <2>2 DEF Selection!Kept
<1>2. ASSUME NEW g \in Selectable \cap SelectorGroups, sel[g] # NoProxyNode, Selection!Has(snap, g, sel[g])
      PROVE  Selection!Kept(sel, before, snap, g) = sel[g]
  <2>1. snap[g].there /\ Selection!Loaded(snap, g) /\ sel[g] \in snap[g].all
    BY <1>2 DEF Selection!Has, Selection!Loaded
  <2> QED BY <1>2, <2>1 DEF Selection!Kept
<1> QED BY <1>1, <1>2 DEF Selection!Repaired, Selected

\* A look at the core, as it is.
LEMMA LooksAgain ==
  ASSUME SelInv, SelectionGiven, lTasks # << >>, Selection!Head1.at \in Passing \cup {"first"},
           Selection!IsCurrent(Selection!Head1),
         NEW t \in Restorations, t.gen = Selection!Head1.gen, t.uid = Selection!Head1.uid,
             t.sel = Selection!Head1.sel, NEW before,
         t.new = Selection!Repaired(Selection!Head1.sel, before, lCore)
  PROVE  ReadsRecords(t)
<1>1. Selection!Head1 \in Restorations /\ lCore \in Snapshots
  BY HeadIs DEF SelInv, SelTyped
<1>2. ReadsRecords(Selection!Head1)
  BY DEF SelInv, HeadFits, Passing
<1>3. Selection!Head1.sel \in Selected
  BY <1>1 DEF Restorations
<1>4. \A g \in Selectable \cap SelectorGroups : t.sel[g] # NoProxyNode /\ Selection!Has(lCore, g, t.sel[g]) =>
        t.new[g] = t.sel[g]
  BY <1>1, <1>3, RepairedIs
<1>5. ASSUME NEW g \in SelectorGroups, ~lCrossed, Superseding(g), lChosen[g] # NoProxyNode, t.sel[g] = lUser.node
      PROVE  t.new[g] = lUser.node
  <2>1. g \in Selectable /\ lChosen[g] = lUser.node
    BY <1>5 DEF SelInv, UserFits, Superseding
  <2>2. Selection!Has(lCore, g, lChosen[g])
    BY <1>5 DEF SelInv, ChosenFits
  <2> QED BY <1>4, <1>5, <2>1, <2>2
<1> QED BY <1>2, <1>5 DEF ReadsRecords

\* A restoration begins, of the records as they are, or is of no use any more.
LEMMA WakeFits == ASSUME SelInv, Selection!Wake PROVE SelInv'
<1>1. lTasks # << >> /\ Selection!Head1.at = "wait" /\ Selection!Quiet
  BY DEF Selection!Wake, Selection!At
<1>2. Selection!Head1 \in Restorations /\ lCurrent \in NodeProfiles /\ lRecords[lCurrent] \in Selected
  BY <1>1, HeadIs DEF SelInv, SelTyped
<1>3. CASE Selection!Finish
  BY <1>1, <1>3, QuietEnds
<1>4. CASE Selection!IsCurrent(Selection!Head1) /\ Selection!Goto([Selection!Head1 EXCEPT !.at = "first",
             !.uid = lCurrent, !.sel = lRecords[lCurrent]])
  <2>1. PICK t : t = RestorationBegun(Selection!Head1, lCurrent, lRecords[lCurrent])
    OBVIOUS
  <2>2. t \in Restorations /\ t.at = "first" /\ t.gen = Selection!Head1.gen /\ t.uid = lCurrent /\
          t.sel = lRecords[lCurrent]
    <3>1. IsBegun(t, Selection!Head1, lCurrent, lRecords[lCurrent])
      BY <1>2, <2>1, Begins
    <3> QED BY <3>1 DEF IsBegun, IsOf
  <2>3. ReadsRecords(t)
    BY <2>2 DEF ReadsRecords, Passing
  <2>4. Selection!Goto(t)
    BY <1>4, <2>1 DEF RestorationBegun
  <2> QED BY <1>1, <2>2, <2>3, <2>4, QuietGoes DEF Passing
<1> QED BY <1>3, <1>4 DEF Selection!Wake

\* It looks at the core.
LEMMA FirstSnapshotFits == ASSUME SelInv, SelectionGiven, Selection!FirstSnapshot PROVE SelInv'
<1>1. lTasks # << >> /\ Selection!Head1.at = "first" /\ Selection!Quiet
  BY DEF Selection!FirstSnapshot, Selection!At
<1>2. Selection!Head1 \in Restorations /\ Selection!Head1.sel \in Selected /\ lCore \in Snapshots
  BY <1>1, HeadIs DEF SelInv, SelTyped, Restorations
<1>3. CASE Selection!Finish
  BY <1>1, <1>3, QuietEnds
<1>4. CASE /\ Selection!IsCurrent(Selection!Head1)
           /\ Selection!Goto([Selection!Head1 EXCEPT !.at = "apply", !.first = <<lCore>>,
                !.todo = Selection!ToActivate(Selection!Head1.sel, lCore),
                                                     !.new = Selection!Repaired(Selection!Head1.sel, << >>, lCore)])
  <2>1. PICK t : t = Looking(Selection!Head1, <<lCore>>, Selection!ToActivate(Selection!Head1.sel, lCore),
               Selection!Repaired(Selection!Head1.sel, << >>, lCore))
    OBVIOUS
  <2>2. <<lCore>> \in Seq(Snapshots) /\ <<lCore>> # << >>
    BY <1>2
  <2>3. Selection!ToActivate(Selection!Head1.sel, lCore) \in SUBSET SelectorGroups /\
          Selection!Repaired(Selection!Head1.sel, << >>, lCore) \in Selected
    BY <1>2, RepairedIs DEF Selection!ToActivate, SelectionGiven
  <2>4. /\ t \in Restorations /\ t.at = "apply" /\ t.gen = Selection!Head1.gen /\ t.uid = Selection!Head1.uid /\
             t.sel = Selection!Head1.sel
        /\ t.first = <<lCore>> /\ t.new = Selection!Repaired(Selection!Head1.sel, << >>, lCore)
    <3>1. IsLooking(t, Selection!Head1, <<lCore>>, Selection!Repaired(Selection!Head1.sel, << >>, lCore))
      BY <1>2, <2>1, <2>2, <2>3, LooksFirst
    <3> QED BY <3>1 DEF IsLooking, IsOf, Same
  <2>5. ReadsRecords(t)
    BY <1>1, <1>4, <2>4, LooksAgain
  <2>6. Selection!Goto(t)
    BY <1>4, <2>1 DEF Looking
  <2> QED BY <1>1, <2>2, <2>4, <2>5, <2>6, QuietGoes
<1> QED BY <1>3, <1>4 DEF Selection!FirstSnapshot

\* It sends a node, where it is not superseded.
LEMMA SendFits == ASSUME SelInv, SelectionGiven, Selection!Send PROVE SelInv'
<1>1. lTasks # << >> /\ Selection!Head1.at = "apply" /\ Selection!Quiet
  BY DEF Selection!Send, Selection!At
<1>2. Selection!Head1 \in Restorations /\ Selection!Head1.todo \in SUBSET SelectorGroups /\
        Selection!Head1.first # << >> /\ 1 \in 1..Len(lTasks) /\ Selection!Head1 = lTasks[1]
  BY <1>1, HeadIs DEF Restorations, Passing
<1>3. CASE Selection!Finish
  BY <1>1, <1>3, QuietEnds
<1>4. CASE /\ Selection!IsCurrent(Selection!Head1)
           /\ \E g \in Selection!Head1.todo : Selection!Goto([Selection!Head1 EXCEPT !.at = "sent", !.group = g,
                !.todo = Selection!Head1.todo \ {g}])
  <2>1. PICK g \in Selection!Head1.todo : Selection!Goto([Selection!Head1 EXCEPT !.at = "sent", !.group = g,
               !.todo = Selection!Head1.todo \ {g}])
    BY <1>4
  <2>2. PICK t : t = Sending(Selection!Head1, g, Selection!Head1.todo \ {g})
    OBVIOUS
  <2>3. /\ t \in Restorations /\ t.at = "sent" /\ t.gen = Selection!Head1.gen /\ t.uid = Selection!Head1.uid /\
             t.sel = Selection!Head1.sel
        /\ t.first = Selection!Head1.first /\ t.new = Selection!Head1.new /\ t.group = g
    <3>1. g \in SelectorGroups /\ Selection!Head1.todo \ {g} \in SUBSET SelectorGroups
      BY <1>2
    <3>2. IsSending(t, Selection!Head1, g)
      BY <1>2, <2>2, <3>1, Sends
    <3> QED BY <3>2 DEF IsSending, IsOf, Same
  <2>4. ReadsRecords(t)
    BY <1>1, <1>4, <2>3 DEF SelInv, HeadFits, ReadsRecords, Passing
  <2>5. ~lCrossed /\ lChosen[g] # NoProxyNode => Pending(g)
    BY <1>2, <1>4 DEF SelInv, ChosenFits, Restored
  <2>6. Selection!Goto(t)
    BY <2>1, <2>2 DEF Sending
  <2> QED BY <1>1, <1>2, <2>3, <2>4, <2>5, <2>6, QuietGoes
<1> QED BY <1>3, <1>4 DEF Selection!Send, Selection!MaySend

\* A pass is over.
LEMMA PassDoneFits == ASSUME SelInv, Selection!PassDone PROVE SelInv'
<1>1. lTasks # << >> /\ Selection!Head1.at = "apply" /\ Selection!Quiet
  BY DEF Selection!PassDone, Selection!At
<1>2. Selection!Head1 \in Restorations /\ Selection!Head1.first # << >>
  BY <1>1, HeadIs DEF Passing
<1>3. CASE Selection!Finish
  BY <1>1, <1>3, QuietEnds
<1>4. CASE \E p \in {"second", "settle", "persist"} : Selection!Goto([Selection!Head1 EXCEPT !.at = p])
  <2>1. PICK p \in {"second", "settle", "persist"} : Selection!Goto([Selection!Head1 EXCEPT !.at = p])
    BY <1>4
  <2>2. PICK t : t = [Selection!Head1 EXCEPT !.at = p]
    OBVIOUS
  <2>3. /\ t \in Restorations /\ t.at = p /\ t.gen = Selection!Head1.gen /\ t.uid = Selection!Head1.uid /\
             t.sel = Selection!Head1.sel
        /\ t.first = Selection!Head1.first /\ t.new = Selection!Head1.new
    BY <1>2, <2>2, GoesTo DEF Passing, IsOf, Same
  <2>4. Selection!IsCurrent(t) => ReadsRecords(t)
    BY <1>1, <2>3 DEF SelInv, HeadFits, ReadsRecords, Passing, Selection!IsCurrent
  <2>5. Selection!Goto(t)
    BY <2>1, <2>2
  <2> QED BY <1>1, <1>2, <2>3, <2>4, <2>5, QuietGoes
<1> QED BY <1>3, <1>4 DEF Selection!PassDone

\* It looks at the core again.
LEMMA SecondSnapshotFits == ASSUME SelInv, SelectionGiven, Selection!SecondSnapshot PROVE SelInv'
<1>1. lTasks # << >> /\ Selection!Head1.at = "second" /\ Selection!Quiet
  BY DEF Selection!SecondSnapshot, Selection!At
<1>2. Selection!Head1 \in Restorations /\ Selection!Head1.sel \in Selected /\ lCore \in Snapshots
      /\ Selection!Head1.first \in Seq(Snapshots) /\ Selection!Head1.first # << >>
  BY <1>1, HeadIs DEF SelInv, SelTyped, Restorations, Passing
<1>3. CASE Selection!Finish
  BY <1>1, <1>3, QuietEnds
<1>4. CASE /\ Selection!IsCurrent(Selection!Head1)
           /\ Selection!Goto([Selection!Head1 EXCEPT !.at = "apply", !.first = <<Selection!Head1.first[1], lCore>>,
                                                     !.new = Selection!Repaired(Selection!Head1.sel,
                                                         Selection!Head1.first, lCore),
                                                     !.todo = {g \in Selection!ToActivate(Selection!Head1.sel,
                                                         lCore) : Selection!Head1.done[g] # Selection!Head1.sel[g]}])
  <2> DEFINE todo == {g \in Selection!ToActivate(Selection!Head1.sel,
        lCore) : Selection!Head1.done[g] # Selection!Head1.sel[g]}
  <2>1. PICK t : t = Looking(Selection!Head1, <<Selection!Head1.first[1], lCore>>, todo,
               Selection!Repaired(Selection!Head1.sel, Selection!Head1.first, lCore))
    OBVIOUS
  <2>2. <<Selection!Head1.first[1], lCore>> \in Seq(Snapshots) /\ <<Selection!Head1.first[1], lCore>> # << >>
    BY <1>2
  <2>3. todo \in SUBSET SelectorGroups /\ Selection!Repaired(Selection!Head1.sel, Selection!Head1.first,
          lCore) \in Selected
    BY <1>2, RepairedIs DEF Selection!ToActivate, SelectionGiven
  <2>4. Selection!Goto(t)
    <3>1. t = [Selection!Head1 EXCEPT !.at = "apply", !.first = <<Selection!Head1.first[1], lCore>>, !.todo = todo,
            !.new = Selection!Repaired(Selection!Head1.sel, Selection!Head1.first, lCore)]
      BY <2>1 DEF Looking
    <3> HIDE DEF todo
    <3>2. t = [Selection!Head1 EXCEPT !.at = "apply", !.first = <<Selection!Head1.first[1], lCore>>,
            !.new = Selection!Repaired(Selection!Head1.sel, Selection!Head1.first, lCore), !.todo = todo]
      BY <1>2, <3>1 DEF Restorations
    <3> QED BY <1>4, <3>2 DEF todo
  <2> HIDE DEF todo
  <2>6. /\ t \in Restorations /\ t.at = "apply" /\ t.gen = Selection!Head1.gen /\ t.uid = Selection!Head1.uid /\
             t.sel = Selection!Head1.sel
        /\ t.first = <<Selection!Head1.first[1], lCore>> /\ t.new = Selection!Repaired(Selection!Head1.sel,
             Selection!Head1.first, lCore)
    <3>1. IsLooking(t, Selection!Head1, <<Selection!Head1.first[1], lCore>>,
            Selection!Repaired(Selection!Head1.sel, Selection!Head1.first, lCore))
      BY <1>2, <2>1, <2>2, <2>3, LooksFirst
    <3> QED BY <3>1 DEF IsLooking, IsOf, Same
  <2>7. ReadsRecords(t)
    BY <1>1, <1>4, <2>6, LooksAgain DEF Passing
  <2> QED BY <1>1, <2>2, <2>4, <2>6, <2>7, QuietGoes
<1> QED BY <1>3, <1>4 DEF Selection!SecondSnapshot

\* It tries the nodes again.
LEMMA SettleFits == ASSUME SelInv, SelectionGiven, Selection!Settle PROVE SelInv'
<1>1. lTasks # << >> /\ Selection!Head1.at = "settle" /\ Selection!Quiet
  BY DEF Selection!Settle, Selection!At
<1>2. Selection!Head1 \in Restorations /\ Selection!Head1.new \in Selected /\ lCore \in Snapshots
  BY <1>1, HeadIs DEF SelInv, SelTyped, Restorations
<1>3. CASE Selection!Finish
  BY <1>1, <1>3, QuietEnds
<1>4. CASE /\ Selection!IsCurrent(Selection!Head1)
           /\ Selection!Goto([Selection!Head1 EXCEPT !.at = "apply", !.first = <<lCore, lCore>>,
                              !.todo = {g \in Selection!ToActivate(Selection!Head1.sel,
                                  lCore) : Selection!Head1.done[g] # Selection!Head1.sel[g]}])
  <2> DEFINE todo == {g \in Selection!ToActivate(Selection!Head1.sel,
        lCore) : Selection!Head1.done[g] # Selection!Head1.sel[g]}
  <2>1. PICK t : t = Looking(Selection!Head1, <<lCore, lCore>>, todo, Selection!Head1.new)
    OBVIOUS
  <2>2. <<lCore, lCore>> \in Seq(Snapshots) /\ <<lCore, lCore>> # << >>
    BY <1>2
  <2>3. todo \in SUBSET SelectorGroups
    BY DEF Selection!ToActivate, SelectionGiven
  <2>4. Selection!Goto(t)
    <3>1. t = [Selection!Head1 EXCEPT !.at = "apply", !.first = <<lCore, lCore>>, !.todo = todo,
            !.new = Selection!Head1.new]
      BY <2>1 DEF Looking
    <3> HIDE DEF todo
    <3>2. t = [Selection!Head1 EXCEPT !.at = "apply", !.first = <<lCore, lCore>>, !.todo = todo]
      BY <1>2, <3>1 DEF Restorations
    <3> QED BY <1>4, <3>2 DEF todo
  <2> HIDE DEF todo
  <2>6. /\ t \in Restorations /\ t.at = "apply" /\ t.gen = Selection!Head1.gen /\ t.uid = Selection!Head1.uid /\
             t.sel = Selection!Head1.sel
        /\ t.first = <<lCore, lCore>> /\ t.new = Selection!Head1.new
    <3>1. IsLooking(t, Selection!Head1, <<lCore, lCore>>, Selection!Head1.new)
      BY <1>2, <2>1, <2>2, <2>3, LooksFirst
    <3> QED BY <3>1 DEF IsLooking, IsOf, Same
  <2>7. ReadsRecords(t)
    BY <1>1, <1>4, <2>6 DEF SelInv, HeadFits, ReadsRecords, Passing
  <2> QED BY <1>1, <2>2, <2>4, <2>6, <2>7, QuietGoes
<1> QED BY <1>3, <1>4 DEF Selection!Settle

\* A select has been answered, or has failed.
AfterSelect ==
  /\ lTasks' \in Seq(Restorations)
  /\ \A i \in 1..Len(lTasks') : lTasks'[i].gen <= lGeneration /\ (i # 1 => lTasks'[i].at = "wait")
  /\ (\E i \in 1..Len(lTasks') : lTasks'[i].gen = lGeneration) =>
       \E i \in 1..Len(lTasks) : Selection!IsCurrent(lTasks[i])
  /\ lTasks' # << >> =>
       \/ Selection!Head1'.at = "wait"
       \/ /\ Selection!Head1'.at = "apply" /\ Selection!Head1'.gen = Selection!Head1.gen /\
               Selection!Head1'.uid = Selection!Head1.uid /\ Selection!Head1'.sel = Selection!Head1.sel
          /\ Selection!Head1'.first = Selection!Head1.first /\ Selection!Head1'.new = Selection!Head1.new

\* A select has been answered or not: the core is on what was chosen.
LEMMA SelectEnds ==
  ASSUME SelInv, Selection!At("sent"), lGeneration' = lGeneration, Selection!Head1.group \in SelectorGroups,
         \/ Selection!Finish
         \/ Selection!Goto([Selection!Head1 EXCEPT !.at = "apply",
              !.done[Selection!Head1.group] = Selection!Head1.sel[Selection!Head1.group]])
         \/ Selection!Goto([Selection!Head1 EXCEPT !.at = "apply"])
  PROVE  AfterSelect
<1>1. lTasks # << >> /\ Selection!Head1 \in Restorations
  BY HeadIs DEF Selection!At
<1>2. CASE Selection!Finish
  BY <1>1, <1>2, HeadEnds DEF AfterSelect
<1>3. ASSUME NEW t \in Restorations, Selection!Goto(t), IsOf(t, Selection!Head1, "apply"), Same(t,
               Selection!Head1), t.first = Selection!Head1.first, t.new = Selection!Head1.new
      PROVE  AfterSelect
  BY <1>1, <1>3, HeadGoes DEF AfterSelect, IsOf, Same
<1>4. CASE Selection!Goto([Selection!Head1 EXCEPT !.at = "apply",
             !.done[Selection!Head1.group] = Selection!Head1.sel[Selection!Head1.group]])
  <2>1. PICK g \in SelectorGroups : g = Selection!Head1.group
    OBVIOUS
  <2>2. PICK n \in Choosable : n = Selection!Head1.sel[g]
    BY <1>1, <2>1 DEF Restorations, Selected
  <2>3. PICK done \in Selected : done = [Selection!Head1.done EXCEPT ![g] = n]
    BY <1>1, <2>1, <2>2 DEF Restorations, Selected
  <2>4. PICK t : t = SelectAnswered(Selection!Head1, done)
    OBVIOUS
  <2>5. IsAnswered(t, Selection!Head1)
    BY <1>1, <2>3, <2>4, Answers
  <2>6. Selection!Goto(t)
    BY <1>1, <1>4, <2>1, <2>2, <2>3, <2>4 DEF SelectAnswered
  <2> QED BY <1>3, <2>5, <2>6 DEF IsAnswered, IsOf
<1>5. CASE Selection!Goto([Selection!Head1 EXCEPT !.at = "apply"])
  <2>1. PICK t : t = [Selection!Head1 EXCEPT !.at = "apply"]
    OBVIOUS
  <2>2. IsOf(t, Selection!Head1, "apply") /\ Same(t, Selection!Head1) /\ t.first = Selection!Head1.first /\
          t.new = Selection!Head1.new
    BY <1>1, <2>1, GoesTo DEF Passing
  <2> QED BY <1>3, <1>5, <2>1, <2>2 DEF IsOf
<1> QED BY <1>2, <1>4, <1>5

\* The core's groups, when one is set to a node it has.
LEMMA NodeSet ==
  ASSUME lCore \in Snapshots, NEW g \in SelectorGroups, NEW n \in Choosable, lCore' = [lCore EXCEPT ![g].now = n]
  PROVE  /\ lCore' \in Snapshots /\ lCore'[g].now = n
         /\ \A h \in SelectorGroups \ {g} : lCore'[h] = lCore[h]
         /\ \A h \in SelectorGroups : \A m : Selection!Has(lCore', h, m) <=> Selection!Has(lCore, h, m)
<1>1. PICK v : v = [lCore[g] EXCEPT !.now = n]
  OBVIOUS
<1>2. lCore[g] \in CoreGroups
  BY DEF Snapshots
<1>3. v \in CoreGroups /\ v.now = n /\ v.all = lCore[g].all /\ v.there = lCore[g].there
  BY <1>1, <1>2 DEF CoreGroups
<1>4. lCore' = [lCore EXCEPT ![g] = v]
  BY <1>1
<1>5. lCore' \in Snapshots /\ lCore'[g] = v /\ \A h \in SelectorGroups \ {g} : lCore'[h] = lCore[h]
  BY <1>3, <1>4 DEF Snapshots
<1> QED BY <1>3, <1>5 DEF Selection!Has, Selection!Loaded

\* A select arrives, late or not.
LEMMA ArriveFits == ASSUME SelInv, SelectionGiven, Selection!Arrive PROVE SelInv'
<1>1. Selection!At("sent") /\ UNCHANGED <<lCurrent, lRecords, lPermit, lGeneration, lUser, lSwitch, lChosen, lBounds>>
  BY DEF Selection!Arrive
<1>2. lTasks # << >> /\ Selection!Head1 \in Restorations /\ Selection!Head1.at = "sent" /\
        Selection!Head1.first # << >>
  BY <1>1, HeadIs DEF Selection!At, Passing
<1>3. PICK g : g = Selection!Head1.group
  OBVIOUS
<1>4. \/ /\ Selection!Has(lCore, g, Selection!Head1.sel[g]) /\ lCore' = [lCore EXCEPT ![g].now = Selection!Head1.sel[g]]
         /\ lCrossed' = (lCrossed \/ Selection!Overlaps(g))
      \/ UNCHANGED <<lCore, lCrossed>>
  BY <1>3 DEF Selection!Arrive
<1>5. \/ Selection!Finish
      \/ Selection!Goto([Selection!Head1 EXCEPT !.at = "apply", !.done[Selection!Head1.group] = Selection!Head1.sel[Selection!Head1.group]])
      \/ Selection!Goto([Selection!Head1 EXCEPT !.at = "apply"])
  BY DEF Selection!Arrive
<1>6. SelTyped /\ lCrossed \in BOOLEAN /\ lCore \in Snapshots
  BY DEF SelInv, SelTyped
<1>7. Selection!Head1.group \in SelectorGroups
  BY <1>1 DEF SelInv, TasksFit
<1>8. AfterSelect
  BY <1>1, <1>5, <1>7, SelectEnds
<1>9. PICK n \in Choosable : n = Selection!Head1.sel[g]
  BY <1>2, <1>3, <1>7 DEF Restorations, Selected
<1>10. \/ /\ lCore' \in Snapshots /\ lCore'[g].now = n /\ \A h \in SelectorGroups \ {g} : lCore'[h] = lCore[h]
          /\ \A h \in SelectorGroups : \A m : Selection!Has(lCore', h, m) <=> Selection!Has(lCore, h, m)
          /\ lCrossed' = (lCrossed \/ Selection!Overlaps(g))
       \/ UNCHANGED <<lCore, lCrossed>>
  BY <1>3, <1>4, <1>6, <1>7, <1>9, NodeSet
<1>11. lCrossed' \in BOOLEAN /\ (lCrossed => lCrossed') /\ lCore' \in Snapshots
  BY <1>6, <1>10
<1>12. SelTyped'
  BY <1>1, <1>6, <1>8, <1>11 DEF SelTyped, AfterSelect
<1>13. TasksFit'
  BY <1>1, <1>2, <1>8 DEF SelInv, TasksFit, AfterSelect, Selection!At, Passing
<1>14. UserFits'
  BY <1>1, <1>11 DEF SelInv, UserFits
<1>15. HeadFits'
  <2> SUFFICES ASSUME lTasks' # << >>, Selection!Head1'.at # "wait",
        Selection!Head1'.gen = lGeneration PROVE ReadsRecords(Selection!Head1)'
    BY <1>1 DEF HeadFits, Selection!IsCurrent
  <2>1. Selection!Head1'.at = "apply" /\ Selection!Head1'.gen = Selection!Head1.gen /\
          Selection!Head1'.uid = Selection!Head1.uid /\ Selection!Head1'.sel = Selection!Head1.sel /\
              Selection!Head1'.new = Selection!Head1.new
    BY <1>8 DEF AfterSelect
  <2>2. ReadsRecords(Selection!Head1)
    BY <1>2, <2>1 DEF SelInv, HeadFits, Selection!IsCurrent
  <2> QED BY <1>1, <1>2, <1>11, <2>1, <2>2 DEF ReadsRecords, Superseding, Passing
<1>16. ChosenFits'
  <2> SUFFICES ASSUME ~lCrossed' PROVE ChosenFits'
    BY DEF ChosenFits
  <2>1. ~lCrossed /\ (lCore' # lCore => ~Selection!Overlaps(g))
    BY <1>6, <1>10, <1>11
  <2>2. lCore' # lCore => lChosen[g] = NoProxyNode
    <3>1. lChosen[g] # NoProxyNode => Pending(g)
      BY <1>1, <1>3, <2>1 DEF SelInv, ChosenFits
    <3>2. Pending(g) => Selection!Overlaps(g)
      BY DEF Pending, Selection!Overlaps, SelInv, SelTyped, UserAt
    <3> QED BY <2>1, <3>1, <3>2
  <2>3. \A h \in SelectorGroups : lChosen'[h] # NoProxyNode => lCore'[h].now = lChosen'[h] /\
          Selection!Has(lCore', h, lChosen'[h])
    BY <1>1, <1>3, <1>7, <1>10, <2>1, <2>2 DEF SelInv, ChosenFits
  <2>4. Restored' => Restored
    BY <1>1, <1>8 DEF Restored, Selection!IsCurrent, AfterSelect
  <2>5. ~Selection!At("sent")'
    BY <1>8 DEF Selection!At, AfterSelect
  <2> QED BY <1>1, <2>1, <2>3, <2>4, <2>5 DEF SelInv, ChosenFits, Pending, Recording
<1> QED BY <1>12, <1>13, <1>14, <1>15, <1>16 DEF SelInv

\* The restoration enters to repair the records.
LEMMA EnterPersistFits == ASSUME SelInv, Selection!EnterPersist PROVE SelInv'
<1>1. lTasks # << >> /\ Selection!Head1.at = "persist" /\ UNCHANGED <<lCurrent, lRecords, lGeneration, lCore,
        lUser, lSwitch, lChosen, lCrossed, lBounds>>
  BY DEF Selection!EnterPersist, Selection!At
<1>2. Selection!Head1 \in Restorations /\ Selection!Head1.first # << >>
  BY <1>1, HeadIs DEF Passing
<1>3. CASE Selection!Finish /\ UNCHANGED lPermit
  BY <1>1, <1>3, QuietEnds DEF Selection!Quiet
<1>4. CASE Selection!IsCurrent(Selection!Head1) /\ lPermit = "nobody" /\ lPermit' = "task" /\
             Selection!Goto([Selection!Head1 EXCEPT !.at = "write"])
  <2>1. PICK t : t = [Selection!Head1 EXCEPT !.at = "write"]
    OBVIOUS
  <2>2. /\ t \in Restorations /\ t.at = "write" /\ t.gen = Selection!Head1.gen /\ t.uid = Selection!Head1.uid /\
             t.sel = Selection!Head1.sel
        /\ t.first = Selection!Head1.first /\ t.new = Selection!Head1.new
    BY <1>2, <2>1, GoesTo DEF Passing, IsOf, Same
  <2>3. /\ lTasks' \in Seq(Restorations) /\ lTasks' # << >> /\ Selection!Head1' = t
        /\ \A i \in 1..Len(lTasks') : lTasks'[i].gen <= lGeneration /\ (i # 1 => lTasks'[i].at = "wait")
        /\ (\E i \in 1..Len(lTasks') : lTasks'[i].gen = lGeneration) =>
             \E i \in 1..Len(lTasks) : Selection!IsCurrent(lTasks[i])
    <3>1. Selection!Goto(t)
      BY <1>4, <2>1
    <3> QED BY <1>1, <2>2, <3>1, HeadGoes
  <2>4. SelTyped'
    BY <1>1, <1>4, <2>3 DEF SelInv, SelTyped
  <2>5. TasksFit'
    BY <1>1, <1>2, <1>4, <2>2, <2>3 DEF SelInv, TasksFit, Selection!At
  <2>6. UserFits'
    BY <1>1 DEF SelInv, UserFits
  <2>7. HeadFits'
    <3>1. ReadsRecords(Selection!Head1)
      BY <1>1, <1>4 DEF SelInv, HeadFits
    <3> QED BY <1>1, <2>2, <2>3, <3>1 DEF HeadFits, ReadsRecords, Superseding, Passing
  <2>8. ChosenFits'
    <3>1. Restored' => Restored
      BY <1>1, <2>3 DEF Restored, Selection!IsCurrent
    <3>2. ~Selection!At("sent")'
      BY <2>2, <2>3 DEF Selection!At
    <3> QED BY <1>1, <3>1, <3>2 DEF SelInv, ChosenFits, Pending, Recording, Selection!Has, Selection!Loaded
  <2> QED BY <2>4, <2>5, <2>6, <2>7, <2>8 DEF SelInv
<1> QED BY <1>3, <1>4 DEF Selection!EnterPersist

\* It repairs them, if they are still those it has read.
LEMMA PersistFits == ASSUME SelInv, SelectionGiven, Selection!Persist PROVE SelInv'
<1>1. lTasks # << >> /\ Selection!Head1.at = "write" /\ lPermit' = "nobody" /\ Selection!Finish
      /\ UNCHANGED <<lCurrent, lGeneration, lCore, lUser, lSwitch, lChosen, lCrossed, lBounds>>
      /\ lRecords' = IF Selection!StillTheirs(Selection!Head1) THEN [lRecords EXCEPT ![lCurrent] = Selection!Head1.new] ELSE lRecords
  BY DEF Selection!Persist, Selection!At
<1>2. Selection!Head1 \in Restorations /\ Selection!Head1.new \in Selected /\ 1 \in 1..Len(lTasks) /\
        Selection!Head1 = lTasks[1]
  BY <1>1, HeadIs DEF Restorations
<1>3. lPermit = "task" /\ lUser.at # "commit"
  BY <1>1 DEF SelInv, TasksFit, Selection!At
<1>4. lCurrent \in NodeProfiles /\ lRecords \in [NodeProfiles -> Selected]
  BY DEF SelInv, SelTyped
<1>5. lRecords' \in [NodeProfiles -> Selected] /\ (lRecords' = lRecords \/
        (Selection!StillTheirs(Selection!Head1) /\ lRecords'[lCurrent] = Selection!Head1.new))
  BY <1>1, <1>2, <1>4
<1>6. /\ lTasks' \in Seq(Restorations)
      /\ \A i \in 1..Len(lTasks') : lTasks'[i].gen <= lGeneration /\ lTasks'[i].at = "wait"
      /\ lTasks' # << >> => Selection!Head1'.at = "wait"
      /\ (\E i \in 1..Len(lTasks') : lTasks'[i].gen = lGeneration) =>
           \E i \in 1..Len(lTasks) : Selection!IsCurrent(lTasks[i])
  BY <1>1, HeadEnds
<1>7. SelTyped'
  BY <1>1, <1>5, <1>6 DEF SelInv, SelTyped
<1>8. TasksFit'
  BY <1>1, <1>3, <1>6 DEF SelInv, TasksFit, Selection!At, Passing
<1>9. UserFits'
  BY <1>1 DEF SelInv, UserFits
<1>10. HeadFits'
  BY <1>6 DEF HeadFits
<1>11. ChosenFits'
  <2> SUFFICES ASSUME ~lCrossed PROVE ChosenFits'
    BY <1>1 DEF ChosenFits
  <2>1. Restored' => Restored
    BY <1>1, <1>6 DEF Restored, Selection!IsCurrent
  <2>2. ~Selection!At("sent")'
    BY <1>6 DEF Selection!At
  <2>3. \A g \in Selectable : lChosen[g] # NoProxyNode => lRecords'[lCurrent][g] = lChosen[g] \/ Recording(g)
    <3> SUFFICES ASSUME NEW g \in Selectable, lChosen[g] # NoProxyNode,
          ~Recording(g) PROVE lRecords'[lCurrent][g] = lChosen[g]
      OBVIOUS
    <3>1. lRecords[lCurrent][g] = lChosen[g] /\ g \in SelectorGroups
      BY DEF SelInv, ChosenFits, SelectionGiven
    <3>2. CASE lRecords' = lRecords
      BY <3>1, <3>2
    <3>3. CASE Selection!StillTheirs(Selection!Head1) /\ lRecords'[lCurrent] = Selection!Head1.new
      <4>1. Selection!IsCurrent(Selection!Head1) /\ Selection!Head1.sel = lRecords[lCurrent]
        BY <3>3 DEF Selection!StillTheirs
      <4>2. Pending(g)
        BY <1>2, <3>1, <4>1 DEF SelInv, ChosenFits, Restored
      <4>3. Superseding(g) /\ lChosen[g] = lUser.node
        BY <1>3, <4>2 DEF Pending, Recording, Superseding, SelInv, SelTyped, UserAt, UserFits
      <4>4. ReadsRecords(Selection!Head1)
        BY <1>1, <4>1 DEF SelInv, HeadFits
      <4>5. Selection!Head1.new[g] = lUser.node
        BY <1>1, <3>1, <4>1, <4>3, <4>4 DEF ReadsRecords, Passing
      <4> QED BY <3>3, <4>3, <4>5
    <3> QED BY <1>5, <3>2, <3>3
  <2> QED BY <1>1, <2>1, <2>2, <2>3 DEF SelInv, ChosenFits, Pending, Recording, Selection!Has, Selection!Loaded
<1> QED BY <1>7, <1>8, <1>9, <1>10, <1>11 DEF SelInv

\* Where the user is not choosing, nothing that was chosen is left while the core is restored.
LEMMA NoneChosen ==
  ASSUME SelInv, lUser.at = "idle", ~lCrossed
  PROVE  /\ Restored => \A g \in SelectorGroups : lChosen[g] = NoProxyNode
         /\ Selection!At("sent") => lChosen[Selection!Head1.group] = NoProxyNode
         /\ \A g \in Selectable : lChosen[g] # NoProxyNode => lRecords[lCurrent][g] = lChosen[g]
BY DEF SelInv, ChosenFits, Pending, Recording

\* The user begins.
LEMMA UserBegins ==
  ASSUME SelInv, lUser.at = "idle", NEW g \in SelectorGroups \cap Selectable, NEW n \in Choosable,
         lChosen' = [lChosen EXCEPT ![g] = n], lUser' = [at |-> "record", group |-> g, node |-> n],
         UNCHANGED <<lCurrent, lRecords, lPermit, lGeneration, lTasks, lSwitch>>,
         lCrossed' \in BOOLEAN, lCrossed => lCrossed', Selection!At("sent") /\ Selection!Head1.group = g /\
             n # NoProxyNode => lCrossed',
         lCore' \in Snapshots, \A h \in SelectorGroups \ {g} : lCore'[h] = lCore[h],
         n # NoProxyNode => lCore'[g].now = n /\ Selection!Has(lCore', g, n)
  PROVE  SelInv'
<1>1. lChosen' \in Selected /\ lChosen'[g] = n /\ \A h \in SelectorGroups \ {g} : lChosen'[h] = lChosen[h]
  BY DEF SelInv, SelTyped, Selected
<1>2. lUser' \in [at : UserAt, group : SelectorGroups \cup {Selection!None}, node : Choosable] /\
        lUser'.at = "record" /\ lUser'.group = g
      /\ lUser'.node = n
  BY DEF UserAt
<1>3. SelTyped'
  BY <1>1, <1>2 DEF SelInv, SelTyped
<1>4. TasksFit'
  BY <1>2 DEF SelInv, TasksFit, Selection!At, Selection!Head1
<1>5. UserFits'
  BY <1>1, <1>2 DEF UserFits
<1>6. HeadFits'
  BY <1>2 DEF SelInv, HeadFits, ReadsRecords, Superseding, Selection!IsCurrent, Selection!Head1
<1>7. ChosenFits'
  <2> SUFFICES ASSUME ~lCrossed' PROVE ChosenFits'
    BY DEF ChosenFits
  <2>1. ~lCrossed
    OBVIOUS
  <2>2. \A h \in SelectorGroups : lChosen'[h] # NoProxyNode => lCore'[h].now = lChosen'[h] /\
          Selection!Has(lCore', h, lChosen'[h])
    BY <1>1, <2>1 DEF SelInv, ChosenFits, Selection!Has, Selection!Loaded
  <2>3. Restored' => \A h \in SelectorGroups : lChosen'[h] # NoProxyNode => Pending(h)'
    BY <1>1, <1>2, <2>1, NoneChosen DEF Restored, Selection!IsCurrent, Pending
  <2>4. Selection!At("sent")' => (lChosen'[Selection!Head1'.group] # NoProxyNode => Pending(Selection!Head1.group)')
    <3> SUFFICES ASSUME Selection!At("sent"), lChosen'[Selection!Head1.group] # NoProxyNode PROVE Pending(Selection!Head1.group)'
      BY DEF Selection!At, Selection!Head1
    <3>1. Selection!Head1.group \in SelectorGroups /\ lChosen[Selection!Head1.group] = NoProxyNode
      BY <2>1, NoneChosen DEF SelInv, TasksFit
    <3>2. Selection!Head1.group = g
      BY <1>1, <3>1
    <3> QED BY <1>2, <3>2 DEF Pending, Selection!Head1
  <2>5. \A h \in Selectable : lChosen'[h] # NoProxyNode => lRecords'[lCurrent'][h] = lChosen'[h] \/ Recording(h)'
    <3> SUFFICES ASSUME NEW h \in Selectable, lChosen'[h] # NoProxyNode,
          h # g PROVE lRecords[lCurrent][h] = lChosen'[h]
      BY <1>2 DEF Recording
    <3>1. lChosen'[h] = lChosen[h]
      BY DEF SelInv, SelTyped, Selected
    <3> QED BY <2>1, <3>1, NoneChosen
  <2> QED BY <2>2, <2>3, <2>4, <2>5 DEF ChosenFits
<1> QED BY <1>3, <1>4, <1>5, <1>6, <1>7 DEF SelInv

\* The user chooses a node.
LEMMA UserChoosesFits ==
  ASSUME SelInv, SelectionGiven, NEW g \in SelectorGroups, NEW n \in ProxyNodes, Selection!Choose(g, n)
  PROVE  SelInv'
<1>1. lUser.at = "idle" /\ g \in Selectable /\ Selection!Has(lCore, g, n) /\ lCore' = [lCore EXCEPT ![g].now = n]
      /\ lChosen' = [lChosen EXCEPT ![g] = n] /\ lUser' = [at |-> "record", group |-> g, node |-> n]
      /\ lCrossed' = (lCrossed \/ (Selection!At("sent") /\ Selection!Head1.group = g))
      /\ UNCHANGED <<lCurrent, lRecords, lPermit, lGeneration, lTasks, lSwitch>>
  BY DEF Selection!Choose
<1>2. lCore \in Snapshots /\ n \in Choosable
  BY DEF SelInv, SelTyped, Choosable
<1>3. /\ lCore' \in Snapshots /\ lCore'[g].now = n /\ \A h \in SelectorGroups \ {g} : lCore'[h] = lCore[h]
      /\ \A h \in SelectorGroups : \A m : Selection!Has(lCore', h, m) <=> Selection!Has(lCore, h, m)
  BY <1>1, <1>2, NodeSet
<1>4. lCrossed' \in BOOLEAN
  BY <1>1
<1> QED BY <1>1, <1>2, <1>3, <1>4, UserBegins

\* The user leaves the choice to the group.
LEMMA ForgetFits == ASSUME SelInv, SelectionGiven, NEW g \in SelectorGroups, Selection!Forget(g) PROVE SelInv'
<1>1. lUser.at = "idle" /\ g \in Selectable /\ lChosen' = [lChosen EXCEPT ![g] = NoProxyNode]
      /\ lUser' = [at |-> "record", group |-> g, node |-> NoProxyNode]
      /\ UNCHANGED <<lCurrent, lRecords, lPermit, lGeneration, lTasks, lCore, lSwitch, lCrossed>>
  BY DEF Selection!Forget
<1>2. lCore' \in Snapshots /\ NoProxyNode \in Choosable /\ lCrossed' \in BOOLEAN
  BY <1>1 DEF SelInv, SelTyped, Choosable
<1> QED BY <1>1, <1>2, UserBegins

\* The user goes on.
LEMMA UserGoes ==
  ASSUME SelInv, NEW at \in UserAt, Selection!UserStep(at)
  PROVE  /\ lUser' \in [at : UserAt, group : SelectorGroups \cup {Selection!None}, node : Choosable]
         /\ lUser'.at = at /\ lUser'.group = lUser.group /\ lUser'.node = lUser.node
BY DEF SelInv, SelTyped, Selection!UserStep

\* The user enters to record the choice.
LEMMA EnterRecordFits == ASSUME SelInv, Selection!EnterRecord PROVE SelInv'
<1>1. lUser.at = "record" /\ lPermit = "nobody" /\ lPermit' = "user" /\ Selection!UserStep("commit")
      /\ UNCHANGED <<lCurrent, lRecords, lGeneration, lTasks, lCore, lSwitch, lChosen, lCrossed, lBounds>>
  BY DEF Selection!EnterRecord
<1>2. /\ lUser' \in [at : UserAt, group : SelectorGroups \cup {Selection!None}, node : Choosable]
      /\ lUser'.at = "commit" /\ lUser'.group = lUser.group /\ lUser'.node = lUser.node
  BY <1>1, UserGoes DEF UserAt
<1>3. SelTyped'
  BY <1>1, <1>2 DEF SelInv, SelTyped
<1>4. TasksFit'
  BY <1>1, <1>2 DEF SelInv, TasksFit, Selection!At, Selection!Head1
<1>5. UserFits'
  BY <1>1, <1>2 DEF SelInv, UserFits
<1>6. HeadFits'
  BY <1>1, <1>2 DEF SelInv, HeadFits, ReadsRecords, Superseding, Selection!IsCurrent, Selection!Head1
<1>7. ChosenFits'
  <2>1. \A g : (Pending(g) => Pending(g)') /\ (Recording(g) => Recording(g)')
    BY <1>1, <1>2 DEF Pending, Recording
  <2> QED BY <1>1, <2>1 DEF SelInv, ChosenFits, Restored, Selection!IsCurrent, Selection!At, Selection!Head1,
     Selection!Has, Selection!Loaded
<1> QED BY <1>3, <1>4, <1>5, <1>6, <1>7 DEF SelInv

\* The choice is recorded.
LEMMA RecordFits == ASSUME SelInv, SelectionGiven, Selection!Record PROVE SelInv'
<1>1. lUser.at = "commit" /\ lPermit' = "nobody"
      /\ lCrossed' = (lCrossed \/ lSwitch # Selection!None \/ (lRecords[lCurrent][lUser.group] = lUser.node /\
           lTasks # << >>))
      /\ UNCHANGED <<lCurrent, lGeneration, lTasks, lCore, lSwitch, lChosen, lBounds>>
  BY DEF Selection!Record
<1>2. lUser.group \in Selectable /\ lUser.group \in SelectorGroups /\
        lChosen[lUser.group] \in {NoProxyNode, lUser.node}
      /\ lUser.node \in Choosable /\ lCurrent \in NodeProfiles /\ lRecords \in [NodeProfiles -> Selected]
      /\ lPermit = "user" /\ lCrossed' \in BOOLEAN /\ (lCrossed => lCrossed')
  BY <1>1 DEF SelInv, SelTyped, UserFits, SelectionGiven, TasksFit
<1>3. \/ lRecords[lCurrent][lUser.group] = lUser.node /\ lUser' = Selection!Idle /\ UNCHANGED lRecords
      \/ /\ lRecords[lCurrent][lUser.group] # lUser.node /\ Selection!UserStep("supersede")
         /\ lRecords' = [lRecords EXCEPT ![lCurrent][lUser.group] = lUser.node]
  BY DEF Selection!Record
<1>4. CASE lRecords[lCurrent][lUser.group] = lUser.node /\ lUser' = Selection!Idle /\ UNCHANGED lRecords
  <2>1. lUser' \in [at : UserAt, group : SelectorGroups \cup {Selection!None}, node : Choosable] /\ lUser'.at = "idle"
    BY <1>4 DEF Selection!Idle, UserAt, Choosable
  <2>2. SelTyped'
    BY <1>1, <1>2, <1>4, <2>1 DEF SelInv, SelTyped
  <2>3. TasksFit'
    BY <1>1, <1>2, <2>1 DEF SelInv, TasksFit, Selection!At, Selection!Head1
  <2>4. UserFits'
    BY <1>4, <2>1 DEF UserFits, Selection!Idle
  <2>5. HeadFits'
    BY <1>1, <1>2, <1>4, <2>1 DEF SelInv, HeadFits, ReadsRecords, Superseding, Selection!IsCurrent, Selection!Head1
  <2>6. ChosenFits'
    <3> SUFFICES ASSUME ~lCrossed' PROVE ChosenFits'
      BY DEF ChosenFits
    <3>1. ~lCrossed /\ lSwitch = Selection!None /\ lTasks = << >>
      BY <1>1, <1>4
    <3>2. ~Restored' /\ ~Selection!At("sent")'
      BY <1>1, <3>1 DEF Restored, Selection!At
    <3>3. \A g \in Selectable : lChosen[g] # NoProxyNode => lRecords[lCurrent][g] = lChosen[g]
      BY <1>2, <1>4, <3>1 DEF SelInv, ChosenFits, Recording
    <3> QED BY <1>1, <1>4, <3>1, <3>2, <3>3 DEF SelInv, ChosenFits, Selection!Has, Selection!Loaded
  <2> QED BY <2>2, <2>3, <2>4, <2>5, <2>6 DEF SelInv
<1>5. CASE /\ lRecords[lCurrent][lUser.group] # lUser.node /\ Selection!UserStep("supersede")
           /\ lRecords' = [lRecords EXCEPT ![lCurrent][lUser.group] = lUser.node]
  <2>1. /\ lUser' \in [at : UserAt, group : SelectorGroups \cup {Selection!None}, node : Choosable]
        /\ lUser'.at = "supersede" /\ lUser'.group = lUser.group /\ lUser'.node = lUser.node
    BY <1>5, UserGoes DEF UserAt
  <2>2. /\ lRecords' \in [NodeProfiles -> Selected] /\ lRecords'[lCurrent][lUser.group] = lUser.node
        /\ \A g \in SelectorGroups \ {lUser.group} : lRecords'[lCurrent][g] = lRecords[lCurrent][g]
    <3>1. PICK r \in Selected : r = [lRecords[lCurrent] EXCEPT ![lUser.group] = lUser.node]
      BY <1>2 DEF Selected
    <3>2. r[lUser.group] = lUser.node /\ \A g \in SelectorGroups \ {lUser.group} : r[g] = lRecords[lCurrent][g]
      BY <1>2, <3>1 DEF Selected
    <3>3. lRecords' = [lRecords EXCEPT ![lCurrent] = r]
      BY <1>5, <3>1
    <3> QED BY <1>2, <3>2, <3>3
  <2>3. SelTyped'
    BY <1>1, <1>2, <2>1, <2>2 DEF SelInv, SelTyped
  <2>4. TasksFit'
    BY <1>1, <1>2, <2>1 DEF SelInv, TasksFit, Selection!At, Selection!Head1
  <2>5. UserFits'
    BY <1>1, <1>2, <2>1 DEF SelInv, UserFits
  <2>6. HeadFits'
    <3> SUFFICES ASSUME lTasks # << >>, Selection!Head1.at # "wait",
          Selection!IsCurrent(Selection!Head1) PROVE ReadsRecords(Selection!Head1)'
      BY <1>1 DEF HeadFits, Selection!IsCurrent, Selection!Head1
    <3>1. ReadsRecords(Selection!Head1) /\ Selection!Head1' = Selection!Head1
      BY <1>1 DEF SelInv, HeadFits, Selection!Head1
    <3>2. Selection!Head1.uid = lCurrent /\ \A g \in SelectorGroups : Selection!Head1.sel[g] = lRecords[lCurrent][g]
      BY <1>1, <3>1 DEF ReadsRecords, Superseding
    <3>3. \A g \in SelectorGroups : Superseding(g)' <=> g = lUser.group
      BY <2>1 DEF Superseding
    <3>4. \A g \in SelectorGroups : Selection!Head1.sel[g] = lRecords'[lCurrent][g] \/ Superseding(g)'
      BY <2>2, <3>2, <3>3
    <3>5. \A g \in SelectorGroups : Superseding(g)' => Selection!Head1.sel[g] # lUser.node
      BY <1>5, <3>2, <3>3
    <3> QED BY <1>1, <2>1, <3>1, <3>2, <3>4, <3>5 DEF ReadsRecords
  <2>7. ChosenFits'
    <3> SUFFICES ASSUME ~lCrossed' PROVE ChosenFits'
      BY DEF ChosenFits
    <3>1. ~lCrossed
      BY <1>2
    <3>2. \A g : Pending(g) => Pending(g)'
      BY <2>1 DEF Pending
    <3>3. \A g \in Selectable : lChosen[g] # NoProxyNode => lRecords'[lCurrent][g] = lChosen[g]
      <4> SUFFICES ASSUME NEW g \in Selectable, lChosen[g] # NoProxyNode PROVE lRecords'[lCurrent][g] = lChosen[g]
        OBVIOUS
      <4>1. CASE g = lUser.group
        BY <1>2, <2>2, <4>1
      <4>2. CASE g # lUser.group
        BY <2>2, <3>1, <4>2 DEF SelInv, ChosenFits, Recording, SelectionGiven
      <4> QED BY <4>1, <4>2
    <3> QED BY <1>1, <3>1, <3>2, <3>3 DEF SelInv, ChosenFits, Restored, Selection!IsCurrent, Selection!At,
       Selection!Head1, Selection!Has, Selection!Loaded
  <2> QED BY <2>3, <2>4, <2>5, <2>6, <2>7 DEF SelInv
<1> QED BY <1>3, <1>4, <1>5

\* The restoration under way is superseded.
LEMMA SupersedeFits == ASSUME SelInv, SelectionGiven, Selection!Supersede PROVE SelInv'
<1>1. lUser.at = "supersede" /\ lUser' = Selection!Idle /\ lGeneration' = lGeneration + 1
      /\ lCrossed' = (lCrossed \/ (Selection!At("sent") /\ Selection!Head1.group = lUser.group))
      /\ UNCHANGED <<lCurrent, lRecords, lPermit, lTasks, lCore, lSwitch, lChosen, lBounds>>
  BY DEF Selection!Supersede, Selection!Superseded
<1>2. lUser' \in [at : UserAt, group : SelectorGroups \cup {Selection!None}, node : Choosable] /\ lUser'.at = "idle"
  BY <1>1 DEF Selection!Idle, UserAt, Choosable
<1>3. lGeneration \in Nat /\ lGeneration' \in Nat /\ lCrossed' \in BOOLEAN /\ (lCrossed => lCrossed') /\
        lTasks \in Seq(Restorations)
  BY <1>1 DEF SelInv, SelTyped
<1>4. \A i \in 1..Len(lTasks) : lTasks[i].gen \in Nat /\ lTasks[i].gen <= lGeneration
  <2>1. \A i \in 1..Len(lTasks) : lTasks[i] \in Restorations
    BY <1>3
  <2> QED BY <2>1 DEF SelInv, TasksFit, Restorations
<1>5. \A i \in 1..Len(lTasks) : lTasks[i].gen <= lGeneration' /\ lTasks[i].gen # lGeneration'
  BY <1>1, <1>3, <1>4
<1>6. SelTyped'
  BY <1>1, <1>2, <1>3 DEF SelInv, SelTyped
<1>7. TasksFit'
  BY <1>1, <1>2, <1>5 DEF SelInv, TasksFit, Selection!At, Selection!Head1
<1>8. UserFits'
  BY <1>1, <1>2 DEF UserFits, Selection!Idle
<1>9. HeadFits'
  <2>1. lTasks # << >> => 1 \in 1..Len(lTasks)
    BY <1>3
  <2> QED BY <1>1, <1>5, <2>1 DEF HeadFits, Selection!IsCurrent, Selection!Head1
<1>10. ChosenFits'
  <2> SUFFICES ASSUME ~lCrossed' PROVE ChosenFits'
    BY DEF ChosenFits
  <2>1. ~lCrossed /\ lSwitch = Selection!None
    BY <1>1, <1>3 DEF SelInv, UserFits
  <2>2. ~Restored'
    BY <1>1, <1>5, <2>1 DEF Restored, Selection!IsCurrent
  <2>3. Selection!At("sent")' => ~(lChosen'[Selection!Head1'.group] # NoProxyNode)
    BY <1>1, <2>1 DEF SelInv, ChosenFits, Selection!At, Selection!Head1, Pending
  <2>4. \A g \in Selectable : lChosen[g] # NoProxyNode => lRecords[lCurrent][g] = lChosen[g]
    BY <1>1, <2>1 DEF SelInv, ChosenFits, Recording
  <2> QED BY <1>1, <2>1, <2>2, <2>3, <2>4 DEF SelInv, ChosenFits, Selection!Has, Selection!Loaded
<1> QED BY <1>6, <1>7, <1>8, <1>9, <1>10 DEF SelInv

----------------------------------------------------------------------------

\* A group of the core changes.
LEMMA CoreChangesFits == ASSUME SelInv, NEW g \in SelectorGroups, Selection!CoreChanges(g) PROVE SelInv'
<1>1. UNCHANGED <<lCurrent, lRecords, lPermit, lGeneration, lTasks, lUser, lSwitch, lCrossed>>
      /\ lChosen' = [lChosen EXCEPT ![g] = IF lCore'[g].now = lChosen[g] THEN lChosen[g] ELSE NoProxyNode]
  BY DEF Selection!CoreChanges
<1>2. PICK all \in SUBSET ProxyNodes, now \in ProxyNodes : now \in all /\ all # {} /\
             lCore' = [lCore EXCEPT ![g] = Selection!Group(all, now)]
  BY DEF Selection!CoreChanges
<1>3. lCore \in Snapshots /\ lChosen \in Selected /\ NoProxyNode \in Choosable
  BY DEF SelInv, SelTyped, Choosable
<1>4. Selection!Group(all, now) \in CoreGroups /\ Selection!Group(all, now).now = now /\
        Selection!Group(all, now).all = all /\ Selection!Group(all, now).there = TRUE
  BY <1>2 DEF Selection!Group, CoreGroups, Choosable
<1>5. lCore' \in Snapshots /\ lCore'[g] = Selection!Group(all, now) /\
        \A h \in SelectorGroups \ {g} : lCore'[h] = lCore[h]
  BY <1>2, <1>3, <1>4 DEF Snapshots
<1>6. lChosen' \in Selected /\ (lChosen'[g] = NoProxyNode \/ (lChosen'[g] = lChosen[g] /\ lChosen[g] = now))
      /\ \A h \in SelectorGroups \ {g} : lChosen'[h] = lChosen[h]
  BY <1>1, <1>3, <1>4, <1>5 DEF Selected
<1>7. \A h \in SelectorGroups : lChosen'[h] # NoProxyNode => lChosen'[h] = lChosen[h]
  BY <1>6
<1>8. SelTyped'
  BY <1>1, <1>5, <1>6 DEF SelInv, SelTyped
<1>9. TasksFit'
  BY <1>1 DEF SelInv, TasksFit, Selection!At, Selection!Head1
<1>10. UserFits'
  <2>1. ASSUME lUser.at # "idle" PROVE lChosen'[lUser.group] \in {NoProxyNode, lUser.node}
    <3>1. lChosen[lUser.group] \in {NoProxyNode, lUser.node}
      BY <2>1 DEF SelInv, UserFits
    <3> QED BY <1>1, <1>3, <1>6, <3>1 DEF Selected
  <2> QED BY <1>1, <2>1 DEF SelInv, UserFits
<1>11. HeadFits'
  <2>1. ReadsRecords(Selection!Head1) => ReadsRecords(Selection!Head1)'
    BY <1>1, <1>7 DEF ReadsRecords, Superseding, Selection!Head1
  <2> QED BY <1>1, <2>1 DEF SelInv, HeadFits, Selection!IsCurrent, Selection!Head1
<1>12. ChosenFits'
  <2> SUFFICES ASSUME ~lCrossed PROVE ChosenFits'
    BY <1>1 DEF ChosenFits
  <2>1. \A h \in SelectorGroups : lChosen'[h] # NoProxyNode => lCore'[h].now = lChosen'[h] /\
          Selection!Has(lCore', h, lChosen'[h])
    <3> SUFFICES ASSUME NEW h \in SelectorGroups, lChosen'[h] # NoProxyNode
                 PROVE  lCore'[h].now = lChosen'[h] /\ Selection!Has(lCore', h, lChosen'[h])
      OBVIOUS
    <3>1. CASE h = g
      BY <1>2, <1>4, <1>5, <1>6, <3>1 DEF Selection!Has, Selection!Loaded
    <3>2. CASE h # g
      BY <1>5, <1>6, <3>2 DEF SelInv, ChosenFits, Selection!Has, Selection!Loaded
    <3> QED BY <3>1, <3>2
  <2>2. Selection!At("sent") => Selection!Head1.group \in SelectorGroups
    BY DEF SelInv, TasksFit
  <2>3. \A h \in Selectable : lChosen'[h] # NoProxyNode => lChosen'[h] = lChosen[h]
    BY <1>1, <1>3, <1>7 DEF Selected
  <2> QED BY <1>1, <1>7, <2>1, <2>2, <2>3 DEF SelInv, ChosenFits, Restored, Selection!IsCurrent, Selection!At,
     Selection!Head1, Pending, Recording
<1> QED BY <1>8, <1>9, <1>10, <1>11, <1>12 DEF SelInv

\* A core that starts has chosen nothing.
LEMMA NewCoreIs == ASSUME Selection!NewCore PROVE lCore' \in Snapshots
<1>1. PICK c \in [SelectorGroups -> Selection!Fresh] : lCore' = c
  BY DEF Selection!NewCore
<1>2. Selection!Fresh \subseteq CoreGroups
  <2>1. Selection!Absent \in CoreGroups
    BY DEF Selection!Absent, CoreGroups, Choosable
  <2>2. \A all \in SUBSET ProxyNodes : \A n \in Choosable : Selection!Group(all, n) \in CoreGroups
    BY DEF Selection!Group, CoreGroups
  <2> QED BY <2>1, <2>2 DEF Selection!Fresh, Choosable
<1> QED BY <1>1, <1>2 DEF Snapshots

\* Nothing recorded is a selection.
LEMMA NoRecordsIs == Selection!NoRecords \in Selected /\ \A g \in SelectorGroups : Selection!NoRecords[g] = NoProxyNode
BY DEF Selection!NoRecords, Selected, Choosable

\* A restoration is begun; it is the latest.
LEMMA BegunIs ==
  ASSUME SelInv, NEW r \in {"keep", "prune"}, Selection!Activate(r)
  PROVE  /\ lGeneration' \in Nat /\ lGeneration < lGeneration'
         /\ lTasks' \in Seq(Restorations) /\ lTasks' # << >> /\ (lTasks # << >> => Selection!Head1' = Selection!Head1)
         /\ lTasks = << >> => Selection!Head1'.at = "wait"
         /\ \A i \in 1..Len(lTasks') : lTasks'[i].gen <= lGeneration' /\ (i # 1 => lTasks'[i].at = "wait")
         /\ lTasks # << >> => Selection!Head1.gen # lGeneration'
<1>1. lGeneration \in Nat /\ lTasks \in Seq(Restorations) /\ lGeneration' = lGeneration + 1 /\
        lTasks' = Append(lTasks, Selection!Task(r))
  BY DEF SelInv, SelTyped, Selection!Activate
<1>2. PICK t : t = Selection!Task(r)
  OBVIOUS
<1>3. t \in Restorations /\ t.gen = lGeneration + 1 /\ t.at = "wait"
  <2>1. Selection!NoRecords \in Selected /\ << >> \in Seq(Snapshots) /\ lGeneration + 1 \in Nat
    BY <1>1, NoRecordsIs
  <2> QED BY <1>2, <2>1 DEF Selection!Task, Restorations
<1>4. /\ lTasks' \in Seq(Restorations) /\ lTasks' # << >> /\ Len(lTasks') = Len(lTasks) + 1 /\
           lTasks'[Len(lTasks) + 1] = t
      /\ \A i \in 1..Len(lTasks) : lTasks'[i] = lTasks[i] /\ i \in 1..Len(lTasks')
  BY <1>1, <1>2, <1>3, OneMore
<1>5. \A i \in 1..Len(lTasks) : lTasks[i].gen \in Nat /\ lTasks[i].gen <= lGeneration /\
        (i # 1 => lTasks[i].at = "wait")
  <2>1. \A i \in 1..Len(lTasks) : lTasks[i] \in Restorations
    BY <1>1
  <2> QED BY <2>1 DEF SelInv, TasksFit, Restorations
<1>6. Len(lTasks) \in Nat /\ (\A i \in 1..Len(lTasks') : i \in 1..Len(lTasks) \/ i = Len(lTasks) + 1)
      /\ (lTasks # << >> <=> 1 \in 1..Len(lTasks)) /\ (lTasks = << >> <=> Len(lTasks) = 0)
  BY <1>1, <1>4
<1>7. \A i \in 1..Len(lTasks') : lTasks'[i].gen <= lGeneration' /\ (i # 1 => lTasks'[i].at = "wait")
  BY <1>1, <1>3, <1>4, <1>5, <1>6
<1>8. (lTasks # << >> => Selection!Head1' = Selection!Head1) /\ (lTasks = << >> => Selection!Head1'.at = "wait")
  BY <1>3, <1>4, <1>6 DEF Selection!Head1
<1>9. lTasks # << >> => Selection!Head1.gen # lGeneration'
  BY <1>1, <1>5, <1>6 DEF Selection!Head1
<1> QED BY <1>1, <1>4, <1>7, <1>8, <1>9

\* The core starts, and a restoration with it.
LEMMA CoreStartsFits == ASSUME SelInv, SelectionGiven, Selection!CoreStarts PROVE SelInv'
<1>1. lSwitch = Selection!None /\ lUser = Selection!Idle /\ Selection!NewCore /\ Selection!Activate("keep") /\
        lChosen' = Selection!NoRecords
      /\ UNCHANGED <<lCurrent, lRecords, lPermit, lUser, lSwitch, lCrossed, lBounds>>
  BY DEF Selection!CoreStarts
<1>2. /\ lGeneration' \in Nat
      /\ lTasks' \in Seq(Restorations) /\ lTasks' # << >> /\ (lTasks # << >> => Selection!Head1' = Selection!Head1)
      /\ lTasks = << >> => Selection!Head1'.at = "wait"
      /\ \A i \in 1..Len(lTasks') : lTasks'[i].gen <= lGeneration' /\ (i # 1 => lTasks'[i].at = "wait")
      /\ lTasks # << >> => Selection!Head1.gen # lGeneration'
  BY <1>1, BegunIs
<1>3. lCore' \in Snapshots /\ lChosen' \in Selected /\ \A g \in SelectorGroups : lChosen'[g] = NoProxyNode
  BY <1>1, NewCoreIs, NoRecordsIs
<1>4. \A p : p # "wait" => (Selection!At(p)' <=> Selection!At(p))
  BY <1>2 DEF Selection!At
<1>5. SelTyped'
  BY <1>1, <1>2, <1>3 DEF SelInv, SelTyped
<1>6. TasksFit'
  BY <1>1, <1>2, <1>4 DEF SelInv, TasksFit, Selection!At, Passing
<1>7. UserFits'
  BY <1>1, <1>3 DEF SelInv, UserFits, Selection!Idle
<1>8. HeadFits'
  BY <1>2 DEF HeadFits, Selection!IsCurrent
<1>9. ChosenFits'
  <2>1. Selection!At("sent")' => Selection!Head1'.group \in SelectorGroups
    BY <1>6 DEF TasksFit
  <2> QED BY <1>1, <1>3, <2>1 DEF ChosenFits, SelectionGiven
<1> QED BY <1>5, <1>6, <1>7, <1>8, <1>9 DEF SelInv

\* The core takes the configuration of another profile.
LEMMA SwitchCoreFits == ASSUME SelInv, SelectionGiven, NEW p \in NodeProfiles, Selection!SwitchCore(p) PROVE SelInv'
<1>1. lUser = Selection!Idle /\ lSwitch' = p /\ Selection!NewCore /\ lChosen' = Selection!NoRecords
      /\ UNCHANGED <<lCurrent, lRecords, lPermit, lGeneration, lTasks, lUser, lCrossed, lBounds>>
  BY DEF Selection!SwitchCore
<1>2. lCore' \in Snapshots /\ lChosen' \in Selected /\ \A g \in SelectorGroups : lChosen'[g] = NoProxyNode
  BY <1>1, NewCoreIs, NoRecordsIs
<1>3. SelTyped'
  BY <1>1, <1>2 DEF SelInv, SelTyped
<1>4. TasksFit'
  BY <1>1 DEF SelInv, TasksFit, Selection!At, Selection!Head1
<1>5. UserFits'
  BY <1>1 DEF SelInv, UserFits, Selection!Idle
<1>6. HeadFits'
  BY <1>1 DEF SelInv, HeadFits, ReadsRecords, Superseding, Selection!IsCurrent, Selection!Head1, Selection!Idle
<1>7. ChosenFits'
  <2>1. Selection!At("sent")' => Selection!Head1'.group \in SelectorGroups
    BY <1>4 DEF TasksFit
  <2> QED BY <1>1, <1>2, <2>1 DEF ChosenFits, SelectionGiven
<1> QED BY <1>3, <1>4, <1>5, <1>6, <1>7 DEF SelInv

\* The data name that profile, and its restoration begins.
LEMMA SwitchCommitFits == ASSUME SelInv, SelectionGiven, Selection!SwitchCommit PROVE SelInv'
<1>1. lSwitch # Selection!None /\ lPermit = "nobody" /\ lCurrent' = lSwitch /\ lSwitch' = Selection!None /\
        Selection!Activate("prune")
      /\ lCrossed' = (lCrossed \/ lUser # Selection!Idle) /\ UNCHANGED <<lRecords, lPermit, lCore, lUser, lChosen,
           lBounds>>
  BY DEF Selection!SwitchCommit
<1>2. /\ lGeneration' \in Nat
      /\ lTasks' \in Seq(Restorations) /\ lTasks' # << >> /\ (lTasks # << >> => Selection!Head1' = Selection!Head1)
      /\ lTasks = << >> => Selection!Head1'.at = "wait"
      /\ \A i \in 1..Len(lTasks') : lTasks'[i].gen <= lGeneration' /\ (i # 1 => lTasks'[i].at = "wait")
      /\ lTasks # << >> => Selection!Head1.gen # lGeneration'
  BY <1>1, BegunIs
<1>3. \A p : p # "wait" => (Selection!At(p)' <=> Selection!At(p))
  BY <1>2 DEF Selection!At
<1>4. SelTyped'
  BY <1>1, <1>2 DEF SelInv, SelTyped
<1>5. TasksFit'
  BY <1>1, <1>2, <1>3 DEF SelInv, TasksFit, Selection!At, Passing
<1>6. UserFits'
  BY <1>1 DEF SelInv, UserFits
<1>7. HeadFits'
  BY <1>2 DEF HeadFits, Selection!IsCurrent
<1>8. ChosenFits'
  <2> SUFFICES ASSUME ~lCrossed' PROVE ChosenFits'
    BY DEF ChosenFits
  <2>1. ~lCrossed /\ lUser.at = "idle"
    <3>1. ~(lCrossed \/ lUser # Selection!Idle)
      BY <1>1
    <3> QED BY <3>1 DEF Selection!Idle
  <2>2. \A g \in SelectorGroups : lChosen[g] = NoProxyNode
    BY <1>1, <2>1, NoneChosen DEF Restored
  <2>3. Selection!At("sent")' => Selection!Head1'.group \in SelectorGroups
    BY <1>5 DEF TasksFit
  <2> QED BY <1>1, <2>2, <2>3 DEF ChosenFits, SelectionGiven
<1> QED BY <1>4, <1>5, <1>6, <1>7, <1>8 DEF SelInv

----------------------------------------------------------------------------

\* What holds of selections and restorations holds at first.
LEMMA SelStarts == SelectionGiven /\ Selection!Init => SelInv
<1> SUFFICES ASSUME SelectionGiven, Selection!Init PROVE SelInv
  OBVIOUS
<1>1. lTasks = << >> /\ lUser = Selection!Idle /\ lChosen = Selection!NoRecords /\
        lCore = [g \in SelectorGroups |-> Selection!Absent] /\ lGeneration = 0
      /\ lPermit = "nobody" /\ lSwitch = Selection!None /\ lCrossed = FALSE /\ lCurrent \in NodeProfiles
      /\ lRecords \in [NodeProfiles -> [SelectorGroups -> ProxyNodes \cup {NoProxyNode}]]
  BY DEF Selection!Init
<1>2. lUser \in [at : UserAt, group : SelectorGroups \cup {Selection!None}, node : Choosable] /\ lUser.at = "idle"
  BY <1>1 DEF Selection!Idle, UserAt, Choosable
<1>3. lCore \in Snapshots
  BY <1>1 DEF Snapshots, CoreGroups, Selection!Absent, Choosable
<1>4. SelTyped
  <2>1. lRecords \in [NodeProfiles -> Selected] /\ lChosen \in Selected
    BY <1>1, NoRecordsIs DEF Selected, Choosable
  <2>2. lTasks \in Seq(Restorations) /\ lGeneration \in Nat
    BY <1>1
  <2> QED BY <1>1, <1>2, <1>3, <2>1, <2>2 DEF SelTyped
<1>5. TasksFit
  BY <1>1, <1>2 DEF TasksFit, Selection!At
<1>6. UserFits
  BY <1>1, <1>2 DEF UserFits
<1>7. HeadFits
  BY <1>1 DEF HeadFits
<1>8. ChosenFits
  <2>1. (\A g \in SelectorGroups : lChosen[g] = NoProxyNode) /\ \A g \in Selectable : lChosen[g] = NoProxyNode
    BY <1>1, NoRecordsIs DEF SelectionGiven
  <2>2. ~Selection!At("sent") /\ ~Restored
    BY <1>1 DEF Selection!At, Restored
  <2> QED BY <2>1, <2>2 DEF ChosenFits
<1> QED BY <1>4, <1>5, <1>6, <1>7, <1>8 DEF SelInv

\* Every step keeps it.
LEMMA SelNext == SelectionGiven /\ SelInv /\ [Selection!Next]_(Selection!vars) => SelInv'
<1> SUFFICES ASSUME SelectionGiven, SelInv, [Selection!Next]_(Selection!vars) PROVE SelInv'
  OBVIOUS
<1>1. CASE UNCHANGED Selection!vars
  <2>1. SelTyped' /\ TasksFit' /\ UserFits'
    BY <1>1 DEF Selection!vars, SelInv, SelTyped, TasksFit, UserFits, Selection!At, Selection!Head1
  <2>2. HeadFits'
    BY <1>1 DEF Selection!vars, SelInv, HeadFits, ReadsRecords, Superseding, Selection!IsCurrent, Selection!Head1
  <2>3. ChosenFits'
    BY <1>1 DEF Selection!vars, SelInv, ChosenFits, Restored, Selection!IsCurrent, Selection!At, Selection!Head1,
       Pending, Recording, Selection!Has, Selection!Loaded
  <2> QED BY <2>1, <2>2, <2>3 DEF SelInv
<1>2. CASE Selection!Restoration
  BY <1>2, WakeFits, FirstSnapshotFits, SendFits, ArriveFits, PassDoneFits, SecondSnapshotFits, SettleFits,
     EnterPersistFits,
     PersistFits DEF Selection!Restoration
<1>3. CASE Selection!Next /\ ~Selection!Restoration
  BY <1>3, UserChoosesFits, ForgetFits, CoreChangesFits, EnterRecordFits, RecordFits, SupersedeFits,
     CoreStartsFits, SwitchCoreFits,
     SwitchCommitFits DEF Selection!Next
<1> QED BY <1>1, <1>2, <1>3

\* The user's selection stands, in the core and in the records.
THEOREM SelectionHolds == SelectionGiven => (Selection!Spec => [](Selection!SelectionStands /\
          Selection!ChoiceIsRecorded))
<1> SUFFICES ASSUME SelectionGiven PROVE Selection!Spec => [](Selection!SelectionStands /\ Selection!ChoiceIsRecorded)
  OBVIOUS
<1>1. SelectionGiven /\ Selection!Init => SelInv
  BY SelStarts
<1>2. SelectionGiven /\ SelInv /\ [Selection!Next]_(Selection!vars) => SelInv'
  BY SelNext
<1>3. SelInv => Selection!SelectionStands /\ Selection!ChoiceIsRecorded
  BY DEF SelInv, ChosenFits, Selection!SelectionStands, Selection!ChoiceIsRecorded, Recording, Selection!Idle,
     Selection!AtRest
<1> QED BY <1>1, <1>2, <1>3, PTL DEF Selection!Spec

-----------------------------------------------------------------------------
(* The override of the DNS.                                                 *)

VARIABLES nCurrent, nSource, nData, nDraft, nBusy, nMade, nCore, nAt, nAsked, nLocks,
          nConfirmed, nWant, nExcused, nAsks, nMakes, nNews, nStarts
dnsVars == <<nCurrent, nSource, nData, nDraft, nBusy, nMade, nCore, nAt, nAsked, nLocks,
      nConfirmed, nWant, nExcused, nAsks, nMakes, nNews, nStarts>>
Dns == INSTANCE DnsOverride WITH current <- nCurrent, source <- nSource, data <- nData,
    draft <- nDraft, busy <- nBusy, made <- nMade, core <- nCore, at <- nAt, asked <- nAsked,
    locks <- nLocks, confirmed <- nConfirmed, want <- nWant, excused <- nExcused, asks <- nAsks,
    makes <- nMakes, news <- nNews, starts <- nStarts, Tasks <- DnsTasks,
    Profiles <- DnsProfiles, First <- FirstProfile, Sources <- DnsSources, None <- NoDns,
    MaxStarts <- MaxDnsStarts

DnsGiven == FirstProfile \in DnsProfiles /\ Dns!Free \notin DnsTasks

ASSUME DnsAssumption == DnsGiven

DnsSettings == [on : BOOLEAN, confirmation : DnsSources \cup {NoDns}]
DnsStates == [uid : DnsProfiles, source : DnsSources \cup {NoDns}, requested : DnsSettings, on : BOOLEAN]
DnsAsking == {"wait", "apply", "taken"}
DnsMaking == {"make", "apply"}
DnsTyped ==
  /\ nCurrent \in DnsProfiles /\ nSource \in [DnsProfiles -> DnsSources \cup {NoDns}]
  /\ nData \in [DnsProfiles -> DnsSettings] /\ nDraft \in [DnsProfiles -> DnsSettings]
  /\ nMade \in [DnsTasks -> DnsStates] /\ nCore \in DnsStates /\ nBusy \in DnsTasks \cup {Dns!Free}
  /\ nAt \in [DnsTasks -> DnsAsking \cup DnsMaking \cup {"idle", "sync"}] /\ nAsked \in [DnsTasks -> DnsSettings]
  /\ nWant \in [DnsProfiles -> BOOLEAN] /\ nLocks \in [Dns!Locks -> DnsTasks \cup {Dns!Free}]
\* Whoever asks has both locks, whoever makes is the only one; what is staged is what is asked.
LocksFit ==
  /\ \A t \in DnsTasks : nAt[t] \in DnsMaking <=> nBusy = t
  /\ \A t \in DnsTasks : nAt[t] \in DnsAsking => nLocks = [l \in Dns!Locks |-> t] /\
       nDraft = [nData EXCEPT ![nCurrent] = nAsked[t]]
  /\ (\A t \in DnsTasks : nAt[t] \notin DnsAsking) => nLocks = Dns!Free2 /\ nDraft = nData
\* What is made, and what the core has, is of the profile in use and says what it was made of.
IsNew(c) == c.uid = nCurrent /\ c.on = Dns!New(nCurrent, c.source, c.requested).on
StatesFit == IsNew(nCore) /\ \A t \in DnsTasks : nAt[t] \in DnsMaking => IsNew(nMade[t])
\* Every confirmation that is noted anywhere was given.
WasConfirmed(p, s) == s.confirmation # NoDns => <<p, s.confirmation>> \in nConfirmed
ConfirmationsFit ==
  /\ \A p \in DnsProfiles : WasConfirmed(p, nData[p])
  /\ \A t \in DnsTasks : nAt[t] \in DnsAsking => WasConfirmed(nCurrent, nAsked[t])
  /\ \A t \in DnsTasks : nAt[t] \in DnsMaking => WasConfirmed(nCurrent, nMade[t].requested)
  /\ WasConfirmed(nCurrent, nCore.requested)
\* What was asked for is in the settings, and the core has what they say or what is asked for;
\* it was made of the file that there is, unless that has changed.
DnsTakes(c) ==
  /\ c.source = nSource[nCurrent]
  /\ \/ c.on = nData[nCurrent].on
     \/ \E t \in DnsTasks : nAt[t] \in DnsAsking /\ c.requested = nAsked[t]
ChoicesFit ==
  /\ \A p \in DnsProfiles \ nExcused :
       /\ nData[p].on = nWant[p]
       /\ nData[p].on = TRUE => nSource[p] = NoDns \/ nData[p].confirmation = nSource[p]
  /\ nCurrent \notin nExcused => DnsTakes(nCore) /\ \A t \in DnsTasks : nAt[t] \in DnsMaking => DnsTakes(nMade[t])
  /\ \A t, u \in DnsTasks : nAt[t] = "taken" => nCore.requested = nAsked[t] /\
       (nAt[u] = "make" => nMade[u].requested = nAsked[t])
  /\ \A t \in DnsTasks : nAt[t] = "apply" => nMade[t].requested = nAsked[t]
DnsInv == DnsTyped /\ LocksFit /\ StatesFit /\ ConfirmationsFit /\ ChoicesFit

\* What is made of a file and a setting says so, and the page is on where nothing is
\* overridden that has not been confirmed.
LEMMA NewIs ==
  \A p \in DnsProfiles : \A src \in DnsSources \cup {NoDns} : \A s \in DnsSettings :
    /\ Dns!New(p, src, s) \in DnsStates /\ Dns!New(p, src, s).uid = p /\ Dns!New(p, src, s).source = src
    /\ Dns!New(p, src, s).requested = s
BY DEF Dns!New, DnsSettings, DnsStates

\* The page is on where nothing is overridden that was not confirmed.
LEMMA NewIsOn ==
  \A p \in DnsProfiles : \A src \in DnsSources \cup {NoDns} : \A s \in DnsSettings :
    Dns!New(p, src, s).on = TRUE <=> s.on = TRUE /\ (src = NoDns \/ s.confirmation = src)
BY DEF Dns!New, DnsSettings

\* A setting is what it is made of.
LEMMA SettingIs ==
  ASSUME NEW on \in BOOLEAN, NEW c \in DnsSources \cup {NoDns}
  PROVE  Dns!Setting(on, c) \in DnsSettings /\ Dns!Setting(on, c).on = on /\ Dns!Setting(on, c).confirmation = c
BY DEF Dns!Setting, DnsSettings

\* A task that goes on, when the others stay.
DnsPlaces == DnsAsking \cup DnsMaking \cup {"idle", "sync"}
DnsTaskGoes(t, to) == nAt' \in [DnsTasks -> DnsPlaces] /\ nAt'[t] = to /\ \A u \in DnsTasks \ {t} : nAt'[u] = nAt[u]

\* A task goes on, the others stay where they are.
LEMMA DnsStepIs ==
  ASSUME DnsTyped, NEW t \in DnsTasks, NEW to \in DnsPlaces, Dns!Goes(t, to)
  PROVE  DnsTaskGoes(t, to)
BY DEF DnsTyped, Dns!Goes, DnsTaskGoes, DnsPlaces

\* One value of a function is replaced.
LEMMA ElementReplaced ==
  ASSUME NEW D, NEW S, NEW f \in [D -> S], NEW d \in D, NEW v \in S, NEW g, g = [f EXCEPT ![d] = v]
  PROVE  g \in [D -> S] /\ g[d] = v /\ \A e \in D \ {d} : g[e] = f[e]
OBVIOUS

\* What holds of the override holds at first.
LEMMA DnsStarts == DnsGiven /\ Dns!Init => DnsInv
<1> SUFFICES ASSUME DnsGiven, Dns!Init PROVE DnsInv
  OBVIOUS
<1>1. PICK s \in DnsSettings : s = Dns!Setting(FALSE, NoDns) /\ s.on = FALSE /\ s.confirmation = NoDns
  BY SettingIs
<1>2. FirstProfile \in DnsProfiles /\ nSource \in [DnsProfiles -> DnsSources \cup {NoDns}] /\
        nSource[FirstProfile] \in DnsSources \cup {NoDns}
  BY DEF Dns!Init, DnsGiven
<1>3. nData = [p \in DnsProfiles |-> s] /\ nData[FirstProfile] = s /\ nAsked = [t \in DnsTasks |-> s]
  BY <1>1, <1>2 DEF Dns!Init
<1>4. nCore = Dns!New(FirstProfile, nSource[FirstProfile], s)
  BY <1>3 DEF Dns!Init
<1>5. nCore \in DnsStates /\ nCore.uid = FirstProfile /\ nCore.source = nSource[FirstProfile] /\ nCore.requested = s
      /\ nCore.on = FALSE
  <2>1. nCore \in DnsStates /\ nCore.uid = FirstProfile /\ nCore.source = nSource[FirstProfile] /\ nCore.requested = s
    <3>1. PICK src \in DnsSources \cup {NoDns} : src = nSource[FirstProfile]
      BY <1>2
    <3>2. nCore = Dns!New(FirstProfile, src, s) /\ FirstProfile \in DnsProfiles
      BY <1>2, <1>4, <3>1
    <3> QED BY <3>1, <3>2, NewIs
  <2>2. nCore.on # TRUE
    BY <1>1, <1>2, <1>4, NewIsOn
  <2> QED BY <2>1, <2>2 DEF DnsStates
<1>6. \A t \in DnsTasks : nAt[t] = "idle"
  BY DEF Dns!Init
<1>7. DnsTyped
  <2>1. nMade \in [DnsTasks -> DnsStates] /\ nWant \in [DnsProfiles -> BOOLEAN] /\ nBusy \in DnsTasks \cup {Dns!Free}
    BY <1>5 DEF Dns!Init
  <2>2. nAt \in [DnsTasks -> DnsAsking \cup DnsMaking \cup {"idle", "sync"}] /\
          nLocks \in [Dns!Locks -> DnsTasks \cup {Dns!Free}]
    BY DEF Dns!Init, Dns!Free2
  <2>3. nData \in [DnsProfiles -> DnsSettings] /\ nDraft \in [DnsProfiles -> DnsSettings] /\
          nAsked \in [DnsTasks -> DnsSettings]
    BY <1>1, <1>3 DEF Dns!Init
  <2> QED BY <1>2, <1>5, <2>1, <2>2, <2>3 DEF DnsTyped, Dns!Init
<1>8. LocksFit
  BY <1>6 DEF Dns!Init, DnsGiven, LocksFit, DnsAsking, DnsMaking
<1>9. StatesFit
  <2>1. nCurrent = FirstProfile /\ Dns!New(FirstProfile, nCore.source, nCore.requested) = nCore
    BY <1>4, <1>5 DEF Dns!Init
  <2> QED BY <1>5, <1>6, <2>1 DEF StatesFit, IsNew, DnsMaking
<1>10. ConfirmationsFit
  BY <1>1, <1>3, <1>5, <1>6 DEF ConfirmationsFit, WasConfirmed, DnsAsking, DnsMaking
<1>11. ChoicesFit
  <2>1. nCurrent = FirstProfile /\ (\A p \in DnsProfiles : nData[p].on = FALSE /\ nWant[p] = FALSE)
    BY <1>1, <1>3 DEF Dns!Init
  <2> QED BY <1>2, <1>5, <1>6, <2>1 DEF ChoicesFit, DnsTakes, DnsAsking, DnsMaking
<1> QED BY <1>7, <1>8, <1>9, <1>10, <1>11 DEF DnsInv

\* Where there is one who asks, and one who makes.
LEMMA OneAsks ==
  ASSUME DnsGiven, DnsInv
  PROVE  /\ \A t, u \in DnsTasks : nAt[t] \in DnsAsking /\ nAt[u] \in DnsAsking => t = u
         /\ \A t, u \in DnsTasks : nAt[t] \in DnsMaking /\ nAt[u] \in DnsMaking => t = u
         /\ \A l \in Dns!Locks, t \in DnsTasks : nLocks[l] = Dns!Free => nAt[t] \notin DnsAsking
         /\ nLocks["settings"] = Dns!Free \/ nLocks["profiles"] = Dns!Free => nLocks = Dns!Free2 /\ nDraft = nData
         /\ nBusy = Dns!Free => \A t \in DnsTasks : nAt[t] \notin DnsMaking
<1>1. \A t \in DnsTasks : nAt[t] \in DnsAsking => nLocks["profiles"] = t /\ nLocks["settings"] = t /\ t # Dns!Free
  BY DEF DnsInv, LocksFit, Dns!Locks, DnsGiven
<1>2. \A t \in DnsTasks : nAt[t] \in DnsMaking <=> nBusy = t
  BY DEF DnsInv, LocksFit
<1>3. nLocks["settings"] = Dns!Free \/ nLocks["profiles"] = Dns!Free => \A t \in DnsTasks : nAt[t] \notin DnsAsking
  BY <1>1
<1> QED BY <1>1, <1>2, <1>3 DEF DnsInv, LocksFit, Dns!Locks, DnsGiven

\* Steps that leave who asks and who makes as they are.
LEMMA DnsAskFits == ASSUME DnsGiven, DnsInv, NEW t \in DnsTasks, Dns!Ask(t) PROVE DnsInv'
<1>1. nAt[t] = "idle" /\ nLocks = Dns!Free2 /\ nCurrent' = nCurrent /\ nSource' = nSource /\ nData' = nData /\
        nBusy' = nBusy
      /\ nMade' = nMade /\ nCore' = nCore /\ nWant' = nWant /\ nExcused' = nExcused
  BY DEF Dns!Ask
<1>2. PICK on \in BOOLEAN, c \in DnsSources \cup {NoDns} :
        \/ UNCHANGED <<nDraft, nAt, nAsked, nLocks, nConfirmed>>
        \/ /\ nAsked' = [nAsked EXCEPT ![t] = Dns!Setting(on, IF on THEN nSource[nCurrent] ELSE NoDns)]
           /\ nDraft' = [nData EXCEPT ![nCurrent] = nAsked'[t]]
           /\ nLocks' = [l \in Dns!Locks |-> t] /\ Dns!Goes(t, "wait")
           /\ nConfirmed' = IF on THEN nConfirmed \cup {<<nCurrent, nSource[nCurrent]>>} ELSE nConfirmed
  BY DEF Dns!Ask
<1>3. CASE UNCHANGED <<nDraft, nAt, nAsked, nLocks, nConfirmed>>
  BY <1>1, <1>3 DEF DnsInv, DnsTyped, LocksFit, StatesFit, IsNew, ConfirmationsFit, WasConfirmed, ChoicesFit,
     DnsTakes
<1>4. CASE /\ nAsked' = [nAsked EXCEPT ![t] = Dns!Setting(on, IF on THEN nSource[nCurrent] ELSE NoDns)]
           /\ nDraft' = [nData EXCEPT ![nCurrent] = nAsked'[t]]
           /\ nLocks' = [l \in Dns!Locks |-> t] /\ Dns!Goes(t, "wait")
           /\ nConfirmed' = IF on THEN nConfirmed \cup {<<nCurrent, nSource[nCurrent]>>} ELSE nConfirmed
  <2>1. PICK s \in DnsSettings : s = Dns!Setting(on, IF on THEN nSource[nCurrent] ELSE NoDns)
          /\ (s.confirmation # NoDns => <<nCurrent, s.confirmation>> \in nConfirmed')
    <3>1. (IF on THEN nSource[nCurrent] ELSE NoDns) \in DnsSources \cup {NoDns}
      BY DEF DnsInv, DnsTyped
    <3> QED BY <1>4, <3>1, SettingIs
  <2>2. nAsked' \in [DnsTasks -> DnsSettings] /\ nAsked'[t] = s /\ \A u \in DnsTasks \ {t} : nAsked'[u] = nAsked[u]
    BY <1>4, <2>1, ElementReplaced DEF DnsInv, DnsTyped
  <2>3. DnsTaskGoes(t, "wait")
    BY <1>4, DnsStepIs DEF DnsInv, DnsPlaces, DnsAsking
  <2>4. nAt'[t] = "wait" /\ \A u \in DnsTasks \ {t} : nAt'[u] = nAt[u]
    BY <2>3 DEF DnsTaskGoes
  <2>5. \A u \in DnsTasks : nAt[u] \notin DnsAsking
    BY <1>1, OneAsks DEF Dns!Free2, Dns!Locks
  <2>6. \A u \in DnsTasks : (nAt'[u] \in DnsAsking <=> u = t) /\ (nAt'[u] \in DnsMaking <=> nAt[u] \in DnsMaking)
    BY <1>1, <2>4, <2>5 DEF DnsAsking, DnsMaking
  <2>7. nConfirmed \subseteq nConfirmed'
    BY <1>4
  <2>8. DnsTyped'
    <3>1. nDraft' \in [DnsProfiles -> DnsSettings]
      BY <1>4, <2>2 DEF DnsInv, DnsTyped
    <3>2. nLocks' \in [Dns!Locks -> DnsTasks \cup {Dns!Free}]
      BY <1>4
    <3> QED BY <1>1, <2>2, <2>3, <3>1, <3>2 DEF DnsInv, DnsTyped, DnsTaskGoes, DnsPlaces
  <2>9. LocksFit'
    BY <1>1, <1>4, <2>6 DEF DnsInv, LocksFit
  <2>10. StatesFit'
    BY <1>1, <2>6 DEF DnsInv, StatesFit, IsNew
  <2>11. ConfirmationsFit'
    BY <1>1, <2>1, <2>2, <2>6, <2>7 DEF DnsInv, DnsTyped, ConfirmationsFit, WasConfirmed
  <2>12. ChoicesFit'
    <3>1. nCurrent \notin nExcused => DnsTakes(nCore)' /\ \A u \in DnsTasks : nAt'[u] \in DnsMaking =>
            DnsTakes(nMade[u])'
      BY <1>1, <2>5, <2>6 DEF DnsInv, ChoicesFit, DnsTakes
    <3>2. \A u \in DnsTasks : nAt'[u] \notin {"taken", "apply"}
      BY <2>4, <2>5 DEF DnsAsking
    <3> QED BY <1>1, <3>1, <3>2 DEF DnsInv, ChoicesFit
  <2> QED BY <2>8, <2>9, <2>10, <2>11, <2>12 DEF DnsInv
<1> QED BY <1>2, <1>3, <1>4

\* With nobody who asks, the core's answer is the setting's.
LEMMA CoreSays ==
  ASSUME DnsGiven, DnsInv, nCurrent \notin nExcused, NEW c, DnsTakes(c), IsNew(c), c.requested = nData[nCurrent]
  PROVE  c.on = nData[nCurrent].on
<1>1. nCurrent \in DnsProfiles /\ nData[nCurrent] \in DnsSettings
  BY DEF DnsInv, DnsTyped
<1>2. nData[nCurrent].on = TRUE => nSource[nCurrent] = NoDns \/ nData[nCurrent].confirmation = nSource[nCurrent]
  BY <1>1 DEF DnsInv, ChoicesFit
<1>3. c.source = nSource[nCurrent] /\ c.on = Dns!New(nCurrent, c.source, nData[nCurrent]).on
  BY DEF DnsTakes, IsNew
<1>4. Dns!New(nCurrent, nSource[nCurrent], nData[nCurrent]).on = TRUE
        <=> nData[nCurrent].on = TRUE /\ (nSource[nCurrent] = NoDns \/
            nData[nCurrent].confirmation = nSource[nCurrent])
  <2>1. nSource[nCurrent] \in DnsSources \cup {NoDns}
    BY <1>1 DEF DnsInv, DnsTyped
  <2> QED BY <1>1, <2>1, NewIsOn
<1>6. Dns!New(nCurrent, nSource[nCurrent], nData[nCurrent]).on \in BOOLEAN
  <2>1. nSource[nCurrent] \in DnsSources \cup {NoDns}
    BY <1>1 DEF DnsInv, DnsTyped
  <2> QED BY <1>1, <2>1, NewIs DEF DnsStates
<1>5. nData[nCurrent].on \in BOOLEAN
  BY <1>1 DEF DnsSettings
<1> QED BY <1>2, <1>3, <1>4, <1>5, <1>6

\* The choice is dropped.
LEMMA DnsAskFailsFits == ASSUME DnsGiven, DnsInv, NEW t \in DnsTasks, Dns!AskFails(t) PROVE DnsInv'
<1>1. nAt[t] = "wait" /\ nBusy # t /\ Dns!Goes(t, "idle") /\ nLocks' = Dns!Free2 /\ nDraft' = nData /\
        nCurrent' = nCurrent
      /\ nSource' = nSource /\ nData' = nData /\ nBusy' = nBusy /\ nMade' = nMade /\ nCore' = nCore /\
           nAsked' = nAsked
      /\ nConfirmed' = nConfirmed /\ nWant' = nWant
  BY DEF Dns!AskFails
<1>2. nExcused \subseteq nExcused' /\ (\A u \in DnsTasks \ {t} : nAt[u] \in DnsMaking => nMade[u].uid \in nExcused')
      /\ (nCore.requested = nAsked[t] /\ nCore.requested # nData[nCurrent] => nCurrent \in nExcused')
  BY DEF Dns!AskFails, DnsMaking
<1>3. nAt' \in [DnsTasks -> DnsPlaces] /\ nAt'[t] = "idle" /\ \A u \in DnsTasks \ {t} : nAt'[u] = nAt[u]
  BY <1>1, DnsStepIs DEF DnsInv, DnsTaskGoes, DnsPlaces
<1>4. \A u \in DnsTasks : nAt'[u] \notin DnsAsking
  BY <1>1, <1>3, OneAsks DEF DnsAsking
<1>5. \A u \in DnsTasks : nAt'[u] \in DnsMaking => u # t /\ nAt[u] \in DnsMaking /\ nAt'[u] = nAt[u]
  BY <1>3 DEF DnsMaking
<1>6. DnsTyped'
  BY <1>1, <1>3 DEF DnsInv, DnsTyped, DnsPlaces, Dns!Free2
<1>7. LocksFit'
  <2>1. \A u \in DnsTasks : nAt'[u] \in DnsMaking <=> nBusy' = u
    BY <1>1, <1>3 DEF DnsInv, LocksFit, DnsMaking
  <2> QED BY <1>1, <1>4, <2>1 DEF LocksFit
<1>8. StatesFit'
  BY <1>1, <1>5 DEF DnsInv, StatesFit, IsNew
<1>9. ConfirmationsFit'
  BY <1>1, <1>4, <1>5 DEF DnsInv, ConfirmationsFit, WasConfirmed
<1>10. ChoicesFit'
  <2>1. nCurrent \notin nExcused' => DnsTakes(nCore)' /\ \A u \in DnsTasks : nAt'[u] \in DnsMaking =>
          DnsTakes(nMade[u])'
    <3> SUFFICES ASSUME nCurrent \notin nExcused'
                 PROVE  DnsTakes(nCore)' /\ \A u \in DnsTasks : nAt'[u] \notin DnsMaking
      OBVIOUS
    <3>1. \A u \in DnsTasks : nAt'[u] \notin DnsMaking
      BY <1>2, <1>5 DEF DnsInv, StatesFit, IsNew
    <3>2. DnsTakes(nCore) /\ IsNew(nCore) /\ nCurrent \notin nExcused
      BY <1>2 DEF DnsInv, ChoicesFit, StatesFit
    <3>3. nCore.on = nData[nCurrent].on
      <4>1. CASE nCore.on = nData[nCurrent].on
        BY <4>1
      <4>2. CASE \E u \in DnsTasks : nAt[u] \in DnsAsking /\ nCore.requested = nAsked[u]
        <5>1. nCore.requested = nAsked[t]
          BY <1>1, <4>2, OneAsks DEF DnsAsking
        <5>2. nCore.requested = nData[nCurrent]
          BY <1>2, <5>1
        <5> QED BY <3>2, <5>2, CoreSays
      <4> QED BY <3>2, <4>1, <4>2 DEF DnsTakes
    <3> QED BY <1>1, <3>1, <3>2, <3>3 DEF DnsTakes
  <2>2. \A u \in DnsTasks : nAt'[u] \notin {"taken", "apply"}
    BY <1>4 DEF DnsAsking
  <2> QED BY <1>1, <1>2, <2>1, <2>2 DEF DnsInv, ChoicesFit
<1> QED BY <1>6, <1>7, <1>8, <1>9, <1>10 DEF DnsInv

\* The choice is committed, or what the core was given of it.
LEMMA DnsAskEndsFits == ASSUME DnsGiven, DnsInv, NEW t \in DnsTasks, Dns!AskEnds(t) PROVE DnsInv'
<1>1. nAt[t] = "taken" /\ Dns!Goes(t, "idle") /\ nLocks' = Dns!Free2 /\ nDraft' = nData' /\ nCurrent' = nCurrent
      /\ nSource' = nSource /\ nBusy' = nBusy /\ nMade' = nMade /\ nCore' = nCore /\ nAsked' = nAsked /\
           nConfirmed' = nConfirmed
      /\ nData' = [nData EXCEPT ![nCurrent] = Dns!Outcome(t)] /\
           nWant' = [nWant EXCEPT ![nCurrent] = Dns!Outcome(t).on]
  BY DEF Dns!AskEnds
<1>2. nCurrent \in DnsProfiles /\ nAsked[t] \in DnsSettings /\ nCore \in DnsStates
  BY DEF DnsInv, DnsTyped
<1>3. PICK o \in DnsSettings : o = Dns!Outcome(t)
        /\ (o = nAsked[t] \/ (o.on = FALSE /\ o.confirmation = NoDns /\ nAsked[t].on = TRUE /\ nCore.on = FALSE))
        /\ (nAsked[t].on = TRUE => o = nAsked[t] \/ nCore.on = FALSE) /\ (nAsked[t].on = TRUE /\
             nCore.on = FALSE => o.on = FALSE)
        /\ (nAsked[t].on = FALSE => o = nAsked[t])
  <2>1. nAsked[t].on \in BOOLEAN /\ nCore.on \in BOOLEAN
    BY <1>2 DEF DnsSettings, DnsStates
  <2>2. PICK s \in DnsSettings : s = Dns!Setting(FALSE, NoDns) /\ s.on = FALSE /\ s.confirmation = NoDns
    BY SettingIs
  <2>3. CASE nAsked[t].on = TRUE /\ nCore.on = FALSE
    BY <2>2, <2>3 DEF Dns!Outcome
  <2>4. CASE ~(nAsked[t].on = TRUE /\ nCore.on = FALSE)
    <3>1. Dns!Outcome(t) = nAsked[t]
      BY <2>1, <2>4 DEF Dns!Outcome
    <3> QED BY <1>2, <2>1, <2>4, <3>1
  <2> QED BY <2>3, <2>4
<1>4. nData' \in [DnsProfiles -> DnsSettings] /\ nData'[nCurrent] = o /\
        \A p \in DnsProfiles \ {nCurrent} : nData'[p] = nData[p]
  BY <1>1, <1>2, <1>3, ElementReplaced DEF DnsInv, DnsTyped
<1>5. nWant' \in [DnsProfiles -> BOOLEAN] /\ nWant'[nCurrent] = o.on /\
        \A p \in DnsProfiles \ {nCurrent} : nWant'[p] = nWant[p]
  <2>1. o.on \in BOOLEAN
    BY <1>3 DEF DnsSettings
  <2> QED BY <1>1, <1>2, <1>3, <2>1, ElementReplaced DEF DnsInv, DnsTyped
<1>6. nAt' \in [DnsTasks -> DnsPlaces] /\ nAt'[t] = "idle" /\ \A u \in DnsTasks \ {t} : nAt'[u] = nAt[u]
  BY <1>1, DnsStepIs DEF DnsInv, DnsTaskGoes, DnsPlaces
<1>7. \A u \in DnsTasks : nAt'[u] \notin DnsAsking
  BY <1>1, <1>6, OneAsks DEF DnsAsking
<1>8. \A u \in DnsTasks : nAt'[u] \in DnsMaking => u # t /\ nAt[u] = "make" /\ nAt'[u] = nAt[u]
  BY <1>6, <1>7 DEF DnsMaking, DnsAsking
<1>9. \A p \in DnsProfiles \ {nCurrent} : p \notin nExcused' => p \notin nExcused
  BY DEF Dns!AskEnds
<1>10. nCore.requested = nAsked[t] /\ \A u \in DnsTasks : nAt[u] = "make" => nMade[u].requested = nAsked[t]
  BY <1>1 DEF DnsInv, ChoicesFit
<1>11. nCurrent \notin nExcused' => nCore.source = nSource[nCurrent] /\ \A u \in DnsTasks : nAt[u] = "make" =>
         nMade[u].source = nSource[nCurrent]
  <2>1. CASE nCurrent \notin nExcused
    BY <2>1 DEF DnsInv, ChoicesFit, DnsTakes, DnsMaking
  <2>2. CASE nCurrent \in nExcused
    <3>1. nCurrent \notin nExcused' => \A u \in DnsTasks : nAt[u] \in {"make", "taken"} =>
            Dns!Of(u) = nSource[nCurrent]
      BY <2>2 DEF Dns!AskEnds
    <3> QED BY <1>1, <3>1 DEF Dns!Of
  <2> QED BY <2>1, <2>2
<1>12. \A c \in DnsStates : IsNew(c) /\ c.requested = nAsked[t] =>
          (c.on = TRUE <=> nAsked[t].on = TRUE /\ (c.source = NoDns \/ nAsked[t].confirmation = c.source))
  <2> SUFFICES ASSUME NEW c \in DnsStates, IsNew(c), c.requested = nAsked[t]
               PROVE  c.on = TRUE <=> nAsked[t].on = TRUE /\ (c.source = NoDns \/ nAsked[t].confirmation = c.source)
    OBVIOUS
  <2>1. c.source \in DnsSources \cup {NoDns} /\ c.on = Dns!New(nCurrent, c.source, nAsked[t]).on
    BY DEF DnsStates, IsNew
  <2> QED BY <1>2, <2>1, NewIsOn
<1>13. IsNew(nCore) /\ \A u \in DnsTasks : nAt[u] = "make" => IsNew(nMade[u])
  BY DEF DnsInv, StatesFit, DnsMaking
<1>20. nCore.on \in BOOLEAN /\ o.on \in BOOLEAN /\ nAsked[t].on \in BOOLEAN
       /\ \A u \in DnsTasks : nMade[u] \in DnsStates /\ nMade[u].on \in BOOLEAN
  BY <1>2, <1>3 DEF DnsInv, DnsTyped, DnsStates, DnsSettings
<1>14. nCore.on = o.on
  <2>1. nCore.on = TRUE <=> nAsked[t].on = TRUE /\ (nCore.source = NoDns \/ nAsked[t].confirmation = nCore.source)
    BY <1>2, <1>10, <1>12, <1>13
  <2> QED BY <1>3, <1>20, <2>1
<1>15. DnsTyped'
  BY <1>1, <1>4, <1>5, <1>6 DEF DnsInv, DnsTyped, DnsPlaces, Dns!Free2
<1>16. LocksFit'
  <2>1. \A u \in DnsTasks : nAt'[u] \in DnsMaking <=> nBusy' = u
    BY <1>1, <1>6 DEF DnsInv, LocksFit, DnsMaking
  <2> QED BY <1>1, <1>7, <2>1 DEF LocksFit
<1>17. StatesFit'
  BY <1>1, <1>8, <1>13 DEF StatesFit, IsNew
<1>18. ConfirmationsFit'
  <2>1. WasConfirmed(nCurrent, nAsked[t])
    BY <1>1 DEF DnsInv, ConfirmationsFit, DnsAsking
  <2>2. WasConfirmed(nCurrent, o)
    BY <1>3, <2>1 DEF WasConfirmed
  <2>3. \A p \in DnsProfiles : WasConfirmed(p, nData'[p])
    BY <1>4, <2>2 DEF DnsInv, ConfirmationsFit
  <2> QED BY <1>1, <1>7, <1>8, <2>3 DEF DnsInv, ConfirmationsFit, WasConfirmed, DnsMaking
<1>19. ChoicesFit'
  <2>1. \A p \in DnsProfiles \ nExcused' : nData'[p].on = nWant'[p]
    BY <1>4, <1>5, <1>9 DEF DnsInv, ChoicesFit
  <2>2. \A p \in DnsProfiles \ nExcused' : nData'[p].on = TRUE => nSource[p] = NoDns \/
          nData'[p].confirmation = nSource[p]
    <3> SUFFICES ASSUME NEW p \in DnsProfiles \ nExcused', nData'[p].on = TRUE
                 PROVE  nSource[p] = NoDns \/ nData'[p].confirmation = nSource[p]
      OBVIOUS
    <3>1. CASE p # nCurrent
      BY <1>4, <1>9, <3>1 DEF DnsInv, ChoicesFit
    <3>2. CASE p = nCurrent
      <4>1. nCore.on = TRUE /\ nCore.source = nSource[nCurrent] /\ o = nAsked[t]
        BY <1>3, <1>4, <1>11, <1>14, <3>2
      <4>2. nAsked[t].on = TRUE /\ (nCore.source = NoDns \/ nAsked[t].confirmation = nCore.source)
        BY <1>2, <1>10, <1>12, <1>13, <4>1
      <4> QED BY <1>4, <3>2, <4>1, <4>2
    <3> QED BY <3>1, <3>2
  <2>3. nCurrent \notin nExcused' => DnsTakes(nCore)' /\ \A u \in DnsTasks : nAt'[u] \in DnsMaking =>
          DnsTakes(nMade[u])'
    <3> SUFFICES ASSUME nCurrent \notin nExcused'
                 PROVE  DnsTakes(nCore)' /\ \A u \in DnsTasks : nAt'[u] \in DnsMaking => DnsTakes(nMade[u])'
      OBVIOUS
    <3>1. DnsTakes(nCore)'
      BY <1>1, <1>4, <1>11, <1>14 DEF DnsTakes
    <3>2. \A u \in DnsTasks : nAt[u] = "make" => nMade[u].on = nCore.on
      <4> SUFFICES ASSUME NEW u \in DnsTasks, nAt[u] = "make" PROVE nMade[u].on = nCore.on
        OBVIOUS
      <4>1. nMade[u].on = TRUE <=> nAsked[t].on = TRUE /\ (nMade[u].source = NoDns \/
              nAsked[t].confirmation = nMade[u].source)
        BY <1>10, <1>12, <1>13, <1>20
      <4>2. nCore.on = TRUE <=> nAsked[t].on = TRUE /\ (nCore.source = NoDns \/ nAsked[t].confirmation = nCore.source)
        BY <1>2, <1>10, <1>12, <1>13
      <4> QED BY <1>11, <1>20, <4>1, <4>2
    <3> QED BY <1>1, <1>4, <1>8, <1>11, <1>14, <3>1, <3>2 DEF DnsTakes
  <2>4. \A u \in DnsTasks : nAt'[u] \notin {"taken", "apply"}
    BY <1>7 DEF DnsAsking
  <2> QED BY <1>1, <2>1, <2>2, <2>3, <2>4 DEF ChoicesFit
<1> QED BY <1>15, <1>16, <1>17, <1>18, <1>19 DEF DnsInv

\* A configuration is made.
LEMMA MakeFits == ASSUME DnsGiven, DnsInv, NEW t \in DnsTasks, Dns!Make(t) PROVE DnsInv'
<1>1. nBusy = Dns!Free /\ nBusy' = t /\ nCurrent' = nCurrent /\ nSource' = nSource /\ nData' = nData /\
        nDraft' = nDraft /\ nCore' = nCore
      /\ nConfirmed' = nConfirmed /\ nWant' = nWant /\ nExcused' = nExcused /\ nLocks' = nLocks
      /\ nMade' = [nMade EXCEPT ![t] = Dns!New(nCurrent, nSource[nCurrent], nDraft[nCurrent])]
  BY DEF Dns!Make
<1>2. PICK to \in {"apply", "make"} : Dns!Goes(t, to)
        /\ \/ to = "apply" /\ nAt[t] = "wait" /\ nAsked' = nAsked
           \/ to = "make" /\ nAt[t] = "idle" /\ nAsked' = [nAsked EXCEPT ![t] = Dns!Setting(FALSE, NoDns)]
  BY DEF Dns!Make
<1>3. nAt' \in [DnsTasks -> DnsPlaces] /\ nAt'[t] = to /\ \A u \in DnsTasks \ {t} : nAt'[u] = nAt[u]
  BY <1>2, DnsStepIs DEF DnsInv, DnsTaskGoes, DnsPlaces, DnsMaking
<1>4. nAsked' \in [DnsTasks -> DnsSettings] /\ \A u \in DnsTasks : nAt[u] \in DnsAsking => nAsked'[u] = nAsked[u]
  <2>1. PICK s \in DnsSettings : s = Dns!Setting(FALSE, NoDns)
    BY SettingIs
  <2>2. nAsked \in [DnsTasks -> DnsSettings]
    BY DEF DnsInv, DnsTyped
  <2>3. CASE nAsked' = nAsked
    BY <2>2, <2>3
  <2>4. CASE nAt[t] = "idle" /\ nAsked' = [nAsked EXCEPT ![t] = s]
    BY <2>1, <2>2, <2>4, ElementReplaced DEF DnsAsking
  <2> QED BY <1>2, <2>1, <2>3, <2>4
<1>5. \A u \in DnsTasks : nAt'[u] \in DnsAsking <=> nAt[u] \in DnsAsking
  BY <1>2, <1>3 DEF DnsAsking
<1>6. \A u \in DnsTasks : nAt[u] \notin DnsMaking /\ (nAt'[u] \in DnsMaking <=> u = t)
  BY <1>1, <1>2, <1>3, OneAsks DEF DnsMaking
<1>7. nCurrent \in DnsProfiles /\ nSource[nCurrent] \in DnsSources \cup {NoDns} /\ nDraft[nCurrent] \in DnsSettings
      /\ nData[nCurrent] \in DnsSettings
  BY DEF DnsInv, DnsTyped
<1>8. PICK c \in DnsStates : c = Dns!New(nCurrent, nSource[nCurrent], nDraft[nCurrent]) /\ c.uid = nCurrent
        /\ c.source = nSource[nCurrent] /\ c.requested = nDraft[nCurrent]
  <2>1. PICK src \in DnsSources \cup {NoDns} : src = nSource[nCurrent]
    BY <1>7
  <2>2. PICK s \in DnsSettings : s = nDraft[nCurrent]
    BY <1>7
  <2>3. Dns!New(nCurrent, src, s) \in DnsStates /\ Dns!New(nCurrent, src, s).uid = nCurrent /\
          Dns!New(nCurrent, src, s).source = src
        /\ Dns!New(nCurrent, src, s).requested = s
    BY <1>7, NewIs
  <2> QED BY <2>1, <2>2, <2>3
<1>9. nMade' \in [DnsTasks -> DnsStates] /\ nMade'[t] = c /\ \A u \in DnsTasks \ {t} : nMade'[u] = nMade[u]
  BY <1>1, <1>8, ElementReplaced DEF DnsInv, DnsTyped
<1>10. \A u \in DnsTasks : nAt[u] \in DnsAsking => nDraft[nCurrent] = nAsked[u]
  BY <1>7 DEF DnsInv, LocksFit, DnsTyped
<1>11. (\A u \in DnsTasks : nAt[u] \notin DnsAsking) => nDraft[nCurrent] = nData[nCurrent]
  BY DEF DnsInv, LocksFit
<1>12. DnsTyped'
  BY <1>1, <1>3, <1>4, <1>9 DEF DnsInv, DnsTyped, DnsPlaces
<1>13. LocksFit'
  BY <1>1, <1>4, <1>5, <1>6 DEF DnsInv, LocksFit
<1>14. IsNew(c)
  BY <1>8 DEF IsNew
<1>15. StatesFit'
  BY <1>1, <1>6, <1>9, <1>14 DEF DnsInv, StatesFit, IsNew
<1>16. ConfirmationsFit'
  <2>1. WasConfirmed(nCurrent, nDraft[nCurrent])
    <3>1. CASE \A u \in DnsTasks : nAt[u] \notin DnsAsking
      BY <1>7, <1>11, <3>1 DEF DnsInv, ConfirmationsFit
    <3>2. CASE \E u \in DnsTasks : nAt[u] \in DnsAsking
      BY <1>10, <3>2 DEF DnsInv, ConfirmationsFit
    <3> QED BY <3>1, <3>2
  <2> QED BY <1>1, <1>4, <1>5, <1>6, <1>8, <1>9, <2>1 DEF DnsInv, ConfirmationsFit, WasConfirmed
<1>17. ChoicesFit'
  <2>1. nCurrent \notin nExcused => DnsTakes(nCore)' /\ DnsTakes(c)'
    <3> SUFFICES ASSUME nCurrent \notin nExcused PROVE DnsTakes(nCore)' /\ DnsTakes(c)'
      OBVIOUS
    <3>1. DnsTakes(nCore)'
      BY <1>1, <1>4, <1>5 DEF DnsInv, ChoicesFit, DnsTakes
    <3>2. CASE \A u \in DnsTasks : nAt[u] \notin DnsAsking
      <4>1. c.requested = nData[nCurrent]
        BY <1>8, <1>11, <3>2
      <4>2. nData[nCurrent].on = TRUE => nSource[nCurrent] = NoDns \/ nData[nCurrent].confirmation = nSource[nCurrent]
        BY <1>7 DEF DnsInv, ChoicesFit
      <4>3. c.on = nData[nCurrent].on
        <5>1. nData[nCurrent].on \in BOOLEAN
          BY <1>7 DEF DnsSettings
        <5>2. c = Dns!New(nCurrent, nSource[nCurrent], nData[nCurrent])
          BY <1>8, <4>1
        <5>3. c.on = TRUE <=> nData[nCurrent].on = TRUE /\ (nSource[nCurrent] = NoDns \/
                nData[nCurrent].confirmation = nSource[nCurrent])
          BY <1>7, <5>2, NewIsOn
        <5>4. c.on \in BOOLEAN
          BY DEF DnsStates
        <5> QED BY <4>2, <5>1, <5>3, <5>4
      <4> QED BY <1>1, <1>8, <3>1, <4>3 DEF DnsTakes
    <3>3. CASE \E u \in DnsTasks : nAt[u] \in DnsAsking
      <4>1. \E u \in DnsTasks : nAt'[u] \in DnsAsking /\ c.requested = nAsked'[u]
        BY <1>4, <1>5, <1>8, <1>10, <3>3
      <4> QED BY <1>1, <1>8, <3>1, <4>1 DEF DnsTakes
    <3> QED BY <3>2, <3>3
  <2>2. nCurrent \notin nExcused => \A u \in DnsTasks : nAt'[u] \in DnsMaking => DnsTakes(nMade[u])'
    BY <1>6, <1>9, <2>1 DEF DnsTakes
  <2>3. \A u \in DnsTasks : nAt'[u] = "taken" => nAt[u] \in DnsAsking /\ nAt[u] = "taken" /\
          nCore.requested = nAsked[u]
    BY <1>2, <1>3 DEF DnsInv, ChoicesFit, DnsAsking
  <2>4. \A u, w \in DnsTasks : nAt'[u] = "taken" =>
          nCore'.requested = nAsked'[u] /\ (nAt'[w] = "make" => nMade'[w].requested = nAsked'[u])
    <3> SUFFICES ASSUME NEW u \in DnsTasks, NEW w \in DnsTasks, nAt'[u] = "taken"
                 PROVE  nCore'.requested = nAsked'[u] /\ (nAt'[w] = "make" => nMade'[w].requested = nAsked'[u])
      OBVIOUS
    <3>1. nCore'.requested = nAsked'[u] /\ nDraft[nCurrent] = nAsked'[u]
      BY <1>1, <1>4, <1>10, <2>3
    <3>2. nAt'[w] = "make" => w = t
      BY <1>6 DEF DnsMaking
    <3> QED BY <1>8, <1>9, <3>1, <3>2
  <2>5. \A u \in DnsTasks : nAt'[u] = "apply" => nMade'[u].requested = nAsked'[u]
    <3> SUFFICES ASSUME NEW u \in DnsTasks, nAt'[u] = "apply" PROVE nMade'[u].requested = nAsked'[u]
      OBVIOUS
    <3>1. u = t /\ nAt[u] \in DnsAsking
      BY <1>5, <1>6 DEF DnsMaking, DnsAsking
    <3> QED BY <1>4, <1>8, <1>9, <1>10, <3>1
  <2> QED BY <1>1, <2>1, <2>2, <2>4, <2>5 DEF DnsInv, ChoicesFit
<1> QED BY <1>12, <1>13, <1>15, <1>16, <1>17 DEF DnsInv

\* The core takes it, or not.
LEMMA AppliesFits == ASSUME DnsGiven, DnsInv, NEW t \in DnsTasks, Dns!Applies(t) PROVE DnsInv'
<1>1. nAt[t] \in DnsMaking /\ nBusy' = Dns!Free /\ nCurrent' = nCurrent /\ nSource' = nSource /\
        nData' = nData /\ nDraft' = nDraft
      /\ nMade' = nMade /\ nAsked' = nAsked /\ nLocks' = nLocks /\ nConfirmed' = nConfirmed /\ nWant' = nWant /\
           nExcused' = nExcused
  BY DEF Dns!Applies, DnsMaking
<1>2. PICK to \in {"sync", "taken", "idle", "wait"} : Dns!Goes(t, to)
        /\ (to \in {"taken", "wait"} <=> nAt[t] = "apply")
        /\ \/ nCore' = nMade[t] /\ to \in {"sync", "taken"}
           \/ nCore' = nCore /\ to \in {"idle", "wait"}
  BY <1>1 DEF Dns!Applies, DnsMaking
<1>3. nAt' \in [DnsTasks -> DnsPlaces] /\ nAt'[t] = to /\ \A u \in DnsTasks \ {t} : nAt'[u] = nAt[u]
  BY <1>2, DnsStepIs DEF DnsInv, DnsTaskGoes, DnsPlaces, DnsAsking
<1>4. \A u \in DnsTasks : nAt'[u] \in DnsAsking <=> nAt[u] \in DnsAsking
  BY <1>1, <1>2, <1>3 DEF DnsAsking, DnsMaking
<1>5. nBusy = t /\ \A u \in DnsTasks : nAt'[u] \notin DnsMaking
  BY <1>1, <1>2, <1>3, OneAsks DEF DnsMaking, DnsInv, LocksFit
<1>6. IsNew(nMade[t]) /\ WasConfirmed(nCurrent, nMade[t].requested) /\
        (nCurrent \notin nExcused => DnsTakes(nMade[t]))
      /\ nMade[t] \in DnsStates
  BY <1>1 DEF DnsInv, StatesFit, ConfirmationsFit, ChoicesFit, DnsTyped
<1>7. nCore' \in DnsStates /\ IsNew(nCore') /\ WasConfirmed(nCurrent, nCore'.requested) /\
        (nCurrent \notin nExcused => DnsTakes(nCore'))
  BY <1>2, <1>6 DEF DnsInv, DnsTyped, StatesFit, ConfirmationsFit, ChoicesFit
<1>8. DnsTyped'
  BY <1>1, <1>3, <1>7 DEF DnsInv, DnsTyped, DnsPlaces
<1>9. LocksFit'
  <2>1. \A u \in DnsTasks : nAt'[u] \in DnsMaking <=> nBusy' = u
    BY <1>1, <1>5 DEF DnsGiven
  <2> QED BY <1>1, <1>4, <2>1 DEF DnsInv, LocksFit
<1>10. StatesFit'
  BY <1>1, <1>5, <1>7 DEF StatesFit, IsNew
<1>11. ConfirmationsFit'
  BY <1>1, <1>4, <1>5, <1>7 DEF DnsInv, ConfirmationsFit, WasConfirmed
<1>12. ChoicesFit'
  <2>1. nCurrent \notin nExcused => DnsTakes(nCore)'
    BY <1>1, <1>4, <1>7 DEF DnsTakes
  <2>2. \A u \in DnsTasks : nAt'[u] = "taken" => nCore'.requested = nAsked[u]
    <3> SUFFICES ASSUME NEW u \in DnsTasks, nAt'[u] = "taken" PROVE nCore'.requested = nAsked[u]
      OBVIOUS
    <3>1. CASE u = t
      <4>1. nAt[t] = "apply" /\ nCore' = nMade[t]
        BY <1>2, <1>3, <3>1
      <4> QED BY <3>1, <4>1 DEF DnsInv, ChoicesFit
    <3>2. CASE u # t
      <4>1. nAt[u] = "taken"
        BY <1>3, <3>2
      <4>2. nAt[t] = "make"
        BY <1>1, <3>2, <4>1, OneAsks DEF DnsMaking, DnsAsking
      <4> QED BY <1>2, <4>1, <4>2 DEF DnsInv, ChoicesFit
    <3> QED BY <3>1, <3>2
  <2>3. \A u \in DnsTasks : nAt'[u] \notin {"make", "apply"}
    BY <1>5 DEF DnsMaking
  <2> QED BY <1>1, <1>5, <2>1, <2>2, <2>3 DEF DnsInv, ChoicesFit
<1> QED BY <1>8, <1>9, <1>10, <1>11, <1>12 DEF DnsInv

\* The settings follow what the core was given.
LEMMA SyncFits == ASSUME DnsGiven, DnsInv, NEW t \in DnsTasks, Dns!Sync(t) PROVE DnsInv'
<1>1. nAt[t] = "sync" /\ nLocks["settings"] = Dns!Free /\ Dns!Goes(t, "idle") /\ nDraft' = nData' /\
        nCurrent' = nCurrent
      /\ nSource' = nSource /\ nBusy' = nBusy /\ nMade' = nMade /\ nCore' = nCore /\ nAsked' = nAsked /\
           nLocks' = nLocks
      /\ nConfirmed' = nConfirmed /\ nWant' = nWant /\ nExcused' = nExcused
  BY DEF Dns!Sync
<1>2. nCore.uid = nCurrent /\ IsNew(nCore) /\ nCurrent \in DnsProfiles /\ nCore \in DnsStates /\
        nCore.requested \in DnsSettings
      /\ nCore.on \in BOOLEAN /\ nCore.source \in DnsSources \cup {NoDns} /\ nData \in [DnsProfiles -> DnsSettings]
  BY DEF DnsInv, StatesFit, IsNew, DnsTyped, DnsStates
<1>3. PICK c \in DnsSources \cup {NoDns} :
        /\ c = IF nCore.requested.confirmation # NoDns /\ nCore.source # nCore.requested.confirmation
               THEN NoDns ELSE nCore.requested.confirmation
        /\ nData' = IF nData[nCurrent] # nCore.requested THEN nData ELSE [nData EXCEPT ![nCurrent] = Dns!Setting(nCore.on, c)]
  <2>1. nCore.requested.confirmation \in DnsSources \cup {NoDns}
    BY <1>2 DEF DnsSettings
  <2> QED BY <1>2, <2>1 DEF Dns!Sync
<1>4. PICK s \in DnsSettings : s = Dns!Setting(nCore.on, c) /\ s.on = nCore.on /\ s.confirmation = c
  BY <1>2, SettingIs
<1>5. \/ nData' = nData
      \/ /\ nData[nCurrent] = nCore.requested /\ nData' \in [DnsProfiles -> DnsSettings] /\ nData'[nCurrent] = s
         /\ \A p \in DnsProfiles \ {nCurrent} : nData'[p] = nData[p]
  BY <1>2, <1>3, <1>4, ElementReplaced
<1>6. nAt' \in [DnsTasks -> DnsPlaces] /\ nAt'[t] = "idle" /\ \A u \in DnsTasks \ {t} : nAt'[u] = nAt[u]
  BY <1>1, DnsStepIs DEF DnsInv, DnsTaskGoes, DnsPlaces
<1>7. nLocks = Dns!Free2 /\ \A u \in DnsTasks : nAt[u] \notin DnsAsking /\ nAt'[u] \notin DnsAsking
  BY <1>1, <1>6, OneAsks DEF Dns!Locks, DnsAsking
<1>8. \A u \in DnsTasks : nAt'[u] \in DnsMaking <=> nAt[u] \in DnsMaking
  BY <1>1, <1>6 DEF DnsMaking
<1>9. DnsTyped'
  BY <1>1, <1>2, <1>5, <1>6 DEF DnsInv, DnsTyped, DnsPlaces
<1>10. LocksFit'
  BY <1>1, <1>7, <1>8 DEF DnsInv, LocksFit
<1>11. StatesFit'
  BY <1>1, <1>8 DEF DnsInv, StatesFit, IsNew
<1>12. ConfirmationsFit'
  <2>1. WasConfirmed(nCurrent, s)
    BY <1>3, <1>4 DEF DnsInv, ConfirmationsFit, WasConfirmed
  <2>2. \A p \in DnsProfiles : WasConfirmed(p, nData'[p])
    BY <1>5, <2>1 DEF DnsInv, ConfirmationsFit
  <2> QED BY <1>1, <1>7, <1>8, <2>2 DEF DnsInv, ConfirmationsFit, WasConfirmed
<1>13. ASSUME nCurrent \notin nExcused
       PROVE  /\ nCore.source = nSource[nCurrent] /\ nCore.on = nData[nCurrent].on /\
                   nData'[nCurrent].on = nData[nCurrent].on
              /\ nData'[nCurrent].on = TRUE => nSource[nCurrent] = NoDns \/
                   nData'[nCurrent].confirmation = nSource[nCurrent]
  <2>1. nCore.source = nSource[nCurrent] /\ nCore.on = nData[nCurrent].on
    BY <1>7, <1>13 DEF DnsInv, ChoicesFit, DnsTakes
  <2>2. CASE nData' = nData
    BY <1>2, <1>13, <2>1, <2>2 DEF DnsInv, ChoicesFit
  <2>3. CASE nData' # nData
    <3>1. nData'[nCurrent] = s /\ nData[nCurrent] = nCore.requested
      BY <1>5, <2>3
    <3>2. nCore.on = TRUE => nCore.source = NoDns \/ nCore.requested.confirmation = nCore.source
      BY <1>2, <1>13, <2>1, <3>1 DEF DnsInv, ChoicesFit
    <3> QED BY <1>3, <1>4, <2>1, <3>1, <3>2
  <2> QED BY <2>2, <2>3
<1>14. ChoicesFit'
  <2>1. \A p \in DnsProfiles \ nExcused :
          nData'[p].on = nWant[p] /\ (nData'[p].on = TRUE => nSource[p] = NoDns \/
              nData'[p].confirmation = nSource[p])
    <3> SUFFICES ASSUME NEW p \in DnsProfiles \ nExcused
                 PROVE  nData'[p].on = nWant[p] /\ (nData'[p].on = TRUE => nSource[p] = NoDns \/
                          nData'[p].confirmation = nSource[p])
      OBVIOUS
    <3>1. nData[p].on = nWant[p] /\ (nData[p].on = TRUE => nSource[p] = NoDns \/ nData[p].confirmation = nSource[p])
      BY DEF DnsInv, ChoicesFit
    <3>2. CASE p = nCurrent
      BY <1>13, <3>1, <3>2
    <3>3. CASE p # nCurrent
      BY <1>5, <3>1, <3>3
    <3> QED BY <3>2, <3>3
  <2>2. nCurrent \notin nExcused => DnsTakes(nCore)' /\ \A u \in DnsTasks : nAt'[u] \in DnsMaking =>
          DnsTakes(nMade[u])'
    <3> SUFFICES ASSUME nCurrent \notin nExcused
                 PROVE  DnsTakes(nCore)' /\ \A u \in DnsTasks : nAt'[u] \in DnsMaking => DnsTakes(nMade[u])'
      OBVIOUS
    <3>1. \A u \in DnsTasks : nAt[u] \in DnsMaking => nMade[u].source = nSource[nCurrent] /\
            nMade[u].on = nData[nCurrent].on
      BY <1>7 DEF DnsInv, ChoicesFit, DnsTakes
    <3> QED BY <1>1, <1>8, <1>13, <3>1 DEF DnsTakes
  <2>3. \A u \in DnsTasks : nAt'[u] \notin {"taken", "apply"}
    BY <1>7 DEF DnsAsking
  <2> QED BY <1>1, <2>1, <2>2, <2>3 DEF ChoicesFit
<1> QED BY <1>9, <1>10, <1>11, <1>12, <1>14 DEF DnsInv

\* A configuration made of what is committed, when nobody is at work.
IsMadeOf(c, p, src, s) ==
  /\ c \in DnsStates /\ c.uid = p /\ c.source = src /\ c.requested = s
  /\ c.on = Dns!New(p, c.source, c.requested).on
  /\ (s.on = TRUE => src = NoDns \/ s.confirmation = src) => c.on = s.on

\* What is made of the data follows them.
LEMMA MadeAnew ==
  \A p \in DnsProfiles : \A src \in DnsSources \cup {NoDns} : \A s \in DnsSettings : IsMadeOf(Dns!New(p, src, s),
      p, src, s)
<1> SUFFICES ASSUME NEW p \in DnsProfiles, NEW src \in DnsSources \cup {NoDns}, NEW s \in DnsSettings
             PROVE  IsMadeOf(Dns!New(p, src, s), p, src, s)
  OBVIOUS
<1>1. PICK c : c = Dns!New(p, src, s)
  OBVIOUS
<1>2. c \in DnsStates /\ c.uid = p /\ c.source = src /\ c.requested = s
  BY <1>1, NewIs
<1>3. c.on = TRUE <=> s.on = TRUE /\ (src = NoDns \/ s.confirmation = src)
  BY <1>1, NewIsOn
<1>4. c.on \in BOOLEAN /\ s.on \in BOOLEAN
  BY <1>2 DEF DnsStates, DnsSettings
<1> QED BY <1>1, <1>2, <1>3, <1>4 DEF IsMadeOf

\* Another profile comes into use.
LEMMA SwitchFits == ASSUME DnsGiven, DnsInv, NEW t \in DnsTasks, Dns!Switch(t) PROVE DnsInv'
<1>1. nAt[t] = "idle" /\ nBusy = Dns!Free /\ nLocks["profiles"] = Dns!Free /\ Dns!Goes(t, "sync") /\
        nSource' = nSource /\ nData' = nData
      /\ nDraft' = nDraft /\ nBusy' = nBusy /\ nAsked' = nAsked /\ nLocks' = nLocks /\ nConfirmed' = nConfirmed
      /\ nWant' = nWant /\ nExcused' = nExcused
  BY DEF Dns!Switch
<1>2. nLocks = Dns!Free2 /\ nDraft = nData /\ \A u \in DnsTasks : nAt[u] \notin DnsAsking /\ nAt[u] \notin DnsMaking
  BY <1>1, OneAsks DEF Dns!Locks
<1>3. PICK p \in DnsProfiles : nCurrent' = p /\ nMade' = [nMade EXCEPT ![t] = Dns!New(p, nSource[p],
             nData[p])] /\ nCore' = nMade'[t]
  BY <1>2 DEF Dns!Switch
<1>4. nSource[p] \in DnsSources \cup {NoDns} /\ nData[p] \in DnsSettings
  BY DEF DnsInv, DnsTyped
<1>5. PICK c \in DnsStates : c = Dns!New(p, nSource[p], nData[p]) /\ c.uid = p /\ c.source = nSource[p] /\
             c.requested = nData[p]
        /\ c.on = Dns!New(p, c.source, c.requested).on
        /\ ((nData[p].on = TRUE => nSource[p] = NoDns \/ nData[p].confirmation = nSource[p]) => c.on = nData[p].on)
  <2>1. PICK src \in DnsSources \cup {NoDns} : src = nSource[p]
    BY <1>4
  <2>2. PICK s \in DnsSettings : s = nData[p]
    BY <1>4
  <2>3. PICK c : c = Dns!New(p, src, s)
    OBVIOUS
  <2>4. IsMadeOf(c, p, src, s)
    BY <2>3, MadeAnew
  <2> QED BY <2>1, <2>2, <2>3, <2>4 DEF IsMadeOf
<1>6. nMade' \in [DnsTasks -> DnsStates] /\ nCore' = c
  BY <1>3, <1>5, ElementReplaced DEF DnsInv, DnsTyped
<1>7. nAt' \in [DnsTasks -> DnsPlaces] /\ nAt'[t] = "sync" /\ \A u \in DnsTasks \ {t} : nAt'[u] = nAt[u]
  BY <1>1, DnsStepIs DEF DnsInv, DnsTaskGoes, DnsPlaces
<1>8. \A u \in DnsTasks : nAt'[u] \notin DnsAsking /\ nAt'[u] \notin DnsMaking
  BY <1>2, <1>7 DEF DnsAsking, DnsMaking
<1>9. DnsTyped'
  BY <1>1, <1>3, <1>6, <1>7 DEF DnsInv, DnsTyped, DnsPlaces
<1>10. LocksFit'
  BY <1>1, <1>2, <1>8 DEF LocksFit, DnsGiven
<1>11. StatesFit'
  BY <1>3, <1>5, <1>6, <1>8 DEF StatesFit, IsNew
<1>12. ConfirmationsFit'
  BY <1>1, <1>3, <1>5, <1>6, <1>8 DEF DnsInv, ConfirmationsFit, WasConfirmed
<1>13. ChoicesFit'
  <2>1. p \notin nExcused => c.on = nData[p].on
    BY <1>5 DEF DnsInv, ChoicesFit
  <2>2. p \notin nExcused => DnsTakes(nCore)'
    BY <1>1, <1>3, <1>5, <1>6, <2>1 DEF DnsTakes
  <2>3. \A u \in DnsTasks : nAt'[u] \notin {"taken", "apply"}
    BY <1>8 DEF DnsAsking
  <2> QED BY <1>1, <1>3, <1>8, <2>2, <2>3 DEF DnsInv, ChoicesFit
<1> QED BY <1>9, <1>10, <1>11, <1>12, <1>13 DEF DnsInv

\* The file of a profile is replaced.
LEMMA NewFileFits == ASSUME DnsGiven, DnsInv, Dns!NewFile PROVE DnsInv'
<1>1. UNCHANGED <<nCurrent, nData, nDraft, nBusy, nMade, nCore, nAt, nAsked, nLocks, nConfirmed, nWant>>
  BY DEF Dns!NewFile
<1>2. PICK p \in DnsProfiles, s \in DnsSources \cup {NoDns} : nSource' = [nSource EXCEPT ![p] = s] /\
             nExcused' = nExcused \cup {p}
  BY DEF Dns!NewFile
<1>3. nSource' \in [DnsProfiles -> DnsSources \cup {NoDns}] /\ \A q \in DnsProfiles \ {p} : nSource'[q] = nSource[q]
  BY <1>2, ElementReplaced DEF DnsInv, DnsTyped
<1>4. \A q \in DnsProfiles \ nExcused' : q \notin nExcused /\ nSource'[q] = nSource[q]
  BY <1>2, <1>3
<1>5. DnsTyped'
  BY <1>1, <1>3 DEF DnsInv, DnsTyped
<1>6. LocksFit' /\ StatesFit' /\ ConfirmationsFit'
  BY <1>1 DEF DnsInv, LocksFit, StatesFit, IsNew, ConfirmationsFit, WasConfirmed
<1>7. ChoicesFit'
  <2>1. nCurrent \in DnsProfiles
    BY DEF DnsInv, DnsTyped
  <2>2. nCurrent \notin nExcused' => DnsTakes(nCore)' /\ \A u \in DnsTasks : nAt'[u] \in DnsMaking =>
          DnsTakes(nMade[u])'
    BY <1>1, <1>4, <2>1 DEF DnsInv, ChoicesFit, DnsTakes
  <2> QED BY <1>1, <1>4, <2>2 DEF DnsInv, ChoicesFit
<1> QED BY <1>5, <1>6, <1>7 DEF DnsInv

\* The application starts again: nothing is confirmed any more.
LEMMA RestartFits == ASSUME DnsGiven, DnsInv, Dns!Restart PROVE DnsInv'
<1>1. (\A t \in DnsTasks : nAt[t] = "idle") /\ nData' = [p \in DnsProfiles |-> Dns!Loaded(nData[p])] /\
        nDraft' = nData'
      /\ nCore' = Dns!New(nCurrent, nSource[nCurrent], nData'[nCurrent]) /\ nConfirmed' = {}
      /\ nExcused' = nExcused \cup {p \in DnsProfiles : nSource[p] # NoDns} /\ nCurrent' = nCurrent /\
           nSource' = nSource
      /\ nBusy' = nBusy /\ nMade' = nMade /\ nAsked' = nAsked /\ nLocks' = nLocks /\ nWant' = nWant
  BY DEF Dns!Restart
<1>2. PICK t \in DnsTasks : Dns!Goes(t, "sync")
  BY DEF Dns!Restart
<1>3. nAt' \in [DnsTasks -> DnsPlaces] /\ nAt'[t] = "sync" /\ \A u \in DnsTasks \ {t} : nAt'[u] = nAt[u]
  BY <1>2, DnsStepIs DEF DnsInv, DnsTaskGoes, DnsPlaces
<1>4. \A u \in DnsTasks : nAt[u] \notin DnsAsking /\ nAt[u] \notin DnsMaking /\ nAt'[u] \notin DnsAsking /\
        nAt'[u] \notin DnsMaking
  BY <1>1, <1>3 DEF DnsAsking, DnsMaking
<1>5. nCurrent \in DnsProfiles /\ nSource[nCurrent] \in DnsSources \cup {NoDns} /\
        nData \in [DnsProfiles -> DnsSettings]
  BY DEF DnsInv, DnsTyped
<1>6. \A s \in DnsSettings : Dns!Loaded(s) \in DnsSettings /\ Dns!Loaded(s).on = s.on /\
        Dns!Loaded(s).confirmation = NoDns
  BY DEF Dns!Loaded, DnsSettings
<1>7. nData' \in [DnsProfiles -> DnsSettings] /\ \A p \in DnsProfiles : nData'[p].on = nData[p].on /\
        nData'[p].confirmation = NoDns
  BY <1>1, <1>5, <1>6
<1>8. /\ nCore' \in DnsStates /\ nCore'.uid = nCurrent /\ nCore'.source = nSource[nCurrent] /\
           nCore'.requested = nData'[nCurrent]
      /\ nCore'.on = Dns!New(nCurrent, nCore'.source, nCore'.requested).on
      /\ nSource[nCurrent] = NoDns => nCore'.on = nData'[nCurrent].on
  <2>1. nData'[nCurrent] \in DnsSettings
    BY <1>5, <1>7
  <2>2. PICK src \in DnsSources \cup {NoDns} : src = nSource[nCurrent]
    BY <1>5
  <2>3. PICK s \in DnsSettings : s = nData'[nCurrent]
    BY <2>1
  <2>4. nCore' = Dns!New(nCurrent, src, s)
    BY <1>1, <2>2, <2>3
  <2>5. PICK c : c = nCore'
    OBVIOUS
  <2>6. IsMadeOf(c, nCurrent, src, s)
    BY <1>5, <2>4, <2>5, MadeAnew
  <2> QED BY <2>2, <2>3, <2>5, <2>6 DEF IsMadeOf
<1>9. DnsTyped'
  BY <1>1, <1>3, <1>7, <1>8 DEF DnsInv, DnsTyped, DnsPlaces
<1>10. LocksFit'
  BY <1>1, <1>4 DEF DnsInv, LocksFit
<1>11. StatesFit'
  BY <1>1, <1>4, <1>8 DEF StatesFit, IsNew
<1>12. ConfirmationsFit'
  BY <1>1, <1>4, <1>5, <1>7, <1>8 DEF ConfirmationsFit, WasConfirmed
<1>13. ChoicesFit'
  <2>1. \A p \in DnsProfiles \ nExcused' : p \notin nExcused /\ nSource[p] = NoDns
    BY <1>1
  <2>2. nCurrent \notin nExcused' => DnsTakes(nCore)'
    BY <1>1, <1>5, <1>8, <2>1 DEF DnsTakes
  <2>3. \A u \in DnsTasks : nAt'[u] \notin {"taken", "apply"}
    BY <1>4 DEF DnsAsking
  <2> QED BY <1>1, <1>4, <1>7, <2>1, <2>2, <2>3 DEF DnsInv, ChoicesFit
<1> QED BY <1>9, <1>10, <1>11, <1>12, <1>13 DEF DnsInv

\* Every step keeps it.
LEMMA DnsNext == DnsGiven /\ DnsInv /\ [Dns!Next]_(Dns!vars) => DnsInv'
<1> SUFFICES ASSUME DnsGiven, DnsInv, [Dns!Next]_(Dns!vars) PROVE DnsInv'
  OBVIOUS
<1>1. CASE UNCHANGED Dns!vars
  BY <1>1 DEF Dns!vars, DnsInv, DnsTyped, LocksFit, StatesFit, IsNew, ConfirmationsFit, WasConfirmed, ChoicesFit,
     DnsTakes
<1>2. CASE Dns!Next
  BY <1>2, NewFileFits, RestartFits, DnsAskFits, DnsAskFailsFits, DnsAskEndsFits, MakeFits, AppliesFits, SyncFits,
     SwitchFits DEF Dns!Next
<1> QED BY <1>1, <1>2

\* What the core overrides has been confirmed, and what was chosen stands.
LEMMA DnsFollows == ASSUME DnsInv PROVE Dns!OverrideFollows
<1>1. nCore \in DnsStates /\ nCore.requested \in DnsSettings /\ nCore.source \in DnsSources \cup {NoDns} /\
        nCurrent \in DnsProfiles
      /\ IsNew(nCore) /\ WasConfirmed(nCurrent, nCore.requested)
  BY DEF DnsInv, DnsTyped, StatesFit, ConfirmationsFit, DnsStates
<1>2. Dns!OverrideConfirmed
  <2> SUFFICES ASSUME nCore.on = TRUE, nCore.source # NoDns PROVE <<nCore.uid, nCore.source>> \in nConfirmed
    BY <1>1 DEF Dns!OverrideConfirmed, DnsStates
  <2>1. nCore.on = Dns!New(nCurrent, nCore.source, nCore.requested).on /\ nCore.uid = nCurrent
    BY <1>1 DEF IsNew
  <2>2. nCore.requested.confirmation = nCore.source
    BY <1>1, <2>1, NewIsOn
  <2> QED BY <1>1, <2>1, <2>2 DEF WasConfirmed
<1>3. Dns!ChoiceStands
  BY <1>1 DEF DnsInv, ChoicesFit, DnsTakes, Dns!ChoiceStands, DnsAsking
<1> QED BY <1>2, <1>3 DEF Dns!OverrideFollows

\* The core overrides what a provider has set only where that was confirmed, and a choice stands.
THEOREM DnsHolds == DnsGiven => (Dns!Spec => []Dns!OverrideFollows)
<1> SUFFICES ASSUME DnsGiven PROVE Dns!Spec => []Dns!OverrideFollows
  OBVIOUS
<1>1. DnsGiven /\ Dns!Init => DnsInv
  BY DnsStarts
<1>2. DnsGiven /\ DnsInv /\ [Dns!Next]_(Dns!vars) => DnsInv'
  BY DnsNext
<1>3. DnsInv => Dns!OverrideFollows
  BY DnsFollows
<1> QED BY <1>1, <1>2, <1>3, PTL DEF Dns!Spec

-----------------------------------------------------------------------------
(* The synchronisation of a provider.                                       *)

VARIABLES yNow, yFile, yWriter, yLoaded, ySession, yDeclared, yCache, yQueued, ySerial, yTask,
          yOwed, yAsked
syncVars == <<yNow, yFile, yWriter, yLoaded, ySession, yDeclared, yCache, yQueued, ySerial,
      yTask, yOwed, yAsked>>
Sync == INSTANCE ProviderSync WITH now <- yNow, file <- yFile, writer <- yWriter,
    loaded <- yLoaded, session <- ySession, declared <- yDeclared, cache <- yCache,
    queued <- yQueued, serial <- ySerial, task <- yTask, owed <- yOwed, asked <- yAsked,
    Tasks <- SyncTasks

SyncGiven == Sync!Nobody \notin SyncTasks /\ Size \in Nat \ {0} /\ Attempts \in Nat

ASSUME SyncAssumption == SyncGiven

Alike(s) == \A i, j \in DOMAIN s : s[i] = s[j]
\* The file is of one version, and whole once its last write is no longer of this moment.
FileFits ==
  /\ yFile = [chunks |-> yFile.chunks, mtime |-> yFile.mtime, there |-> yFile.there]
  /\ yFile.chunks \in Seq(Nat) /\ yFile.mtime \in 0..yNow /\ yNow \in Nat /\ yWriter \in Nat /\ ySession \in Nat
  /\ Alike(yFile.chunks) /\ Len(yFile.chunks) <= Size
  /\ yWriter # 0 => \A i \in DOMAIN yFile.chunks : yFile.chunks[i] = yWriter
  /\ yWriter = 0 \/ yFile.mtime < yNow => yFile.chunks = << >> \/ Len(yFile.chunks) = Size
\* What a task has read is the beginning of the file that it saw; as long as the time of the file
\* is the time it saw, the file is that one.
Begun(g, d) ==
  /\ g \in Seq(Nat) /\ Alike(g)
  /\ g # << >> =>
       /\ d \in Nat \X Nat /\ d[2] < yNow
       /\ yFile.mtime = d[2] => Len(g) <= Len(yFile.chunks) /\ \A i \in 1..Len(g) : g[i] = yFile.chunks[i]
  /\ g = << >> <=> d = << >>
WholeFile(s) == s \in Seq(Nat) /\ Len(s) = Size /\ Alike(s)
TaskOf(a, n, s, b, g, d) == [at |-> a, tries |-> n, session |-> s, before |-> b, got |-> g, id |-> d]
TaskFits(k) ==
  /\ k = TaskOf(k.at, k.tries, k.session, k.before, k.got, k.id)
  /\ k.at \in {"idle", "wait", "times", "read", "check", "recheck", "publish"}
  /\ k.at \in {"idle", "wait", "times"} => k.got = << >> /\ k.id = << >>
  /\ k.at = "read" => Begun(k.got, k.id)
  /\ k.at \in {"check", "recheck", "publish"} => WholeFile(k.got)
SyncInv ==
  /\ FileFits /\ DOMAIN yTask = SyncTasks /\ \A t \in SyncTasks : TaskFits(yTask[t])
  /\ yCache # << >> => WholeFile(yCache)

\* The invariant holds at first.
LEMMA SyncStarts == ASSUME SyncGiven PROVE Sync!Init => SyncInv
<1> SUFFICES ASSUME Sync!Init PROVE SyncInv
  OBVIOUS
<1>1. /\ yNow = 1 /\ yFile = [chunks |-> << >>, mtime |-> 0, there |-> FALSE] /\ yWriter = 0 /\ ySession = 1
      /\ yCache = << >> /\ yTask = [t \in SyncTasks |-> Sync!Nothing]
  BY DEF Sync!Init
<1>2. FileFits
  BY <1>1 DEF FileFits, Alike, SyncGiven
<1>3. TaskFits(Sync!Nothing)
  <2>1. PICK k : k = Sync!Nothing
    OBVIOUS
  <2>2. k.at = "idle" /\ k.got = << >> /\ k.id = << >> /\ k.tries = 0 /\ k.session = 0 /\ k.before = 0
    BY <2>1 DEF Sync!Nothing
  <2>3. k = TaskOf(k.at, k.tries, k.session, k.before, k.got, k.id)
    BY <2>1, <2>2 DEF Sync!Nothing, TaskOf
  <2> QED BY <2>1, <2>2, <2>3 DEF TaskFits
<1>4. DOMAIN yTask = SyncTasks /\ \A t \in SyncTasks : TaskFits(yTask[t])
  BY <1>1, <1>3
<1> QED BY <1>1, <1>2, <1>4 DEF SyncInv

\* mihomo and the clock: the file stays one version, and its time is of the last write.
LEMMA ProviderFileSteps ==
  ASSUME SyncGiven, FileFits, Sync!Truncate \/ Sync!Write \/ Sync!NoteLoad \/ Sync!Tick \/ Sync!Restart
  PROVE  FileFits' /\ yNow <= yNow' /\ (yFile' = yFile \/ yFile'.mtime = yNow)
<1>1. CASE Sync!Truncate
  <2>1. yWriter' = Sync!Version /\ yFile' = [chunks |-> << >>, mtime |-> yNow, there |-> TRUE] /\ yNow' = yNow /\
          ySession' = ySession
    BY <1>1 DEF Sync!Truncate
  <2>2. Sync!Version \in Nat
    BY DEF Sync!Version, FileFits
  <2> QED BY <2>1, <2>2 DEF FileFits, Alike, SyncGiven
<1>2. CASE Sync!Write
  <2>1. PICK c, m, h : c = yFile.chunks /\ m = yFile.mtime /\ h = yFile.there
    OBVIOUS
  <2>2. /\ yWriter # 0 /\ Len(yFile.chunks) < Size /\ yWriter' = yWriter /\ yNow' = yNow /\ ySession' = ySession
        /\ yFile' = [yFile EXCEPT !.chunks = Append(c, yWriter), !.mtime = yNow]
    BY <1>2, <2>1 DEF Sync!Write
  <2>3. yFile' = [chunks |-> Append(c, yWriter), mtime |-> yNow, there |-> h]
    BY <2>1, <2>2 DEF FileFits
  <2>4. /\ Append(c, yWriter) \in Seq(Nat) /\ Len(Append(c, yWriter)) = Len(c) + 1
        /\ \A i \in DOMAIN Append(c, yWriter) : Append(c, yWriter)[i] = yWriter
    BY <2>1, <2>2 DEF FileFits
  <2>5. Alike(yFile'.chunks) /\ Len(yFile'.chunks) <= Size
    BY <2>1, <2>2, <2>3, <2>4 DEF Alike, SyncGiven, FileFits
  <2>6. yFile'.chunks = Append(c, yWriter) /\ yFile'.mtime = yNow /\ yFile'.there = h
    BY <2>3
  <2>7. yFile'.mtime \in 0..yNow' /\ ~(yFile'.mtime < yNow')
    BY <2>2, <2>6 DEF FileFits
  <2>8. yFile' = [chunks |-> yFile'.chunks, mtime |-> yFile'.mtime, there |-> yFile'.there]
    BY <2>3
  <2>9. yFile'.chunks \in Seq(Nat) /\ \A i \in DOMAIN yFile'.chunks : yFile'.chunks[i] = yWriter
    BY <2>4, <2>6
  <2>10. yNow' \in Nat /\ yWriter' \in Nat /\ yWriter' # 0 /\ yWriter' = yWriter /\ ySession' \in Nat /\ yNow <= yNow'
    BY <2>2 DEF FileFits
  <2> QED BY <2>5, <2>6, <2>7, <2>8, <2>9, <2>10 DEF FileFits
<1>3. CASE Sync!NoteLoad
  <2>1. yWriter # 0 /\ Len(yFile.chunks) = Size /\ yWriter' = 0 /\ yFile' = yFile /\ yNow' = yNow /\
          ySession' = ySession
    BY <1>3 DEF Sync!NoteLoad
  <2> QED BY <2>1 DEF FileFits
<1>4. CASE Sync!Tick
  <2>1. /\ yNow' = yNow + 1 /\ (yWriter # 0 => Len(yFile.chunks) = Size)
        /\ yFile' = yFile /\ yWriter' = yWriter /\ ySession' = ySession
    BY <1>4 DEF Sync!Tick, Sync!core
  <2>2. yNow \in Nat /\ yNow' \in Nat /\ yNow < yNow' /\ yFile.mtime \in 0..yNow' /\ yFile.mtime \in Nat
    BY <2>1 DEF FileFits
  <2> QED BY <2>1, <2>2 DEF FileFits
<1>5. CASE Sync!Restart
  <2>1. ySession' = ySession + 1 /\ yWriter' = 0 /\ yNow' = yNow
    BY <1>5 DEF Sync!Restart
  <2>2. CASE yFile' = [chunks |-> << >>, mtime |-> yNow, there |-> FALSE]
    BY <2>1, <2>2 DEF FileFits, Alike, SyncGiven
  <2>3. CASE yWriter = 0 /\ yFile' = yFile
    BY <2>1, <2>3 DEF FileFits
  <2> QED BY <1>5, <2>2, <2>3 DEF Sync!Restart
<1> QED BY <1>1, <1>2, <1>3, <1>4, <1>5

\* What a task has read stays what it is while the file moves on.
LEMMA TaskStays ==
  ASSUME FileFits, FileFits', yNow <= yNow', yFile' = yFile \/ yFile'.mtime = yNow, NEW k, TaskFits(k)
  PROVE  TaskFits(k)'
<1>1. yNow \in Nat /\ yNow' \in Nat
  BY DEF FileFits
<1>2. Begun(k.got, k.id) => Begun(k.got, k.id)'
  <2> SUFFICES ASSUME Begun(k.got, k.id), k.got # << >>
               PROVE  k.id[2] < yNow' /\ (yFile'.mtime = k.id[2] => Len(k.got) <= Len(yFile'.chunks)
                        /\ \A i \in 1..Len(k.got) : k.got[i] = yFile'.chunks[i])
    BY DEF Begun
  <2>1. k.id[2] \in Nat /\ k.id[2] < yNow
    BY DEF Begun
  <2>2. k.id[2] < yNow' /\ yNow # k.id[2]
    BY <1>1, <2>1
  <2> QED BY <2>2 DEF Begun
<1> QED BY <1>2 DEF TaskFits

\* One task goes on, the others and the file stay.
LEMMA TaskGoes ==
  ASSUME SyncInv, NEW t \in SyncTasks, NEW k, yTask' = [yTask EXCEPT ![t] = k], TaskFits(k),
         yFile' = yFile, yNow' = yNow, yWriter' = yWriter, ySession' = ySession, yCache' = yCache \/
             WholeFile(yCache')
  PROVE  SyncInv'
<1>1. FileFits'
  BY DEF SyncInv, FileFits
<1>2. TaskFits(k)' /\ \A u \in SyncTasks : TaskFits(yTask[u])
  BY <1>1, TaskStays DEF SyncInv, FileFits
<1>3. DOMAIN yTask' = SyncTasks /\ yTask'[t] = k /\ \A u \in SyncTasks : u # t => yTask'[u] = yTask[u]
  BY DEF SyncInv
<1>4. ASSUME NEW u \in SyncTasks PROVE TaskFits(yTask[u])'
  <2>1. PICK m : m = yTask'[u]
    OBVIOUS
  <2>2. TaskFits(m)
    BY <1>2, <1>3, <2>1
  <2>3. TaskFits(m)'
    BY <1>1, <2>2, TaskStays DEF SyncInv, FileFits
  <2> QED BY <2>1, <2>3 DEF TaskFits, Begun
<1>5. (yCache # << >> => WholeFile(yCache))'
  BY DEF SyncInv
<1> QED BY <1>1, <1>3, <1>4, <1>5 DEF SyncInv

\* What makes a task fit.
LEMMA TaskOfFits ==
  \A a, n, s, b, g, d :
    /\ a \in {"idle", "wait", "times", "read", "check", "recheck", "publish"}
    /\ a \in {"idle", "wait", "times"} => g = << >> /\ d = << >>
    /\ a \in {"check", "recheck", "publish"} => WholeFile(g)
    /\ a = "read" => Begun(g, d)
    => TaskFits(TaskOf(a, n, s, b, g, d))
<1> SUFFICES ASSUME NEW a, NEW n, NEW s, NEW b, NEW g, NEW d,
                    a \in {"idle", "wait", "times", "read", "check", "recheck", "publish"},
                    a \in {"idle", "wait", "times"} => g = << >> /\ d = << >>,
                    a \in {"check", "recheck", "publish"} => WholeFile(g),
                    a = "read" => Begun(g, d)
             PROVE  TaskFits(TaskOf(a, n, s, b, g, d))
  OBVIOUS
<1>1. PICK k : k = TaskOf(a, n, s, b, g, d)
  OBVIOUS
<1>2. k.at = a /\ k.tries = n /\ k.session = s /\ k.before = b /\ k.got = g /\ k.id = d
  BY <1>1 DEF TaskOf
<1>3. k = TaskOf(k.at, k.tries, k.session, k.before, k.got, k.id)
  BY <1>1, <1>2
<1> QED BY <1>1, <1>2, <1>3 DEF TaskFits

\* A task is what it is made of, and what a step leaves of it.
LEMMA TaskIs ==
  ASSUME NEW r, TaskFits(r)
  PROVE  \E a, n, s, b, g, d :
           /\ r = TaskOf(a, n, s, b, g, d)
           /\ r.at = a /\ r.tries = n /\ r.session = s /\ r.before = b /\ r.got = g /\ r.id = d
BY DEF TaskFits

\* A task that begins, or begins again, fits.
LEMMA FreshFits ==
  TaskFits(Sync!Nothing) /\ TaskFits([Sync!Nothing EXCEPT !.at = "wait"]) /\
      \A n : TaskFits([Sync!Nothing EXCEPT !.at = "wait", !.tries = n])
<1>1. Sync!Nothing = TaskOf("idle", 0, 0, 0, << >>, << >>)
  BY DEF Sync!Nothing, TaskOf
<1>2. \A n : TaskFits(TaskOf("idle", n, 0, 0, << >>, << >>)) /\ TaskFits(TaskOf("wait", n, 0, 0, << >>, << >>))
  BY TaskOfFits
<1>3. PICK r : r = Sync!Nothing
  OBVIOUS
<1>4. TaskFits([Sync!Nothing EXCEPT !.at = "wait"])
  <2>1. PICK q : q = [r EXCEPT !.at = "wait"]
    OBVIOUS
  <2>2. q = TaskOf("wait", 0, 0, 0, << >>, << >>)
    BY <1>1, <1>3, <2>1 DEF TaskOf
  <2>3. TaskFits(q)
    BY <1>2, <2>2
  <2> QED BY ONLY <1>3, <2>1, <2>3
<1>5. ASSUME NEW n PROVE TaskFits([Sync!Nothing EXCEPT !.at = "wait", !.tries = n])
  <2>1. PICK q : q = [r EXCEPT !.at = "wait", !.tries = n]
    OBVIOUS
  <2>2. q = TaskOf("wait", n, 0, 0, << >>, << >>)
    BY <1>1, <1>3, <2>1 DEF TaskOf
  <2>3. TaskFits(q)
    BY <1>2, <2>2
  <2> QED BY <1>3, <2>1, <2>3
<1> QED BY <1>1, <1>2, <1>4, <1>5

\* A task that has read a whole file may go on with it.
LEMMA PlaceFits ==
  ASSUME NEW r, TaskFits(r), WholeFile(r.got), NEW place \in {"check", "recheck", "publish"}
  PROVE  TaskFits([r EXCEPT !.at = place])
<1>1. PICK a, m, v, b, g, d : r = TaskOf(a, m, v, b, g, d) /\ r.got = g
  BY TaskIs
<1>2. PICK q : q = [r EXCEPT !.at = place]
  OBVIOUS
<1>3. q = TaskOf(place, m, v, b, g, d)
  BY <1>1, <1>2 DEF TaskOf
<1>4. TaskFits(TaskOf(place, m, v, b, g, d))
  BY <1>1, TaskOfFits
<1> QED BY <1>2, <1>3, <1>4

\* A task that ends, or waits for another attempt, has nothing in its hands.
LEMMA EndsFit ==
  ASSUME SyncInv, NEW t \in SyncTasks, Sync!Pending(t) \/ Sync!Done(t), yFile' = yFile, yNow' = yNow,
           yWriter' = yWriter, ySession' = ySession,
         yCache' = yCache \/ WholeFile(yCache')
  PROVE  SyncInv'
<1>1. PICK k : yTask' = [yTask EXCEPT ![t] = k] /\ TaskFits(k)
  <2>1. CASE Sync!Done(t)
    BY <2>1, FreshFits DEF Sync!Done
  <2>2. CASE Sync!Pending(t)
    <3>1. CASE yTask[t].tries < Attempts
      <4>1. PICK n : n = yTask[t].tries
        OBVIOUS
      <4>2. yTask' = [yTask EXCEPT ![t] = [Sync!Nothing EXCEPT !.at = "wait", !.tries = n]]
        BY <2>2, <3>1, <4>1 DEF Sync!Pending
      <4> QED BY <4>2, FreshFits
    <3>2. CASE ~(yTask[t].tries < Attempts)
      <4>1. yTask' = [yTask EXCEPT ![t] = Sync!Nothing]
        BY <2>2, <3>2 DEF Sync!Pending
      <4> QED BY <4>1, FreshFits
    <3> QED BY <3>1, <3>2
  <2> QED BY <2>1, <2>2
<1> QED BY <1>1, TaskGoes

\* A sync that begins, and one that reads its first times.
LEMMA BeginFits == ASSUME SyncInv, NEW t \in SyncTasks, Sync!BeginSync(t) PROVE SyncInv'
<1>1. PICK r, n : r = yTask[t] /\ n = r.tries + 1
  OBVIOUS
<1>2. /\ r.at = "wait" /\ yTask' = [yTask EXCEPT ![t] = [r EXCEPT !.at = "times", !.tries = n]]
      /\ yFile' = yFile /\ yNow' = yNow /\ yWriter' = yWriter /\ ySession' = ySession /\ yCache' = yCache
  <2>1. UNCHANGED Sync!core /\ UNCHANGED yNow /\ UNCHANGED yCache
    BY DEF Sync!BeginSync
  <2>2. r.at = "wait"
    BY <1>1 DEF Sync!BeginSync
  <2>4. yTask' = [yTask EXCEPT ![t] = [@ EXCEPT !.at = "times", !.tries = yTask[t].tries + 1]]
    BY DEF Sync!BeginSync
  <2>3. yTask' = [yTask EXCEPT ![t] = [r EXCEPT !.at = "times", !.tries = n]]
    BY <1>1, <2>4
  <2> QED BY <2>1, <2>2, <2>3 DEF Sync!core
<1>3. TaskFits(r)
  BY <1>1 DEF SyncInv
<1>4. TaskFits([r EXCEPT !.at = "times", !.tries = n])
  <2>1. PICK a, m, s, b, g, d : r = TaskOf(a, m, s, b, g, d) /\ r.at = a /\ r.got = g /\ r.id = d
    BY <1>3, TaskIs
  <2>5. PICK q : q = [r EXCEPT !.at = "times", !.tries = n]
    OBVIOUS
  <2>2. q = TaskOf("times", n, s, b, g, d)
    BY <2>1, <2>5 DEF TaskOf
  <2>3. g = << >> /\ d = << >>
    BY <1>2, <1>3, <2>1 DEF TaskFits
  <2>4. TaskFits(TaskOf("times", n, s, b, << >>, << >>))
    BY TaskOfFits
  <2> QED BY <2>2, <2>3, <2>4, <2>5
<1> QED BY <1>2, <1>4, TaskGoes

\* The times before the file is read.
LEMMA TimesFit == ASSUME SyncInv, NEW t \in SyncTasks, Sync!TimesBefore(t) PROVE SyncInv'
<1>1. yFile' = yFile /\ yNow' = yNow /\ yWriter' = yWriter /\ ySession' = ySession /\ yCache' = yCache
  BY DEF Sync!TimesBefore, Sync!Unchanged, Sync!core
<1>2. CASE ySession = 0 \/ ~yDeclared
  BY <1>1, <1>2, EndsFit DEF Sync!TimesBefore
<1>3. CASE ~(ySession = 0 \/ ~yDeclared)
  <2>1. PICK r : r = yTask[t]
    OBVIOUS
  <2>2. r.at = "times" /\ yTask' = [yTask EXCEPT ![t] = [r EXCEPT !.at = "read", !.session = ySession,
          !.before = yLoaded]]
    BY <1>3, <2>1 DEF Sync!TimesBefore
  <2>3. TaskFits(r)
    BY <2>1 DEF SyncInv
  <2>4. PICK s, l : s = ySession /\ l = yLoaded
    OBVIOUS
  <2>5. TaskFits([r EXCEPT !.at = "read", !.session = s, !.before = l])
    <3>1. PICK a, m, v, b, g, d : r = TaskOf(a, m, v, b, g, d) /\ r.at = a /\ r.got = g /\ r.id = d
      BY <2>3, TaskIs
    <3>6. PICK q : q = [r EXCEPT !.at = "read", !.session = s, !.before = l]
      OBVIOUS
    <3>2. q = TaskOf("read", m, s, l, g, d)
      BY <3>1, <3>6 DEF TaskOf
    <3>3. g = << >> /\ d = << >>
      BY <2>2, <2>3, <3>1 DEF TaskFits
    <3>4. Begun(<< >>, << >>)
      BY DEF Begun, Alike
    <3>5. TaskFits(TaskOf("read", m, s, l, << >>, << >>))
      BY <3>4, TaskOfFits
    <3> QED BY <3>2, <3>3, <3>5, <3>6
  <2> QED BY <1>1, <2>2, <2>4, <2>5, TaskGoes
<1> QED BY <1>2, <1>3

\* A chunk is of the file that the task began with, and what is read to its end is whole.
LEMMA ReadFits == ASSUME SyncGiven, SyncInv, NEW t \in SyncTasks, Sync!ReadChunk(t) PROVE SyncInv'
<1>1. yFile' = yFile /\ yNow' = yNow /\ yWriter' = yWriter /\ ySession' = ySession /\ yCache' = yCache
  BY DEF Sync!ReadChunk, Sync!Unchanged, Sync!core
<1>2. PICK r : r = yTask[t]
  OBVIOUS
<1>3. TaskFits(r) /\ r.at = "read" /\ Begun(r.got, r.id) /\ FileFits
  BY <1>2 DEF SyncInv, TaskFits, Sync!ReadChunk
<1>4. CASE Sync!Done(t) \/ Sync!Pending(t)
  BY <1>1, <1>4, EndsFit
<1>5. ASSUME yFile.chunks # << >>, Sync!HasSettled, Sync!Same(t), Len(r.got) <= Len(yFile.chunks),
             yTask' = [yTask EXCEPT ![t] = IF Len(r.got) = Len(yFile.chunks) THEN [r EXCEPT !.at = "check"]
                        ELSE [r EXCEPT !.got = Append(r.got, yFile.chunks[Len(r.got) + 1]), !.id = Sync!Identity]]
      PROVE  SyncInv'
  <2>1. /\ yFile.mtime \in Nat /\ yNow \in Nat /\ yFile.mtime < yNow /\ Len(yFile.chunks) = Size
    BY <1>3, <1>5 DEF FileFits, Sync!HasSettled
  <2>2. r.got # << >> => r.id[2] = yFile.mtime
    BY <1>2, <1>3, <1>5 DEF Sync!Same, Sync!Identity, Begun
  <2>3. r.got \in Seq(Nat) /\ yFile.chunks \in Seq(Nat)
    BY <1>3 DEF Begun, FileFits
  <2>4. \A i \in 1..Len(r.got) : r.got[i] = yFile.chunks[i]
    BY <1>3, <2>2, <2>3 DEF Begun
  <2>5. CASE Len(r.got) = Len(yFile.chunks)
    <3>1. WholeFile(r.got)
      BY <1>3, <2>1, <2>3, <2>5 DEF WholeFile, Begun
    <3>2. TaskFits([r EXCEPT !.at = "check"])
      BY <1>3, <3>1, PlaceFits
    <3> QED BY <1>1, <1>5, <2>5, <3>2, TaskGoes
  <2>6. CASE Len(r.got) # Len(yFile.chunks)
    <3>1. PICK g, d : g = Append(r.got, yFile.chunks[Len(r.got) + 1]) /\ d = Sync!Identity
      OBVIOUS
    <3>2. /\ g \in Seq(Nat) /\ g # << >> /\ Len(g) = Len(r.got) + 1 /\ Len(g) <= Len(yFile.chunks)
          /\ \A i \in 1..Len(g) : g[i] = yFile.chunks[i]
      BY <1>5, <2>3, <2>4, <2>6, <3>1
    <3>3. d \in Nat \X Nat /\ d[2] = yFile.mtime /\ d # << >>
      BY <2>1, <2>3, <3>1 DEF Sync!Identity
    <3>4. Alike(g)
      <4>1. DOMAIN g = 1..Len(g) /\ 1..Len(g) \subseteq DOMAIN yFile.chunks
        BY <2>3, <3>2
      <4>2. \A i, j \in DOMAIN yFile.chunks : yFile.chunks[i] = yFile.chunks[j]
        BY <1>3 DEF Alike, FileFits
      <4> QED BY <3>2, <4>1, <4>2 DEF Alike
    <3>5. TaskFits([r EXCEPT !.got = g, !.id = d])
      <4>1. PICK a, m, v, b, h, e : r = TaskOf(a, m, v, b, h, e) /\ r.at = a
        BY <1>3, TaskIs
      <4>5. PICK q : q = [r EXCEPT !.got = g, !.id = d]
        OBVIOUS
      <4>2. q = TaskOf("read", m, v, b, g, d)
        BY <1>3, <4>1, <4>5 DEF TaskOf
      <4>3. Begun(g, d)
        BY <2>1, <3>2, <3>3, <3>4 DEF Begun
      <4>4. TaskFits(TaskOf("read", m, v, b, g, d))
        BY <4>3, TaskOfFits
      <4> QED BY <4>2, <4>4, <4>5
    <3>6. yTask' = [yTask EXCEPT ![t] = [r EXCEPT !.got = g, !.id = d]]
      BY <1>5, <2>6, <3>1
    <3> QED BY <1>1, <3>5, <3>6, TaskGoes
  <2> QED BY <2>5, <2>6
<1>6. CASE ~(Sync!Done(t) \/ Sync!Pending(t))
  <2>1. yFile.there /\ yFile.chunks # << >> /\ Sync!HasSettled /\ Sync!Same(t) /\ ~(Len(r.got) > Len(yFile.chunks))
    BY <1>2, <1>6 DEF Sync!ReadChunk
  <2>4. yTask' = [yTask EXCEPT ![t] =
                   IF Len(yTask[t].got) = Len(yFile.chunks) THEN [@ EXCEPT !.at = "check"]
                   ELSE [@ EXCEPT !.got = Append(yTask[t].got, yFile.chunks[Len(yTask[t].got) + 1]),
                       !.id = Sync!Identity]]
    BY <1>6 DEF Sync!ReadChunk
  <2>2. yTask' = [yTask EXCEPT ![t] = IF Len(r.got) = Len(yFile.chunks) THEN [r EXCEPT !.at = "check"]
                   ELSE [r EXCEPT !.got = Append(r.got, yFile.chunks[Len(r.got) + 1]), !.id = Sync!Identity]]
    BY <1>2, <2>4
  <2>3. Len(r.got) <= Len(yFile.chunks)
    BY <1>3, <2>1 DEF Begun, FileFits
  <2> QED BY <1>5, <2>1, <2>2, <2>3
<1> QED BY <1>4, <1>6

\* What was read whole stays whole to its end.
LEMMA CheckFits == ASSUME SyncInv, NEW t \in SyncTasks, Sync!TimesAfter(t) \/ Sync!Recheck(t) PROVE SyncInv'
<1>1. yFile' = yFile /\ yNow' = yNow /\ yWriter' = yWriter /\ ySession' = ySession /\ yCache' = yCache
  BY DEF Sync!TimesAfter, Sync!Recheck, Sync!Unchanged, Sync!core
<1>2. CASE Sync!Done(t) \/ Sync!Pending(t)
  BY <1>1, <1>2, EndsFit
<1>3. CASE \E place \in {"recheck", "publish"} : Sync!Goto(t, place) /\ yTask[t].at \in {"check", "recheck"}
  <2>1. PICK place \in {"recheck", "publish"} : Sync!Goto(t, place) /\ yTask[t].at \in {"check", "recheck"}
    BY <1>3
  <2>2. PICK r : r = yTask[t]
    OBVIOUS
  <2>3. TaskFits(r) /\ r.at \in {"check", "recheck"}
    BY <2>1, <2>2 DEF SyncInv
  <2>4. TaskFits([r EXCEPT !.at = place])
    BY <2>3, PlaceFits DEF TaskFits
  <2>5. yTask' = [yTask EXCEPT ![t] = [r EXCEPT !.at = place]]
    BY <2>1, <2>2 DEF Sync!Goto
  <2> QED BY <1>1, <2>4, <2>5, TaskGoes
<1> QED BY <1>2, <1>3 DEF Sync!TimesAfter, Sync!Recheck

\* What is published is what was read whole.
LEMMA PublishFits == ASSUME SyncInv, NEW t \in SyncTasks, Sync!Publish(t) PROVE SyncInv'
<1>1. /\ yTask[t].at = "publish" /\ Sync!Done(t) /\ yFile' = yFile /\ yNow' = yNow /\ yWriter' = yWriter /\
           ySession' = ySession
      /\ yCache' = yCache \/ yCache' = yTask[t].got
  BY DEF Sync!Publish, Sync!core
<1>2. WholeFile(yTask[t].got)
  BY <1>1 DEF SyncInv, TaskFits
<1> QED BY <1>1, <1>2, EndsFit

\* A request wakes a task, or finds one queued.
LEMMA RequestFits == ASSUME SyncInv, Sync!Request PROVE SyncInv'
<1>1. yFile' = yFile /\ yNow' = yNow /\ yWriter' = yWriter /\ ySession' = ySession /\ yCache' = yCache
  BY DEF Sync!Request, Sync!core
<1>2. CASE yTask' = yTask
  <2>1. FileFits'
    BY <1>1 DEF SyncInv, FileFits
  <2> QED BY <1>1, <1>2, <2>1 DEF SyncInv, TaskFits, Begun
<1>3. ASSUME NEW t \in SyncTasks, yTask' = [yTask EXCEPT ![t] = [Sync!Nothing EXCEPT !.at = "wait"]] PROVE SyncInv'
  BY <1>1, <1>3, FreshFits, TaskGoes
<1> QED BY <1>2, <1>3 DEF Sync!Request

\* A provider file is published whole and of one version, though it is read chunk by chunk
\* while the core writes it and is started again; for every set of tasks, every size and every
\* number of attempts.
THEOREM SyncHolds == ASSUME SyncGiven PROVE Sync!Spec => []Sync!PublishedWhole
<1>1. Sync!Init => SyncInv
  BY SyncStarts
<1>2. SyncInv /\ [Sync!Next]_(Sync!vars) => SyncInv'
  <2> SUFFICES ASSUME SyncInv, [Sync!Next]_(Sync!vars) PROVE SyncInv'
    OBVIOUS
  <2>1. CASE Sync!Truncate \/ Sync!Write \/ Sync!NoteLoad \/ Sync!Tick \/ Sync!Restart
    <3>1. FileFits /\ FileFits' /\ yNow <= yNow' /\ (yFile' = yFile \/ yFile'.mtime = yNow)
      BY <2>1, ProviderFileSteps DEF SyncInv
    <3>2. yTask' = yTask /\ yCache' = yCache
      BY <2>1 DEF Sync!Truncate, Sync!Write, Sync!NoteLoad, Sync!Tick, Sync!Restart
    <3>3. ASSUME NEW t \in SyncTasks PROVE TaskFits(yTask[t])'
      <4>1. PICK k : k = yTask[t]
        OBVIOUS
      <4>2. TaskFits(k)'
        BY <3>1, <4>1, TaskStays DEF SyncInv
      <4> QED BY <3>2, <4>1, <4>2 DEF TaskFits, Begun
    <3> QED BY <3>1, <3>2, <3>3 DEF SyncInv
  <2>2. CASE Sync!Request
    BY <2>2, RequestFits
  <2>3. ASSUME NEW t \in SyncTasks, Sync!Sync(t) PROVE SyncInv'
    BY <2>3, BeginFits, TimesFit, ReadFits, CheckFits, PublishFits DEF Sync!Sync
  <2>4. CASE UNCHANGED Sync!vars
    <3>1. /\ yFile' = yFile /\ yNow' = yNow /\ yWriter' = yWriter /\ ySession' = ySession /\ yCache' = yCache /\
               yTask' = yTask
      BY <2>4 DEF Sync!vars, Sync!core
    <3>2. FileFits'
      BY <3>1 DEF SyncInv, FileFits
    <3> QED BY <3>1, <3>2 DEF SyncInv, TaskFits, Begun
  <2> QED BY <2>1, <2>2, <2>3, <2>4 DEF Sync!Next
<1>3. SyncInv => Sync!PublishedWhole
  BY DEF SyncInv, Sync!PublishedWhole, WholeFile, Alike
<1> QED BY <1>1, <1>2, <1>3, PTL DEF Sync!Spec

-----------------------------------------------------------------------------
(* The providers of a runtime configuration.                                *)

VARIABLES uConfig, uStage, uOutcome
bundleVars == <<uConfig, uStage, uOutcome>>
Bundle == INSTANCE RuntimeBundle WITH config <- uConfig, stage <- uStage, outcome <- uOutcome,
    Names <- ProviderNames

Remote(p) == p.remote /\ p.url # NoUrl
\* Of two sources at one path the path is a local provider's too.
Apart(c) ==
  \A i, j \in Bundle!Index(c) :
    Remote(c[i]) /\ Remote(c[j]) /\ c[i].path = c[j].path /\ ~Bundle!Escapes(c[i]) /\ c[i].url # c[j].url
      => Bundle!LocalOwner(c, c[i].path)
BundleInv ==
  /\ uStage = "declare" => uConfig \in Seq(Bundle!Provider)
  /\ uStage # "declare" => Apart(uConfig) /\ \A i \in Bundle!Index(uConfig) : i \in Nat \ {0} /\
       \A j \in 1 .. i - 1 : j \in Bundle!Index(uConfig)
  /\ Bundle!SourcesKeptApart
\* A provider that is given another path keeps the rest.
LEMMA PathSet ==
  ASSUME NEW p \in Bundle!Provider, NEW x, NEW q, q = [p EXCEPT !.path = x]
  PROVE  q.path = x /\ q.remote = p.remote /\ q.url = p.url
BY DEF Bundle!Provider

\* The path that a provider is given is the source's own, and is in no configuration.
LEMMA ReplacementIs ==
  ASSUME NEW c, NEW d, NEW u
  PROVE  /\ Bundle!Replacement(c, d, u) \notin Bundle!Reserved(c) \/ Bundle!Replacement(c, d, u) \notin Bundle!Paths
         /\ \E n : Bundle!Replacement(c, d, u) = <<d, u, n>>
<1>1. CASE Bundle!Allocated(d, u, 0) \in Bundle!Reserved(c)
  <2>1. Bundle!Replacement(c, d, u) = <<d, u, 1>>
    BY <1>1 DEF Bundle!Replacement, Bundle!Allocated
  <2>2. <<d, u, 1>> \notin Bundle!Paths
    BY DEF Bundle!Paths, Bundle!Allocated, Bundle!Escaping
  <2> QED BY <2>1, <2>2
<1>2. CASE Bundle!Allocated(d, u, 0) \notin Bundle!Reserved(c)
  <2>1. Bundle!Replacement(c, d, u) = <<d, u, 0>> /\ <<d, u, 0>> \notin Bundle!Reserved(c)
    BY <1>2 DEF Bundle!Replacement, Bundle!Allocated
  <2> QED BY <2>1
<1> QED BY <1>1, <1>2

Moved(c, p) == ~Bundle!Escapes(p) /\ Remote(p) /\ Bundle!Conflict(c, p.path)
\* What becomes of one provider.
LEMMA ResolvedIs ==
  ASSUME NEW c \in Seq(Bundle!Provider), NEW i \in Bundle!Index(c)
  PROVE  /\ Bundle!Index(Bundle!Resolved(c)) = Bundle!Index(c) /\ c[i] \in Bundle!Provider
         /\ Bundle!Resolved(c)[i].remote = c[i].remote /\ Bundle!Resolved(c)[i].url = c[i].url
         /\ Moved(c, c[i]) => Bundle!Resolved(c)[i].path = Bundle!Replacement(c, c[i].path, c[i].url)
         /\ ~Moved(c, c[i]) => Bundle!Resolved(c)[i] = c[i]
<1>1. Bundle!Index(Bundle!Resolved(c)) = Bundle!Index(c) /\ c[i] \in Bundle!Provider
  BY DEF Bundle!Index, Bundle!Resolved
<1>2. CASE Moved(c, c[i])
  <2>1. PICK p, x, q : p = c[i] /\ x = Bundle!Replacement(c, p.path, p.url) /\ q = [p EXCEPT !.path = x]
    OBVIOUS
  <2>2. Bundle!Resolved(c)[i] = [c[i] EXCEPT !.path = Bundle!Replacement(c, c[i].path, c[i].url)]
    BY <1>2 DEF Moved, Bundle!Resolved, Remote
  <2>3. Bundle!Resolved(c)[i] = q
    BY <2>1, <2>2
  <2>4. q.path = x /\ q.remote = p.remote /\ q.url = p.url
    BY <1>1, <2>1, PathSet
  <2> QED BY <1>1, <1>2, <2>1, <2>3, <2>4
<1>3. CASE ~Moved(c, c[i])
  BY <1>1, <1>3 DEF Moved, Bundle!Resolved, Remote
<1> QED BY <1>1, <1>2, <1>3

\* A local provider at a path is still there.
LEMMA LocalStays ==
  ASSUME NEW c \in Seq(Bundle!Provider), NEW d, Bundle!LocalOwner(c, d)
  PROVE  Bundle!LocalOwner(Bundle!Resolved(c), d)
<1>1. PICK k \in Bundle!Index(c) : c[k].path = d /\ ~Bundle!Escapes(c[k]) /\ (~c[k].remote \/ c[k].url = NoUrl)
  BY DEF Bundle!LocalOwner, Bundle!Owners
<1>2. Bundle!Index(Bundle!Resolved(c)) = Bundle!Index(c) /\ Bundle!Resolved(c)[k] = c[k]
  BY <1>1, ResolvedIs DEF Moved, Remote
<1> QED BY <1>1, <1>2 DEF Bundle!LocalOwner, Bundle!Owners

\* In a resolved configuration two sources share a path only where a local provider has it
\* too.
LEMMA ResolvedApart == ASSUME NEW c \in Seq(Bundle!Provider) PROVE Apart(Bundle!Resolved(c))
<1> DEFINE r == Bundle!Resolved(c)
<1>1. Bundle!Index(r) = Bundle!Index(c)
  BY DEF Bundle!Index, Bundle!Resolved
<1> SUFFICES ASSUME NEW i \in Bundle!Index(c), NEW j \in Bundle!Index(c), Remote(r[i]), Remote(r[j]),
      r[i].path = r[j].path,
                    ~Bundle!Escapes(r[i]), r[i].url # r[j].url
             PROVE  Bundle!LocalOwner(r, r[i].path)
  BY <1>1 DEF Apart
<1>2. Remote(c[i]) /\ Remote(c[j]) /\ c[i].url = r[i].url /\ c[j].url = r[j].url /\ c[i] \in Bundle!Provider /\
        c[j] \in Bundle!Provider
  BY ResolvedIs DEF Remote
<1>3. ~(Moved(c, c[i]) /\ Moved(c, c[j]))
  <2> SUFFICES ASSUME Moved(c, c[i]), Moved(c, c[j]) PROVE FALSE
    OBVIOUS
  <2>1. PICK n : r[i].path = <<c[i].path, c[i].url, n>>
    <3>1. r[i].path = Bundle!Replacement(c, c[i].path, c[i].url)
      BY ResolvedIs
    <3> QED BY <3>1, ReplacementIs
  <2>2. PICK m : r[j].path = <<c[j].path, c[j].url, m>>
    <3>1. r[j].path = Bundle!Replacement(c, c[j].path, c[j].url)
      BY ResolvedIs
    <3> QED BY <3>1, ReplacementIs
  <2>3. <<c[i].path, c[i].url, n>> = <<c[j].path, c[j].url, m>>
    BY <2>1, <2>2
  <2>4. \A d, u, a, e, v, b : <<d, u, a>> = <<e, v, b>> => u = v
    OBVIOUS
  <2>5. c[i].url = c[j].url
    BY <2>3, <2>4
  <2> QED BY <1>2, <2>5
<1>4. ASSUME NEW a \in Bundle!Index(c), NEW b \in Bundle!Index(c), Moved(c, c[a]), ~Moved(c, c[b]),
               r[a].path = r[b].path, ~Bundle!Escapes(r[b])
      PROVE  FALSE
  <2>1. r[a].path = Bundle!Replacement(c, c[a].path, c[a].url)
    BY <1>4, ResolvedIs
  <2>2. r[b] = c[b] /\ c[b] \in Bundle!Provider
    BY <1>4, ResolvedIs
  <2>3. c[b].path \in Bundle!Paths /\ c[b].path \in Bundle!Reserved(c)
    BY <1>4, <2>2 DEF Bundle!Provider, Bundle!Reserved
  <2>4. Bundle!Replacement(c, c[a].path, c[a].url) \notin Bundle!Reserved(c) \/
          Bundle!Replacement(c, c[a].path, c[a].url) \notin Bundle!Paths
    BY ReplacementIs
  <2> QED BY <1>4, <2>1, <2>2, <2>3, <2>4
<1>5. ~Bundle!Escapes(r[j])
  BY DEF Bundle!Escapes
<1>6. ~Moved(c, c[i]) /\ ~Moved(c, c[j])
  BY <1>3, <1>4, <1>5
<1>7. r[i] = c[i] /\ r[j] = c[j]
  BY <1>6, ResolvedIs
<1>8. c[i].url \in Bundle!Sources(c, c[i].path) /\ c[j].url \in Bundle!Sources(c, c[i].path)
  <2>1. i \in Bundle!Owners(c, c[i].path) /\ j \in Bundle!Owners(c, c[i].path)
    BY <1>5, <1>7 DEF Bundle!Owners
  <2> QED BY <1>2, <2>1 DEF Bundle!Sources, Remote
<1>9. Bundle!LocalOwner(c, c[i].path)
  BY <1>2, <1>6, <1>7, <1>8 DEF Moved, Bundle!Conflict
<1> QED BY <1>7, <1>9, LocalStays

\* A path that is claimed twice is a local provider's.
LEMMA RefusedIs ==
  ASSUME NEW c, NEW i \in Bundle!Index(c), Apart(c), \A j \in 1 .. i - 1 : j \in Bundle!Index(c),
         Bundle!Refusal(c, i) \in {"two sources", "claimed twice"}
  PROVE  c[i].path \in Bundle!Reserved(c) /\ Bundle!LocalOwner(c, c[i].path)
<1>1. Remote(c[i]) /\ ~Bundle!Escapes(c[i])
  BY DEF Bundle!Refusal, Bundle!Claims, Remote
<1>2. c[i].path \in Bundle!Reserved(c)
  BY <1>1 DEF Bundle!Reserved
<1>3. CASE Bundle!Refusal(c, i) = "two sources"
  <2>1. PICK s \in Bundle!Downloaded(c, i) : s.path = c[i].path /\ s.url # c[i].url
    BY <1>3 DEF Bundle!Refusal
  <2>2. PICK j \in 1 .. i - 1 : c[j].remote /\ Bundle!Claims(c[j]) /\ s = [path |-> c[j].path, url |-> c[j].url]
    BY <2>1 DEF Bundle!Downloaded
  <2>3. j \in Bundle!Index(c) /\ Remote(c[j]) /\ c[j].path = c[i].path /\ c[j].url # c[i].url
    BY <2>1, <2>2 DEF Bundle!Claims, Remote
  <2> QED BY <1>1, <1>2, <2>3 DEF Apart
<1>4. CASE Bundle!Refusal(c, i) = "claimed twice"
  <2>1. c[i].path \in Bundle!Claimed(c, i) /\ \A s \in Bundle!Downloaded(c, i) : s.path # c[i].path
    BY <1>4 DEF Bundle!Refusal
  <2>2. PICK k \in 1 .. i - 1 : Bundle!Claims(c[k]) /\ c[k].path = c[i].path
    BY <2>1 DEF Bundle!Claimed
  <2>3. ~c[k].remote
    <3> SUFFICES ASSUME c[k].remote PROVE FALSE
      OBVIOUS
    <3>1. [path |-> c[k].path, url |-> c[k].url] \in Bundle!Downloaded(c, i)
      BY <2>2 DEF Bundle!Downloaded
    <3> QED BY <2>1, <2>2, <3>1
  <2>4. k \in Bundle!Owners(c, c[i].path)
    BY <1>1, <2>2 DEF Bundle!Owners, Bundle!Escapes
  <2> QED BY <1>2, <2>3, <2>4 DEF Bundle!LocalOwner
<1> QED BY <1>3, <1>4

\* Of two sources at one path the later one is refused.
LEMMA TakenApart ==
  ASSUME NEW c, \A i \in Bundle!Index(c) : i \in Nat \ {0}, NEW i \in Bundle!Index(c), NEW j \in Bundle!Index(c),
           i < j, Bundle!Refusal(c, j) = "none",
         c[i].remote, c[j].remote, NoUrl \notin {c[i].url, c[j].url}, c[i].path = c[j].path
  PROVE  c[i].url = c[j].url
<1>1. Bundle!Claims(c[i]) /\ Bundle!Claims(c[j])
  BY DEF Bundle!Claims
<1>2. ~\E s \in Bundle!Downloaded(c, j) : s.path = c[j].path /\ s.url # c[j].url
  BY <1>1 DEF Bundle!Refusal
<1>3. i \in 1 .. j - 1
  OBVIOUS
<1>4. PICK s : s = [path |-> c[i].path, url |-> c[i].url]
  OBVIOUS
<1>5. s \in Bundle!Downloaded(c, j) /\ s.path = c[j].path /\ s.url = c[i].url
  BY <1>1, <1>3, <1>4 DEF Bundle!Downloaded
<1> QED BY <1>2, <1>5

\* Of two sources that share a path the bundle refuses one, unless a local provider has it too.
THEOREM BundleHolds == Bundle!Spec => []Bundle!SourcesKeptApart
<1>1. Bundle!Init => BundleInv
  BY DEF Bundle!Init, BundleInv, Bundle!SourcesKeptApart
<1>2. BundleInv /\ [Bundle!Next]_(Bundle!vars) => BundleInv'
  <2> SUFFICES ASSUME BundleInv, [Bundle!Next]_(Bundle!vars) PROVE BundleInv'
    OBVIOUS
  <2>1. CASE Bundle!Declare
    <3>1. PICK p \in Bundle!Provider : uConfig' = Append(uConfig, p)
      BY <2>1 DEF Bundle!Declare
    <3>2. uConfig' \in Seq(Bundle!Provider) /\ uStage' = "declare"
      BY <2>1, <3>1 DEF Bundle!Declare, BundleInv
    <3> QED BY <3>2 DEF BundleInv, Bundle!SourcesKeptApart
  <2>2. CASE Bundle!Resolve
    <3>1. uConfig \in Seq(Bundle!Provider) /\ uConfig' = Bundle!Resolved(uConfig) /\ uStage' = "resolved"
      BY <2>2 DEF Bundle!Resolve, BundleInv
    <3>2. Apart(uConfig')
      BY <3>1, ResolvedApart
    <3>3. Bundle!Index(uConfig') = 1 .. Len(uConfig) /\ Len(uConfig) \in Nat
      BY <3>1 DEF Bundle!Index, Bundle!Resolved
    <3>4. \A i \in Bundle!Index(uConfig') : i \in Nat \ {0} /\ \A j \in 1 .. i - 1 : j \in Bundle!Index(uConfig')
      BY <3>3
    <3> QED BY <3>1, <3>2, <3>4 DEF BundleInv, Bundle!SourcesKeptApart, Apart, Bundle!Index
  <2>3. CASE Bundle!Collect
    <3>1. /\ uStage = "resolved" /\ uStage' = "collected" /\ uConfig' = uConfig
          /\ Apart(uConfig) /\ \A i \in Bundle!Index(uConfig) : i \in Nat \ {0} /\
               \A j \in 1 .. i - 1 : j \in Bundle!Index(uConfig)
      BY <2>3 DEF Bundle!Collect, BundleInv
    <3>2. CASE uOutcome' = "bundle" /\ \A i \in Bundle!Index(uConfig) : Bundle!Refusal(uConfig, i) = "none"
      <4>1. ASSUME NEW i \in Bundle!Index(uConfig), NEW j \in Bundle!Index(uConfig),
                   uConfig[i].remote, uConfig[j].remote, NoUrl \notin {uConfig[i].url, uConfig[j].url},
                   uConfig[i].path = uConfig[j].path
            PROVE  uConfig[i].url = uConfig[j].url
        <5>1. i < j \/ j < i \/ i = j
          BY <3>1
        <5> QED BY <3>1, <3>2, <4>1, <5>1, TakenApart
      <4> QED BY <3>1, <3>2, <4>1 DEF BundleInv, Bundle!SourcesKeptApart, Apart, Bundle!Index
    <3>3. ASSUME NEW i \in Bundle!Index(uConfig), uOutcome' = Bundle!Refusal(uConfig, i) PROVE BundleInv'
      <4>1. uOutcome' # "bundle"
        BY <3>3 DEF Bundle!Refusal
      <4>2. uOutcome' \in {"two sources", "claimed twice"} => \E d \in Bundle!Reserved(uConfig) : Bundle!LocalOwner(uConfig, d)
        BY <3>1, <3>3, RefusedIs
      <4>3. Apart(uConfig)'
        BY <3>1
      <4> QED BY <3>1, <4>1, <4>2, <4>3 DEF BundleInv, Bundle!SourcesKeptApart
    <3> QED BY <2>3, <3>2, <3>3 DEF Bundle!Collect
  <2>4. CASE UNCHANGED Bundle!vars
    <3>1. uConfig' = uConfig /\ uStage' = uStage /\ uOutcome' = uOutcome
      BY <2>4 DEF Bundle!vars
    <3>2. Apart(uConfig) => Apart(uConfig)'
      BY <3>1
    <3> QED BY <3>1, <3>2 DEF BundleInv, Bundle!SourcesKeptApart
  <2> QED BY <2>1, <2>2, <2>3, <2>4 DEF Bundle!Next
<1>3. BundleInv => Bundle!SourcesKeptApart
  BY DEF BundleInv
<1> QED BY <1>1, <1>2, <1>3, PTL DEF Bundle!Spec
===============================================================================
