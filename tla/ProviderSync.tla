---------------------------- MODULE ProviderSync ----------------------------
(***************************************************************************)
(* The provider caches of a core that the helper runs, copied back beside   *)
(* the application (core/service.rs: request_runtime_provider_sync).  The    *)
(* helper hands a file out chunk by chunk while mihomo rewrites it in place. *)
(* One provider is modelled; time is in units of RUNTIME_PROVIDER_SETTLE.   *)
(***************************************************************************)
EXTENDS Naturals, Sequences

CONSTANTS Tasks,        \* syncs that may be spawned
          Attempts,     \* RUNTIME_PROVIDER_SYNC_ATTEMPTS
          Size,         \* chunks of the file
          MaxRequests,  \* bound: requests
          MaxWrites,    \* bound: times mihomo writes the file
          MaxNow,       \* bound: the clock
          MaxSessions   \* bound: sessions of the helper

Nobody == "nobody"
VARIABLES now,
          file,      \* what mihomo has written: chunks by version, its mtime
          writer,    \* the version mihomo is writing, or 0
          loaded,    \* updatedAt of the provider; 0 before the first load
          session,   \* of the helper; 0 when it runs no core
          declared,  \* whether the committed runtime configuration has the provider
          cache,     \* the file beside the application
          queued,    \* PROVIDER_SYNC_QUEUED
          serial,    \* PROVIDER_SYNC_SERIAL
          task,      \* the spawned tasks
          owed,      \* ghost: a request has not had a sync begin after it
          asked      \* requests so far
core == <<file, writer, loaded, session, declared>>
vars == <<now, core, cache, queued, serial, task, owed, asked>>

Nothing == [at |-> "idle", tries |-> 0, session |-> 0, before |-> 0, got |-> << >>, id |-> << >>]

Init ==
  /\ now = 1
  /\ file = [chunks |-> << >>, mtime |-> 0, there |-> FALSE] /\ writer = 0 /\ loaded = 0
  /\ session = 1 /\ declared = TRUE /\ cache = << >>
  /\ queued = FALSE /\ serial = Nobody /\ task = [t \in Tasks |-> Nothing] /\ owed = FALSE /\ asked = 0

----------------------------------------------------------------------------
(* mihomo and the clock.                                                     *)

\* It truncates the file, writes it and then notes the time of the load.
Version == IF file.chunks = << >> THEN 1 ELSE file.chunks[1] + 1
Truncate ==
  /\ writer = 0 /\ session # 0 /\ declared /\ Version <= MaxWrites
  /\ writer' = Version
  /\ file' = [chunks |-> << >>, mtime |-> now, there |-> TRUE]
  /\ UNCHANGED <<now, loaded, session, declared, cache, queued, serial, task, owed, asked>>
Write ==
  /\ writer # 0 /\ Len(file.chunks) < Size
  /\ file' = [file EXCEPT !.chunks = Append(@, writer), !.mtime = now]
  /\ UNCHANGED <<now, writer, loaded, session, declared, cache, queued, serial, task, owed, asked>>
NoteLoad ==
  /\ writer # 0 /\ Len(file.chunks) = Size
  /\ writer' = 0 /\ loaded' = now
  /\ UNCHANGED <<now, file, session, declared, cache, queued, serial, task, owed, asked>>

\* A write is done before its file would count as settled.
Tick ==
  /\ now < MaxNow /\ (writer # 0 => Len(file.chunks) = Size) /\ now' = now + 1
  /\ UNCHANGED <<core, cache, queued, serial, task, owed, asked>>

\* The core is started again, with or without the provider.  The helper decides
\* whether the file of the core before is used again: not when it was being written.
Restart ==
  /\ session < MaxSessions /\ session' = session + 1 /\ declared' \in BOOLEAN
  /\ writer' = 0
  /\ \/ file' = [chunks |-> << >>, mtime |-> now, there |-> FALSE] /\ loaded' = 0
     \/ writer = 0 /\ file' = file /\ loaded' \in {0, file.mtime}
  /\ UNCHANGED <<now, cache, queued, serial, task, owed, asked>>

----------------------------------------------------------------------------
(* request_runtime_provider_sync                                             *)

Request ==
  /\ asked < MaxRequests /\ asked' = asked + 1 /\ owed' = TRUE
  /\ \/ queued /\ UNCHANGED <<queued, task>>
     \/ /\ ~queued /\ queued' = TRUE
        /\ \E t \in Tasks : /\ task[t].at = "idle"
                            /\ task' = [task EXCEPT ![t] = [Nothing EXCEPT !.at = "wait"]]
  /\ UNCHANGED <<now, core, cache, serial>>

Goto(t, place) == task' = [task EXCEPT ![t].at = place]
Unchanged == UNCHANGED <<now, core, cache, queued, owed, asked>>

\* fault: the flag is cleared when the attempts are over.
Cleared_Late(t) == queued
Cleared(t) == IF task[t].tries = 0 THEN FALSE ELSE queued
BeginSync(t) ==
  /\ task[t].at = "wait" /\ serial = Nobody /\ serial' = t
  /\ queued' = Cleared(t) /\ owed' = (owed /\ task[t].tries # 0)
  /\ task' = [task EXCEPT ![t] = [@ EXCEPT !.at = "times", !.tries = task[t].tries + 1]]
  /\ UNCHANGED <<now, core, cache, asked>>

\* The end of an attempt: another follows if a cache was not ready.
Pending(t) ==
  /\ serial' = Nobody
  /\ task' = [task EXCEPT ![t] = IF @.tries < Attempts THEN [Nothing EXCEPT !.at = "wait", !.tries = task[t].tries]
                                                       ELSE Nothing]
Done(t) == serial' = Nobody /\ task' = [task EXCEPT ![t] = Nothing]

\* The load times first; nothing is read for a provider that is not declared.
TimesBefore(t) ==
  /\ task[t].at = "times" /\ Unchanged
  /\ IF session = 0 \/ ~declared THEN Done(t)
     ELSE /\ task' = [task EXCEPT ![t] = [@ EXCEPT !.at = "read", !.session = session, !.before = loaded]]
          /\ UNCHANGED serial

\* fetch_runtime_file: each chunk with the length and time of the file, which must
\* be settled and the same throughout; at its end an empty one.
Identity == <<Len(file.chunks), file.mtime>>
HasSettled == now - file.mtime >= 1
\* fault: the identity is only looked at with the first chunk.
Same_First(t) == TRUE
Same(t) == task[t].id = << >> \/ task[t].id = Identity
ReadChunk(t) ==
  LET offset == Len(task[t].got) IN
  /\ task[t].at = "read" /\ Unchanged
  /\ \/ task[t].session # session /\ Done(t)
     \/ Pending(t)                                      \* the helper does not answer
     \/ /\ task[t].session = session
        /\ IF ~file.there \/ file.chunks = << >> \/ ~HasSettled \/ ~Same(t) \/ offset > Len(file.chunks)
           THEN Pending(t)
           ELSE /\ UNCHANGED serial
                /\ task' = [task EXCEPT ![t] =
                     IF offset = Len(file.chunks) THEN [@ EXCEPT !.at = "check"]
                     ELSE [@ EXCEPT !.got = Append(task[t].got, file.chunks[offset + 1]), !.id = Identity]]

\* The load times again, and that the file was not written after the load.
FinishedLoading(t) == loaded = 0 \/ task[t].id[2] <= loaded + 1
TimesAgree(t) == task[t].before = loaded /\ FinishedLoading(t)
TimesAfter(t) ==
  /\ task[t].at = "check" /\ Unchanged
  /\ \/ Pending(t)
     \/ TimesAgree(t) /\ Goto(t, "recheck") /\ UNCHANGED serial

\* recheck_identity
Recheck(t) ==
  /\ task[t].at = "recheck" /\ Unchanged
  /\ \/ task[t].session # session /\ Done(t)
     \/ Pending(t)
     \/ /\ task[t].session = session /\ Identity = task[t].id
        /\ Goto(t, "publish") /\ UNCHANGED serial

\* publish_fetched, under the lifecycle lock: the session and the configuration are
\* still those that were read.
MayPublish(t) == task[t].session = session /\ declared
Publish(t) ==
  /\ task[t].at = "publish" /\ Done(t)
  /\ \/ cache' = IF MayPublish(t) THEN task[t].got ELSE cache
     \/ UNCHANGED cache                                 \* the rename fails
  /\ UNCHANGED <<now, core, queued, owed, asked>>

Sync(t) == BeginSync(t) \/ TimesBefore(t) \/ ReadChunk(t) \/ TimesAfter(t) \/ Recheck(t) \/ Publish(t)
Next ==
  \/ Truncate \/ Write \/ NoteLoad \/ Tick \/ Restart \/ Request
  \/ \E t \in Tasks : Sync(t)
Fairness == \A t \in Tasks : SF_vars(BeginSync(t)) /\ WF_vars(Sync(t))
Spec == Init /\ [][Next]_vars
FairSpec == Spec /\ Fairness

----------------------------------------------------------------------------
\* A cache that is published is one that mihomo wrote: whole, and all of one version,
\* though it was read in chunks while it could be written.
PublishedWhole == cache # << >> => Len(cache) = Size /\ \A i, j \in DOMAIN cache : cache[i] = cache[j]

\* A request is served by a sync that begins after it, although requests coalesce
\* and a sync may already be under way.
EveryRequestServed == owed ~> ~owed
=============================================================================
