------------------------------ MODULE ConfigUpdate ------------------------------
(***************************************************************************)
(* A change of the configuration on its way into the core: the file that is   *)
(* saved and checked (cmd/save_profile.rs, core/validate.rs), the runtime      *)
(* configuration made of it in a draft, the check of exactly the bytes that    *)
(* will run, and their application, by a reload, by staging them with the      *)
(* service, or by replacing the core (core/manager/config.rs).               *)
(***************************************************************************)
EXTENDS FiniteSets, Integers

CONSTANTS Tasks,
          Docs,      \* contents of the file; the configuration made of one bears its name
          Default,   \* the configuration of the application alone
          Looks,     \* content -> what can be seen of it: [yaml, js, main, exports, parses, runs]
          Accepts,   \* version of the geo files and of the core -> contents that its check accepts
          MaxCalls, MaxFaults  \* bounds: calls; faults, crashes and events that nobody asked for
None == "none"
Versions == DOMAIN Accepts

VARIABLES kind, ext,   \* the edited item: its type and the extension of its file
          inUse,       \* the profile in use depends on it
          file,        \* its content
          data, draft, \* the runtime configuration, committed and staged (None: nothing is staged)
          run,         \* the run file
          core,        \* the running core: [mode, doc, by]
          version,     \* of the geo files and of the core
          known,       \* LAST_VALIDATED: what the check has accepted last: [doc, version]
          updating,    \* config_update_in_progress: the task that holds it
          life,        \* lifecycle_lock: the task that holds it
          exiting,
          task,        \* each task: [at, does, doc, version, orig, asked, answer]
          accepted,    \* ghost: content -> the latest version whose check has accepted it, or -1
          agreed,      \* ghost: the content that a save has last answered to be valid
          savers,      \* ghost: two saves of the file have overlapped
          crossed,     \* ghost: another than the update has started or configured the core, or the
                       \* core runs a configuration whose draft was given up (see README)
          calls, faults
vars == <<kind, ext, inUse, file, data, draft, run, core, version, known, updating, life, exiting, task,
          accepted, agreed, savers, crossed, calls, faults>>

Item == <<kind, ext, inUse>>
Ghosts == <<accepted, agreed, savers, crossed>>
Latest == IF draft = None THEN data ELSE draft
Running(mode, doc, by) == [mode |-> mode, doc |-> doc, by |-> by]
Down == Running(None, Default, None)
Idle == [at |-> "idle", does |-> None, doc |-> Default, version |-> 0, orig |-> Default, asked |-> 0,
         answer |-> None]
To(t, at) == task' = [task EXCEPT ![t].at = at]
Ends(t, answer) == task' = [task EXCEPT ![t].at = "answer", ![t].answer = answer]
Fault == faults < MaxFaults /\ faults' = faults + 1

\* generate_and_validate at the start: what cannot be made or is not accepted gives way to
\* the default (use_default_config).
FirstRuntime(d) == {Default} \cup ({d} \cap Accepts[0])
\* init_runtime_config
Init ==
  /\ kind \in {"profile", "merge", "script"} /\ ext \in {"yaml", "js", "other"} /\ inUse \in BOOLEAN
  /\ file \in Docs /\ version = 0
  /\ data \in FirstRuntime(file) /\ draft = None /\ run = data
  /\ core \in {Running(m, data, "start") : m \in {"service", "sidecar"}}
  /\ known = [doc |-> data, version |-> IF data = Default THEN -1 ELSE 0]
  /\ updating = None /\ life = None /\ exiting = FALSE
  /\ task = [t \in Tasks |-> Idle]
  /\ accepted = [d \in Docs \cup {Default} |-> IF d = data /\ d # Default THEN 0 ELSE -1]
  /\ agreed = file /\ savers = FALSE /\ crossed = FALSE
  /\ calls = 0 /\ faults = 0

----------------------------------------------------------------------------
(* core/validate.rs: what a saved file is taken for, and its check            *)

\* is_script_file
IsScript(d) ==
  LET l == Looks[d] IN
  CASE ext = "yaml" -> FALSE
    [] ext = "js" -> TRUE
    [] OTHER -> l.js /\ (l.yaml => l.exports)
\* validate_script_file_outcome; what uses up the time of the check is refused as well.
ScriptPasses(d) == Looks[d].runs /\ Looks[d].main
\* validate_config_internal_outcome: the core is run with -t.
CorePasses(d) == d \in Accepts[version]
\* validate_config_file_outcome
FilePasses(d) ==
  IF kind = "merge" THEN Looks[d].parses
  ELSE IF IsScript(d) THEN ScriptPasses(d) ELSE CorePasses(d)

----------------------------------------------------------------------------
(* save_profile_file                                                         *)

Saving == {t \in Tasks : task[t].does = "save"}
BeginSave(t, d) ==
  /\ task[t].at = "idle" /\ calls < MaxCalls
  /\ file' = d /\ calls' = calls + 1
  /\ task' = [task EXCEPT ![t] = [Idle EXCEPT !.at = "file check", !.does = "save", !.orig = file, !.doc = d]]
  /\ savers' = (savers \/ Saving # {})
  /\ UNCHANGED <<Item, data, draft, run, core, version, known, updating, life, exiting, accepted, agreed,
                 crossed, faults>>
\* A file that the running configuration does not depend on is only checked.
CheckFile(t) ==
  /\ task[t].at = "file check"
  /\ LET valid == ~exiting /\ FilePasses(file)
     IN task' = [task EXCEPT ![t].at = IF valid /\ inUse THEN "enter" ELSE "answer",
                             ![t].answer = IF valid THEN "valid" ELSE "invalid"]
  /\ UNCHANGED <<Item, file, data, draft, run, core, version, known, updating, life, exiting, Ghosts, calls,
                 faults>>
\* The end of a call; a refused save puts the file back (restore_original).
Answer(t) ==
  /\ task[t].at = "answer" /\ task' = [task EXCEPT ![t] = Idle]
  /\ IF task[t].does # "save" THEN UNCHANGED <<file, agreed>>
     ELSE IF task[t].answer = "valid" THEN agreed' = task[t].doc /\ UNCHANGED file
     ELSE file' = task[t].orig /\ UNCHANGED agreed
  /\ UNCHANGED <<Item, data, draft, run, core, version, known, updating, life, exiting, accepted, savers,
                 crossed, calls, faults>>

----------------------------------------------------------------------------
(* The update: made, checked, written                                        *)

\* update_config_forced, update_config_with_force, update_runtime_config
BeginUpdate(t, does) ==
  /\ task[t].at = "idle" /\ calls < MaxCalls /\ calls' = calls + 1
  /\ task' = [task EXCEPT ![t] = [Idle EXCEPT !.at = "enter", !.does = does]]
  /\ UNCHANGED <<Item, file, data, draft, run, core, version, known, updating, life, exiting, Ghosts, faults>>

\* apply_dns_config stages its patch before the update.  Of the keys that IRuntime::patch_config takes
\* over the page of DNS has none: what it stages is what there was.
ApplyDns(t) ==
  /\ task[t].at = "idle" /\ calls < MaxCalls /\ calls' = calls + 1
  /\ draft' = Latest
  /\ task' = [task EXCEPT ![t] = [Idle EXCEPT !.at = "enter", !.does = "update"]]
  /\ UNCHANGED <<Item, file, data, run, core, version, known, updating, life, exiting, Ghosts, faults>>

\* One that finds another at work, or the application exiting, is not for later: it is dropped.
\* should_update_config: an update that is not forced is dropped too if the last is not long ago.
Enter(t) ==
  /\ task[t].at = "enter"
  /\ \/ /\ updating = None /\ (exiting => task[t].does = "edit")
        /\ updating' = t /\ To(t, "make")
     \/ /\ \/ updating # None
           \/ exiting /\ task[t].does # "edit"
           \/ task[t].does = "update"
        /\ Ends(t, "skipped") /\ UNCHANGED updating
  /\ UNCHANGED <<Item, file, data, draft, run, core, version, known, life, exiting, Ghosts, calls, faults>>

\* fault: what was staged stays.
GiveUp_Staged(t) ==
  /\ updating' = None /\ UNCHANGED draft
  /\ Ends(t, "failed")
\* An update that fails drops its transaction, and with it whatever is in the draft.
GiveUp(t) ==
  /\ updating' = None /\ draft' = None
  /\ Ends(t, "failed")
\* The core runs what the draft holds of a restart that nobody has committed.
Loses == crossed' = (crossed \/ (core.mode # None /\ core.doc # data))

Make(t) ==
  /\ task[t].at = "make"
  /\ \/ /\ IF task[t].does = "edit" THEN \E d \in Docs : draft' = d ELSE draft' = file
        /\ To(t, "check") /\ UNCHANGED <<updating, faults, crossed>>
     \/ /\ task[t].does # "edit" /\ Fault /\ GiveUp(t) /\ Loses
  /\ UNCHANGED <<Item, file, data, run, core, version, known, life, exiting, accepted, agreed, savers, calls>>

\* fault: the geo files and the core are left out of the fingerprint.
CheckBytes_Anytime(t) ==
  /\ task[t].at = "check"
  /\ task' = [task EXCEPT ![t].at = IF known.doc = Latest THEN "write" ELSE "core check",
                          ![t].doc = Latest, ![t].version = version]
  /\ UNCHANGED <<Item, file, data, draft, run, core, version, known, updating, life, exiting, Ghosts, calls,
                 faults>>
\* The bytes are made once, for the check and for the run file; bytes that the same core has
\* accepted with the same geo files are not checked again.
CheckBytes(t) ==
  /\ task[t].at = "check"
  /\ task' = [task EXCEPT ![t].at = IF known = [doc |-> Latest, version |-> version]
                                      THEN "write" ELSE "core check",
                          ![t].doc = Latest, ![t].version = version]
  /\ UNCHANGED <<Item, file, data, draft, run, core, version, known, updating, life, exiting, Ghosts, calls,
                 faults>>
CheckByCore(t) ==
  /\ task[t].at = "core check"
  /\ IF ~exiting /\ CorePasses(task[t].doc)
       THEN /\ known' = [doc |-> task[t].doc, version |-> task[t].version]
            /\ accepted' = [accepted EXCEPT ![task[t].doc] = version]
            /\ To(t, "write") /\ UNCHANGED <<draft, updating, crossed>>
       ELSE GiveUp(t) /\ Loses /\ UNCHANGED <<known, accepted>>
  /\ UNCHANGED <<Item, file, data, run, core, version, life, exiting, agreed, savers, calls, faults>>
WriteRun(t) ==
  /\ task[t].at = "write"
  /\ \/ run' = task[t].doc /\ To(t, "apply") /\ UNCHANGED <<draft, updating, crossed, faults>>
     \/ Fault /\ GiveUp(t) /\ Loses /\ UNCHANGED run
  /\ UNCHANGED <<Item, file, data, core, version, known, life, exiting, accepted, agreed, savers, calls>>

----------------------------------------------------------------------------
(* apply_config                                                              *)

\* With the service under the lock of the lifecycle, where the mode may be another by now.
Apply(t) ==
  /\ task[t].at = "apply"
  /\ IF core.mode = "service"
       THEN life = None /\ life' = t /\ To(t, "stage")
       ELSE To(t, "reload") /\ UNCHANGED life
  /\ UNCHANGED <<Item, file, data, draft, run, core, version, known, updating, exiting, Ghosts, calls, faults>>
\* What the service may say to a bundle: stage_runtime_by_service.
Answers == {"staged", "restart required", "bundle refused", "refused", "silent"}
\* plan_config_application: only what another core could not change either fails the update.
Plan(answer) ==
  CASE answer = "staged" -> "reload" [] answer = "bundle refused" -> "fail" [] OTHER -> "replace"
\* stage_with_confirmation: a silent service is asked once more, it may have staged the bundle.
Stage(t) ==
  /\ task[t].at = "stage"
  /\ \E answer \in Answers :
       /\ IF answer = "staged" THEN UNCHANGED faults ELSE Fault
       /\ IF answer = "silent" /\ task[t].asked = 0
            THEN task' = [task EXCEPT ![t].asked = 1] /\ UNCHANGED <<draft, updating, life, crossed>>
            ELSE IF Plan(answer) = "fail"
                   THEN GiveUp(t) /\ Loses /\ life' = None
                   ELSE To(t, Plan(answer)) /\ UNCHANGED <<draft, updating, life, crossed>>
  /\ UNCHANGED <<Item, file, data, run, core, version, known, exiting, accepted, agreed, savers, calls>>
\* The answer of a reload may be lost; a core that is down does not answer.
Reload(t) ==
  /\ task[t].at = "reload"
  /\ \/ /\ core.mode # None /\ run \in Accepts[version]
        /\ core' = [core EXCEPT !.doc = run, !.by = "update"]
        /\ \/ To(t, "commit") /\ UNCHANGED faults
           \/ Fault /\ To(t, "replace")
     \/ /\ core.mode = None \/ run \notin Accepts[version]
        /\ To(t, "replace") /\ UNCHANGED <<core, faults>>
  /\ UNCHANGED <<Item, file, data, draft, run, version, known, updating, life, exiting, Ghosts, calls>>

\* replace_service_core_with_config and restart_core_during_config_update: the core is stopped and
\* started, and the system proxy set for it.  The restart writes the run file again.
Replace(t) ==
  /\ task[t].at = "replace" /\ life \in {None, t} /\ life' = None
  /\ run' = IF life = t THEN run ELSE Latest
  /\ LET modes == IF life = t THEN {"service"} ELSE {"service", "sidecar"}
         restart == task[t].does = "restart"
         up == {Running(m, run', IF restart THEN "restart" ELSE "update") : m \in modes}
         takes == run' \in Accepts[version]
     IN \/ takes /\ core' \in up /\ To(t, "commit") /\ UNCHANGED <<draft, updating, crossed, faults>>
        \/ /\ \/ core' = Down /\ (IF takes THEN Fault ELSE UNCHANGED faults) /\ UNCHANGED crossed
              \* The core is up, but the system proxy is not set for it: the update has failed.
              \/ takes /\ Fault /\ core' \in up /\ crossed' = (crossed \/ ~restart)
           /\ IF restart
                THEN /\ updating' = None /\ UNCHANGED draft
                     /\ Ends(t, "failed")
                ELSE GiveUp(t)
  /\ UNCHANGED <<Item, file, data, version, known, exiting, accepted, agreed, savers, calls>>

\* The transaction commits the draft; a restart has none.
Commit(t) ==
  /\ task[t].at = "commit" /\ updating' = None
  /\ life' = IF life = t THEN None ELSE life
  /\ IF task[t].does = "restart" THEN UNCHANGED <<data, draft>> ELSE data' = Latest /\ draft' = None
  /\ Ends(t, "valid")
  /\ UNCHANGED <<Item, file, run, core, version, known, exiting, Ghosts, calls, faults>>

----------------------------------------------------------------------------
(* Whoever starts the core without an update                                 *)

\* patch_clash and RESTART_CORE: the configuration is made first, and not for an update.
BeginRestart(t) ==
  /\ task[t].at = "idle" /\ calls < MaxCalls /\ calls' = calls + 1
  /\ draft' = file
  /\ task' = [task EXCEPT ![t] = [Idle EXCEPT !.at = "restart", !.does = "restart"]]
  /\ crossed' = (crossed \/ updating # None)
  /\ UNCHANGED <<Item, file, data, run, core, version, known, updating, life, exiting, accepted, agreed, savers,
                 faults>>
\* restart_core
Restart(t) ==
  /\ task[t].at = "restart"
  /\ IF updating = None
       THEN updating' = t /\ To(t, "replace") /\ UNCHANGED crossed
       ELSE /\ Ends(t, "skipped") /\ crossed' = TRUE
            /\ UNCHANGED updating
  /\ UNCHANGED <<Item, file, data, draft, run, core, version, known, life, exiting, accepted, agreed, savers,
                 calls, faults>>
Crash ==
  /\ core.mode # None /\ Fault /\ core' = Down
  /\ UNCHANGED <<Item, file, data, draft, run, version, known, updating, life, exiting, task, Ghosts, calls>>
\* A start from outside of an update takes what is staged.
Recover ==
  /\ core.mode = None /\ life = None /\ run' = Latest /\ run' \in Accepts[version]
  /\ \E m \in {"service", "sidecar"} : core' = Running(m, run', "start")
  /\ crossed' = (crossed \/ updating # None)
  /\ UNCHANGED <<Item, file, data, draft, version, known, updating, life, exiting, task, accepted, agreed,
                 savers, calls, faults>>
NewVersion ==
  /\ version + 1 \in Versions /\ version' = version + 1
  /\ UNCHANGED <<Item, file, data, draft, run, core, known, updating, life, exiting, task, Ghosts, calls, faults>>
Exit ==
  /\ ~exiting /\ Fault /\ exiting' = TRUE
  /\ UNCHANGED <<Item, file, data, draft, run, core, version, known, updating, life, task, Ghosts, calls>>

Next ==
  \/ \E t \in Tasks :
       \/ \E d \in Docs : BeginSave(t, d)
       \/ \E does \in {"update", "edit"} : BeginUpdate(t, does)
       \/ ApplyDns(t)
       \/ CheckFile(t) \/ Enter(t) \/ Make(t) \/ CheckBytes(t) \/ CheckByCore(t) \/ WriteRun(t)
       \/ Apply(t) \/ Stage(t) \/ Reload(t) \/ Replace(t) \/ Commit(t) \/ Answer(t)
       \/ BeginRestart(t) \/ Restart(t)
  \/ Crash \/ Recover \/ NewVersion \/ Exit
Spec == Init /\ [][Next]_vars

----------------------------------------------------------------------------
\* When nobody updates or is about to restart it, a core that is up runs the latest runtime configuration: an update that
\* failed, wherever it failed, has left no trace, and one that was valid is what runs.
Resting == updating = None /\ \A t \in Tasks : task[t].at # "restart"
RunsTheLatest == (Resting /\ core.mode # None /\ ~crossed) => core.doc = Latest
\* With every save answered, the file holds what was last answered to be valid.
SavesStand == (Saving = {} /\ ~savers) => file = agreed
\* What an update writes for the core was accepted by a check, not before the core and the geo
\* files that the update has found; and what an update has put in the core, by some check.
Vouched ==
  /\ \A t \in Tasks : task[t].at \in {"apply", "stage", "reload"} => accepted[task[t].doc] >= task[t].version
  /\ (core.by = "update" /\ ~crossed) => accepted[core.doc] >= 0
ConfigStands == RunsTheLatest /\ SavesStand /\ Vouched
==============================================================================
