------------------------------ MODULE DnsOverride ------------------------------
(***************************************************************************)
(* Whether the DNS page overrides the DNS that a profile's provider has set   *)
(* (config/dns.rs, feat/dns.rs).  Overriding it takes a confirmation of what  *)
(* is overridden; a configuration made without one turns the page off for     *)
(* that profile, also in the settings.                                       *)
(***************************************************************************)
EXTENDS Functions, Naturals

CONSTANTS Tasks, Profiles, First,
          Sources,    \* what a provider may have set; None is nothing
          None,
          MaxAsks, MaxMakes, MaxNews, MaxStarts  \* bounds: choices, configurations made by
                                                 \* others, new files of profiles, restarts

VARIABLES current,    \* the profile in use
          source,     \* profile -> what its file sets
          data, draft,  \* the settings, committed and staged: profile -> Setting(on, confirmation)
          busy,       \* a configuration is being made
          made,       \* of each task: the state that belongs to the configuration it makes
          core,       \* that of the configuration the core has taken
          at, asked,  \* of each task: its step, and what it was asked for
          locks,      \* which task holds the locks of profiles and settings
          confirmed,  \* ghost: <<profile, source>> that the user has confirmed since the start
          want,       \* ghost: profile -> the last choice that was applied
          excused,    \* ghost: profiles whose file changed since, or whose configuration was
                      \* made of a choice that was dropped
          asks, makes, news, starts
vars == <<current, source, data, draft, busy, made, core, at, asked, locks, confirmed, want, excused,
          asks, makes, news, starts>>

Setting(on, c) == [on |-> on, confirmation |-> c]
Free == "free"
Locks == {"profiles", "settings"}
Free2 == [l \in Locks |-> Free]
Goes(t, to) == at' = [at EXCEPT ![t] = to]
Bounds == UNCHANGED <<asks, makes, news, starts>>

\* fault: what was confirmed does not matter once something was.
New_Any(uid, src, s) ==
  [uid |-> uid, source |-> src, requested |-> s,
   on |-> s.on /\ (src = None \/ s.confirmation # None)]
\* DnsOverrideState::new
New(uid, src, s) ==
  [uid |-> uid, source |-> src, requested |-> s,
   on |-> s.on /\ (src = None \/ s.confirmation = src)]

Init ==
  /\ current = First /\ source \in [Profiles -> Sources \cup {None}]
  /\ data = [p \in Profiles |-> Setting(FALSE, None)] /\ draft = data
  /\ busy = Free /\ core = New(First, source[First], data[First])
  /\ made = [t \in Tasks |-> core]
  /\ at = [t \in Tasks |-> "idle"] /\ asked = [t \in Tasks |-> Setting(FALSE, None)]
  /\ locks = Free2 /\ confirmed = {} /\ want = [p \in Profiles |-> FALSE] /\ excused = {}
  /\ asks = 0 /\ makes = 0 /\ news = 0 /\ starts = 0

----------------------------------------------------------------------------
(* set_dns_override, with both locks                                         *)

\* Without a confirmation of what the file sets now the page is not turned on.
Ask(t) ==
  /\ at[t] = "idle" /\ locks = Free2 /\ asks < MaxAsks /\ asks' = asks + 1
  /\ \E on \in BOOLEAN, c \in Sources \cup {None} :
       LET src == source[current] IN
       IF on /\ src # None /\ c # src
       THEN UNCHANGED <<draft, at, asked, locks, confirmed>>
       ELSE /\ asked' = [asked EXCEPT ![t] = Setting(on, IF on THEN src ELSE None)]
            /\ draft' = [data EXCEPT ![current] = asked'[t]]
            /\ locks' = [l \in Locks |-> t] /\ Goes(t, "wait")
            /\ confirmed' = IF on THEN confirmed \cup {<<current, src>>} ELSE confirmed
  /\ UNCHANGED <<current, source, data, busy, made, core, want, excused, makes, news, starts>>
\* The configuration could not be made, or is being made by another: the choice is dropped.
AskFails(t) ==
  /\ at[t] = "wait" /\ busy # t /\ Goes(t, "idle") /\ locks' = Free2 /\ draft' = data
  /\ excused' = excused \cup {made[u].uid : u \in {u \in Tasks \ {t} : at[u] \in {"make", "apply"}}}
                        \cup (IF core.requested = asked[t] /\ core.requested # data[current] THEN {current} ELSE {})
  /\ UNCHANGED <<current, source, data, busy, made, core, asked, confirmed, want>> /\ Bounds
\* fault: what the core was given is not looked at again.
Outcome_Asked(t) == asked[t]
\* The file may have been replaced while the core looked at the configuration.
Outcome(t) == IF asked[t].on /\ ~core.on THEN Setting(FALSE, None) ELSE asked[t]
\* The file that a configuration under way, or the one the core has, was made of.
Of(u) == IF at[u] = "make" THEN made[u].source ELSE core.source
AskEnds(t) ==
  /\ at[t] = "taken" /\ Goes(t, "idle") /\ locks' = Free2
  /\ data' = [data EXCEPT ![current] = Outcome(t)] /\ draft' = data'
  /\ want' = [want EXCEPT ![current] = Outcome(t).on]
  /\ excused' = IF \A u \in Tasks : at[u] \in {"make", "taken"} => Of(u) = source[current]
                THEN excused \ {current} ELSE excused
  /\ UNCHANGED <<current, source, busy, made, core, asked, confirmed>> /\ Bounds

----------------------------------------------------------------------------
(* A configuration is made, of the staged settings, by whoever finds none being made *)

Make(t) ==
  /\ busy = Free
  /\ \/ at[t] = "wait" /\ Goes(t, "apply") /\ UNCHANGED <<makes, asked, locks>>
     \/ /\ at[t] = "idle" /\ makes < MaxMakes /\ makes' = makes + 1 /\ Goes(t, "make")
        /\ asked' = [asked EXCEPT ![t] = Setting(FALSE, None)] /\ UNCHANGED locks
  /\ busy' = t
  /\ made' = [made EXCEPT ![t] = New(current, source[current], draft[current])]
  /\ UNCHANGED <<current, source, data, draft, core, confirmed, want, excused, asks, news, starts>>
\* The core takes it, or it is dropped.
Applies(t) ==
  /\ at[t] \in {"make", "apply"} /\ busy' = Free
  /\ \/ core' = made[t] /\ Goes(t, IF at[t] = "make" THEN "sync" ELSE "taken")
     \/ UNCHANGED core /\ Goes(t, IF at[t] = "make" THEN "idle" ELSE "wait")
  /\ UNCHANGED <<current, source, data, draft, made, asked, locks, confirmed, want, excused>> /\ Bounds

\* sync_dns_override: the settings follow what the core was given, if they are still those
\* it was made of.
Sync(t) ==
  /\ at[t] = "sync" /\ locks["settings"] = Free /\ Goes(t, "idle")
  /\ LET s == data[core.uid]
         stale == core.requested.confirmation # None /\ core.source # core.requested.confirmation
     IN data' = IF s # core.requested THEN data
                ELSE [data EXCEPT ![core.uid] =
                        Setting(core.on, IF stale THEN None ELSE core.requested.confirmation)]
  /\ draft' = data'
  /\ UNCHANGED <<current, source, busy, made, core, asked, locks, confirmed, want, excused>> /\ Bounds

----------------------------------------------------------------------------
(* Around it: a switch to another profile, a new file, a restart               *)

Switch(t) ==
  /\ at[t] = "idle" /\ busy = Free /\ locks["profiles"] = Free /\ makes < MaxMakes /\ makes' = makes + 1
  /\ \E p \in Profiles \ {current} :
       /\ current' = p /\ made' = [made EXCEPT ![t] = New(p, source[p], draft[p])]
       /\ core' = made'[t]
  /\ Goes(t, "sync")
  /\ UNCHANGED <<source, data, draft, busy, asked, locks, confirmed, want, excused, asks, news, starts>>
NewFile ==
  /\ news < MaxNews /\ news' = news + 1
  /\ \E p \in Profiles, s \in Sources \cup {None} :
       s # source[p] /\ source' = [source EXCEPT ![p] = s] /\ excused' = excused \cup {p}
  /\ UNCHANGED <<current, data, draft, busy, made, core, at, asked, locks, confirmed, want, asks, makes, starts>>
\* fault: the confirmations are saved.
Loaded_Kept(s) == s
\* Confirmations are not saved, they are valid until the application ends.
Loaded(s) == [s EXCEPT !.confirmation = None]
Restart ==
  /\ starts < MaxStarts /\ starts' = starts + 1 /\ \A t \in Tasks : at[t] = "idle"
  /\ data' = [p \in Profiles |-> Loaded(data[p])] /\ draft' = data'
  /\ core' = New(current, source[current], data'[current])
  /\ \E t \in Tasks : Goes(t, "sync")
  /\ confirmed' = {} /\ excused' = excused \cup {p \in Profiles : source[p] # None}
  /\ UNCHANGED <<current, source, busy, made, asked, locks, want, asks, makes, news>>

Next == \/ NewFile \/ Restart
        \/ \E t \in Tasks : \/ Ask(t) \/ AskFails(t) \/ AskEnds(t)
                            \/ Make(t) \/ Applies(t) \/ Sync(t) \/ Switch(t)
Spec == Init /\ [][Next]_vars

----------------------------------------------------------------------------
(* What must hold                                                            *)

\* The core overrides what a provider has set only where the user has confirmed just that,
\* for that profile and since the application started.
OverrideConfirmed == core.on /\ core.source # None => <<core.uid, core.source>> \in confirmed
\* When nobody is at work the settings say what the core was given, and a choice that was
\* applied stands, also after other profiles were in use; unless the file of the profile has
\* changed or the core was given a choice that was dropped.
ChoiceStands ==
  (\A t \in Tasks : at[t] = "idle") =>
    /\ current \notin excused => data[current].on = core.on
    /\ \A p \in Profiles \ excused : data[p].on = want[p]
OverrideFollows == OverrideConfirmed /\ ChoiceStands
=============================================================================
