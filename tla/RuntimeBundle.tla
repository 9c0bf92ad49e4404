--------------------------- MODULE RuntimeBundle ---------------------------
(***************************************************************************)
(* Where the providers of a configuration keep their files when the helper  *)
(* runs the core (core/runtime_bundle.rs).  Two remote providers may not     *)
(* share a cache unless they share a source: the pipeline gives each source  *)
(* a file of its own (resolve_provider_path_conflicts), and the bundle, made *)
(* later from the file it wrote, refuses what is left                        *)
(* (collect_runtime_parts).  Paths are destinations already normalised.      *)
(***************************************************************************)
EXTENDS Naturals, Sequences

CONSTANTS Count,   \* providers, in the order of the two sections
          Urls,
          Names,   \* destinations that a configuration may name
          Outside, \* a path that leaves the runtime directory
          NoUrl

\* allocate_provider_destination: a name from the destination and the source, with
\* a number where that is taken.
Allocated(d, u, n) == <<d, u, n>>
\* A configuration may name an allocated path too: it may have been resolved before.
Escaping == <<Outside>>
Paths == {<<d>> : d \in Names} \cup {Allocated(<<d>>, u, 0) : d \in Names, u \in Urls} \cup {Escaping}

\* A remote provider; one that names no source; a local file; one that is missing.
Provider == [remote : {TRUE}, url : Urls \cup {NoUrl}, path : Paths, there : {FALSE}]
            \cup [remote : {FALSE}, url : {NoUrl}, path : Paths, there : BOOLEAN]

VARIABLES config, stage, outcome
vars == <<config, stage, outcome>>

Escapes(p) == p.path = Escaping
Index(s) == DOMAIN s

----------------------------------------------------------------------------
(* resolve_provider_path_conflicts                                           *)

Owners(c, d) == {i \in Index(c) : c[i].path = d /\ ~Escapes(c[i])}
Sources(c, d) == {c[i].url : i \in {j \in Owners(c, d) : c[j].remote /\ c[j].url # NoUrl}}
LocalOwner(c, d) == \E i \in Owners(c, d) : ~c[i].remote \/ c[i].url = NoUrl

Conflict(c, d) == ~LocalOwner(c, d) /\ \E u, v \in Sources(c, d) : u # v

Reserved(c) == {c[i].path : i \in {j \in Index(c) : ~Escapes(c[j])}}
\* fault: what the configuration names already is not reserved.
Replacement_Taken(c, d, u) == Allocated(d, u, 0)
Replacement(c, d, u) ==
  IF Allocated(d, u, 0) \in Reserved(c) THEN Allocated(d, u, 1) ELSE Allocated(d, u, 0)

Resolved(c) ==
  [i \in Index(c) |->
     IF ~Escapes(c[i]) /\ c[i].remote /\ c[i].url # NoUrl /\ Conflict(c, c[i].path)
     THEN [c[i] EXCEPT !.path = Replacement(c, c[i].path, c[i].url)] ELSE c[i]]

----------------------------------------------------------------------------
(* collect_runtime_parts: the providers in order, and the first refusal.      *)

\* Those whose path is left to the core claim nothing.
Claims(p) == IF p.remote THEN p.url # NoUrl ELSE p.there /\ ~Escapes(p)

Claimed(c, i) == {c[j].path : j \in {k \in 1 .. i - 1 : Claims(c[k])}}
Downloaded(c, i) == {[path |-> c[j].path, url |-> c[j].url] :
                      j \in {k \in 1 .. i - 1 : c[k].remote /\ Claims(c[k])}}

Refusal(c, i) ==
  LET p == c[i]
      before == {r \in Downloaded(c, i) : r.path = p.path} IN
  IF ~p.remote \/ ~Claims(p) THEN "none"
  ELSE IF Escapes(p) THEN "outside"
  ELSE IF \E r \in before : r.url # p.url THEN "two sources"
  ELSE IF before = {} /\ p.path \in Claimed(c, i) THEN "claimed twice" ELSE "none"

----------------------------------------------------------------------------
Init == config = << >> /\ stage = "declare" /\ outcome = "none"

Declare ==
  /\ stage = "declare" /\ Len(config) < Count
  /\ \E p \in Provider : config' = Append(config, p)
  /\ UNCHANGED <<stage, outcome>>
Resolve ==
  /\ stage = "declare" /\ config # << >>
  /\ config' = Resolved(config) /\ stage' = "resolved"
  /\ UNCHANGED outcome
Collect ==
  /\ stage = "resolved" /\ stage' = "collected" /\ UNCHANGED config
  /\ \/ outcome' = "bundle" /\ \A i \in Index(config) : Refusal(config, i) = "none"
     \/ \E i \in Index(config) :
          /\ Refusal(config, i) # "none" /\ \A j \in 1 .. i - 1 : Refusal(config, j) = "none"
          /\ outcome' = Refusal(config, i)

Next == Declare \/ Resolve \/ Collect
Spec == Init /\ [][Next]_vars

----------------------------------------------------------------------------
\* A configuration that was resolved is only refused for a path outside the runtime
\* or one that a local provider has too; and when it is not, no two providers of
\* different sources share a cache.
SourcesKeptApart ==
  stage = "collected" =>
    /\ outcome \in {"two sources", "claimed twice"} => \E d \in Reserved(config) : LocalOwner(config, d)
    /\ outcome = "bundle" =>
         \A i, j \in Index(config) :
           /\ config[i].remote /\ config[j].remote /\ NoUrl \notin {config[i].url, config[j].url}
           /\ config[i].path = config[j].path
           => config[i].url = config[j].url
=============================================================================
