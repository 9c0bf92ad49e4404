------------------------------- MODULE ProxyChain -------------------------------
(***************************************************************************)
(* The chain of proxies that the user sets in the runtime configuration, and  *)
(* its reading from the proxy at its end (config/runtime.rs, cmd/runtime.rs):  *)
(* a proxy of the chain dials through the one before it.                     *)
(***************************************************************************)
EXTENDS SequencesExt

CONSTANTS Proxies,   \* of the configuration
          Names,     \* names that a chain may hold, of proxies or of none
          MaxLength  \* bound: proxies of a chain
None == "none"

VARIABLES links,  \* proxy -> its dialer-proxy
          chain   \* ghost: the chain that was set last
vars == <<links, chain>>

NoLinks == [p \in Proxies |-> None]
Chains == {s \in BoundedSeq(Names, MaxLength) : IsInjective(s)}
\* The configuration is made with the links of the profile.
Init ==
  /\ links \in {[NoLinks EXCEPT ![p] = q] : p \in Proxies, q \in Proxies \cup {None}}
  /\ \A p \in Proxies : links[p] # p
  /\ chain = << >>

\* fault: links of an earlier chain stay.
Linked_Over(s) ==
  [p \in Proxies |-> LET i == CHOOSE k \in 0 .. Len(s) : IF k = 0 THEN p \notin ToSet(s) ELSE s[k] = p
                     IN IF i > 1 THEN s[i - 1] ELSE links[p]]
\* update_proxy_chain_config: all links are removed; the first of a chain dials by itself.
Linked(s) ==
  [p \in Proxies |-> LET i == CHOOSE k \in 0 .. Len(s) : IF k = 0 THEN p \notin ToSet(s) ELSE s[k] = p
                     IN IF i > 1 THEN s[i - 1] ELSE None]

\* get_runtime_proxy_chain_config: proxies are followed while they have a link; the one at the end
\* of the links belongs to the chain if it is a proxy.
Read(exit) ==
  LET walk[n \in Nat] ==
        IF n = 0 THEN <<exit>>
        ELSE LET before == walk[n - 1]
             IN IF Head(before) \in Proxies /\ links[Head(before)] # None
                  THEN <<links[Head(before)]>> \o before ELSE before
      all == walk[Cardinality(Proxies)]
  IN IF Len(all) = 1 THEN << >> ELSE IF Head(all) \in Proxies THEN all ELSE Tail(all)

SetChain(s) == links' = Linked(s) /\ chain' = s
Next == \E s \in Chains : SetChain(s)
Spec == Init /\ [][Next]_vars

----------------------------------------------------------------------------
\* A chain of proxies of the configuration is read as it was set, and nothing is read of a proxy
\* that it does not end with.
ChainReads ==
  /\ (Len(chain) > 1 /\ ToSet(chain) \subseteq Proxies) => Read(Last(chain)) = chain
  /\ \A p \in Proxies : (chain # << >> /\ p \notin ToSet(chain)) => Read(p) = << >>
==============================================================================
