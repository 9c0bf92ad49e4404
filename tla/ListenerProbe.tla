--------------------------- MODULE ListenerProbe ---------------------------
(***************************************************************************)
(* Whether the listeners of a configuration can be bound (core/listener.rs): *)
(* every claim of an address, a port and a transport is bound in turn, on   *)
(* macOS together with the addresses that its socket does not exclude, and  *)
(* a refused bind is dismissed when nothing answers there.  Connections     *)
(* that linger after their listener has gone, of another user, refuse a     *)
(* bind although the core could have it.  One address family is modelled.   *)
(***************************************************************************)
EXTENDS Naturals, Sequences, FiniteSets

CONSTANTS Platforms, Ports,
          Candidates,   \* the ports of mixed and http that are asked for
          MaxForeign    \* bound: sockets of other programs

Addresses == {"any", "loop", "lan", "linklocal"}

VARIABLES platform,
          scope,       \* the address proxies bind to
          foreign,     \* live sockets of other programs
          lingering,   \* where connections of another user linger
          claims,      \* what is probed, in order
          next,        \* the claim whose turn it is
          outcome      \* ListenerProbeOutcome

vars == <<platform, scope, foreign, lingering, claims, next, outcome>>

SocketOf(a, p, t) == [addr |-> a, port |-> p, tr |-> t]
Sockets == {SocketOf(a, p, t) : a \in Addresses, p \in Ports, t \in {"tcp", "udp"}}

Overlap(c, d) ==
  /\ c.port = d.port /\ c.tr = d.tr
  /\ c.addr = d.addr \/ "any" \in {c.addr, d.addr}

\* proxy_claims: the mixed listener on both transports, then http.
ClaimsOf(ports, a) ==
  <<SocketOf(a, ports[1], "tcp"), SocketOf(a, ports[1], "udp"), SocketOf(a, ports[2], "tcp")>>
Members(s) == {s[i] : i \in DOMAIN s}

InternalConflict(cs) == \E i, j \in DOMAIN cs : i < j /\ Overlap(cs[i], cs[j])

Init ==
  /\ platform \in Platforms /\ scope = "loop"
  /\ foreign = {} /\ lingering = {} /\ claims = << >> /\ next = 1 /\ outcome = "none"

\* The claims left when those that overlap the running core's have been dropped.
Unheld(c, current) == IF \E d \in Members(current) : Overlap(c, d) THEN << >> ELSE <<c>>
Retained(candidate, current) ==
  Unheld(candidate[1], current) \o Unheld(candidate[2], current) \o Unheld(candidate[3], current)

\* probe_proxy_port_change, of a core that runs or not.  What the core holds now
\* is nobody else's.
Ask ==
  /\ outcome = "none" /\ claims = << >>
  /\ scope' \in {"any", "loop", "lan"}
  /\ \E current \in {<<p, q>> : p, q \in Ports}, candidate \in Candidates, running \in BOOLEAN :
       LET held == IF running THEN ClaimsOf(current, scope') ELSE << >>
           asked == ClaimsOf(candidate, scope') IN
       /\ ~InternalConflict(ClaimsOf(current, scope'))
       /\ foreign' \in {f \in SUBSET Sockets : Cardinality(f) <= MaxForeign}
       /\ \A f \in foreign', c \in Members(held) : ~Overlap(f, c)
       /\ lingering' \in {{}} \cup {{SocketOf(a, p, "tcp")} : a \in Addresses \ {"any"}, p \in Ports}
       /\ IF InternalConflict(asked)
            THEN outcome' = "conflict" /\ claims' = << >>
            ELSE outcome' = "probing" /\ claims' = Retained(asked, held)
  /\ UNCHANGED <<platform, next>>

----------------------------------------------------------------------------
(* What the systems refuse, as the code expects it of them.                 *)

Live(socket) == \E f \in foreign : f.addr = socket.addr /\ f.port = socket.port /\ f.tr = socket.tr
Lingers(socket) == \E s \in lingering : s.addr = socket.addr /\ s.port = socket.port /\ socket.tr = s.tr

Refused(socket) ==
  IF socket.tr = "udp" THEN \E f \in foreign : Overlap(f, socket)
  ELSE CASE platform = "linux"   -> \E f \in foreign : Overlap(f, socket)
         [] platform = "macos"   -> Live(socket) \/ Lingers(socket)
         [] platform = "windows" -> Live(socket) \/ (socket.addr = "any" /\ \E f \in foreign : Overlap(f, socket))

\* Whoever connects to a concrete address reaches what listens there, or on any.
Answers(socket) == \E f \in foreign : Overlap(f, socket)

----------------------------------------------------------------------------
NothingIsServing(c) == c.tr = "tcp" /\ c.addr # "any" /\ ~Answers(c)

\* fault: macOS is taken to exclude overlapping addresses.
Guards_None(c) == {}

\* On macOS a wildcard and a concrete listener may coexist: every address that
\* the claim would not exclude is bound too, but for those likely to vanish.
Guards(c) ==
  IF platform # "macos" \/ c.tr = "udp" THEN {}
  ELSE {[c EXCEPT !.addr = a] : a \in IF c.addr = "any" THEN {"loop", "lan"} ELSE {"any"}}

Conflicting(c) == \E g \in Guards(c) : Refused(g) /\ ~NothingIsServing(g)
StaleGuard(c) == \E g \in Guards(c) : Refused(g) /\ NothingIsServing(g)
WildcardOnWindows(c) ==
  platform = "windows" /\ c.tr = "tcp" /\ c.addr # "any" /\ Live([c EXCEPT !.addr = "any"])

\* probe_claims, for one claim.  A stale guard leaves the claim itself unbound.
Bind ==
  /\ outcome = "probing" /\ next <= Len(claims)
  /\ LET c == claims[next]
         refused == ~StaleGuard(c) /\ (Refused(c) \/ WildcardOnWindows(c)) IN
     IF (Conflicting(c) \/ refused) /\ ~NothingIsServing(c)
       THEN outcome' = "conflict" /\ UNCHANGED next
       ELSE next' = next + 1 /\ UNCHANGED outcome
  /\ UNCHANGED <<platform, scope, foreign, lingering, claims>>

\* The address has gone, or the system gives another error.
Fail ==
  /\ outcome = "probing" /\ next <= Len(claims)
  /\ outcome' \in {"invalid", "indeterminate"}
  /\ UNCHANGED <<platform, scope, foreign, lingering, claims, next>>

Finish ==
  /\ outcome = "probing" /\ next > Len(claims)
  /\ outcome' = "available"
  /\ UNCHANGED <<platform, scope, foreign, lingering, claims, next>>

Next == Ask \/ Bind \/ Fail \/ Finish
Spec == Init /\ [][Next]_vars

----------------------------------------------------------------------------
\* What is said to be available is free: no live socket of another program takes
\* what the core will bind, whatever the system lets coexist; on macOS but for
\* link-local addresses.  And a conflict about a concrete address is a socket
\* that lives, never one that lingers ("Is anything answering?" survives).
AnswerIsTrue ==
  /\ outcome = "available" =>
       \A c \in Members(claims), f \in foreign :
         Overlap(c, f) => platform = "macos" /\ f.addr = "linklocal"
  /\ outcome = "conflict" /\ claims # << >> => \E f \in foreign : Overlap(claims[next], f)
============================================================================
