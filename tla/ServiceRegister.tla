--------------------------- MODULE ServiceRegister ---------------------------
(***************************************************************************)
(* What the Run State promises about the service it describes, without     *)
(* revisions, locks or operations: a register that anybody may write, and  *)
(* slow readings that may only land while nobody has written since they    *)
(* began.  RunState implements it with one revision counter.               *)
(***************************************************************************)

CONSTANTS Readers,   \* who may be taking a reading
          Service,   \* what can be known of the service
          Health,    \* what a reading can report
          Report(_)  \* what is known once a reading has reported a health

VARIABLES known,     \* the description everybody sees
          reading,   \* the readings under way
          fresh      \* the ones among them that may still land

vars == <<known, reading, fresh>>

Init == /\ known \in Service
        /\ reading = {} /\ fresh = {}

\* A reading begins, and makes every older one stale.
Start(r) == /\ r \notin reading
            /\ reading' = reading \cup {r}
            /\ fresh' = {r}
            /\ UNCHANGED known

\* Somebody states what the service is or what is wanted of it.
Write(s) == /\ known' = s
            /\ fresh' = {}
            /\ UNCHANGED reading

\* A reading reports; only a fresh one is heard ...
Land(r, h) == /\ r \in fresh
              /\ known' = Report(h)
              /\ reading' = reading \ {r}
              /\ fresh' = fresh \ {r}

\* ... and a stale one is dropped.
Drop(r) == /\ r \in reading \ fresh
           /\ reading' = reading \ {r}
           /\ UNCHANGED <<known, fresh>>

Next == \/ \E r \in Readers : Start(r) \/ Drop(r)
        \/ \E s \in Service : Write(s)
        \/ \E r \in Readers, h \in Health : Land(r, h)

Spec == Init /\ [][Next]_vars
==============================================================================
