-------------------------------- MODULE Draft --------------------------------
(***************************************************************************)
(* The configuration layers (crates/clash-verge-draft) and the ways their  *)
(* writers use them.  A layer holds committed data and at most one draft.  *)
(* Its data is replaced by with_data_modify, which works on a clone under  *)
(* a permit; by a DraftTransaction, which claims the layers it stages; or  *)
(* by a writer that calls edit_draft, apply and discard by itself.  What a *)
(* layer contains is abstracted to the writes that went into it.           *)
(***************************************************************************)
EXTENDS Naturals, Sequences

CONSTANTS Layers,
          Writes,     \* bound: the writes of a behaviour, each made once
          Kind,       \* how a write goes about it
          On,         \* the layers of a write, in the order it takes them
          Locked,     \* the writes made with CONFIG_WRITE_LOCK held
          NoWrite     \* nobody holds the lock

ASSUME DraftAssumption ==
  /\ Kind \in [Writes -> {"Modify", "Transaction", "Direct"}]
  /\ On \in [Writes -> Seq(Layers)]
  /\ Locked \subseteq Writes /\ NoWrite \notin Writes
  /\ \A w \in Writes :
       /\ Len(On[w]) > 0
       /\ Kind[w] # "Transaction" => Len(On[w]) = 1
       /\ Kind[w] = "Modify" => w \notin Locked
       /\ \A i, j \in 1 .. Len(On[w]) : On[w][i] = On[w][j] => i = j

Waits  == {"idle", "yielded", "awaiting", "parked"}
Holds  == {"holding", "editing", "releasing"}
Stages == {"claiming", "unclaiming", "staging", "working", "applying", "dropping", "unlocking"}

VARIABLES data,       \* committed data: the writes it contains
          rev,        \* identity of the committed Arc: which replacement made it
          staged,     \* whether there is a draft
          draft,      \* the writes it contains
          modifying,  \* data_modifying
          stored,     \* the permit data_modify_notify keeps when nobody waits
          parked,     \* its waiters, in order
          claimed,
          lock,       \* CONFIG_WRITE_LOCK
          pc, at,     \* how far a write is, and at which of its layers
          result,
          refused,    \* the layer that a begin found taken
          clone       \* what with_data_modify works on: the data and its identity

layerVars  == <<data, rev, staged, draft>>
permitVars == <<modifying, stored, parked>>
writeVars  == <<at, result, refused, clone>>
vars == <<layerVars, permitVars, writeVars, claimed, lock, pc>>

Init ==
  /\ data = [l \in Layers |-> {}] /\ rev = [l \in Layers |-> 0]
  /\ staged = [l \in Layers |-> FALSE] /\ draft = [l \in Layers |-> {}]
  /\ modifying = [l \in Layers |-> FALSE] /\ stored = [l \in Layers |-> FALSE]
  /\ parked = [l \in Layers |-> << >>]
  /\ claimed = [l \in Layers |-> FALSE]
  /\ lock = NoWrite
  /\ pc = [w \in Writes |-> "idle"] /\ at = [w \in Writes |-> 1]
  /\ result = [w \in Writes |-> "none"] /\ refused = [w \in Writes |-> 1]
  /\ clone = [w \in Writes |-> [edits |-> {}, rev |-> 0]]

----------------------------------------------------------------------------
\* What a layer offers: each under the mutex of its data.

Replace(l, edits) ==
  /\ data' = [data EXCEPT ![l] = edits]
  /\ rev' = [rev EXCEPT ![l] = @ + 1]

EditDraft(l, w) ==
  /\ staged' = [staged EXCEPT ![l] = TRUE]
  /\ draft' = [draft EXCEPT ![l] = (IF staged[l] THEN draft[l] ELSE data[l]) \cup {w}]
  /\ UNCHANGED <<data, rev>>

ClearDraft(l) ==
  /\ staged' = [staged EXCEPT ![l] = FALSE]
  /\ draft' = [draft EXCEPT ![l] = {}]

Apply(l) ==
  /\ ClearDraft(l)
  /\ IF staged[l] THEN Replace(l, draft[l]) ELSE UNCHANGED <<data, rev>>

Discard(l) == ClearDraft(l) /\ UNCHANGED <<data, rev>>

----------------------------------------------------------------------------
\* with_data_modify.

Goes(w, to) == pc' = [pc EXCEPT ![w] = to]
Ends(w, to, how) == Goes(w, to) /\ result' = [result EXCEPT ![w] = how]
Layer(w) == On[w][at[w]]

\* fault: the flag is raised without a look at it.
TryPermit_Shared(w, otherwise) ==
  /\ Goes(w, "holding") /\ modifying' = [modifying EXCEPT ![Layer(w)] = TRUE]
  /\ UNCHANGED <<layerVars, stored, parked, writeVars, claimed, lock>>

TryPermit(w, otherwise) ==
  /\ IF modifying[Layer(w)]
       THEN Goes(w, otherwise) /\ UNCHANGED modifying
       ELSE Goes(w, "holding") /\ modifying' = [modifying EXCEPT ![Layer(w)] = TRUE]
  /\ UNCHANGED <<layerVars, stored, parked, writeVars, claimed, lock>>

FirstTry(w) == Kind[w] = "Modify" /\ pc[w] = "idle" /\ TryPermit(w, "yielded")

\* notified() is created before the flag is tried again, and awaited after it.
Retry(w) == pc[w] = "yielded" /\ TryPermit(w, "awaiting")

Await(w) ==
  /\ pc[w] = "awaiting"
  /\ IF stored[Layer(w)]
       THEN /\ stored' = [stored EXCEPT ![Layer(w)] = FALSE]
            /\ Goes(w, "yielded")
            /\ UNCHANGED parked
       ELSE /\ parked' = [parked EXCEPT ![Layer(w)] = Append(@, w)]
            /\ Goes(w, "parked")
            /\ UNCHANGED stored
  /\ UNCHANGED <<layerVars, modifying, writeVars, claimed, lock>>

Clone(w) ==
  /\ pc[w] = "holding"
  /\ clone' = [clone EXCEPT ![w] = [edits |-> data[Layer(w)], rev |-> rev[Layer(w)]]]
  /\ Goes(w, "editing")
  /\ UNCHANGED <<layerVars, permitVars, at, result, refused, claimed, lock>>

EditFails(w) ==
  /\ pc[w] = "editing"
  /\ Ends(w, "releasing", "failed")
  /\ UNCHANGED <<layerVars, permitVars, at, clone, refused, claimed, lock>>

\* fault: the clone is written back whatever became of the data meanwhile.
ReplaceData_Unchecked(w) ==
  /\ pc[w] = "editing"
  /\ Replace(Layer(w), clone[w].edits \cup {w}) /\ Ends(w, "releasing", "committed")
  /\ UNCHANGED <<staged, draft, permitVars, at, clone, refused, claimed, lock>>

ReplaceData(w) ==
  /\ pc[w] = "editing"
  /\ IF rev[Layer(w)] = clone[w].rev
       THEN Replace(Layer(w), clone[w].edits \cup {w}) /\ Ends(w, "releasing", "committed")
       ELSE Ends(w, "releasing", "failed") /\ UNCHANGED <<data, rev>>
  /\ UNCHANGED <<staged, draft, permitVars, at, clone, refused, claimed, lock>>

\* DataModifyPermit::drop: the flag, then notify_one.
FreePermit(w) ==
  /\ pc[w] = "releasing"
  /\ modifying' = [modifying EXCEPT ![Layer(w)] = FALSE]
  /\ Goes(w, "notifying")
  /\ UNCHANGED <<layerVars, stored, parked, writeVars, claimed, lock>>

\* fault: only those already waiting are told.
Notify_KeepsNone(w) ==
  /\ pc[w] = "notifying"
  /\ IF parked[Layer(w)] = << >>
       THEN Goes(w, "done") /\ UNCHANGED parked
       ELSE /\ parked' = [parked EXCEPT ![Layer(w)] = Tail(@)]
            /\ pc' = [pc EXCEPT ![w] = "done", ![Head(parked[Layer(w)])] = "yielded"]
  /\ UNCHANGED <<layerVars, modifying, stored, writeVars, claimed, lock>>

Notify(w) ==
  /\ pc[w] = "notifying"
  /\ IF parked[Layer(w)] = << >>
       THEN /\ stored' = [stored EXCEPT ![Layer(w)] = TRUE]
            /\ Goes(w, "done")
            /\ UNCHANGED parked
       ELSE /\ parked' = [parked EXCEPT ![Layer(w)] = Tail(@)]
            /\ pc' = [pc EXCEPT ![w] = "done", ![Head(parked[Layer(w)])] = "yielded"]
            /\ UNCHANGED stored
  /\ UNCHANGED <<layerVars, modifying, writeVars, claimed, lock>>

----------------------------------------------------------------------------
\* A DraftTransaction, and a writer that does without one.

\* fault: the last layer is taken for one before the last.
NextLayer_PastLast(w, to) ==
  IF at[w] <= Len(On[w])
    THEN at' = [at EXCEPT ![w] = @ + 1] /\ UNCHANGED pc
    ELSE at' = [at EXCEPT ![w] = 1] /\ Goes(w, to)

\* Goes on to the next of its layers, or when they are done to another stage.
NextLayer(w, to) ==
  IF at[w] < Len(On[w])
    THEN at' = [at EXCEPT ![w] = @ + 1] /\ UNCHANGED pc
    ELSE at' = [at EXCEPT ![w] = 1] /\ Goes(w, to)

BeginStaging(w) ==
  /\ Kind[w] # "Modify" /\ pc[w] = "idle"
  /\ IF w \in Locked THEN lock = NoWrite /\ lock' = w ELSE UNCHANGED lock
  /\ Goes(w, IF Kind[w] = "Transaction" THEN "claiming" ELSE "staging")
  /\ UNCHANGED <<layerVars, permitVars, writeVars, claimed>>

\* fault: a layer is taken although somebody else stages a change to it.
Claim_Shared(w) ==
  /\ pc[w] = "claiming"
  /\ claimed' = [claimed EXCEPT ![Layer(w)] = TRUE]
  /\ NextLayer(w, "staging")
  /\ UNCHANGED <<layerVars, permitVars, result, clone, refused, lock>>

Claim(w) ==
  /\ pc[w] = "claiming"
  /\ IF claimed[Layer(w)]
       THEN /\ Ends(w, "unclaiming", "busy")
            /\ refused' = [refused EXCEPT ![w] = at[w]] /\ at' = [at EXCEPT ![w] = 1]
            /\ UNCHANGED claimed
       ELSE /\ claimed' = [claimed EXCEPT ![Layer(w)] = TRUE]
            /\ NextLayer(w, "staging")
            /\ UNCHANGED <<result, refused>>
  /\ UNCHANGED <<layerVars, permitVars, clone, lock>>

\* fault: a busy transaction keeps the layers it has claimed already.
Unclaim_Nothing(w) ==
  /\ pc[w] = "unclaiming"
  /\ Goes(w, "unlocking") /\ at' = [at EXCEPT ![w] = 1]
  /\ UNCHANGED <<layerVars, permitVars, result, clone, refused, claimed, lock>>

\* Busy: the layers before the one refused are released, one by one.
Unclaim(w) ==
  /\ pc[w] = "unclaiming"
  /\ IF at[w] < refused[w]
       THEN /\ claimed' = [claimed EXCEPT ![Layer(w)] = FALSE]
            /\ at' = [at EXCEPT ![w] = @ + 1]
            /\ UNCHANGED pc
       ELSE Goes(w, "unlocking") /\ at' = [at EXCEPT ![w] = 1] /\ UNCHANGED claimed
  /\ UNCHANGED <<layerVars, permitVars, result, clone, refused, lock>>

Stage(w) ==
  /\ pc[w] = "staging"
  /\ EditDraft(Layer(w), w)
  /\ NextLayer(w, "working")
  /\ UNCHANGED <<permitVars, result, clone, refused, claimed, lock>>

\* What the writer does with its drafts staged succeeds or fails.
Commit(w) ==
  /\ Kind[w] = "Transaction" /\ pc[w] = "working"
  /\ Goes(w, "applying")
  /\ UNCHANGED <<layerVars, permitVars, writeVars, claimed, lock>>

Rollback(w) ==
  /\ Kind[w] = "Transaction" /\ pc[w] = "working"
  /\ Ends(w, "dropping", "failed")
  /\ UNCHANGED <<layerVars, permitVars, at, clone, refused, claimed, lock>>

ApplyLayer(w) ==
  /\ pc[w] = "applying"
  /\ Apply(Layer(w))
  /\ NextLayer(w, "dropping")
  /\ result' = IF at[w] < Len(On[w]) THEN result ELSE [result EXCEPT ![w] = "committed"]
  /\ UNCHANGED <<permitVars, clone, refused, claimed, lock>>

\* fault: the claim is released with the draft left behind.
DropLayer_KeepsDraft(w) ==
  /\ pc[w] = "dropping"
  /\ claimed' = [claimed EXCEPT ![Layer(w)] = FALSE]
  /\ NextLayer(w, "unlocking")
  /\ UNCHANGED <<layerVars, permitVars, result, clone, refused, lock>>

\* DraftTransaction::drop, for one layer.
DropLayer(w) ==
  /\ pc[w] = "dropping"
  /\ IF result[w] = "committed" THEN UNCHANGED layerVars ELSE Discard(Layer(w))
  /\ claimed' = [claimed EXCEPT ![Layer(w)] = FALSE]
  /\ NextLayer(w, "unlocking")
  /\ UNCHANGED <<permitVars, result, clone, refused, lock>>

ApplyDirect(w) ==
  /\ Kind[w] = "Direct" /\ pc[w] = "working"
  /\ Apply(Layer(w))
  /\ Ends(w, "unlocking", "committed")
  /\ UNCHANGED <<permitVars, at, clone, refused, claimed, lock>>

DiscardDirect(w) ==
  /\ Kind[w] = "Direct" /\ pc[w] = "working"
  /\ Discard(Layer(w))
  /\ Ends(w, "unlocking", "failed")
  /\ UNCHANGED <<permitVars, at, clone, refused, claimed, lock>>

Unlock(w) ==
  /\ pc[w] = "unlocking"
  /\ lock' = IF w \in Locked THEN NoWrite ELSE lock
  /\ Goes(w, "done")
  /\ UNCHANGED <<layerVars, permitVars, writeVars, claimed>>

----------------------------------------------------------------------------
ModifyStep(w) ==
  \/ FirstTry(w) \/ Retry(w) \/ Await(w) \/ Clone(w) \/ EditFails(w) \/ ReplaceData(w)
  \/ FreePermit(w) \/ Notify(w)
StagingStep(w) ==
  \/ BeginStaging(w) \/ Claim(w) \/ Unclaim(w) \/ Stage(w) \/ Commit(w) \/ Rollback(w)
  \/ ApplyLayer(w) \/ DropLayer(w) \/ ApplyDirect(w) \/ DiscardDirect(w) \/ Unlock(w)

Next == \E w \in Writes : ModifyStep(w) \/ StagingStep(w)
Spec == Init /\ [][Next]_vars

\* The runtime polls a task that can go on, and what a writer awaits ends.
FairSpec == Spec /\ \A w \in Writes : WF_vars(ModifyStep(w)) /\ WF_vars(StagingStep(w))

----------------------------------------------------------------------------
Steps(w) == IF Kind[w] = "Modify" THEN Waits \cup Holds \cup {"notifying", "done"}
            ELSE {"idle", "done"} \cup Stages

\* Every variable stays in its range, and a write is never past its last layer.
TypeOK ==
  /\ data \in [Layers -> SUBSET Writes] /\ rev \in [Layers -> Nat]
  /\ staged \in [Layers -> BOOLEAN] /\ draft \in [Layers -> SUBSET Writes]
  /\ modifying \in [Layers -> BOOLEAN] /\ stored \in [Layers -> BOOLEAN]
  /\ parked \in [Layers -> Seq(Writes)]
  /\ claimed \in [Layers -> BOOLEAN]
  /\ lock \in Locked \cup {NoWrite}
  /\ \A w \in Writes : pc[w] \in Steps(w) /\ at[w] \in 1 .. Len(On[w])
  /\ \A w \in Writes : refused[w] \in 1 .. Len(On[w])
  /\ DOMAIN pc = Writes /\ DOMAIN at = Writes /\ DOMAIN refused = Writes
  /\ result \in [Writes -> {"none", "committed", "failed", "busy"}]
  /\ clone \in [Writes -> [edits : SUBSET Writes, rev : Nat]]

Uses(w, l) == \E i \in 1 .. Len(On[w]) : On[w][i] = l
Modifiers(l) == {w \in Writes : Kind[w] = "Modify" /\ Uses(w, l)}

\* The flag of a layer is up exactly while one with_data_modify works on it.
PermitHeldByOne ==
  \A l \in Layers :
    /\ modifying[l] <=> \E w \in Modifiers(l) : pc[w] \in Holds
    /\ \A v, w \in Modifiers(l) : pc[v] \in Holds /\ pc[w] \in Holds => v = w

\* Nobody waits for a permit that nobody holds, unless a notification is on its
\* way, kept, or somebody is about to try again.
NoLostWakeup ==
  \A l \in Layers :
    (\E w \in Modifiers(l) : pc[w] \in {"awaiting", "parked"}) =>
      \/ modifying[l] \/ stored[l]
      \/ \E w \in Modifiers(l) : pc[w] \in {"yielded", "notifying"}

\* The layers a transaction has claimed and not yet released.
ClaimedBy(w) ==
  CASE pc[w] = "claiming"                             -> 1 .. at[w] - 1
    [] pc[w] = "unclaiming"                           -> at[w] .. refused[w] - 1
    [] pc[w] \in {"staging", "working", "applying"}   -> 1 .. Len(On[w])
    [] pc[w] = "dropping"                             -> at[w] .. Len(On[w])
    [] OTHER                                          -> {}
Owns(w, l) == Kind[w] = "Transaction" /\ \E i \in ClaimedBy(w) : On[w][i] = l

\* A layer is claimed exactly while one transaction has it, however the claims
\* of several transactions met half-way.
ClaimHeldByOne ==
  \A l \in Layers :
    /\ claimed[l] <=> \E w \in Writes : Owns(w, l)
    /\ \A v, w \in Writes : Owns(v, l) /\ Owns(w, l) => v = w

\* Layers whose writers can be kept apart: they all use with_data_modify, or all
\* transactions, or none uses with_data_modify and all hold CONFIG_WRITE_LOCK.
Disciplined(l) ==
  \/ \A w \in Writes : Uses(w, l) => Kind[w] = "Modify"
  \/ \A w \in Writes : Uses(w, l) => Kind[w] = "Transaction"
  \/ \A w \in Writes : Uses(w, l) => Kind[w] # "Modify" /\ w \in Locked

\* What was committed on such a layer stays in it: no draft and no clone taken
\* before another commit overwrites that commit.
CommittedStays ==
  \A w \in Writes, l \in Layers :
    Disciplined(l) /\ Uses(w, l) /\ result[w] = "committed" => w \in data[l]

\* What failed, or was refused, leaves no trace on such a layer.
FailedLeavesNoTrace ==
  \A w \in Writes, l \in Layers :
    Disciplined(l) /\ result[w] \in {"failed", "busy"} => w \notin data[l]

\* Once a write has its permit, nothing else replaces the data of a layer that
\* is only written by with_data_modify: its optimistic check never fails there.
OnlyEditsFail ==
  \A w \in Writes :
    pc[w] = "editing" /\ (\A v \in Writes : Uses(v, Layer(w)) => Kind[v] = "Modify") =>
      clone[w] = [edits |-> data[Layer(w)], rev |-> rev[Layer(w)]]

\* What makes the invariants above inductive: the stage of a write tells its
\* result, who waits, who holds the lock, whose draft a layer has, and which
\* writes its data contains.
ResultsFit ==
  \A w \in Writes :
    /\ pc[w] \in Waits \cup {"holding", "editing", "claiming", "staging", "working", "applying"}
         => result[w] = "none"
    /\ pc[w] = "unclaiming" => result[w] = "busy"
    /\ pc[w] = "dropping" => Kind[w] = "Transaction" /\ result[w] \in {"committed", "failed"}
    /\ pc[w] \in {"claiming", "unclaiming", "applying"} => Kind[w] = "Transaction"
    /\ pc[w] \notin {"claiming", "unclaiming", "staging", "applying", "dropping"} => at[w] = 1

WaitersFit ==
  \A l \in Layers :
    /\ \A i \in 1 .. Len(parked[l]) : parked[l][i] \in Modifiers(l) /\ pc[parked[l][i]] = "parked"
    /\ \A i, j \in 1 .. Len(parked[l]) : parked[l][i] = parked[l][j] => i = j

LockFits == \A w \in Locked : lock = w <=> pc[w] \in Stages

\* The layers whose draft contains what the write has staged.
Drafts(w) ==
  CASE pc[w] = "staging"                                    -> 1 .. at[w] - 1
    [] pc[w] = "working"                                    -> 1 .. Len(On[w])
    [] pc[w] = "applying"                                   -> at[w] .. Len(On[w])
    [] pc[w] = "dropping" /\ result[w] = "failed"           -> at[w] .. Len(On[w])
    [] OTHER                                                -> {}
Stakes(w, l) == \E i \in Drafts(w) : On[w][i] = l
DraftsFit ==
  \A l \in Layers :
    Disciplined(l) =>
      /\ staged[l] <=> \E w \in Writes : Stakes(w, l)
      /\ \A w \in Writes : Stakes(w, l) => draft[l] = data[l] \cup {w}

Landed(w, l) ==
  \E i \in 1 .. Len(On[w]) :
    On[w][i] = l /\ (result[w] = "committed" \/ (pc[w] = "applying" /\ i < at[w]))
DataFit ==
  \A l \in Layers : Disciplined(l) => \A w \in Writes : w \in data[l] <=> Landed(w, l)

IInv ==
  /\ TypeOK /\ ResultsFit /\ WaitersFit /\ LockFits
  /\ PermitHeldByOne /\ NoLostWakeup /\ ClaimHeldByOne /\ OnlyEditsFail
  /\ DraftsFit /\ DataFit

\* with_data_modify never undoes what somebody else committed since its clone.
ModifyOverwritesNothing ==
  [][\A w \in Writes :
       pc[w] = "editing" /\ result'[w] = "committed" => data[Layer(w)] \subseteq data'[Layer(w)]]_vars

\* feat/config.rs:310 of a patch staged in a transaction: "A failed patch rolls
\* back to what the user already had".
FailedPatchRollsBack ==
  \A w \in Writes : Kind[w] = "Transaction" /\ result[w] = "failed" /\ pc[w] = "done" =>
    \A l \in Layers : w \notin data[l]

\* A write that was begun ends, however many wait for the same permit.
EveryWriteEnds == \A w \in Writes : pc[w] # "idle" ~> pc[w] = "done"
==============================================================================
