----------------------------- MODULE DraftProofs -----------------------------
(***************************************************************************)
(* The invariants of Draft hold for every set of layers and writes.  The   *)
(* permit, its waiters and the claims are kept by how flags are set and    *)
(* cleared; what is staged and committed then follows on the layers whose  *)
(* writers the claims or the lock keep apart.                              *)
(***************************************************************************)
EXTENDS Draft, SequenceTheorems, TLAPS

LEMMA OnFacts ==
  ASSUME NEW w \in Writes
  PROVE  /\ Kind[w] \in {"Modify", "Transaction", "Direct"}
         /\ Len(On[w]) \in Nat /\ Len(On[w]) > 0
         /\ \A i \in 1 .. Len(On[w]) : On[w][i] \in Layers
         /\ \A i, j \in 1 .. Len(On[w]) : On[w][i] = On[w][j] => i = j
         /\ Kind[w] # "Transaction" => Len(On[w]) = 1
         /\ Kind[w] = "Modify" => w \notin Locked
BY DraftAssumption

LEMMA LayerType ==
  ASSUME TypeOK, NEW w \in Writes
  PROVE  Layer(w) \in Layers /\ at[w] \in 1 .. Len(On[w]) /\ pc[w] \in Steps(w)
BY OnFacts DEF TypeOK, Layer

LEMMA NextLayerFacts ==
  ASSUME TypeOK, NEW w \in Writes, NEW to, NextLayer(w, to)
  PROVE  \/ /\ at[w] < Len(On[w]) /\ at' = [at EXCEPT ![w] = at[w] + 1] /\ pc' = pc
            /\ at[w] + 1 \in 1 .. Len(On[w])
         \/ /\ at[w] = Len(On[w]) /\ at' = [at EXCEPT ![w] = 1]
            /\ pc' = [pc EXCEPT ![w] = to]
            /\ 1 \in 1 .. Len(On[w])
<1>1. at[w] \in 1 .. Len(On[w]) /\ Len(On[w]) \in Nat /\ Len(On[w]) > 0
  BY OnFacts, LayerType
<1> QED BY <1>1 DEF NextLayer, Goes

----------------------------------------------------------------------------
\* Types.

LEMMA InitType == Init => TypeOK
<1> SUFFICES ASSUME Init PROVE TypeOK
  OBVIOUS
<1>1. \A w \in Writes : 1 \in 1 .. Len(On[w])
  BY OnFacts
<1>2. \A w \in Writes : /\ pc[w] \in Steps(w) /\ at[w] \in 1 .. Len(On[w])
                        /\ refused[w] \in 1 .. Len(On[w])
  BY <1>1 DEF Init, Steps, Waits
<1> QED BY <1>2 DEF Init, TypeOK

\* The range of refused, apart.
RefusedFits == DOMAIN refused = Writes /\ \A w \in Writes : refused[w] \in 1 .. Len(On[w])

LEMMA RefusedStep == TypeOK /\ [Next]_vars => RefusedFits'
<1> SUFFICES ASSUME TypeOK, [Next]_vars PROVE RefusedFits'
  OBVIOUS
<1>1. CASE UNCHANGED refused
  BY <1>1 DEF TypeOK, RefusedFits
<1>2. CASE \E w \in Writes : Claim(w) /\ refused' = [refused EXCEPT ![w] = at[w]]
  BY <1>2 DEF TypeOK, RefusedFits
<1>3. UNCHANGED refused \/ \E w \in Writes : Claim(w) /\ refused' = [refused EXCEPT ![w] = at[w]]
  <2>1. CASE \E w \in Writes : ModifyStep(w)
    BY <2>1 DEF ModifyStep, FirstTry, Retry, TryPermit, Await, Clone, EditFails, ReplaceData,
                FreePermit, Notify, writeVars
  <2>2. CASE \E w \in Writes : StagingStep(w) /\ ~Claim(w)
    BY <2>2 DEF StagingStep, BeginStaging, Unclaim, Stage, Commit, Rollback, ApplyLayer, DropLayer,
                ApplyDirect, DiscardDirect, Unlock, writeVars
  <2>3. CASE \E w \in Writes : Claim(w)
    BY <2>3 DEF Claim
  <2>4. CASE UNCHANGED vars
    BY <2>4 DEF vars, writeVars
  <2> QED BY <2>1, <2>2, <2>3, <2>4 DEF Next, StagingStep
<1> QED BY <1>1, <1>2, <1>3

LEMMA TryPermitType ==
  ASSUME TypeOK, NEW w \in Writes, Kind[w] = "Modify", NEW to \in Waits, TryPermit(w, to)
  PROVE  TypeOK'
<1>1. Layer(w) \in Layers
  BY LayerType
<1>2. /\ \A v \in Writes : pc'[v] \in Steps(v) /\ at'[v] \in 1 .. Len(On[v])
      /\ DOMAIN pc' = Writes /\ DOMAIN at' = Writes
  BY DEF TryPermit, TypeOK, Goes, Steps, Holds, writeVars
<1> QED BY <1>1, <1>2 DEF TryPermit, TypeOK, layerVars, writeVars

LEMMA TypeStep == TypeOK /\ WaitersFit /\ [Next]_vars => TypeOK'
<1> SUFFICES ASSUME TypeOK, WaitersFit, [Next]_vars PROVE TypeOK'
  OBVIOUS
<1> USE DEF layerVars, permitVars, writeVars, Ends
<1>00. RefusedFits'
  BY RefusedStep
<1> USE <1>00 DEF RefusedFits
<1>0. ASSUME NEW w \in Writes
      PROVE  /\ Layer(w) \in Layers /\ Len(On[w]) \in Nat /\ at[w] \in 1 .. Len(On[w])
             /\ pc[w] \in Steps(w) /\ 1 \in 1 .. Len(On[w])
  BY LayerType, OnFacts
<1>1. ASSUME NEW w \in Writes, FirstTry(w) PROVE TypeOK'
  BY <1>1, TryPermitType DEF FirstTry, Waits
<1>2. ASSUME NEW w \in Writes, Retry(w) PROVE TypeOK'
  BY <1>0, <1>2, TryPermitType, OnFacts DEF Retry, Waits, Steps, Stages
<1>3. ASSUME NEW w \in Writes, Await(w) PROVE TypeOK'
  <2>1. Kind[w] = "Modify"
    BY <1>0, <1>3, OnFacts DEF Await, Steps, Stages
  <2>2. \A v \in Writes : pc'[v] \in Steps(v)
    BY <1>3, <2>1 DEF Await, TypeOK, Goes, Steps, Waits
  <2>3. parked' \in [Layers -> Seq(Writes)] /\ stored' \in [Layers -> BOOLEAN]
    <3>1. parked[Layer(w)] \in Seq(Writes)
      BY <1>0 DEF TypeOK
    <3>2. Append(parked[Layer(w)], w) \in Seq(Writes)
      BY <3>1, AppendProperties
    <3> QED BY <1>0, <1>3, <3>2 DEF Await, TypeOK
  <2> QED BY <1>3, <2>2, <2>3 DEF Await, TypeOK, Goes
<1>4. ASSUME NEW w \in Writes, Clone(w) PROVE TypeOK'
  <2>1. \A v \in Writes : pc'[v] \in Steps(v)
    BY <1>0, <1>4 DEF Clone, TypeOK, Goes, Steps, Holds, Stages
  <2>2. clone' \in [Writes -> [edits : SUBSET Writes, rev : Nat]]
    BY <1>0, <1>4 DEF Clone, TypeOK
  <2> QED BY <1>4, <2>1, <2>2 DEF Clone, TypeOK, Goes
<1>5. ASSUME NEW w \in Writes, EditFails(w) PROVE TypeOK'
  <2>1. \A v \in Writes : pc'[v] \in Steps(v)
    BY <1>0, <1>5 DEF EditFails, TypeOK, Goes, Steps, Holds, Stages
  <2> QED BY <1>5, <2>1 DEF EditFails, TypeOK, Goes
<1>6. ASSUME NEW w \in Writes, ReplaceData(w) PROVE TypeOK'
  <2>1. \A v \in Writes : pc'[v] \in Steps(v)
    BY <1>0, <1>6 DEF ReplaceData, TypeOK, Goes, Steps, Holds, Stages
  <2>2. data' \in [Layers -> SUBSET Writes] /\ rev' \in [Layers -> Nat]
    <3>1. clone[w].edits \cup {w} \in SUBSET Writes /\ rev[Layer(w)] + 1 \in Nat
      BY <1>0 DEF TypeOK
    <3>2. data \in [Layers -> SUBSET Writes] /\ rev \in [Layers -> Nat]
      BY DEF TypeOK
    <3> QED BY <1>0, <1>6, <3>1, <3>2 DEF ReplaceData, Replace
  <2>3. result' \in [Writes -> {"none", "committed", "failed", "busy"}]
    BY <1>6 DEF ReplaceData, TypeOK
  <2> QED BY <1>6, <2>1, <2>2, <2>3 DEF ReplaceData, TypeOK, Goes
<1>7. ASSUME NEW w \in Writes, FreePermit(w) PROVE TypeOK'
  <2>1. \A v \in Writes : pc'[v] \in Steps(v)
    BY <1>0, <1>7 DEF FreePermit, TypeOK, Goes, Steps, Holds, Stages
  <2> QED BY <1>0, <1>7, <2>1 DEF FreePermit, TypeOK, Goes
<1>8. ASSUME NEW w \in Writes, Notify(w) PROVE TypeOK'
  <2>1. Kind[w] = "Modify"
    BY <1>0, <1>8, OnFacts DEF Notify, Steps, Stages
  <2>2. CASE parked[Layer(w)] = << >>
    <3>1. \A v \in Writes : pc'[v] \in Steps(v)
      BY <1>8, <2>1, <2>2 DEF Notify, TypeOK, Goes, Steps
    <3> QED BY <1>0, <1>8, <2>2, <3>1 DEF Notify, TypeOK, Goes
  <2>3. CASE parked[Layer(w)] # << >>
    <3> DEFINE q == parked[Layer(w)]
               h == Head(q)
    <3>1. q \in Seq(Writes) /\ q # << >>
      BY <1>0, <2>3 DEF TypeOK
    <3>2. 1 \in 1 .. Len(q) /\ h = q[1] /\ Tail(q) \in Seq(Writes) /\ h \in Writes
      BY <3>1, HeadTailProperties
    <3>3. h \in Modifiers(Layer(w))
      BY <1>0, <1>8, <3>2 DEF WaitersFit
    <3>4. pc' = [pc EXCEPT ![w] = "done", ![h] = "yielded"]
          /\ parked' = [parked EXCEPT ![Layer(w)] = Tail(q)]
      BY <1>8, <2>3 DEF Notify
    <3> HIDE DEF h, q
    <3>5. \A v \in Writes : pc'[v] \in Steps(v)
      BY <2>1, <3>2, <3>3, <3>4 DEF TypeOK, Steps, Waits, Modifiers
    <3> QED BY <1>0, <1>8, <3>2, <3>4, <3>5 DEF Notify, TypeOK
  <2> QED BY <2>2, <2>3
<1>9. ASSUME NEW w \in Writes, BeginStaging(w) PROVE TypeOK'
  <2>1. \A v \in Writes : pc'[v] \in Steps(v)
    BY <1>9, OnFacts DEF BeginStaging, TypeOK, Goes, Steps, Stages
  <2>2. lock' \in Locked \cup {NoWrite}
    BY <1>9 DEF BeginStaging, TypeOK
  <2> QED BY <1>9, <2>1, <2>2 DEF BeginStaging, TypeOK, Goes
<1>10. ASSUME NEW w \in Writes, NEW to \in Stages, Kind[w] # "Modify", NextLayer(w, to)
       PROVE  /\ \A v \in Writes : pc'[v] \in Steps(v) /\ at'[v] \in 1 .. Len(On[v])
              /\ DOMAIN pc' = Writes /\ DOMAIN at' = Writes
  <2>1. CASE at' = [at EXCEPT ![w] = at[w] + 1] /\ pc' = pc /\ at[w] + 1 \in 1 .. Len(On[w])
    BY <2>1 DEF TypeOK
  <2>2. CASE at' = [at EXCEPT ![w] = 1] /\ pc' = [pc EXCEPT ![w] = to] /\ 1 \in 1 .. Len(On[w])
    BY <1>10, <2>2 DEF TypeOK, Steps
  <2> QED BY <1>10, <2>1, <2>2, NextLayerFacts
<1>11. ASSUME NEW w \in Writes, pc[w] \in Stages PROVE Kind[w] # "Modify"
  BY <1>0, <1>11 DEF Steps, Stages, Waits, Holds
<1>12. ASSUME NEW w \in Writes, Claim(w) PROVE TypeOK'
  <2>1. Kind[w] # "Modify"
    BY <1>11, <1>12 DEF Claim, Stages
  <2>2. CASE claimed[Layer(w)]
    <3>1. \A v \in Writes : pc'[v] \in Steps(v)
      BY <1>12, <2>1, <2>2 DEF Claim, TypeOK, Goes, Steps, Stages
    <3>2. DOMAIN at' = Writes /\ \A v \in Writes : at'[v] \in 1 .. Len(On[v])
      BY <1>0, <1>12, <2>2 DEF Claim, TypeOK
    <3> QED BY <1>12, <2>2, <3>1, <3>2 DEF Claim, TypeOK, Goes
  <2>3. CASE ~claimed[Layer(w)]
    <3>1. NextLayer(w, "staging") /\ "staging" \in Stages
      BY <1>12, <2>3 DEF Claim, Stages
    <3> QED BY <1>0, <1>10, <1>12, <2>1, <2>3, <3>1 DEF Claim, TypeOK
  <2> QED BY <2>2, <2>3
<1>13. ASSUME NEW w \in Writes, Unclaim(w) PROVE TypeOK'
  <2>1. Kind[w] # "Modify"
    BY <1>11, <1>13 DEF Unclaim, Stages
  <2>2. \A v \in Writes : pc'[v] \in Steps(v) /\ at'[v] \in 1 .. Len(On[v])
    <3>1. at[w] < refused[w] => at[w] + 1 \in 1 .. Len(On[w])
      BY <1>0 DEF TypeOK
    <3>2. CASE at[w] < refused[w]
      BY <1>13, <3>1, <3>2 DEF Unclaim, TypeOK
    <3>3. CASE ~(at[w] < refused[w])
      BY <1>0, <1>13, <2>1, <3>3 DEF Unclaim, TypeOK, Goes, Steps, Stages
    <3> QED BY <3>2, <3>3
  <2>3. claimed' \in [Layers -> BOOLEAN] /\ DOMAIN pc' = Writes /\ DOMAIN at' = Writes
    BY <1>13 DEF Unclaim, TypeOK, Goes
  <2> QED BY <1>13, <2>2, <2>3 DEF Unclaim, TypeOK
<1>14. ASSUME NEW w \in Writes, Stage(w) PROVE TypeOK'
  <2>1. Kind[w] # "Modify" /\ "working" \in Stages
    BY <1>11, <1>14 DEF Stage, Stages
  <2>2. draft' \in [Layers -> SUBSET Writes] /\ staged' \in [Layers -> BOOLEAN]
    BY <1>0, <1>14 DEF Stage, EditDraft, TypeOK
  <2> QED BY <1>10, <1>14, <2>1, <2>2 DEF Stage, EditDraft, TypeOK
<1>15. ASSUME NEW w \in Writes, Commit(w) PROVE TypeOK'
  <2>1. \A v \in Writes : pc'[v] \in Steps(v)
    BY <1>15 DEF Commit, TypeOK, Goes, Steps, Stages
  <2> QED BY <1>15, <2>1 DEF Commit, TypeOK, Goes
<1>16. ASSUME NEW w \in Writes, Rollback(w) PROVE TypeOK'
  <2>1. \A v \in Writes : pc'[v] \in Steps(v)
    BY <1>16 DEF Rollback, TypeOK, Goes, Steps, Stages
  <2> QED BY <1>16, <2>1 DEF Rollback, TypeOK, Goes
<1>17. ASSUME NEW l \in Layers, Apply(l) \/ Discard(l)
       PROVE  /\ data' \in [Layers -> SUBSET Writes] /\ rev' \in [Layers -> Nat]
              /\ staged' \in [Layers -> BOOLEAN] /\ draft' \in [Layers -> SUBSET Writes]
  <2>1. rev[l] + 1 \in Nat /\ draft[l] \in SUBSET Writes
    BY DEF TypeOK
  <2>2. staged' \in [Layers -> BOOLEAN] /\ draft' \in [Layers -> SUBSET Writes]
    BY <1>17 DEF Apply, Discard, ClearDraft, TypeOK
  <2>3. CASE UNCHANGED <<data, rev>>
    BY <2>2, <2>3 DEF TypeOK
  <2>4. CASE Replace(l, draft[l])
    <3>1. data' = [data EXCEPT ![l] = draft[l]] /\ rev' = [rev EXCEPT ![l] = rev[l] + 1]
      BY <2>4 DEF Replace
    <3>2. data \in [Layers -> SUBSET Writes] /\ rev \in [Layers -> Nat]
      BY DEF TypeOK
    <3> QED BY <2>1, <2>2, <3>1, <3>2
  <2> QED BY <1>17, <2>3, <2>4 DEF Apply, Discard
<1>18. ASSUME NEW w \in Writes, ApplyLayer(w) PROVE TypeOK'
  <2>1. Kind[w] # "Modify" /\ "dropping" \in Stages
    BY <1>11, <1>18 DEF ApplyLayer, Stages
  <2>2. result' \in [Writes -> {"none", "committed", "failed", "busy"}]
    BY <1>18 DEF ApplyLayer, TypeOK
  <2>3. /\ \A v \in Writes : pc'[v] \in Steps(v) /\ at'[v] \in 1 .. Len(On[v])
        /\ DOMAIN pc' = Writes /\ DOMAIN at' = Writes
    BY <1>10, <1>18, <2>1 DEF ApplyLayer
  <2>4. /\ data' \in [Layers -> SUBSET Writes] /\ rev' \in [Layers -> Nat]
        /\ staged' \in [Layers -> BOOLEAN] /\ draft' \in [Layers -> SUBSET Writes]
    BY <1>0, <1>17, <1>18 DEF ApplyLayer
  <2> QED BY <1>18, <2>2, <2>3, <2>4 DEF ApplyLayer, TypeOK
<1>19. ASSUME NEW w \in Writes, DropLayer(w) PROVE TypeOK'
  <2>1. Kind[w] # "Modify" /\ "unlocking" \in Stages
    BY <1>11, <1>19 DEF DropLayer, Stages
  <2>2. /\ data' \in [Layers -> SUBSET Writes] /\ rev' \in [Layers -> Nat]
        /\ staged' \in [Layers -> BOOLEAN] /\ draft' \in [Layers -> SUBSET Writes]
    BY <1>0, <1>17, <1>19 DEF DropLayer, TypeOK
  <2> QED BY <1>0, <1>10, <1>19, <2>1, <2>2 DEF DropLayer, TypeOK
<1>20. ASSUME NEW w \in Writes, ApplyDirect(w) \/ DiscardDirect(w) PROVE TypeOK'
  <2>1. \A v \in Writes : pc'[v] \in Steps(v)
    BY <1>20 DEF ApplyDirect, DiscardDirect, TypeOK, Goes, Steps, Stages
  <2>2. result' \in [Writes -> {"none", "committed", "failed", "busy"}]
    BY <1>20 DEF ApplyDirect, DiscardDirect, TypeOK
  <2> QED BY <1>0, <1>17, <1>20, <2>1, <2>2 DEF ApplyDirect, DiscardDirect, TypeOK, Goes
<1>21. ASSUME NEW w \in Writes, Unlock(w) PROVE TypeOK'
  <2>1. Kind[w] # "Modify"
    BY <1>11, <1>21 DEF Unlock, Stages
  <2>2. \A v \in Writes : pc'[v] \in Steps(v)
    BY <1>21, <2>1 DEF Unlock, TypeOK, Goes, Steps
  <2> QED BY <1>21, <2>2 DEF Unlock, TypeOK, Goes
<1>22. CASE UNCHANGED vars
  BY <1>22 DEF vars, TypeOK
<1> QED BY <1>1, <1>2, <1>3, <1>4, <1>5, <1>6, <1>7, <1>8, <1>9, <1>12, <1>13, <1>14, <1>15,
           <1>16, <1>18, <1>19, <1>20, <1>21, <1>22 DEF Next, ModifyStep, StagingStep

----------------------------------------------------------------------------
\* What each action does to the stages of the writes.

LEMMA ModifyMoves ==
  ASSUME TypeOK, NEW w \in Writes, ModifyStep(w)
  PROVE  /\ Kind[w] = "Modify"
         /\ at' = at /\ refused' = refused /\ lock' = lock /\ claimed' = claimed
<1>1. pc[w] \in Steps(w) /\ Kind[w] \in {"Modify", "Transaction", "Direct"}
  BY LayerType, OnFacts
<1>2. Kind[w] = "Modify"
  BY <1>1 DEF ModifyStep, FirstTry, Retry, Await, Clone, EditFails, ReplaceData, FreePermit, Notify,
              Steps, Stages
<1>3. at' = at /\ refused' = refused /\ lock' = lock /\ claimed' = claimed
  BY DEF ModifyStep, FirstTry, Retry, TryPermit, Await, Clone, EditFails, ReplaceData, FreePermit,
         Notify, writeVars
<1> QED BY <1>2, <1>3

LEMMA StagingMoves ==
  ASSUME TypeOK, NEW w \in Writes, StagingStep(w)
  PROVE  /\ Kind[w] # "Modify" /\ clone' = clone /\ UNCHANGED permitVars
         /\ \A v \in Writes \ {w} : /\ pc'[v] = pc[v] /\ at'[v] = at[v]
                                    /\ result'[v] = result[v] /\ refused'[v] = refused[v]
<1>1. pc[w] \in Steps(w) /\ Kind[w] \in {"Modify", "Transaction", "Direct"}
  BY LayerType, OnFacts
<1>2. Kind[w] # "Modify"
  BY <1>1 DEF StagingStep, BeginStaging, Claim, Unclaim, Stage, Commit, Rollback, ApplyLayer,
              DropLayer, ApplyDirect, DiscardDirect, Unlock, Steps, Waits, Holds
<1>3. clone' = clone /\ UNCHANGED permitVars
  BY DEF StagingStep, BeginStaging, Claim, Unclaim, Stage, Commit, Rollback, ApplyLayer,
         DropLayer, ApplyDirect, DiscardDirect, Unlock, writeVars
<1>4. ASSUME NEW v \in Writes \ {w}
      PROVE  /\ pc'[v] = pc[v] /\ at'[v] = at[v]
             /\ result'[v] = result[v] /\ refused'[v] = refused[v]
  BY DEF StagingStep, BeginStaging, Claim, Unclaim, Stage, Commit, Rollback, ApplyLayer,
         DropLayer, ApplyDirect, DiscardDirect, Unlock, writeVars, Ends, Goes, NextLayer, TypeOK
<1> QED BY <1>2, <1>3, <1>4

LEMMA NotifyMoves ==
  ASSUME TypeOK, WaitersFit, NEW w \in Writes, Notify(w)
  PROVE  \/ /\ parked[Layer(w)] = << >> /\ parked' = parked
            /\ pc' = [pc EXCEPT ![w] = "done"]
            /\ stored' = [stored EXCEPT ![Layer(w)] = TRUE]
         \/ \E h \in Modifiers(Layer(w)) :
              /\ parked[Layer(w)] # << >> /\ h = Head(parked[Layer(w)])
              /\ parked' = [parked EXCEPT ![Layer(w)] = Tail(parked[Layer(w)])]
              /\ pc[h] = "parked" /\ h # w
              /\ pc' = [pc EXCEPT ![w] = "done", ![h] = "yielded"]
              /\ stored' = stored
<1>1. Layer(w) \in Layers
  BY LayerType
<1>2. CASE parked[Layer(w)] = << >>
  BY <1>2 DEF Notify, Goes
<1>3. CASE parked[Layer(w)] # << >>
  <2> DEFINE q == parked[Layer(w)]
  <2>1. q \in Seq(Writes) /\ q # << >>
    BY <1>1, <1>3 DEF TypeOK
  <2>2. 1 \in 1 .. Len(q) /\ Head(q) = q[1]
    BY <2>1, HeadTailProperties
  <2>3. Head(q) \in Modifiers(Layer(w)) /\ pc[Head(q)] = "parked"
    BY <1>1, <2>2 DEF WaitersFit
  <2>4. pc[w] = "notifying"
    BY DEF Notify
  <2>5. pc' = [pc EXCEPT ![w] = "done", ![Head(q)] = "yielded"]
        /\ parked' = [parked EXCEPT ![Layer(w)] = Tail(q)] /\ stored' = stored
    BY <1>3 DEF Notify
  <2> QED BY <1>3, <2>3, <2>4, <2>5
<1> QED BY <1>2, <1>3

----------------------------------------------------------------------------
\* Results follow the stage.

LEMMA ResultsStep == TypeOK /\ WaitersFit /\ ResultsFit /\ [Next]_vars => ResultsFit'
<1> SUFFICES ASSUME TypeOK, WaitersFit, ResultsFit, [Next]_vars PROVE ResultsFit'
  OBVIOUS
<1> DEFINE Fit(v) ==
      /\ pc[v] \in Waits \cup {"holding", "editing", "claiming", "staging", "working", "applying"}
           => result[v] = "none"
      /\ pc[v] = "unclaiming" => result[v] = "busy"
      /\ pc[v] = "dropping" => Kind[v] = "Transaction" /\ result[v] \in {"committed", "failed"}
      /\ pc[v] \in {"claiming", "unclaiming", "applying"} => Kind[v] = "Transaction"
      /\ pc[v] \notin {"claiming", "unclaiming", "staging", "applying", "dropping"} => at[v] = 1
<1>0. /\ ResultsFit <=> \A v \in Writes : Fit(v)
      /\ ResultsFit' <=> \A v \in Writes : Fit(v)'
  BY DEF ResultsFit
<1>1. ASSUME NEW w \in Writes, ModifyStep(w) PROVE ResultsFit'
  <2>1. at' = at /\ Kind[w] = "Modify" /\ at[w] = 1 /\ Fit(w)
    BY <1>0, <1>1, ModifyMoves, OnFacts, LayerType
  <2>2. ASSUME NEW v \in Writes, v # w, ~Notify(w) PROVE pc'[v] = pc[v] /\ result'[v] = result[v]
    BY <1>1, <2>2 DEF ModifyStep, FirstTry, Retry, TryPermit, Await, Clone, EditFails, ReplaceData,
                      FreePermit, Goes, Ends, writeVars, TypeOK
  <2>3. Fit(w)'
    <3>1. CASE Notify(w)
      BY <2>1, <3>1, NotifyMoves DEF Notify, writeVars, TypeOK, Waits, Modifiers
    <3>2. CASE FirstTry(w) \/ Retry(w) \/ Await(w)
      BY <2>1, <3>2 DEF FirstTry, Retry, TryPermit, Await, Goes, writeVars, TypeOK, Waits
    <3>3. CASE Clone(w) \/ EditFails(w) \/ ReplaceData(w) \/ FreePermit(w)
      BY <2>1, <3>3 DEF Clone, EditFails, ReplaceData, FreePermit, Goes, Ends, writeVars, TypeOK, Waits
    <3> QED BY <1>1, <3>1, <3>2, <3>3 DEF ModifyStep
  <2>4. ASSUME NEW v \in Writes, v # w, Notify(w) PROVE Fit(v)'
    <3>1. result' = result /\ at' = at /\ Fit(v) /\ DOMAIN pc = Writes
      BY <1>0, <2>1, <2>4 DEF Notify, writeVars, TypeOK
    <3>2. CASE pc'[v] = pc[v]
      BY <3>1, <3>2
    <3>3. CASE pc[v] = "parked" /\ pc'[v] = "yielded"
      BY <3>1, <3>3 DEF Waits
    <3>4. pc'[v] = pc[v] \/ (pc[v] = "parked" /\ pc'[v] = "yielded")
      BY <2>4, <3>1, NotifyMoves DEF Modifiers
    <3> QED BY <3>2, <3>3, <3>4
  <2>5. ASSUME NEW v \in Writes PROVE Fit(v)'
    BY <1>0, <2>1, <2>2, <2>3, <2>4
  <2> QED BY <1>0, <2>5
<1>2. ASSUME NEW w \in Writes, StagingStep(w) PROVE ResultsFit'
  <2>1. Fit(w) /\ Kind[w] # "Modify" /\ at[w] \in 1 .. Len(On[w]) /\ Len(On[w]) \in Nat
        /\ (Kind[w] # "Transaction" => Len(On[w]) = 1) /\ pc[w] \in Steps(w)
    BY <1>0, <1>2, StagingMoves, OnFacts, LayerType
  <2>2. Fit(w)'
    <3>1. CASE BeginStaging(w)
      BY <2>1, <3>1, OnFacts DEF BeginStaging, Goes, writeVars, TypeOK, Waits
    <3>2. CASE Claim(w)
      BY <2>1, <3>2, NextLayerFacts DEF Claim, Goes, Ends, TypeOK, Waits
    <3>3. CASE Unclaim(w)
      BY <2>1, <3>3 DEF Unclaim, Goes, TypeOK, Waits
    <3>4. CASE Stage(w)
      BY <2>1, <3>4, NextLayerFacts DEF Stage, TypeOK, Waits
    <3>5. CASE Commit(w) \/ Rollback(w)
      BY <2>1, <3>5 DEF Commit, Rollback, Goes, Ends, writeVars, TypeOK, Waits
    <3>6. CASE ApplyLayer(w)
      <4>1. pc[w] = "applying" /\ NextLayer(w, "dropping") /\ result[w] = "none"
            /\ Kind[w] = "Transaction"
        BY <2>1, <3>6 DEF ApplyLayer
      <4>2. CASE at[w] < Len(On[w])
        <5>1. result' = result /\ pc' = pc
          BY <3>6, <4>1, <4>2, NextLayerFacts DEF ApplyLayer, NextLayer
        <5> QED BY <2>1, <4>1, <5>1 DEF Waits
      <4>3. CASE ~(at[w] < Len(On[w]))
        <5>1. result' = [result EXCEPT ![w] = "committed"] /\ pc' = [pc EXCEPT ![w] = "dropping"]
          BY <3>6, <4>1, <4>3 DEF ApplyLayer, NextLayer, Goes
        <5> QED BY <2>1, <4>1, <5>1 DEF Waits, TypeOK
      <4> QED BY <4>2, <4>3
    <3>7. CASE DropLayer(w)
      BY <2>1, <3>7, NextLayerFacts DEF DropLayer, TypeOK, Waits
    <3>8. CASE ApplyDirect(w) \/ DiscardDirect(w)
      BY <2>1, <3>8 DEF ApplyDirect, DiscardDirect, Goes, Ends, TypeOK, Waits
    <3>9. CASE Unlock(w)
      BY <2>1, <3>9 DEF Unlock, Goes, writeVars, TypeOK, Waits
    <3> QED BY <1>2, <3>1, <3>2, <3>3, <3>4, <3>5, <3>6, <3>7, <3>8, <3>9 DEF StagingStep
  <2>3. ASSUME NEW v \in Writes PROVE Fit(v)'
    BY <1>0, <1>2, <2>2, StagingMoves
  <2> QED BY <1>0, <2>3
<1>3. CASE UNCHANGED vars
  BY <1>3 DEF vars, writeVars, ResultsFit
<1> QED BY <1>1, <1>2, <1>3 DEF Next

----------------------------------------------------------------------------
\* The lock is held by the writes that have taken it.

LEMMA LockStep == TypeOK /\ WaitersFit /\ LockFits /\ [Next]_vars => LockFits'
<1> SUFFICES ASSUME TypeOK, WaitersFit, LockFits, [Next]_vars PROVE LockFits'
  OBVIOUS
<1>1. ASSUME NEW w \in Writes, ModifyStep(w) PROVE LockFits'
  <2>1. lock' = lock /\ Kind[w] = "Modify" /\ w \notin Locked
    BY <1>1, ModifyMoves, OnFacts
  <2>2. ASSUME NEW v \in Locked PROVE pc'[v] = pc[v]
    <3>1. v \in Writes /\ v # w /\ Kind[v] # "Modify"
      BY <2>1, DraftAssumption
    <3>2. CASE ~Notify(w)
      BY <1>1, <3>1, <3>2 DEF ModifyStep, FirstTry, Retry, TryPermit, Await, Clone, EditFails,
         ReplaceData, FreePermit, Goes, Ends, TypeOK
    <3>3. CASE Notify(w)
      <4>1. CASE pc' = [pc EXCEPT ![w] = "done"]
        BY <3>1, <4>1 DEF TypeOK
      <4>2. ASSUME NEW h \in Modifiers(Layer(w)), pc' = [pc EXCEPT ![w] = "done", ![h] = "yielded"]
            PROVE  pc'[v] = pc[v]
        <5>1. h # v
          BY <3>1 DEF Modifiers
        <5> QED BY <3>1, <4>2, <5>1 DEF TypeOK
      <4> QED BY <3>3, <4>1, <4>2, NotifyMoves
    <3> QED BY <3>2, <3>3
  <2> QED BY <2>1, <2>2 DEF LockFits
<1>2. ASSUME NEW w \in Writes, StagingStep(w) PROVE LockFits'
  <2>0. \A v \in Locked : v \in Writes /\ v # NoWrite
    BY DraftAssumption
  <2>1. \A v \in Locked \ {w} : pc'[v] = pc[v]
    BY <1>2, <2>0, StagingMoves
  <2>2. CASE BeginStaging(w)
    BY <2>0, <2>1, <2>2 DEF BeginStaging, Goes, LockFits, Stages, TypeOK
  <2>3. CASE Unlock(w)
    BY <2>0, <2>1, <2>3 DEF Unlock, Goes, LockFits, Stages, TypeOK
  <2>4. CASE ~BeginStaging(w) /\ ~Unlock(w)
    <3>1. lock' = lock /\ pc[w] \in Stages
      BY <1>2, <2>4 DEF StagingStep, Claim, Unclaim, Stage, Commit, Rollback, ApplyLayer,
         DropLayer, ApplyDirect, DiscardDirect, Stages
    <3>2. pc'[w] \in Stages
      <4>1. ASSUME NEW to \in Stages, NextLayer(w, to) PROVE pc'[w] \in Stages
        <5>1. pc' = pc \/ pc' = [pc EXCEPT ![w] = to]
          BY <4>1, NextLayerFacts
        <5> QED BY <3>1, <4>1, <5>1 DEF TypeOK
      <4>2. ASSUME NEW to \in Stages, pc' = [pc EXCEPT ![w] = to] PROVE pc'[w] \in Stages
        BY <4>2 DEF TypeOK
      <4>3. {"staging", "working", "dropping", "unlocking", "unclaiming", "applying"} \subseteq Stages
        BY DEF Stages
      <4>4. CASE Claim(w)
        BY <4>1, <4>2, <4>3, <4>4 DEF Claim, Ends, Goes
      <4>5. CASE Unclaim(w)
        BY <3>1, <4>2, <4>3, <4>5 DEF Unclaim, Goes
      <4>6. CASE Stage(w) \/ ApplyLayer(w) \/ DropLayer(w)
        BY <4>1, <4>3, <4>6 DEF Stage, ApplyLayer, DropLayer
      <4>7. CASE Commit(w) \/ Rollback(w) \/ ApplyDirect(w) \/ DiscardDirect(w)
        BY <4>2, <4>3, <4>7 DEF Commit, Rollback, ApplyDirect, DiscardDirect, Ends, Goes
      <4> QED BY <1>2, <2>4, <4>4, <4>5, <4>6, <4>7 DEF StagingStep
    <3> QED BY <2>1, <3>1, <3>2 DEF LockFits
  <2> QED BY <2>2, <2>3, <2>4
<1>3. CASE UNCHANGED vars
  BY <1>3 DEF vars, LockFits
<1> QED BY <1>1, <1>2, <1>3 DEF Next

----------------------------------------------------------------------------
\* The permit, and who waits for it.

LEMMA WaitersStep == TypeOK /\ WaitersFit /\ [Next]_vars => WaitersFit'
<1> SUFFICES ASSUME TypeOK, WaitersFit, [Next]_vars PROVE WaitersFit'
  OBVIOUS
<1>1. ASSUME UNCHANGED parked, \A v \in Writes : pc[v] = "parked" => pc'[v] = "parked"
      PROVE  WaitersFit'
  BY <1>1 DEF WaitersFit, Modifiers
<1>2. ASSUME NEW w \in Writes, Await(w), ~stored[Layer(w)] PROVE WaitersFit'
  <2> DEFINE m == Layer(w)
             q == parked[m]
  <2>1. m \in Layers /\ q \in Seq(Writes) /\ w \in Modifiers(m) /\ pc[w] = "awaiting"
    <3>1. Kind[w] = "Modify"
      BY <1>2, ModifyMoves DEF ModifyStep
    <3> QED BY <1>2, <3>1, LayerType DEF Await, TypeOK, Modifiers, Uses, Layer
  <2>2. parked' = [parked EXCEPT ![m] = Append(q, w)] /\ pc' = [pc EXCEPT ![w] = "parked"]
    BY <1>2 DEF Await, Goes
  <2>3. /\ Len(q) \in Nat /\ Len(Append(q, w)) = Len(q) + 1
        /\ \A i \in 1 .. Len(q) : Append(q, w)[i] = q[i]
        /\ Append(q, w)[Len(q) + 1] = w
    BY <2>1, AppendProperties, LenProperties
  <2>4. /\ \A i \in 1 .. Len(q) : q[i] \in Modifiers(m) /\ pc[q[i]] = "parked" /\ q[i] # w
        /\ \A i, j \in 1 .. Len(q) : q[i] = q[j] => i = j
    BY <2>1 DEF WaitersFit
  <2>5. \A l \in Layers : parked'[l] = IF l = m THEN Append(q, w) ELSE parked[l]
    BY <2>1, <2>2 DEF TypeOK
  <2>6. \A v \in Writes : pc'[v] = IF v = w THEN "parked" ELSE pc[v]
    BY <2>2 DEF TypeOK
  <2>7. \A l \in Layers : \A v \in Modifiers(l) : v \in Writes
    BY DEF Modifiers
  <2> HIDE DEF m, q
  <2>8. ASSUME NEW l \in Layers
        PROVE  /\ \A i \in 1 .. Len(parked'[l]) :
                    parked'[l][i] \in Modifiers(l) /\ pc'[parked'[l][i]] = "parked"
               /\ \A i, j \in 1 .. Len(parked'[l]) : parked'[l][i] = parked'[l][j] => i = j
    <3>1. CASE l # m
      BY <2>5, <2>6, <2>7, <3>1 DEF WaitersFit
    <3>2. CASE l = m
      <4>1. parked'[l] = Append(q, w) /\ Len(parked'[l]) = Len(q) + 1
        BY <2>3, <2>5, <3>2
      <4>2. \A i \in 1 .. Len(q) + 1 : i \in 1 .. Len(q) \/ i = Len(q) + 1
        BY <2>3
      <4>3. \A i \in 1 .. Len(q) + 1 : Append(q, w)[i] = IF i \in 1 .. Len(q) THEN q[i] ELSE w
        BY <2>3, <4>2
      <4>4. \A i \in 1 .. Len(q) : q[i] \in Writes
        BY <2>1, <2>4, <2>7
      <4> QED BY <2>1, <2>4, <2>6, <3>2, <4>1, <4>2, <4>3, <4>4
    <3> QED BY <3>1, <3>2
  <2> QED BY <2>8 DEF WaitersFit, Modifiers
<1>3. ASSUME NEW w \in Writes, Notify(w), parked[Layer(w)] # << >> PROVE WaitersFit'
  <2> DEFINE m == Layer(w)
             q == parked[m]
  <2>1. m \in Layers /\ q \in Seq(Writes) /\ q # << >>
    BY <1>3, LayerType DEF TypeOK
  <2>2. PICK h \in Modifiers(m) :
          /\ h = Head(q) /\ parked' = [parked EXCEPT ![m] = Tail(q)]
          /\ pc[h] = "parked" /\ h # w /\ pc' = [pc EXCEPT ![w] = "done", ![h] = "yielded"]
    BY <1>3, NotifyMoves
  <2>3. /\ Len(q) \in Nat /\ Len(Tail(q)) = Len(q) - 1 /\ h = q[1] /\ 1 \in 1 .. Len(q)
        /\ \A i \in 1 .. Len(q) - 1 : Tail(q)[i] = q[i + 1] /\ i + 1 \in 1 .. Len(q) /\ i + 1 # 1
    BY <2>1, <2>2, HeadTailProperties, LenProperties
  <2>4. /\ \A i \in 1 .. Len(q) : q[i] \in Modifiers(m) /\ pc[q[i]] = "parked"
        /\ \A i, j \in 1 .. Len(q) : q[i] = q[j] => i = j
    BY <2>1 DEF WaitersFit
  <2>5. \A l \in Layers : parked'[l] = IF l = m THEN Tail(q) ELSE parked[l]
    BY <2>1, <2>2 DEF TypeOK
  <2>6. \A l \in Layers : \A v \in Modifiers(l) : v \in Writes
    BY DEF Modifiers
  <2>7. pc[w] = "notifying" /\ \A v \in Writes : v # w /\ v # h => pc'[v] = pc[v]
    BY <1>3, <2>2 DEF TypeOK, Notify
  <2>8. \A l \in Layers : h \in Modifiers(l) => l = m
    BY <2>2, OnFacts DEF Modifiers, Uses
  <2> HIDE DEF m, q
  <2>9. ASSUME NEW l \in Layers
        PROVE  /\ \A i \in 1 .. Len(parked'[l]) :
                    parked'[l][i] \in Modifiers(l) /\ pc'[parked'[l][i]] = "parked"
               /\ \A i, j \in 1 .. Len(parked'[l]) : parked'[l][i] = parked'[l][j] => i = j
    <3>1. CASE l # m
      <4>1. \A i \in 1 .. Len(parked[l]) : parked[l][i] \in Modifiers(l) /\ pc[parked[l][i]] = "parked"
                                            /\ parked[l][i] # h /\ parked[l][i] # w
        BY <2>7, <2>8, <3>1 DEF WaitersFit
      <4> QED BY <2>5, <2>6, <2>7, <3>1, <4>1 DEF WaitersFit
    <3>2. CASE l = m
      <4>1. parked'[l] = Tail(q) /\ Len(parked'[l]) = Len(q) - 1
        BY <2>3, <2>5, <3>2
      <4>2. \A i \in 1 .. Len(q) - 1 : /\ Tail(q)[i] = q[i + 1] /\ q[i + 1] # h /\ q[i + 1] # w
                                        /\ q[i + 1] \in Modifiers(m) /\ pc[q[i + 1]] = "parked"
        BY <2>3, <2>4, <2>7
      <4>3. \A i, j \in 1 .. Len(q) - 1 : Tail(q)[i] = Tail(q)[j] => i = j
        BY <2>3, <2>4
      <4> QED BY <2>1, <2>6, <2>7, <3>2, <4>1, <4>2, <4>3
    <3> QED BY <3>1, <3>2
  <2> QED BY <2>9 DEF WaitersFit, Modifiers
<1>4. ASSUME NEW w \in Writes, ModifyStep(w) PROVE WaitersFit'
  <2>1. CASE Await(w) /\ ~stored[Layer(w)]
    BY <1>2, <2>1
  <2>2. CASE Notify(w) /\ parked[Layer(w)] # << >>
    BY <1>3, <2>2
  <2>3. CASE Notify(w) /\ parked[Layer(w)] = << >>
    BY <1>1, <2>3 DEF Notify, Goes, TypeOK
  <2>4. CASE Await(w) /\ stored[Layer(w)]
    BY <1>1, <2>4 DEF Await, Goes, TypeOK
  <2>5. CASE ~Await(w) /\ ~Notify(w)
    BY <1>1, <1>4, <2>5 DEF ModifyStep, FirstTry, Retry, TryPermit, Clone, EditFails, ReplaceData,
         FreePermit, Goes, Ends, permitVars, TypeOK
  <2> QED BY <2>1, <2>2, <2>3, <2>4, <2>5
<1>5. ASSUME NEW w \in Writes, StagingStep(w) PROVE WaitersFit'
  <2>1. pc[w] # "parked"
    BY <1>5, StagingMoves, LayerType, OnFacts DEF Steps, Stages
  <2> QED BY <1>1, <1>5, <2>1, StagingMoves DEF permitVars
<1>6. CASE UNCHANGED vars
  BY <1>1, <1>6 DEF vars, permitVars
<1> QED BY <1>4, <1>5, <1>6 DEF Next

\* The stages of the writers of one layer, as the permit sees them.
LEMMA PermitStep == TypeOK /\ WaitersFit /\ PermitHeldByOne /\ [Next]_vars => PermitHeldByOne'
<1> SUFFICES ASSUME TypeOK, WaitersFit, PermitHeldByOne, [Next]_vars PROVE PermitHeldByOne'
  OBVIOUS
<1>1. ASSUME UNCHANGED modifying,
             \A v \in Writes : Kind[v] = "Modify" => (pc'[v] \in Holds <=> pc[v] \in Holds)
      PROVE  PermitHeldByOne'
  BY <1>1 DEF PermitHeldByOne, Modifiers
<1>2. ASSUME NEW w \in Writes, ModifyStep(w)
      PROVE  Kind[w] = "Modify" /\ Layer(w) \in Layers /\ w \in Modifiers(Layer(w))
             /\ \A l \in Layers : w \in Modifiers(l) => l = Layer(w)
  <2>1. Kind[w] = "Modify" /\ at[w] \in 1 .. Len(On[w]) /\ Len(On[w]) = 1 /\ Layer(w) \in Layers
    BY <1>2, ModifyMoves, LayerType, OnFacts
  <2> QED BY <2>1 DEF Modifiers, Uses, Layer
<1>3. ASSUME NEW w \in Writes, NEW to \in {"yielded", "awaiting"}, TryPermit(w, to),
             pc[w] \in {"idle", "yielded"}, ModifyStep(w)
      PROVE  PermitHeldByOne'
  <2>1. CASE modifying[Layer(w)]
    BY <1>1, <1>3, <2>1 DEF TryPermit, Goes, Holds, TypeOK
  <2>2. CASE ~modifying[Layer(w)]
    <3>1. pc' = [pc EXCEPT ![w] = "holding"] /\ modifying' = [modifying EXCEPT ![Layer(w)] = TRUE]
      BY <1>3, <2>2 DEF TryPermit, Goes
    <3>2. \A v \in Modifiers(Layer(w)) : pc[v] \notin Holds
      BY <1>2, <1>3, <2>2 DEF PermitHeldByOne
    <3>3. \A v \in Writes : pc'[v] \in Holds <=> v = w \/ pc[v] \in Holds
      BY <3>1 DEF TypeOK, Holds
    <3>4. ASSUME NEW l \in Layers
          PROVE  /\ modifying'[l] <=> \E v \in Modifiers(l) : pc'[v] \in Holds
                 /\ \A u, v \in Modifiers(l) : pc'[u] \in Holds /\ pc'[v] \in Holds => u = v
      <4>1. CASE l = Layer(w)
        BY <1>2, <1>3, <3>1, <3>2, <3>3, <4>1 DEF TypeOK, Modifiers
      <4>2. CASE l # Layer(w)
        <5>1. modifying'[l] = modifying[l] /\ \A v \in Modifiers(l) : pc'[v] \in Holds <=> pc[v] \in Holds
          BY <1>2, <1>3, <3>1, <3>3, <4>2 DEF TypeOK, Modifiers
        <5> QED BY <5>1 DEF PermitHeldByOne
      <4> QED BY <4>1, <4>2
    <3> QED BY <3>4 DEF PermitHeldByOne, Modifiers
  <2> QED BY <2>1, <2>2
<1>4. ASSUME NEW w \in Writes, FreePermit(w) PROVE PermitHeldByOne'
  <2>0. ModifyStep(w)
    BY <1>4 DEF ModifyStep
  <2>1. pc' = [pc EXCEPT ![w] = "notifying"] /\ modifying' = [modifying EXCEPT ![Layer(w)] = FALSE]
        /\ pc[w] \in Holds
    BY <1>4 DEF FreePermit, Goes, Holds
  <2>2. \A v \in Writes : pc'[v] \in Holds <=> v # w /\ pc[v] \in Holds
    BY <2>1 DEF TypeOK, Holds
  <2>3. ASSUME NEW l \in Layers
        PROVE  /\ modifying'[l] <=> \E v \in Modifiers(l) : pc'[v] \in Holds
               /\ \A u, v \in Modifiers(l) : pc'[u] \in Holds /\ pc'[v] \in Holds => u = v
    <3>1. CASE l = Layer(w)
      <4>1. \A v \in Modifiers(l) : pc[v] \in Holds => v = w
        BY <1>2, <2>0, <2>1, <3>1 DEF PermitHeldByOne
      <4> QED BY <2>1, <2>2, <3>1, <4>1 DEF TypeOK, Modifiers
    <3>2. CASE l # Layer(w)
      <4>1. modifying'[l] = modifying[l] /\ \A v \in Modifiers(l) : pc'[v] \in Holds <=> pc[v] \in Holds
        BY <1>2, <2>0, <2>1, <2>2, <3>2 DEF TypeOK, Modifiers
      <4> QED BY <4>1 DEF PermitHeldByOne
    <3> QED BY <3>1, <3>2
  <2> QED BY <2>3 DEF PermitHeldByOne, Modifiers
<1>5. ASSUME NEW w \in Writes, ModifyStep(w) PROVE PermitHeldByOne'
  <2>1. CASE FirstTry(w) \/ Retry(w)
    BY <1>3, <1>5, <2>1 DEF FirstTry, Retry
  <2>2. CASE Await(w) \/ Clone(w) \/ EditFails(w) \/ ReplaceData(w)
    <3>1. UNCHANGED modifying
      BY <2>2 DEF Await, Clone, EditFails, ReplaceData, permitVars
    <3>2. \A v \in Writes : pc'[v] \in Holds <=> pc[v] \in Holds
      BY <2>2 DEF Await, Clone, EditFails, ReplaceData, Goes, Ends, Holds, TypeOK
    <3> QED BY <1>1, <3>1, <3>2
  <2>3. CASE Notify(w)
    <3>1. UNCHANGED modifying /\ pc[w] = "notifying"
      BY <2>3 DEF Notify
    <3>2. \A v \in Writes : pc'[v] \in Holds <=> pc[v] \in Holds
      <4>1. CASE pc' = [pc EXCEPT ![w] = "done"]
        BY <3>1, <4>1 DEF TypeOK, Holds
      <4>2. ASSUME NEW h \in Modifiers(Layer(w)), pc[h] = "parked",
                   pc' = [pc EXCEPT ![w] = "done", ![h] = "yielded"]
            PROVE  \A v \in Writes : pc'[v] \in Holds <=> pc[v] \in Holds
        BY <3>1, <4>2 DEF TypeOK, Holds, Modifiers
      <4> QED BY <2>3, <4>1, <4>2, NotifyMoves
    <3> QED BY <1>1, <3>1, <3>2
  <2> QED BY <1>4, <1>5, <2>1, <2>2, <2>3 DEF ModifyStep
<1>6. ASSUME NEW w \in Writes, StagingStep(w) PROVE PermitHeldByOne'
  <2>1. \A v \in Writes : Kind[v] = "Modify" => v # w
    BY <1>6, StagingMoves
  <2> QED BY <1>1, <1>6, <2>1, StagingMoves DEF permitVars
<1>7. CASE UNCHANGED vars
  BY <1>1, <1>7 DEF vars, permitVars
<1> QED BY <1>5, <1>6, <1>7 DEF Next

\* A step leaves either the notification chain intact or starts it anew.
LEMMA WakeupStep ==
  TypeOK /\ WaitersFit /\ PermitHeldByOne /\ NoLostWakeup /\ [Next]_vars => NoLostWakeup'
<1> SUFFICES ASSUME TypeOK, WaitersFit, PermitHeldByOne, NoLostWakeup, [Next]_vars
             PROVE  NoLostWakeup'
  OBVIOUS
<1> DEFINE Wait(l) == \E v \in Modifiers(l) : pc[v] \in {"awaiting", "parked"}
           Soon(l) == modifying[l] \/ stored[l] \/ \E v \in Modifiers(l) : pc[v] \in {"yielded", "notifying"}
<1>0. /\ NoLostWakeup <=> \A l \in Layers : Wait(l) => Soon(l)
      /\ NoLostWakeup' <=> \A l \in Layers : (Wait(l) => Soon(l))'
  BY DEF NoLostWakeup
<1>1. ASSUME NEW w \in Writes, ModifyStep(w)
      PROVE  /\ Layer(w) \in Layers /\ w \in Modifiers(Layer(w))
             /\ \A l \in Layers : w \in Modifiers(l) => l = Layer(w)
  <2>1. Kind[w] = "Modify" /\ at[w] \in 1 .. Len(On[w]) /\ Len(On[w]) = 1 /\ Layer(w) \in Layers
    BY <1>1, ModifyMoves, LayerType, OnFacts
  <2> QED BY <2>1 DEF Modifiers, Uses, Layer
<1>2. ASSUME NEW w \in Writes, ModifyStep(w), NEW l \in Layers \ {Layer(w)}
      PROVE  (Wait(l) => Soon(l))'
  <2>1. modifying'[l] = modifying[l] /\ stored'[l] = stored[l]
    BY <1>1, <1>2 DEF ModifyStep, FirstTry, Retry, TryPermit, Await, Clone, EditFails, ReplaceData,
         FreePermit, Notify, permitVars, TypeOK
  <2>2. \A v \in Modifiers(l) : pc'[v] = pc[v]
    <3>1. \A v \in Modifiers(l) : v \in Writes /\ v # w
      BY <1>1, <1>2 DEF Modifiers
    <3>2. CASE ~Notify(w)
      BY <1>2, <3>1, <3>2 DEF ModifyStep, FirstTry, Retry, TryPermit, Await, Clone, EditFails,
         ReplaceData, FreePermit, Goes, Ends, TypeOK
    <3>3. CASE Notify(w)
      <4>1. CASE pc' = [pc EXCEPT ![w] = "done"]
        BY <3>1, <4>1 DEF TypeOK
      <4>2. ASSUME NEW h \in Modifiers(Layer(w)), pc' = [pc EXCEPT ![w] = "done", ![h] = "yielded"]
            PROVE  \A v \in Modifiers(l) : pc'[v] = pc[v]
        <5>1. h \notin Modifiers(l)
          BY <1>1, <1>2, OnFacts DEF Modifiers, Uses
        <5> QED BY <3>1, <4>2, <5>1 DEF TypeOK
      <4> QED BY <3>3, <4>1, <4>2, NotifyMoves
    <3> QED BY <3>2, <3>3
  <2>3. Wait(l)' <=> Wait(l)
    BY <2>2 DEF Modifiers
  <2>4. Soon(l)' <=> Soon(l)
    BY <2>1, <2>2 DEF Modifiers
  <2> QED BY <1>0, <1>2, <2>3, <2>4
<1>3. ASSUME NEW w \in Writes, ModifyStep(w) PROVE (Wait(Layer(w)) => Soon(Layer(w)))'
  <2> DEFINE m == Layer(w)
  <2>1. m \in Layers /\ w \in Modifiers(m) /\ m' = m /\ w \in Writes
    BY <1>1, <1>3, ModifyMoves DEF Layer
  <2>2. Wait(m) => Soon(m)
    BY <1>0, <2>1
  <2>3. \A v \in Modifiers(m) : v \in Writes
    BY DEF Modifiers
  <2> HIDE DEF m
  <2>4. CASE FirstTry(w) \/ Retry(w)
    <3>1. CASE modifying[m]
      <4>1. modifying'[m]
        BY <2>1, <2>4, <3>1 DEF FirstTry, Retry, TryPermit, m
      <4> QED BY <2>1, <4>1 DEF m
    <3>2. CASE ~modifying[m]
      <4>1. modifying'[m]
        BY <2>1, <2>4, <3>2 DEF FirstTry, Retry, TryPermit, TypeOK, m
      <4> QED BY <2>1, <4>1 DEF m
    <3> QED BY <3>1, <3>2
  <2>5. CASE Await(w)
    <3>1. CASE stored[m]
      <4>1. pc'[w] = "yielded"
        BY <2>1, <2>5, <3>1 DEF Await, Goes, TypeOK, m
      <4> QED BY <2>1, <4>1 DEF m, Modifiers
    <3>2. CASE ~stored[m]
      <4>1. pc[w] = "awaiting" /\ pc' = [pc EXCEPT ![w] = "parked"] /\ modifying' = modifying
            /\ stored' = stored
        BY <2>5, <3>2 DEF Await, Goes, m
      <4>2. Soon(m)
        BY <2>1, <2>2, <4>1
      <4>3. \A v \in Modifiers(m) : pc[v] \in {"yielded", "notifying"} => pc'[v] = pc[v]
        BY <2>3, <4>1 DEF TypeOK
      <4> QED BY <2>1, <4>1, <4>2, <4>3 DEF m, Modifiers
    <3> QED BY <3>1, <3>2
  <2>6. CASE Clone(w) \/ EditFails(w) \/ ReplaceData(w)
    <3>1. modifying'[m]
      <4>1. pc[w] \in Holds /\ modifying' = modifying
        BY <2>6 DEF Clone, EditFails, ReplaceData, permitVars, Holds
      <4> QED BY <2>1, <4>1 DEF PermitHeldByOne
    <3> QED BY <2>1, <3>1 DEF m
  <2>7. CASE FreePermit(w)
    <3>1. pc'[w] = "notifying"
      BY <2>1, <2>7 DEF FreePermit, Goes, TypeOK
    <3> QED BY <2>1, <3>1 DEF m, Modifiers
  <2>8. CASE Notify(w)
    <3>1. CASE parked[m] = << >>
      <4>1. stored'[m]
        BY <2>1, <2>8, <3>1 DEF Notify, TypeOK, m
      <4> QED BY <2>1, <4>1 DEF m
    <3>2. CASE parked[m] # << >>
      <4>1. PICK h \in Modifiers(m) : pc' = [pc EXCEPT ![w] = "done", ![h] = "yielded"]
        BY <2>8, <3>2, NotifyMoves DEF m
      <4>2. pc'[h] = "yielded"
        BY <2>3, <4>1 DEF TypeOK
      <4> QED BY <2>1, <4>2 DEF m, Modifiers
    <3> QED BY <3>1, <3>2
  <2> QED BY <1>3, <2>4, <2>5, <2>6, <2>7, <2>8 DEF ModifyStep, m
<1>4. ASSUME NEW w \in Writes, ModifyStep(w) PROVE NoLostWakeup'
  <2>1. Layer(w)' = Layer(w)
    BY <1>4, ModifyMoves DEF Layer
  <2> QED BY <1>0, <1>2, <1>3, <1>4, <2>1
<1>5. ASSUME UNCHANGED permitVars, \A v \in Writes : Kind[v] = "Modify" => pc'[v] = pc[v]
      PROVE  NoLostWakeup'
  BY <1>5 DEF NoLostWakeup, Modifiers, permitVars
<1>6. ASSUME NEW w \in Writes, StagingStep(w) PROVE NoLostWakeup'
  <2>1. \A v \in Writes : Kind[v] = "Modify" => v # w
    BY <1>6, StagingMoves
  <2> QED BY <1>5, <1>6, <2>1, StagingMoves
<1>7. CASE UNCHANGED vars
  BY <1>5, <1>7 DEF vars
<1> QED BY <1>4, <1>6, <1>7 DEF Next

----------------------------------------------------------------------------
\* Claims: a step of a transaction takes a free layer, gives up one of its own,
\* or leaves things as they are.

LEMMA ClaimTaken ==
  ASSUME ClaimHeldByOne, claimed \in [Layers -> BOOLEAN], NEW w \in Writes, NEW m \in Layers,
         ~claimed[m], claimed' = [claimed EXCEPT ![m] = TRUE],
         \A v \in Writes \ {w}, l \in Layers : Owns(v, l)' <=> Owns(v, l),
         \A l \in Layers : Owns(w, l)' <=> (Owns(w, l) \/ l = m)
  PROVE  ClaimHeldByOne'
<1>1. \A v \in Writes : ~Owns(v, m)
  BY DEF ClaimHeldByOne
<1>2. ASSUME NEW l \in Layers
      PROVE  /\ claimed'[l] <=> \E v \in Writes : Owns(v, l)'
             /\ \A u, v \in Writes : Owns(u, l)' /\ Owns(v, l)' => u = v
  <2>1. CASE l = m
    BY <1>1, <2>1
  <2>2. CASE l # m
    <3>1. claimed'[l] = claimed[l] /\ \A v \in Writes : Owns(v, l)' <=> Owns(v, l)
      BY <2>2
    <3> QED BY <3>1 DEF ClaimHeldByOne
  <2> QED BY <2>1, <2>2
<1> QED BY <1>2 DEF ClaimHeldByOne

LEMMA ClaimGivenUp ==
  ASSUME ClaimHeldByOne, claimed \in [Layers -> BOOLEAN], NEW w \in Writes, NEW m \in Layers,
         Owns(w, m), claimed' = [claimed EXCEPT ![m] = FALSE],
         \A v \in Writes \ {w}, l \in Layers : Owns(v, l)' <=> Owns(v, l),
         \A l \in Layers : Owns(w, l)' <=> (Owns(w, l) /\ l # m)
  PROVE  ClaimHeldByOne'
<1>1. \A v \in Writes : Owns(v, m) => v = w
  BY DEF ClaimHeldByOne
<1>2. ASSUME NEW l \in Layers
      PROVE  /\ claimed'[l] <=> \E v \in Writes : Owns(v, l)'
             /\ \A u, v \in Writes : Owns(u, l)' /\ Owns(v, l)' => u = v
  <2>1. CASE l = m
    BY <1>1, <2>1
  <2>2. CASE l # m
    <3>1. claimed'[l] = claimed[l] /\ \A v \in Writes : Owns(v, l)' <=> Owns(v, l)
      BY <2>2
    <3> QED BY <3>1 DEF ClaimHeldByOne
  <2> QED BY <2>1, <2>2
<1> QED BY <1>2 DEF ClaimHeldByOne

LEMMA ClaimsKept ==
  ASSUME ClaimHeldByOne, claimed' = claimed,
         \A v \in Writes, l \in Layers : Owns(v, l)' <=> Owns(v, l)
  PROVE  ClaimHeldByOne'
BY DEF ClaimHeldByOne

LEMMA ClaimStep == TypeOK /\ WaitersFit /\ ResultsFit /\ ClaimHeldByOne /\ [Next]_vars => ClaimHeldByOne'
<1> SUFFICES ASSUME TypeOK, WaitersFit, ResultsFit, ClaimHeldByOne, [Next]_vars PROVE ClaimHeldByOne'
  OBVIOUS
<1>0. claimed \in [Layers -> BOOLEAN]
  BY DEF TypeOK
<1>1. ASSUME NEW w \in Writes, ModifyStep(w) PROVE ClaimHeldByOne'
  <2>1. claimed' = claimed /\ at' = at /\ refused' = refused /\ Kind[w] = "Modify"
    BY <1>1, ModifyMoves
  <2>2. ASSUME NEW v \in Writes, Kind[v] = "Transaction" PROVE pc'[v] = pc[v]
    <3>1. v # w
      BY <2>1, <2>2
    <3>2. CASE ~Notify(w)
      BY <1>1, <3>1, <3>2 DEF ModifyStep, FirstTry, Retry, TryPermit, Await, Clone, EditFails,
         ReplaceData, FreePermit, Goes, Ends, TypeOK
    <3>3. CASE Notify(w)
      <4>1. CASE pc' = [pc EXCEPT ![w] = "done"]
        BY <3>1, <4>1 DEF TypeOK
      <4>2. ASSUME NEW h \in Modifiers(Layer(w)), pc' = [pc EXCEPT ![w] = "done", ![h] = "yielded"]
            PROVE  pc'[v] = pc[v]
        <5>1. h # v
          BY <2>2 DEF Modifiers
        <5> QED BY <3>1, <4>2, <5>1 DEF TypeOK
      <4> QED BY <3>3, <4>1, <4>2, NotifyMoves
    <3> QED BY <3>2, <3>3
  <2>3. \A v \in Writes, l \in Layers : Owns(v, l)' <=> Owns(v, l)
    BY <2>1, <2>2 DEF Owns, ClaimedBy
  <2> QED BY <2>1, <2>3, ClaimsKept
<1>2. ASSUME NEW w \in Writes, StagingStep(w) PROVE ClaimHeldByOne'
  <2>1. \A v \in Writes \ {w}, l \in Layers : Owns(v, l)' <=> Owns(v, l)
    BY <1>2, StagingMoves DEF Owns, ClaimedBy
  <2>2. /\ Layer(w) \in Layers /\ at[w] \in 1 .. Len(On[w]) /\ Len(On[w]) \in Nat
        /\ \A i, j \in 1 .. Len(On[w]) : On[w][i] = On[w][j] => i = j
        /\ \A i \in 1 .. Len(On[w]) : On[w][i] \in Layers
    BY LayerType, OnFacts
  <2>3. ASSUME claimed' = claimed, \A l \in Layers : Owns(w, l)' <=> Owns(w, l)
        PROVE  ClaimHeldByOne'
    BY <2>1, <2>3, ClaimsKept
  <2>4. ASSUME ClaimedBy(w)' = ClaimedBy(w), claimed' = claimed PROVE ClaimHeldByOne'
    BY <2>3, <2>4 DEF Owns
  <2>5. CASE BeginStaging(w)
    <3>1. pc[w] = "idle" /\ pc'[w] \in {"claiming", "staging"} /\ at[w] = 1 /\ at' = at
          /\ claimed' = claimed /\ (pc'[w] = "staging" => Kind[w] # "Transaction")
      BY <2>5 DEF BeginStaging, Goes, TypeOK, ResultsFit, writeVars
    <3>2. \A l \in Layers : Owns(w, l)' <=> Owns(w, l)
      BY <3>1 DEF Owns, ClaimedBy
    <3> QED BY <2>3, <3>1, <3>2
  <2>6. CASE Claim(w)
    <3>0. pc[w] = "claiming" /\ Kind[w] = "Transaction" /\ ClaimedBy(w) = 1 .. at[w] - 1
      BY <2>6 DEF Claim, ResultsFit, ClaimedBy
    <3>1. CASE claimed[Layer(w)]
      <4>1. pc'[w] = "unclaiming" /\ at'[w] = 1 /\ refused'[w] = at[w] /\ claimed' = claimed
        BY <2>6, <3>1 DEF Claim, Ends, Goes, TypeOK
      <4> QED BY <2>4, <3>0, <4>1 DEF ClaimedBy
    <3>2. CASE ~claimed[Layer(w)]
      <4>1. claimed' = [claimed EXCEPT ![Layer(w)] = TRUE] /\ NextLayer(w, "staging")
        BY <2>6, <3>2 DEF Claim
      <4>2. ClaimedBy(w)' = 1 .. at[w]
        <5>1. CASE at[w] < Len(On[w])
          <6>1. at'[w] = at[w] + 1 /\ pc'[w] = "claiming"
            BY <3>0, <4>1, <5>1 DEF NextLayer, TypeOK
          <6> QED BY <2>2, <6>1 DEF ClaimedBy
        <5>2. CASE ~(at[w] < Len(On[w]))
          <6>1. at[w] = Len(On[w]) /\ pc'[w] = "staging"
            BY <2>2, <4>1, <5>2 DEF NextLayer, Goes, TypeOK
          <6> QED BY <6>1 DEF ClaimedBy
        <5> QED BY <5>1, <5>2
      <4>3. ASSUME NEW l \in Layers PROVE Owns(w, l)' <=> (Owns(w, l) \/ l = Layer(w))
        <5>1. \A i \in 1 .. at[w] : i \in 1 .. at[w] - 1 \/ i = at[w]
          BY <2>2
        <5>2. 1 .. at[w] - 1 \subseteq 1 .. at[w] /\ at[w] \in 1 .. at[w]
          BY <2>2
        <5> QED BY <3>0, <4>2, <5>1, <5>2 DEF Owns, Layer
      <4> QED BY <1>0, <2>1, <2>2, <3>2, <4>1, <4>3, ClaimTaken
    <3> QED BY <3>1, <3>2
  <2>7. CASE Unclaim(w)
    <3>0. /\ pc[w] = "unclaiming" /\ Kind[w] = "Transaction"
          /\ ClaimedBy(w) = at[w] .. refused[w] - 1 /\ refused[w] \in 1 .. Len(On[w])
          /\ refused' = refused
      BY <2>7 DEF Unclaim, ResultsFit, ClaimedBy, TypeOK
    <3>1. CASE ~(at[w] < refused[w])
      <4>1. pc'[w] = "unlocking" /\ claimed' = claimed
        BY <2>7, <3>1 DEF Unclaim, Goes, TypeOK
      <4>2. at[w] .. refused[w] - 1 = {}
        BY <2>2, <3>0, <3>1
      <4> QED BY <2>4, <3>0, <4>1, <4>2 DEF ClaimedBy
    <3>2. CASE at[w] < refused[w]
      <4>1. claimed' = [claimed EXCEPT ![Layer(w)] = FALSE] /\ at'[w] = at[w] + 1 /\ pc' = pc
        BY <2>7, <3>2 DEF Unclaim, TypeOK
      <4>2. ClaimedBy(w)' = at[w] + 1 .. refused[w] - 1
        BY <3>0, <4>1 DEF ClaimedBy
      <4>3. /\ at[w] \in ClaimedBy(w) /\ ClaimedBy(w) \subseteq 1 .. Len(On[w])
            /\ ClaimedBy(w)' = ClaimedBy(w) \ {at[w]}
        BY <2>2, <3>0, <3>2, <4>2
      <4>4. ASSUME NEW l \in Layers PROVE Owns(w, l)' <=> (Owns(w, l) /\ l # Layer(w))
        BY <2>2, <4>3 DEF Owns, Layer
      <4>5. Owns(w, Layer(w))
        BY <3>0, <4>3 DEF Owns, Layer
      <4>6. PICK m \in Layers : m = Layer(w)
        BY <2>2
      <4>7. /\ claimed' = [claimed EXCEPT ![m] = FALSE] /\ Owns(w, m)
            /\ \A l \in Layers : Owns(w, l)' <=> (Owns(w, l) /\ l # m)
        BY <4>1, <4>4, <4>5, <4>6
      <4> QED BY <1>0, <2>1, <4>7, ClaimGivenUp
    <3> QED BY <3>1, <3>2
  <2>8. CASE Stage(w)
    <3>1. pc[w] = "staging" /\ claimed' = claimed /\ pc'[w] \in {"staging", "working"}
      <4>1. pc' = pc \/ pc' = [pc EXCEPT ![w] = "working"]
        BY <2>8, NextLayerFacts DEF Stage
      <4> QED BY <2>8, <4>1 DEF Stage, TypeOK
    <3> QED BY <2>4, <3>1 DEF ClaimedBy
  <2>9. CASE Commit(w) \/ Rollback(w)
    <3>1. pc[w] = "working" /\ claimed' = claimed /\ pc'[w] \in {"applying", "dropping"} /\ at' = at
          /\ at[w] = 1
      BY <2>9 DEF Commit, Rollback, Ends, Goes, TypeOK, ResultsFit, writeVars
    <3> QED BY <2>4, <3>1 DEF ClaimedBy
  <2>10. CASE ApplyLayer(w)
    <3>1. pc[w] = "applying" /\ claimed' = claimed /\ NextLayer(w, "dropping")
      BY <2>10 DEF ApplyLayer
    <3>2. CASE pc' = pc
      BY <2>4, <3>1, <3>2 DEF ClaimedBy
    <3>3. CASE at' = [at EXCEPT ![w] = 1] /\ pc' = [pc EXCEPT ![w] = "dropping"]
      <4>1. at'[w] = 1 /\ pc'[w] = "dropping"
        BY <3>3 DEF TypeOK
      <4> QED BY <2>4, <3>1, <4>1 DEF ClaimedBy
    <3> QED BY <3>1, <3>2, <3>3, NextLayerFacts
  <2>11. CASE DropLayer(w)
    <3>0. pc[w] = "dropping" /\ Kind[w] = "Transaction" /\ ClaimedBy(w) = at[w] .. Len(On[w])
          /\ claimed' = [claimed EXCEPT ![Layer(w)] = FALSE] /\ NextLayer(w, "unlocking")
      BY <2>11 DEF DropLayer, ResultsFit, ClaimedBy
    <3>1. ClaimedBy(w)' = at[w] + 1 .. Len(On[w])
      <4>1. CASE at[w] < Len(On[w])
        <5>1. at'[w] = at[w] + 1 /\ pc'[w] = "dropping"
          BY <3>0, <4>1 DEF NextLayer, TypeOK
        <5> QED BY <5>1 DEF ClaimedBy
      <4>2. CASE ~(at[w] < Len(On[w]))
        <5>1. at[w] = Len(On[w]) /\ pc'[w] = "unlocking"
          BY <2>2, <3>0, <4>2 DEF NextLayer, Goes, TypeOK
        <5>2. at[w] + 1 .. Len(On[w]) = {}
          BY <2>2, <5>1
        <5> QED BY <5>1, <5>2 DEF ClaimedBy
      <4> QED BY <4>1, <4>2
    <3>2. ASSUME NEW l \in Layers PROVE Owns(w, l)' <=> (Owns(w, l) /\ l # Layer(w))
      <4>1. \A i \in at[w] .. Len(On[w]) : i \in 1 .. Len(On[w]) /\ (i \in at[w] + 1 .. Len(On[w]) <=> i # at[w])
        BY <2>2
      <4>2. at[w] + 1 .. Len(On[w]) \subseteq at[w] .. Len(On[w])
        BY <2>2
      <4> QED BY <2>2, <3>0, <3>1, <4>1, <4>2 DEF Owns, Layer
    <3>3. Owns(w, Layer(w))
      <4>1. at[w] \in at[w] .. Len(On[w])
        BY <2>2
      <4> QED BY <3>0, <4>1 DEF Owns, Layer
    <3> QED BY <1>0, <2>1, <2>2, <3>0, <3>2, <3>3, ClaimGivenUp
  <2>12. CASE ApplyDirect(w) \/ DiscardDirect(w)
    <3>1. claimed' = claimed /\ Kind[w] # "Transaction"
      BY <2>12 DEF ApplyDirect, DiscardDirect
    <3> QED BY <2>3, <3>1 DEF Owns
  <2>13. CASE Unlock(w)
    <3>1. pc[w] = "unlocking" /\ pc'[w] = "done" /\ claimed' = claimed
      BY <2>13 DEF Unlock, Goes, TypeOK
    <3> QED BY <2>4, <3>1 DEF ClaimedBy
  <2> QED BY <1>2, <2>5, <2>6, <2>7, <2>8, <2>9, <2>10, <2>11, <2>12, <2>13 DEF StagingStep
<1>3. CASE UNCHANGED vars
  BY <1>3, ClaimsKept DEF vars, writeVars, Owns, ClaimedBy
<1> QED BY <1>1, <1>2, <1>3 DEF Next

----------------------------------------------------------------------------
\* Clones, on the layers that only with_data_modify writes.

LEMMA OnlyEditsStep ==
  TypeOK /\ WaitersFit /\ PermitHeldByOne /\ OnlyEditsFail /\ [Next]_vars => OnlyEditsFail'
<1> SUFFICES ASSUME TypeOK, WaitersFit, PermitHeldByOne, OnlyEditsFail, [Next]_vars,
                    NEW u \in Writes, pc'[u] = "editing",
                    \A v \in Writes : Uses(v, Layer(u)') => Kind[v] = "Modify"
             PROVE  clone'[u] = [edits |-> data'[Layer(u)'], rev |-> rev'[Layer(u)']]
  BY DEF OnlyEditsFail, Uses
<1>0. Kind[u] = "Modify" /\ Layer(u) \in Layers
  <2>1. TypeOK'
    BY TypeStep
  <2>2. pc'[u] \in Steps(u)
    BY <2>1 DEF TypeOK, Steps
  <2> QED BY <2>2, OnFacts, LayerType DEF Steps, Stages
<1>1. ASSUME UNCHANGED <<data, rev, clone, at>>, pc[u] = "editing"
      PROVE  clone'[u] = [edits |-> data'[Layer(u)'], rev |-> rev'[Layer(u)']]
  BY <1>1 DEF OnlyEditsFail, Layer
<1>2. ASSUME NEW w \in Writes, ModifyStep(w)
      PROVE  clone'[u] = [edits |-> data'[Layer(u)'], rev |-> rev'[Layer(u)']]
  <2>1. at' = at /\ Kind[w] = "Modify" /\ Layer(u)' = Layer(u) /\ Layer(w) \in Layers
    BY <1>2, ModifyMoves, LayerType DEF Layer
  <2>2. CASE Clone(w)
    <3>1. CASE u = w
      BY <2>1, <2>2, <3>1 DEF Clone, layerVars, TypeOK
    <3>2. CASE u # w
      <4>1. pc[u] = "editing" /\ clone'[u] = clone[u] /\ UNCHANGED <<data, rev>>
        BY <2>2, <3>2 DEF Clone, Goes, layerVars, TypeOK
      <4> QED BY <2>1, <4>1 DEF OnlyEditsFail
    <3> QED BY <3>1, <3>2
  <2>3. CASE ReplaceData(w)
    <3>1. u # w /\ pc[u] = "editing" /\ clone' = clone /\ pc[w] = "editing"
      BY <2>3 DEF ReplaceData, Ends, Goes, TypeOK
    <3>2. Layer(u) # Layer(w)
      <4>1. u \in Modifiers(Layer(u)) /\ w \in Modifiers(Layer(w))
        BY <1>0, <2>1, LayerType DEF Modifiers, Uses, Layer
      <4> QED BY <1>0, <3>1, <4>1 DEF PermitHeldByOne, Holds
    <3>3. data'[Layer(u)] = data[Layer(u)] /\ rev'[Layer(u)] = rev[Layer(u)]
      BY <1>0, <2>1, <2>3, <3>2 DEF ReplaceData, Replace, TypeOK
    <3> QED BY <2>1, <3>1, <3>3 DEF OnlyEditsFail
  <2>4. CASE ~Clone(w) /\ ~ReplaceData(w)
    <3>1. UNCHANGED <<data, rev, clone>>
      BY <1>2, <2>4 DEF ModifyStep, FirstTry, Retry, TryPermit, Await, EditFails, FreePermit, Notify,
                        layerVars, writeVars
    <3>2. pc[u] = "editing"
      <4>1. CASE Notify(w)
        BY <4>1, NotifyMoves DEF TypeOK, Modifiers
      <4>2. CASE ~Notify(w)
        BY <1>2, <2>4, <4>2 DEF ModifyStep, FirstTry, Retry, TryPermit, Await, EditFails, FreePermit,
                                Goes, Ends, TypeOK
      <4> QED BY <4>1, <4>2
    <3> QED BY <1>1, <2>1, <3>1, <3>2
  <2> QED BY <2>2, <2>3, <2>4
<1>3. ASSUME NEW w \in Writes, StagingStep(w)
      PROVE  clone'[u] = [edits |-> data'[Layer(u)'], rev |-> rev'[Layer(u)']]
  <2>1. Kind[w] # "Modify" /\ clone' = clone /\ pc[u] = "editing" /\ at'[u] = at[u]
    BY <1>0, <1>3, StagingMoves
  <2>2. Layer(u)' = Layer(u) /\ Layer(w) # Layer(u) /\ Layer(w) \in Layers
    <3>1. Layer(u)' = Layer(u)
      BY <2>1 DEF Layer
    <3>2. Uses(w, Layer(w)) /\ Layer(w) \in Layers
      BY LayerType DEF Uses, Layer
    <3> QED BY <2>1, <3>1, <3>2
  <2>3. data'[Layer(u)] = data[Layer(u)] /\ rev'[Layer(u)] = rev[Layer(u)]
    <3>1. ASSUME Apply(Layer(w)) \/ Discard(Layer(w))
          PROVE  data'[Layer(u)] = data[Layer(u)] /\ rev'[Layer(u)] = rev[Layer(u)]
      BY <1>0, <2>2, <3>1 DEF Apply, Discard, Replace, TypeOK
    <3>2. UNCHANGED <<data, rev>> \/ Apply(Layer(w)) \/ Discard(Layer(w))
      BY <1>3 DEF StagingStep, BeginStaging, Claim, Unclaim, Stage, EditDraft, Commit, Rollback,
                  ApplyLayer, DropLayer, ApplyDirect, DiscardDirect, Unlock, layerVars
    <3> QED BY <3>1, <3>2
  <2> QED BY <2>1, <2>2, <2>3 DEF OnlyEditsFail
<1>4. CASE UNCHANGED vars
  BY <1>1, <1>4 DEF vars, layerVars, writeVars
<1> QED BY <1>2, <1>3, <1>4 DEF Next

----------------------------------------------------------------------------
\* Drafts and data, on the disciplined layers.

\* A write that may touch the draft of a layer.
Engaged(w, l) == /\ Uses(w, l) /\ Kind[w] # "Modify" /\ pc[w] \in Stages
                 /\ Kind[w] = "Transaction" => Owns(w, l)

LEMMA Alone ==
  ASSUME LockFits, ClaimHeldByOne, NEW l \in Layers, Disciplined(l),
         NEW v \in Writes, NEW w \in Writes, Engaged(v, l), Engaged(w, l)
  PROVE  v = w
<1>1. CASE \A u \in Writes : Uses(u, l) => Kind[u] = "Modify"
  BY <1>1 DEF Engaged
<1>2. CASE \A u \in Writes : Uses(u, l) => Kind[u] = "Transaction"
  BY <1>2 DEF Engaged, ClaimHeldByOne
<1>3. CASE \A u \in Writes : Uses(u, l) => Kind[u] # "Modify" /\ u \in Locked
  <2>1. v \in Locked /\ w \in Locked /\ pc[v] \in Stages /\ pc[w] \in Stages
    BY <1>3 DEF Engaged
  <2> QED BY <2>1 DEF LockFits
<1> QED BY <1>1, <1>2, <1>3 DEF Disciplined

LEMMA StakesEngage ==
  ASSUME TypeOK, NEW l \in Layers, NEW w \in Writes, Stakes(w, l)
  PROVE  Engaged(w, l)
<1>1. PICK i \in Drafts(w) : On[w][i] = l
  BY DEF Stakes
<1>2. pc[w] \in {"staging", "working", "applying", "dropping"}
  BY <1>1 DEF Drafts
<1>3. Drafts(w) \subseteq ClaimedBy(w) /\ Drafts(w) \subseteq 1 .. Len(On[w])
  <2>1. Len(On[w]) \in Nat /\ at[w] \in 1 .. Len(On[w])
    BY OnFacts, LayerType
  <2>2. CASE pc[w] = "staging"
    BY <2>1, <2>2 DEF Drafts, ClaimedBy
  <2>3. CASE pc[w] = "working"
    BY <2>1, <2>3 DEF Drafts, ClaimedBy
  <2>4. CASE pc[w] = "applying"
    BY <2>1, <2>4 DEF Drafts, ClaimedBy
  <2>5. CASE pc[w] = "dropping"
    BY <2>1, <2>5 DEF Drafts, ClaimedBy
  <2> QED BY <1>2, <2>2, <2>3, <2>4, <2>5
<1>4. Kind[w] # "Modify"
  BY <1>2, LayerType DEF Steps, Waits, Holds
<1> QED BY <1>1, <1>2, <1>3, <1>4 DEF Engaged, Uses, Owns, Stages

LEMMA LayersKept ==
  ASSUME DraftsFit, DataFit, UNCHANGED <<data, staged, draft>>,
         \A v \in Writes, l \in Layers :
           (Stakes(v, l)' <=> Stakes(v, l)) /\ (Landed(v, l)' <=> Landed(v, l))
  PROVE  DraftsFit' /\ DataFit'
BY DEF DraftsFit, DataFit, Disciplined, Uses

LEMMA LayerStaged ==
  ASSUME TypeOK, LockFits, ClaimHeldByOne, DraftsFit, DataFit,
         NEW w \in Writes, NEW m \in Layers, Engaged(w, m), ~Stakes(w, m), EditDraft(m, w),
         \A v \in Writes, l \in Layers : Landed(v, l)' <=> Landed(v, l),
         \A v \in Writes \ {w}, l \in Layers : Stakes(v, l)' <=> Stakes(v, l),
         \A l \in Layers : Stakes(w, l)' <=> (Stakes(w, l) \/ l = m)
  PROVE  DraftsFit' /\ DataFit'
<1>1. data' = data /\ \A l \in Layers \ {m} : staged'[l] = staged[l] /\ draft'[l] = draft[l]
  BY DEF EditDraft, TypeOK
<1>2. ASSUME Disciplined(m) PROVE staged'[m] /\ draft'[m] = data[m] \cup {w} /\ \A v \in Writes : ~Stakes(v, m)
  <2>1. \A v \in Writes : ~Stakes(v, m)
    BY <1>2, Alone, StakesEngage
  <2>2. ~staged[m]
    BY <1>2, <2>1 DEF DraftsFit
  <2> QED BY <2>1, <2>2 DEF EditDraft, TypeOK
<1>3. ASSUME NEW l \in Layers, Disciplined(l)
      PROVE  /\ staged'[l] <=> \E v \in Writes : Stakes(v, l)'
             /\ \A v \in Writes : Stakes(v, l)' => draft'[l] = data'[l] \cup {v}
  <2>1. CASE l = m
    BY <1>1, <1>2, <1>3, <2>1
  <2>2. CASE l # m
    BY <1>1, <1>3, <2>2 DEF DraftsFit
  <2> QED BY <2>1, <2>2
<1> QED BY <1>1, <1>3 DEF DraftsFit, DataFit, Disciplined, Uses

LEMMA LayerApplied ==
  ASSUME TypeOK, LockFits, ClaimHeldByOne, DraftsFit, DataFit,
         NEW w \in Writes, NEW m \in Layers, Stakes(w, m), Apply(m),
         \A v \in Writes \ {w}, l \in Layers :
           (Stakes(v, l)' <=> Stakes(v, l)) /\ (Landed(v, l)' <=> Landed(v, l)),
         \A l \in Layers : Stakes(w, l)' <=> (Stakes(w, l) /\ l # m),
         \A l \in Layers : Landed(w, l)' <=> (Landed(w, l) \/ l = m)
  PROVE  DraftsFit' /\ DataFit'
<1>1. \A l \in Layers \ {m} : data'[l] = data[l] /\ staged'[l] = staged[l] /\ draft'[l] = draft[l]
  BY DEF Apply, ClearDraft, Replace, TypeOK
<1>2. ~staged'[m]
  BY DEF Apply, ClearDraft, TypeOK
<1>3. ASSUME Disciplined(m) PROVE data'[m] = data[m] \cup {w} /\ \A v \in Writes : Stakes(v, m) => v = w
  <2>1. staged[m] /\ draft[m] = data[m] \cup {w}
    BY <1>3 DEF DraftsFit
  <2>2. data'[m] = draft[m]
    BY <2>1 DEF Apply, Replace, TypeOK
  <2> QED BY <1>3, <2>1, <2>2, Alone, StakesEngage
<1>4. ASSUME NEW l \in Layers, Disciplined(l)
      PROVE  /\ staged'[l] <=> \E v \in Writes : Stakes(v, l)'
             /\ \A v \in Writes : Stakes(v, l)' => draft'[l] = data'[l] \cup {v}
             /\ \A v \in Writes : v \in data'[l] <=> Landed(v, l)'
  <2>1. CASE l = m
    <3>1. \A v \in Writes : ~Stakes(v, m)'
      BY <1>3, <1>4, <2>1
    <3>2. \A v \in Writes : v \in data'[m] <=> Landed(v, m)'
      BY <1>3, <1>4, <2>1 DEF DataFit
    <3> QED BY <1>2, <2>1, <3>1, <3>2
  <2>2. CASE l # m
    BY <1>1, <1>4, <2>2 DEF DraftsFit, DataFit
  <2> QED BY <2>1, <2>2
<1> QED BY <1>4 DEF DraftsFit, DataFit, Disciplined, Uses

LEMMA LayerDiscarded ==
  ASSUME TypeOK, LockFits, ClaimHeldByOne, DraftsFit, DataFit,
         NEW w \in Writes, NEW m \in Layers, Stakes(w, m), Discard(m),
         \A v \in Writes, l \in Layers : Landed(v, l)' <=> Landed(v, l),
         \A v \in Writes \ {w}, l \in Layers : Stakes(v, l)' <=> Stakes(v, l),
         \A l \in Layers : Stakes(w, l)' <=> (Stakes(w, l) /\ l # m)
  PROVE  DraftsFit' /\ DataFit'
<1>1. data' = data /\ \A l \in Layers \ {m} : staged'[l] = staged[l] /\ draft'[l] = draft[l]
  BY DEF Discard, ClearDraft, TypeOK
<1>2. ~staged'[m]
  BY DEF Discard, ClearDraft, TypeOK
<1>3. ASSUME Disciplined(m) PROVE \A v \in Writes : ~Stakes(v, m)'
  BY <1>3, Alone, StakesEngage
<1>4. ASSUME NEW l \in Layers, Disciplined(l)
      PROVE  /\ staged'[l] <=> \E v \in Writes : Stakes(v, l)'
             /\ \A v \in Writes : Stakes(v, l)' => draft'[l] = data'[l] \cup {v}
  <2>1. CASE l = m
    BY <1>2, <1>3, <1>4, <2>1
  <2>2. CASE l # m
    BY <1>1, <1>4, <2>2 DEF DraftsFit
  <2> QED BY <2>1, <2>2
<1> QED BY <1>1, <1>4 DEF DraftsFit, DataFit, Disciplined, Uses

LEMMA Unmoved ==
  ASSUME NEW v \in Writes, pc'[v] = pc[v], at'[v] = at[v], result'[v] = result[v], NEW l \in Layers
  PROVE  (Stakes(v, l)' <=> Stakes(v, l)) /\ (Landed(v, l)' <=> Landed(v, l))
<1>1. Drafts(v)' = Drafts(v)
  BY DEF Drafts
<1> QED BY <1>1 DEF Stakes, Landed

LEMMA ModifyStakesNothing ==
  ASSUME TypeOK, NEW v \in Writes, Kind[v] = "Modify", NEW l \in Layers
  PROVE  ~Stakes(v, l) /\ (Landed(v, l) <=> Uses(v, l) /\ result[v] = "committed")
<1>1. pc[v] \notin Stages
  BY LayerType DEF Steps, Waits, Holds, Stages
<1>2. Drafts(v) = {}
  BY <1>1 DEF Drafts, Stages
<1> QED BY <1>1, <1>2 DEF Stakes, Landed, Uses, Stages

LEMMA ModifyDataStep ==
  ASSUME TypeOK, WaitersFit, ResultsFit, OnlyEditsFail, DraftsFit, DataFit,
         NEW w \in Writes, ModifyStep(w)
  PROVE  DraftsFit' /\ DataFit'
<1>1. /\ TypeOK' /\ Kind[w] = "Modify" /\ at' = at /\ Layer(w) \in Layers
      /\ pc[w] \in Steps(w) /\ Uses(w, Layer(w))
  BY TypeStep, ModifyMoves, LayerType DEF Next, Uses, Layer
<1>2. ASSUME NEW v \in Writes, Kind[v] # "Modify"
      PROVE  pc'[v] = pc[v] /\ result'[v] = result[v]
  <2>1. CASE Notify(w)
    <3>1. result' = result /\ v # w /\ DOMAIN pc = Writes
      BY <1>1, <1>2, <2>1 DEF Notify, writeVars, TypeOK
    <3>2. CASE pc' = [pc EXCEPT ![w] = "done"]
      BY <3>1, <3>2
    <3>3. CASE pc' # [pc EXCEPT ![w] = "done"]
      <4>1. PICK h \in Modifiers(Layer(w)) : pc' = [pc EXCEPT ![w] = "done", ![h] = "yielded"]
        BY <2>1, <3>3, NotifyMoves
      <4>2. h # v
        BY <1>2 DEF Modifiers
      <4> QED BY <3>1, <4>1, <4>2
    <3> QED BY <3>2, <3>3
  <2>2. CASE ~Notify(w)
    BY <1>1, <1>2, <2>2 DEF ModifyStep, FirstTry, Retry, TryPermit, Await, Clone, EditFails,
       ReplaceData, FreePermit, Goes, Ends, writeVars, TypeOK
  <2> QED BY <2>1, <2>2
<1>3. ASSUME NEW v \in Writes, NEW l \in Layers
      PROVE  /\ Stakes(v, l)' <=> Stakes(v, l)
             /\ v # w => (Landed(v, l)' <=> Landed(v, l))
  <2>1. CASE Kind[v] # "Modify"
    BY <1>1, <1>2, <2>1, Unmoved
  <2>2. CASE Kind[v] = "Modify"
    <3>1. ~Stakes(v, l)' /\ (Landed(v, l)' <=> Uses(v, l) /\ result'[v] = "committed")
      <4>1. pc'[v] \notin Stages
        BY <1>1, <2>2 DEF TypeOK, Steps, Waits, Holds, Stages
      <4>2. Drafts(v)' = {}
        BY <4>1 DEF Drafts, Stages
      <4> QED BY <4>1, <4>2 DEF Stakes, Landed, Uses, Stages
    <3>2. v # w => result'[v] = result[v]
      BY DEF ModifyStep, FirstTry, Retry, TryPermit, Await, Clone, EditFails, ReplaceData, FreePermit,
             Notify, Ends, writeVars, TypeOK
    <3> QED BY <2>2, <3>1, <3>2, ModifyStakesNothing
  <2> QED BY <2>1, <2>2
<1>4. CASE ReplaceData(w) /\ rev[Layer(w)] = clone[w].rev
  <2>1. /\ pc[w] = "editing" /\ result'[w] = "committed" /\ result[w] = "none"
        /\ staged' = staged /\ draft' = draft
        /\ data' = [data EXCEPT ![Layer(w)] = clone[w].edits \cup {w}]
    BY <1>4 DEF ReplaceData, Replace, Ends, ResultsFit, TypeOK
  <2>2. \A l \in Layers : l # Layer(w) => data'[l] = data[l] /\ ~Uses(w, l)
    <3>1. Len(On[w]) = 1 /\ at[w] = 1
      BY <1>1, OnFacts, LayerType
    <3> QED BY <1>1, <2>1, <3>1 DEF TypeOK, Uses, Layer
  <2>3. ASSUME NEW l \in Layers PROVE Landed(w, l)' <=> l = Layer(w)
    <3>1. pc'[w] # "applying"
      BY <1>1 DEF TypeOK, Steps, Waits, Holds
    <3> QED BY <1>1, <2>1, <2>2, <3>1 DEF Landed, Uses
  <2>4. ASSUME NEW l \in Layers PROVE ~Landed(w, l)
    BY <1>1, <2>1, ModifyStakesNothing
  <2>5. ASSUME Disciplined(Layer(w))
        PROVE  /\ data'[Layer(w)] = data[Layer(w)] \cup {w}
               /\ \A v \in Writes : ~Stakes(v, Layer(w))
    <3>1. \A v \in Writes : Uses(v, Layer(w)) => Kind[v] = "Modify"
      BY <1>1, <2>5 DEF Disciplined
    <3>2. clone[w].edits = data[Layer(w)]
      <4>1. clone[w] = [edits |-> data[Layer(w)], rev |-> rev[Layer(w)]]
        BY <2>1, <3>1 DEF OnlyEditsFail
      <4> QED BY <4>1
    <3>3. \A v \in Writes : ~Stakes(v, Layer(w))
      BY <1>1, <3>1, StakesEngage DEF Engaged
    <3> QED BY <1>1, <2>1, <3>2, <3>3 DEF TypeOK
  <2>6. ASSUME NEW l \in Layers, Disciplined(l)
        PROVE  /\ staged'[l] <=> \E v \in Writes : Stakes(v, l)'
               /\ \A v \in Writes : Stakes(v, l)' => draft'[l] = data'[l] \cup {v}
               /\ \A v \in Writes : v \in data'[l] <=> Landed(v, l)'
    <3>1. CASE l = Layer(w)
      BY <1>3, <2>1, <2>3, <2>4, <2>5, <2>6, <3>1 DEF DraftsFit, DataFit
    <3>2. CASE l # Layer(w)
      BY <1>3, <2>1, <2>2, <2>3, <2>4, <2>6, <3>2 DEF DraftsFit, DataFit
    <3> QED BY <3>1, <3>2
  <2> QED BY <2>6 DEF DraftsFit, DataFit, Disciplined, Uses
<1>5. CASE ~(ReplaceData(w) /\ rev[Layer(w)] = clone[w].rev)
  <2>1. UNCHANGED <<data, staged, draft>>
    BY <1>5 DEF ModifyStep, FirstTry, Retry, TryPermit, Await, Clone, EditFails, ReplaceData,
                FreePermit, Notify, layerVars
  <2>2. result'[w] = "committed" <=> result[w] = "committed"
    BY <1>5 DEF ModifyStep, FirstTry, Retry, TryPermit, Await, Clone, EditFails, ReplaceData,
                FreePermit, Notify, Ends, writeVars, ResultsFit, TypeOK
  <2>3. ASSUME NEW l \in Layers PROVE Landed(w, l)' <=> Landed(w, l)
    <3>1. pc'[w] # "applying" /\ pc[w] # "applying"
      BY <1>1 DEF TypeOK, Steps, Waits, Holds
    <3> QED BY <2>2, <3>1 DEF Landed
  <2> QED BY <1>3, <2>1, <2>3, LayersKept
<1> QED BY <1>4, <1>5

LEMMA StagingDataStep ==
  ASSUME TypeOK, WaitersFit, ResultsFit, LockFits, ClaimHeldByOne, DraftsFit, DataFit,
         NEW w \in Writes, StagingStep(w)
  PROVE  DraftsFit' /\ DataFit'
<1> DEFINE n == Len(On[w])
           m == Layer(w)
<1>1. /\ Kind[w] # "Modify" /\ m \in Layers /\ at[w] \in 1 .. n /\ n \in Nat /\ n > 0
      /\ pc[w] \in Steps(w) /\ m = On[w][at[w]]
      /\ \A i, j \in 1 .. n : On[w][i] = On[w][j] => i = j
      /\ Kind[w] # "Transaction" => n = 1
      /\ DOMAIN pc = Writes /\ DOMAIN at = Writes /\ DOMAIN result = Writes
  BY StagingMoves, LayerType, OnFacts DEF Layer, TypeOK
<1>2. ASSUME NEW v \in Writes \ {w}, NEW l \in Layers
      PROVE  (Stakes(v, l)' <=> Stakes(v, l)) /\ (Landed(v, l)' <=> Landed(v, l))
  BY StagingMoves, Unmoved
<1>3. CASE BeginStaging(w) \/ Claim(w) \/ Unclaim(w) \/ Commit(w) \/ Rollback(w) \/ Unlock(w)
  <2>1. UNCHANGED <<data, staged, draft>>
    BY <1>3 DEF BeginStaging, Claim, Unclaim, Commit, Rollback, Unlock, layerVars
  <2>2. ASSUME NEW l \in Layers
        PROVE  (Stakes(w, l)' <=> Stakes(w, l)) /\ (Landed(w, l)' <=> Landed(w, l))
    <3>1. CASE BeginStaging(w)
      <4>1. /\ pc[w] = "idle" /\ pc'[w] \in {"claiming", "staging"} /\ at'[w] = 1
            /\ result'[w] = result[w]
        BY <1>1, <3>1 DEF BeginStaging, Goes, writeVars, ResultsFit
      <4>2. Drafts(w) = {} /\ Drafts(w)' = {}
        BY <4>1 DEF Drafts
      <4> QED BY <4>1, <4>2 DEF Stakes, Landed
    <3>2. CASE Claim(w)
      <4>1. /\ pc[w] = "claiming" /\ result[w] = "none" /\ result'[w] \in {"none", "busy"}
            /\ \/ pc'[w] \in {"claiming", "unclaiming"}
               \/ pc'[w] = "staging" /\ at'[w] = 1
        BY <1>1, <3>2, NextLayerFacts DEF Claim, Ends, Goes, ResultsFit
      <4>2. Drafts(w) = {} /\ Drafts(w)' = {}
        BY <4>1 DEF Drafts
      <4> QED BY <4>1, <4>2 DEF Stakes, Landed
    <3>3. CASE Unclaim(w)
      <4>1. pc[w] = "unclaiming" /\ pc'[w] \in {"unclaiming", "unlocking"} /\ result'[w] = result[w]
        BY <1>1, <3>3 DEF Unclaim, Goes
      <4>2. Drafts(w) = {} /\ Drafts(w)' = {}
        BY <4>1 DEF Drafts
      <4> QED BY <4>1, <4>2 DEF Stakes, Landed
    <3>4. CASE Commit(w)
      <4>1. pc[w] = "working" /\ pc'[w] = "applying" /\ at[w] = 1 /\ at'[w] = 1 /\ result'[w] = result[w]
        BY <1>1, <3>4 DEF Commit, Goes, writeVars, ResultsFit
      <4>2. Drafts(w) = 1 .. n /\ Drafts(w)' = 1 .. n
        BY <4>1 DEF Drafts
      <4>3. ~ \E i \in 1 .. n : i < at'[w]
        BY <1>1, <4>1
      <4> QED BY <4>1, <4>2, <4>3 DEF Stakes, Landed
    <3>5. CASE Rollback(w)
      <4>1. /\ pc[w] = "working" /\ pc'[w] = "dropping" /\ at[w] = 1 /\ at'[w] = 1
            /\ result[w] = "none" /\ result'[w] = "failed"
        BY <1>1, <3>5 DEF Rollback, Ends, Goes, ResultsFit
      <4>2. Drafts(w) = 1 .. n /\ Drafts(w)' = 1 .. n
        BY <4>1 DEF Drafts
      <4> QED BY <4>1, <4>2 DEF Stakes, Landed
    <3>6. CASE Unlock(w)
      <4>1. pc[w] = "unlocking" /\ pc'[w] = "done" /\ result'[w] = result[w]
        BY <1>1, <3>6 DEF Unlock, Goes, writeVars
      <4>2. Drafts(w) = {} /\ Drafts(w)' = {}
        BY <4>1 DEF Drafts
      <4> QED BY <4>1, <4>2 DEF Stakes, Landed
    <3> QED BY <1>3, <3>1, <3>2, <3>3, <3>4, <3>5, <3>6
  <2> QED BY <1>2, <2>1, <2>2, LayersKept
<1>4. CASE Stage(w)
  <2>1. /\ pc[w] = "staging" /\ result[w] = "none" /\ result' = result /\ EditDraft(m, w)
    BY <1>4 DEF Stage, ResultsFit
  <2>2. \/ at[w] < n /\ at'[w] = at[w] + 1 /\ pc'[w] = "staging"
        \/ at[w] = n /\ at'[w] = 1 /\ pc'[w] = "working"
    BY <1>1, <1>4, NextLayerFacts DEF Stage
  <2>3. Drafts(w) = 1 .. at[w] - 1 /\ Drafts(w)' = Drafts(w) \cup {at[w]}
    BY <1>1, <2>1, <2>2 DEF Drafts
  <2>4. ~Stakes(w, m) /\ \A l \in Layers : Stakes(w, l)' <=> (Stakes(w, l) \/ l = m)
    BY <1>1, <2>3 DEF Stakes
  <2>5. \A l \in Layers : Landed(w, l)' <=> Landed(w, l)
    BY <2>1, <2>2 DEF Landed
  <2>6. Engaged(w, m)
    <3>1. Uses(w, m) /\ pc[w] \in Stages
      BY <1>1, <2>1 DEF Uses, Stages
    <3>2. at[w] \in ClaimedBy(w)
      BY <1>1, <2>1 DEF ClaimedBy
    <3> QED BY <1>1, <3>1, <3>2 DEF Engaged, Owns
  <2> QED BY <1>1, <1>2, <2>1, <2>4, <2>5, <2>6, LayerStaged
<1>5. CASE ApplyLayer(w)
  <2>1. pc[w] = "applying" /\ result[w] = "none" /\ Apply(m)
    BY <1>5 DEF ApplyLayer, ResultsFit
  <2>2. \/ at[w] < n /\ at'[w] = at[w] + 1 /\ pc'[w] = "applying" /\ result'[w] = "none"
        \/ at[w] = n /\ at'[w] = 1 /\ pc'[w] = "dropping" /\ result'[w] = "committed"
    BY <1>1, <1>5, <2>1, NextLayerFacts DEF ApplyLayer
  <2>3. Drafts(w) = at[w] .. n /\ Drafts(w)' = Drafts(w) \ {at[w]}
    BY <1>1, <2>1, <2>2 DEF Drafts
  <2>4. Stakes(w, m) /\ \A l \in Layers : Stakes(w, l)' <=> (Stakes(w, l) /\ l # m)
    BY <1>1, <2>3 DEF Stakes
  <2>5. \A l \in Layers : Landed(w, l)' <=> (Landed(w, l) \/ l = m)
    BY <1>1, <2>1, <2>2 DEF Landed
  <2> QED BY <1>1, <1>2, <2>1, <2>4, <2>5, LayerApplied
<1>6. CASE ApplyDirect(w)
  <2>1. /\ pc[w] = "working" /\ result[w] = "none" /\ Apply(m) /\ n = 1 /\ at[w] = 1
        /\ pc'[w] = "unlocking" /\ result'[w] = "committed"
    BY <1>1, <1>6 DEF ApplyDirect, Ends, Goes, ResultsFit
  <2>2. Drafts(w) = {1} /\ Drafts(w)' = {}
    BY <2>1 DEF Drafts
  <2>3. Stakes(w, m) /\ \A l \in Layers : Stakes(w, l)' <=> (Stakes(w, l) /\ l # m)
    BY <1>1, <2>1, <2>2 DEF Stakes
  <2>4. \A l \in Layers : Landed(w, l)' <=> (Landed(w, l) \/ l = m)
    BY <1>1, <2>1 DEF Landed
  <2> QED BY <1>1, <1>2, <2>1, <2>3, <2>4, LayerApplied
<1>7. CASE DiscardDirect(w)
  <2>1. /\ pc[w] = "working" /\ result[w] = "none" /\ Discard(m) /\ n = 1 /\ at[w] = 1
        /\ pc'[w] = "unlocking" /\ result'[w] = "failed"
    BY <1>1, <1>7 DEF DiscardDirect, Ends, Goes, ResultsFit
  <2>2. Drafts(w) = {1} /\ Drafts(w)' = {}
    BY <2>1 DEF Drafts
  <2>3. Stakes(w, m) /\ \A l \in Layers : Stakes(w, l)' <=> (Stakes(w, l) /\ l # m)
    BY <1>1, <2>1, <2>2 DEF Stakes
  <2>4. \A l \in Layers : Landed(w, l)' <=> Landed(w, l)
    BY <2>1 DEF Landed
  <2> QED BY <1>1, <1>2, <2>1, <2>3, <2>4, LayerDiscarded
<1>8. CASE DropLayer(w)
  <2>1. pc[w] = "dropping" /\ result' = result /\ result[w] \in {"committed", "failed"}
    BY <1>8 DEF DropLayer, ResultsFit
  <2>2. \/ at[w] < n /\ at'[w] = at[w] + 1 /\ pc'[w] = "dropping"
        \/ at[w] = n /\ at'[w] = 1 /\ pc'[w] = "unlocking"
    BY <1>1, <1>8, NextLayerFacts DEF DropLayer
  <2>3. \A l \in Layers : Landed(w, l)' <=> Landed(w, l)
    BY <2>1, <2>2 DEF Landed
  <2>4. CASE result[w] = "committed"
    <3>1. Drafts(w) = {} /\ Drafts(w)' = {}
      BY <2>1, <2>2, <2>4 DEF Drafts
    <3>2. UNCHANGED <<data, staged, draft>>
      BY <1>8, <2>4 DEF DropLayer, layerVars
    <3>3. \A l \in Layers : Stakes(w, l)' <=> Stakes(w, l)
      BY <3>1 DEF Stakes
    <3> QED BY <1>2, <2>3, <3>2, <3>3, LayersKept
  <2>5. CASE result[w] = "failed"
    <3>1. Drafts(w) = at[w] .. n /\ Drafts(w)' = Drafts(w) \ {at[w]}
      BY <1>1, <2>1, <2>2, <2>5 DEF Drafts
    <3>2. Stakes(w, m) /\ \A l \in Layers : Stakes(w, l)' <=> (Stakes(w, l) /\ l # m)
      BY <1>1, <3>1 DEF Stakes
    <3>3. Discard(m)
      BY <1>8, <2>5 DEF DropLayer
    <3> QED BY <1>1, <1>2, <2>3, <3>2, <3>3, LayerDiscarded
  <2> QED BY <2>1, <2>4, <2>5
<1> QED BY <1>3, <1>4, <1>5, <1>6, <1>7, <1>8 DEF StagingStep

----------------------------------------------------------------------------
\* The invariant, and what follows from it.

LEMMA InitInv == Init => IInv
<1> SUFFICES ASSUME Init PROVE IInv
  OBVIOUS
<1>1. TypeOK
  BY InitType
<1>2. \A w \in Writes : pc[w] = "idle" /\ at[w] = 1 /\ result[w] = "none"
  BY DEF Init
<1>3. ResultsFit /\ LockFits
  BY <1>2, DraftAssumption DEF ResultsFit, LockFits, Init, Stages, Waits
<1>4. WaitersFit
  <2>1. \A l \in Layers : parked[l] = << >>
    BY DEF Init
  <2>2. ASSUME NEW l \in Layers PROVE 1 .. Len(parked[l]) = {}
    <3>1. Len(parked[l]) = 0
      BY <2>1
    <3> QED BY <3>1
  <2> QED BY <2>2 DEF WaitersFit
<1>5. PermitHeldByOne /\ NoLostWakeup /\ OnlyEditsFail
  BY <1>2 DEF Init, PermitHeldByOne, NoLostWakeup, OnlyEditsFail, Holds, Modifiers
<1>6. \A w \in Writes : ClaimedBy(w) = {} /\ Drafts(w) = {}
  BY <1>2 DEF ClaimedBy, Drafts
<1>7. \A w \in Writes, l \in Layers : ~Owns(w, l) /\ ~Stakes(w, l) /\ ~Landed(w, l)
  BY <1>2, <1>6 DEF Owns, Stakes, Landed
<1>8. ClaimHeldByOne /\ DraftsFit /\ DataFit
  BY <1>7 DEF Init, ClaimHeldByOne, DraftsFit, DataFit
<1> QED BY <1>1, <1>3, <1>4, <1>5, <1>8 DEF IInv

LEMMA InvStep == IInv /\ [Next]_vars => IInv'
<1> SUFFICES ASSUME IInv, [Next]_vars PROVE IInv'
  OBVIOUS
<1>1. TypeOK' /\ ResultsFit' /\ WaitersFit' /\ LockFits'
  BY TypeStep, ResultsStep, WaitersStep, LockStep DEF IInv
<1>2. PermitHeldByOne' /\ NoLostWakeup' /\ ClaimHeldByOne' /\ OnlyEditsFail'
  BY PermitStep, WakeupStep, ClaimStep, OnlyEditsStep DEF IInv
<1>3. DraftsFit' /\ DataFit'
  <2>1. CASE \E w \in Writes : ModifyStep(w)
    BY <2>1, ModifyDataStep DEF IInv
  <2>2. CASE \E w \in Writes : StagingStep(w)
    BY <2>2, StagingDataStep DEF IInv
  <2>3. CASE UNCHANGED vars
    <3>1. \A w \in Writes, l \in Layers :
            (Stakes(w, l)' <=> Stakes(w, l)) /\ (Landed(w, l)' <=> Landed(w, l))
      BY <2>3, Unmoved DEF vars, writeVars
    <3> QED BY <2>3, <3>1, LayersKept DEF IInv, vars, layerVars
  <2> QED BY <2>1, <2>2, <2>3 DEF Next
<1> QED BY <1>1, <1>2, <1>3 DEF IInv

\* IInv, the conjunction that the steps of a writer preserve, holds in every
\* reachable state, for any layers, writes and locks.
THEOREM Invariance == Spec => []IInv
<1>1. Init => IInv
  BY InitInv
<1>2. IInv /\ [Next]_vars => IInv'
  BY InvStep
<1> QED BY <1>1, <1>2, PTL DEF Spec

\* Every variable keeps its range: no stage runs past the last of its layers.
THEOREM TypeCorrect == Spec => []TypeOK
<1>1. IInv => TypeOK
  BY DEF IInv
<1> QED BY <1>1, Invariance, PTL

\* with_data_modify: the flag data_modifying is up exactly while one write, and
\* never two, works on the layer.
THEOREM PermitExclusive == Spec => []PermitHeldByOne
<1>1. IInv => PermitHeldByOne
  BY DEF IInv
<1> QED BY <1>1, Invariance, PTL

\* with_data_modify: a notify_one never falls between the last look at the flag
\* and the wait, however many wait.
THEOREM NoWakeupLost == Spec => []NoLostWakeup
<1>1. IInv => NoLostWakeup
  BY DEF IInv
<1> QED BY <1>1, Invariance, PTL

\* with_data_modify: on a layer that nothing else writes, its optimistic check
\* of the Arc never turns an edit away.
THEOREM EditsMatch == Spec => []OnlyEditsFail
<1>1. IInv => OnlyEditsFail
  BY DEF IInv
<1> QED BY <1>1, Invariance, PTL

\* DraftTransaction: a layer is claimed by one transaction at a time, and by
\* none when none has it, also when a begin was turned away half-way.
THEOREM ClaimExclusive == Spec => []ClaimHeldByOne
<1>1. IInv => ClaimHeldByOne
  BY DEF IInv
<1> QED BY <1>1, Invariance, PTL

\* A commit to a layer whose writers are kept apart is never overwritten by
\* another draft or clone.
THEOREM CommitsStay == Spec => []CommittedStays
<1>1. IInv => CommittedStays
  BY DEF IInv, DataFit, Landed, Uses, CommittedStays
<1> QED BY <1>1, Invariance, PTL

\* A write that failed or was refused has changed nothing on such a layer.
THEOREM FailuresLeaveNoTrace == Spec => []FailedLeavesNoTrace
<1>1. IInv => FailedLeavesNoTrace
  <2> SUFFICES ASSUME IInv, NEW w \in Writes, NEW l \in Layers, Disciplined(l),
                      result[w] \in {"failed", "busy"}
               PROVE  w \notin data[l]
    BY DEF FailedLeavesNoTrace
  <2>1. pc[w] # "applying"
    BY DEF IInv, ResultsFit
  <2>2. ~Landed(w, l)
    BY <2>1 DEF Landed
  <2> QED BY <2>2 DEF IInv, DataFit
<1> QED BY <1>1, Invariance, PTL
----------------------------------------------------------------------------
\* What with_data_modify relies on: the identity of the data tells whether it has been
\* replaced since the clone, whoever else writes the layer.

CloneFits ==
  \A w \in Writes :
    pc[w] = "editing" =>
      /\ clone[w].rev <= rev[Layer(w)]
      /\ clone[w].rev = rev[Layer(w)] => clone[w].edits = data[Layer(w)]

\* Data that has changed has another identity than it ever had.
Grows(l) == /\ rev[l] \in Nat
            /\ (rev'[l] = rev[l] /\ data'[l] = data[l]) \/ rev'[l] = rev[l] + 1

LEMMA ReplaceGrows ==
  ASSUME TypeOK, NEW l \in Layers, NEW m \in Layers, NEW edits,
         Replace(l, edits) \/ UNCHANGED <<data, rev>>
  PROVE  Grows(m)
BY DEF Replace, Grows, TypeOK

LEMMA DataGrows == ASSUME TypeOK, [Next]_vars, NEW l \in Layers PROVE Grows(l)
<1>1. CASE UNCHANGED <<data, rev>>
  BY <1>1, ReplaceGrows
<1>2. ASSUME NEW w \in Writes, ReplaceData(w) PROVE Grows(l)
  BY <1>2, LayerType, ReplaceGrows DEF ReplaceData
<1>3. ASSUME NEW w \in Writes, Apply(Layer(w)) PROVE Grows(l)
  BY <1>3, LayerType, ReplaceGrows DEF Apply
<1>4. ASSUME NEW w \in Writes, ModifyStep(w), ~ReplaceData(w) PROVE UNCHANGED <<data, rev>>
  BY <1>4 DEF ModifyStep, FirstTry, Retry, TryPermit, Await, Clone, EditFails, FreePermit, Notify, layerVars
<1>5. ASSUME NEW w \in Writes, StagingStep(w), ~Apply(Layer(w)) PROVE UNCHANGED <<data, rev>>
  BY <1>5 DEF StagingStep, BeginStaging, Claim, Unclaim, Stage, EditDraft, Commit, Rollback, ApplyLayer,
              DropLayer, Discard, ApplyDirect, DiscardDirect, Unlock, layerVars
<1>6. UNCHANGED vars => UNCHANGED <<data, rev>>
  BY DEF vars, layerVars
<1> QED BY <1>1, <1>2, <1>3, <1>4, <1>5, <1>6 DEF Next

\* Who edits has just made its clone, or has edited before, with the same clone.
LEMMA EditingStep ==
  ASSUME TypeOK, TypeOK', [Next]_vars, NEW w \in Writes, pc'[w] = "editing"
  PROVE  /\ Layer(w)' = Layer(w)
         /\ Clone(w) \/ (pc[w] = "editing" /\ clone'[w] = clone[w])
<1>1. CASE UNCHANGED vars
  BY <1>1 DEF vars, writeVars, Layer
<1>2. ASSUME NEW v \in Writes, ModifyStep(v)
      PROVE  /\ at' = at
             /\ Clone(w) \/ (pc[w] = "editing" /\ clone'[w] = clone[w])
  <2>1. at' = at
    BY <1>2, ModifyMoves
  <2>2. CASE Clone(v)
    BY <2>2 DEF Clone, Goes, TypeOK
  <2>3. CASE Notify(v)
    BY <2>3 DEF Notify, Goes, TypeOK, writeVars
  <2>4. CASE ~Clone(v) /\ ~Notify(v)
    BY <1>2, <2>4 DEF ModifyStep, FirstTry, Retry, TryPermit, Await, EditFails, ReplaceData, FreePermit, Ends,
                      Goes, TypeOK, writeVars
  <2> QED BY <2>1, <2>2, <2>3, <2>4
<1>3. ASSUME NEW v \in Writes, StagingStep(v)
      PROVE  at'[w] = at[w] /\ pc[w] = "editing" /\ clone'[w] = clone[w]
  <2>1. Kind[v] # "Modify" /\ pc'[v] \in Steps(v)
    BY <1>3, StagingMoves DEF TypeOK
  <2>2. v # w
    BY <2>1 DEF Steps, Stages
  <2> QED BY <1>3, <2>2, StagingMoves
<1> QED BY <1>1, <1>2, <1>3 DEF Next, Layer

LEMMA CloneStep == ASSUME TypeOK, TypeOK', CloneFits, [Next]_vars PROVE CloneFits'
<1> SUFFICES ASSUME NEW w \in Writes, pc'[w] = "editing"
             PROVE  /\ clone'[w].rev <= rev'[Layer(w)]
                    /\ clone'[w].rev = rev'[Layer(w)] => clone'[w].edits = data'[Layer(w)]
  BY EditingStep DEF CloneFits
<1>1. Layer(w) \in Layers
  BY LayerType
<1>2. CASE Clone(w)
  <2>1. clone'[w] = [edits |-> data[Layer(w)], rev |-> rev[Layer(w)]]
    BY <1>2 DEF Clone, TypeOK
  <2>2. rev' = rev /\ data' = data /\ rev[Layer(w)] \in Nat
    BY <1>1, <1>2 DEF Clone, layerVars, TypeOK
  <2> QED BY <2>1, <2>2
<1>3. CASE pc[w] = "editing" /\ clone'[w] = clone[w]
  <2>1. /\ clone[w].rev <= rev[Layer(w)]
        /\ clone[w].rev = rev[Layer(w)] => clone[w].edits = data[Layer(w)]
    BY <1>3 DEF CloneFits
  <2>2. clone[w].rev \in Nat
    BY DEF TypeOK
  <2>3. Grows(Layer(w))
    BY <1>1, DataGrows
  <2> QED BY <1>3, <2>1, <2>2, <2>3 DEF Grows
<1> QED BY <1>2, <1>3, EditingStep

\* with_data_modify never undoes what somebody else committed since its clone, whichever
\* transactions and single writers share the layer (ModifyOverwritesNothing).
THEOREM ModifyKeepsCommits == Spec => ModifyOverwritesNothing
<1>1. Init => CloneFits
  BY DEF Init, CloneFits
<1>2. IInv /\ IInv' /\ CloneFits /\ [Next]_vars => CloneFits'
  BY CloneStep DEF IInv
<1>3. IInv /\ CloneFits /\ [Next]_vars =>
        \A w \in Writes :
          pc[w] = "editing" /\ result'[w] = "committed" => data[Layer(w)] \subseteq data'[Layer(w)]
  <2> SUFFICES ASSUME IInv, CloneFits, [Next]_vars, NEW w \in Writes, pc[w] = "editing",
                      result'[w] = "committed"
               PROVE  data[Layer(w)] \subseteq data'[Layer(w)]
    OBVIOUS
  <2>1. result[w] = "none" /\ Layer(w) \in Layers /\ TypeOK /\ DOMAIN result = Writes
    BY LayerType DEF IInv, ResultsFit, TypeOK
  <2>2. ~UNCHANGED vars
    BY <2>1 DEF vars, writeVars
  <2>3. ASSUME NEW v \in Writes, StagingStep(v) PROVE FALSE
    <3>1. Kind[v] # "Modify" /\ pc[v] \in Steps(v)
      BY <2>1, <2>3, StagingMoves DEF TypeOK
    <3>2. v # w
      BY <3>1 DEF Steps, Stages
    <3> QED BY <2>1, <2>3, <3>2, StagingMoves
  <2>4. ASSUME NEW v \in Writes, ModifyStep(v)
        PROVE  /\ ReplaceData(w) /\ clone[w].rev = rev[Layer(w)]
               /\ data' = [data EXCEPT ![Layer(w)] = clone[w].edits \cup {w}]
    BY <2>1, <2>4 DEF ModifyStep, FirstTry, Retry, TryPermit, Await, Clone, EditFails, ReplaceData, Replace,
                      FreePermit, Notify, Ends, Goes, writeVars
  <2>5. ReplaceData(w) /\ clone[w].rev = rev[Layer(w)]
        /\ data' = [data EXCEPT ![Layer(w)] = clone[w].edits \cup {w}]
    BY <2>2, <2>3, <2>4 DEF Next
  <2>6. clone[w].edits = data[Layer(w)]
    BY <2>5 DEF CloneFits
  <2>7. DOMAIN data = Layers
    BY <2>1 DEF TypeOK
  <2> QED BY <2>1, <2>5, <2>6, <2>7
<1>4. Spec => []CloneFits
  BY <1>1, <1>2, Invariance, PTL DEF Spec
<1> QED BY <1>3, <1>4, Invariance, PTL DEF Spec, ModifyOverwritesNothing
==============================================================================
