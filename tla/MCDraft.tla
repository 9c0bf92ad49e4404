------------------------------- MODULE MCDraft -------------------------------
EXTENDS Draft, TLC
CONSTANTS clash, verge, runtime, profiles, undone,       \* the layers
          ports,                                 \* save_proxy_ports
          patch,                                 \* apply_verge_patch_locked
          tun,                                   \* disable_tun_and_persist
          update, switch,                        \* the core configuration, on the runtime layer
          webdav,                                \* save_webdav_config
          m1, m2, m3, edit,                      \* profiles_*_safe
          restore                                \* restore_previous_profile, restore_local_backup

Edits == {m1, m2, m3}
KindOf == [w \in Writes |->
             CASE w \in Edits \cup {edit}          -> "Modify"
               [] w \in {tun, webdav, restore}     -> "Direct"
               [] OTHER                            -> "Transaction"]
LayersOf == [w \in Writes |->
               CASE w \in Edits                    -> << profiles >>
                 [] w \in {edit, restore}          -> << undone >>
                 [] w = ports                      -> << clash, verge, runtime >>
                 [] w \in {update, switch}         -> << runtime >>
                 [] OTHER                          -> << verge >>]

\* Families of writes that share no layer: a behaviour is one of a single family,
\* and the writes that it does not make are over from the start.
Start(active) ==
  /\ data = [l \in Layers |-> {}] /\ rev = [l \in Layers |-> 0]
  /\ staged = [l \in Layers |-> FALSE] /\ draft = [l \in Layers |-> {}]
  /\ modifying = [l \in Layers |-> FALSE] /\ stored = [l \in Layers |-> FALSE]
  /\ parked = [l \in Layers |-> << >>]
  /\ claimed = [l \in Layers |-> FALSE]
  /\ lock = NoWrite
  /\ pc = [w \in Writes |-> IF w \in active THEN "idle" ELSE "done"]
  /\ at = [w \in Writes |-> 1]
  /\ result = [w \in Writes |-> "none"] /\ refused = [w \in Writes |-> 1]
  /\ clone = [w \in Writes |-> [edits |-> {}, rev |-> 0]]
FamiliesSpec ==
  /\ Start(Edits) \/ Start({edit, restore}) \/ Start(Writes \ (Edits \cup {edit, restore}))
  /\ [][Next]_vars
  /\ \A w \in Writes : WF_vars(ModifyStep(w)) /\ WF_vars(StagingStep(w))
==============================================================================
