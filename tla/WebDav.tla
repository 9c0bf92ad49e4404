-------------------------------- MODULE WebDav --------------------------------
(***************************************************************************)
(* Backups on a WebDAV server (core/backup.rs): the client that each kind of  *)
(* operation keeps, the credentials it was made with, and a restore, which    *)
(* replaces every document but these (feat/backup.rs, cmd/webdav.rs).        *)
(***************************************************************************)
EXTENDS Functions, Naturals

CONSTANTS Tasks, Operations,  \* of upload, download, list and delete
          MaxSaves, MaxOps   \* bounds: credentials saved, operations and restores begun

VARIABLES creds,      \* the credentials in the settings, None before any were saved
          verge,      \* [creds, from]: verge.yaml, and the backup its other settings came from
          from,       \* the backup that the settings in memory came from
          config, clients,  \* WebDavClient: what it was set up with, and operation -> its client
          at, op,     \* of each task: its step and its operation
          held, own,  \* the credentials of its client, and those that its restore is to keep
          zip,        \* the backup it restores, or 0
          saves, ops,
          crossed     \* ghost: a client was being made, or a restore was at work, when the
                      \* credentials changed or were forgotten; a restore failed halfway
vars == <<creds, verge, from, config, clients, at, op, held, own, zip, saves, ops, crossed>>

None == 0
Idle(t) == at[t] = "idle"
Goes(t, to) == at' = [at EXCEPT ![t] = to]
Making == {"config", "mkcol", "insert"}
Restoring == {"unzip", "read", "commit"}

Init ==
  /\ creds = None /\ verge = [creds |-> None, from |-> 0] /\ from = 0
  /\ config = None /\ clients = [o \in Operations |-> None]
  /\ at = [t \in Tasks |-> "idle"] /\ op = [t \in Tasks |-> "upload"]
  /\ held = [t \in Tasks |-> None] /\ own = held /\ zip = [t \in Tasks |-> 0]
  /\ saves = 0 /\ ops = 0 /\ crossed = FALSE

Documents == UNCHANGED <<creds, verge, from>>
Client == UNCHANGED <<config, clients>>
Bounds == UNCHANGED <<saves, ops>>
Work == UNCHANGED <<op, zip, own>>

----------------------------------------------------------------------------
(* save_webdav_config                                                        *)

Save(t) ==
  /\ Idle(t) /\ saves < MaxSaves /\ saves' = saves + 1 /\ creds' = saves' /\ Goes(t, "write")
  /\ crossed' = (crossed \/ \E u \in Tasks : zip[u] # 0)
  /\ UNCHANGED <<verge, from, held, ops>> /\ Client /\ Work
\* When the file cannot be written the client is not reset.
SaveFile(t) ==
  /\ at[t] = "write"
  /\ \/ verge' = [creds |-> creds, from |-> from] /\ Goes(t, "reset") /\ UNCHANGED crossed
     \/ UNCHANGED verge /\ Goes(t, "idle") /\ crossed' = TRUE
  /\ UNCHANGED <<creds, from, held>> /\ Client /\ Work /\ Bounds

\* fault: the clients that were made are kept.
Forgotten_Config == UNCHANGED clients
Forgotten == clients' = [o \in Operations |-> None]
\* reset, after a save, a directory that cannot be made, or an upload that failed.
Reset(t) ==
  /\ at[t] = "reset" /\ Goes(t, "idle") /\ config' = None /\ Forgotten
  /\ crossed' = (crossed \/ \E u \in Tasks : at[u] \in Making)
  /\ UNCHANGED held /\ Work /\ Documents /\ Bounds

----------------------------------------------------------------------------
(* An operation                                                              *)

\* fault: the credentials come from the backup, which has none.
Own_Backup == None
Own == creds
\* A restore reads the credentials it is to keep before anything else; one from the local
\* directory needs no client.
Begin(t) ==
  /\ Idle(t) /\ ops < MaxOps /\ ops' = ops + 1
  /\ \E o \in Operations, local \in BOOLEAN :
       /\ local => o = "download"
       /\ op' = [op EXCEPT ![t] = o]
       /\ zip' = [zip EXCEPT ![t] = IF o = "download" THEN ops' ELSE 0]
       /\ Goes(t, IF local THEN "unzip" ELSE "client")
       /\ crossed' = (crossed \/ (o = "download" /\ \E u \in Tasks : at[u] = "write"))
  /\ own' = [own EXCEPT ![t] = Own]
  /\ UNCHANGED <<held, saves>> /\ Documents /\ Client
\* get_client: the client that is kept, or a new one with the credentials that were used
\* last, or with those that are committed now, if there are any.
KeptClient(t) ==
  /\ at[t] = "client" /\ clients[op[t]] # None
  /\ Goes(t, "use") /\ held' = [held EXCEPT ![t] = clients[op[t]]]
  /\ UNCHANGED crossed /\ Documents /\ Client /\ Work /\ Bounds
NewClient(t) ==
  /\ at[t] = "client" /\ clients[op[t]] = None
  /\ LET c == IF config # None THEN config ELSE creds IN
     /\ held' = [held EXCEPT ![t] = c] /\ Goes(t, IF c = None THEN "end" ELSE "config")
  /\ UNCHANGED crossed /\ Documents /\ Client /\ Work /\ Bounds
StoreConfig(t) ==
  /\ at[t] = "config" /\ config' = held[t] /\ Goes(t, "mkcol")
  /\ UNCHANGED <<clients, held, crossed>> /\ Documents /\ Work /\ Bounds
\* The directory is made; that it is already there is no failure.
MakeDirectory(t) ==
  /\ at[t] = "mkcol"
  /\ \/ Goes(t, "insert") /\ UNCHANGED zip
     \/ Goes(t, "reset") /\ zip' = [zip EXCEPT ![t] = 0]
  /\ UNCHANGED <<op, held, own, crossed>> /\ Documents /\ Client /\ Bounds
InsertClient(t) ==
  /\ at[t] = "insert" /\ clients' = [clients EXCEPT ![op[t]] = held[t]] /\ Goes(t, "use")
  /\ UNCHANGED <<config, held, crossed>> /\ Documents /\ Work /\ Bounds
\* An upload that fails twice resets the client; a download that comes is restored.
Use(t) ==
  /\ at[t] = "use"
  /\ \/ Goes(t, IF op[t] = "upload" THEN "reset" ELSE "end")
     \/ Goes(t, IF op[t] = "download" THEN "unzip" ELSE "end")
  /\ UNCHANGED <<held, crossed>> /\ Documents /\ Client /\ Work /\ Bounds
End(t) ==
  /\ at[t] = "end" /\ Goes(t, "idle") /\ zip' = [zip EXCEPT ![t] = 0]
  /\ held' = [held EXCEPT ![t] = None] /\ own' = [own EXCEPT ![t] = None]
  /\ UNCHANGED <<op, crossed>> /\ Documents /\ Client /\ Bounds

----------------------------------------------------------------------------
(* restore_webdav_backup, restore_local_backup                                *)

\* zip.extract under PROFILE_WRITE_LOCK; it may fail after it has replaced the settings.
Unzip(t) ==
  /\ at[t] = "unzip" /\ \A u \in Tasks : at[u] \notin Restoring \ {"unzip"}
  /\ \E done \in BOOLEAN, reached \in BOOLEAN :
       /\ done => reached
       /\ Goes(t, IF done THEN "read" ELSE "end") /\ crossed' = (crossed \/ ~done)
       /\ verge' = IF reached THEN [creds |-> None, from |-> zip[t]] ELSE verge
  /\ UNCHANGED <<creds, from, held>> /\ Client /\ Work /\ Bounds
\* finalize_restored_verge_config: the file is read, completed and written, then committed.
Complete(t) ==
  /\ at[t] = "read"
  /\ \/ verge' = [verge EXCEPT !.creds = own[t]] /\ Goes(t, "commit") /\ UNCHANGED crossed
     \/ UNCHANGED verge /\ Goes(t, "end") /\ crossed' = TRUE
  /\ held' = [held EXCEPT ![t] = verge'.from]
  /\ UNCHANGED <<creds, from>> /\ Client /\ Work /\ Bounds
Commit(t) ==
  /\ at[t] = "commit" /\ Goes(t, "end") /\ creds' = own[t] /\ from' = held[t]
  /\ UNCHANGED <<verge, held, crossed>> /\ Client /\ Work /\ Bounds

Next == \E t \in Tasks :
  \/ Save(t) \/ SaveFile(t) \/ Reset(t)
  \/ Begin(t) \/ KeptClient(t) \/ NewClient(t) \/ StoreConfig(t) \/ MakeDirectory(t) \/ InsertClient(t)
  \/ Use(t) \/ End(t) \/ Unzip(t) \/ Complete(t) \/ Commit(t)
Spec == Init /\ [][Next]_vars

----------------------------------------------------------------------------

\* When nobody is at work, every client that is kept has the credentials of the settings,
\* file and memory agree on these and on the backup they came from, and a restore has lost
\* no credentials, unless they changed while a client was being made or a restore was at
\* work, or a restore failed halfway.
CredentialsStand ==
  (\A t \in Tasks : Idle(t)) /\ ~crossed =>
    /\ {config} \cup Range(clients) \subseteq {None, creds}
    /\ verge = [creds |-> creds, from |-> from]
    /\ creds = saves
=============================================================================
